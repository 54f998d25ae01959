-------------------------- MODULE Catalogue_proofs --------------------------
(***************************************************************************)
(* The catalogue, for any table, scans, requests and faults: what is kept  *)
(* under the version the table has now was made from the matches it has    *)
(* now, unless the table has had that version before, and every request is *)
(* answered for all it asked about.                                        *)
(***************************************************************************)
EXTENDS Catalogue, SequenceTheorems, WellFoundedInduction, TLAPS

PageNumbers == 1..Pages
Version == -1..newest
Reading == [version : Int, content : Contents, page : Nat]
Answers == UNION {[G -> Contents] : G \in SUBSET Groups}
Build == [pc : {"off", "job", "here"}, key : Int, groups : SUBSET Groups, filled : Answers, reading : Reading]
ReaderStates == {"idle", "context", "joined", "warmed", "roots", "joining", "again", "built", "done"}
Asker == [pc : ReaderStates, version : Int, before : Nat, drawn : Int, joined : Builders, got : SUBSET Groups]
Jobs == Scans \cup Builders

\* What a pass, the worker and the gateway have read so far, and what is kept of it.
TableType ==
  /\ table \in [Places -> Nat] /\ \E n \in Nat : \A p \in Places : table[p] <= n
  /\ newest \in Nat /\ token \in 0..newest /\ repeated \subseteq 0..newest
PoolType ==
  /\ thread \in [Lanes -> {"none", "up", "failing"}] /\ posted \in [Lanes -> Seq(Jobs)]
  /\ waiting \subseteq Jobs /\ worker \in Reading
CacheType ==
  /\ timer \in BOOLEAN /\ again \in BOOLEAN
  /\ pass \in [pc : {"off", "version", "pages", "warming", "end"}, reading : Reading]
ViewType ==
  /\ graph \in [id : Nat, version : Int, content : Contents]
  /\ held \in [{"worker", "here"} -> [version : Int, content : Contents]]
  /\ DOMAIN roots \subseteq Int /\ (\A v \in DOMAIN roots : roots[v] \in Answers)
  /\ known \subseteq Groups /\ build \in [Builders -> Build]
  /\ DOMAIN building \subseteq Int /\ (\A v \in DOMAIN building : building[v] \in Builders)
ReaderType ==
  /\ scan \in [Scans -> {"idle", "job", "done", "failed"}]
  /\ reader \in [Readers -> Asker]

\* A job is waited for exactly while its caller waits for it, and is in its lane.
JobsAreAwaited ==
  /\ waiting = {s \in Scans : scan[s] = "job"} \cup {b \in Builders : build[b].pc = "job"}
  /\ \A l \in Lanes : \A n \in 1..Len(posted[l]) : Lane(posted[l][n]) = l

StateInv == TableType /\ PoolType /\ CacheType /\ ViewType /\ ReaderType /\ JobsAreAwaited

\* No version is of the future, and what was read under the current one is current,
\* unless the table has had it before.
Current(version) == version = token /\ token \notin repeated
Exact(version, content) == version \in Version /\ (Current(version) => SameMatches(content))
ExactSoFar(r) ==
  r.version \in Version /\ (Current(r.version) => \A p \in PageNumbers : p < r.page => r.content[p] = table[p])
ExactAnswers(v, answers) == v \in Version /\ (Current(v) => \A g \in DOMAIN answers : SameMatches(answers[g]))

ReadingsAreExact ==
  /\ ExactSoFar(pass.reading) /\ ExactSoFar(worker) /\ \A b \in Builders : ExactSoFar(build[b].reading)
KeptAreExact ==
  /\ Exact(graph.version, graph.content) /\ \A x \in {"worker", "here"} : Exact(held[x].version, held[x].content)
  /\ \A v \in DOMAIN roots : ExactAnswers(v, roots[v])
  /\ \A b \in Builders : ExactAnswers(build[b].key, build[b].filled)
ReadersAreBehind == \A r \in Readers : reader[r].version \in Version

ExactInv == StateInv /\ ReadingsAreExact /\ KeptAreExact /\ ReadersAreBehind

\* A request that builds will have all it asked about.
BuildsAreWhole ==
  \A r \in Readers : build[r].pc # "off" => Wanted[r] \subseteq DOMAIN build[r].filled \cup build[r].groups

WholeInv == StateInv /\ BuildsAreWhole /\ AnswersAreComplete

-----------------------------------------------------------------------------
(* The shape of the state.                                                 *)

LEMMA AnswersAre == \A x : x \in Answers <=> \E G \in SUBSET Groups : x \in [G -> Contents]
BY DEF Answers

LEMMA Literals ==
  /\ Unread \in Contents /\ NoReading \in Reading /\ NoAnswers \in Answers /\ NoBuild \in Build
  /\ NoReading.version = -1 /\ NoHeld.version = -1 /\ NoHeld \in [version : Int, content : Contents]
  /\ NoBuild.pc = "off" /\ NoBuild.key = -1 /\ NoBuild.reading = NoReading /\ DOMAIN NoAnswers = {}
  /\ NoBuild.filled = NoAnswers
  /\ \A pc \in ReaderStates, got \in SUBSET Groups : Request(pc, got) \in Asker
  /\ \A pc, got : Request(pc, got).pc = pc /\ Request(pc, got).version = -1 /\ Request(pc, got).got = got
<1>1. Unread \in Contents
  BY DEF Unread, Contents
<1>2. NoReading \in Reading /\ NoReading.version = -1
  BY <1>1 DEF NoReading, Reading
<1>3. NoHeld.version = -1 /\ NoHeld \in [version : Int, content : Contents]
  BY <1>1 DEF NoHeld
<1>4. NoAnswers \in Answers /\ DOMAIN NoAnswers = {}
  <2>1. NoAnswers \in [{} -> Contents] /\ DOMAIN NoAnswers = {}
    BY DEF NoAnswers
  <2> QED
    BY <2>1, AnswersAre
<1>5. NoBuild \in Build /\ NoBuild.pc = "off" /\ NoBuild.key = -1 /\ NoBuild.reading = NoReading
      /\ NoBuild.filled = NoAnswers
  BY <1>2, <1>4 DEF NoBuild, Build
<1>6. \A pc, got : Request(pc, got).pc = pc /\ Request(pc, got).version = -1 /\ Request(pc, got).got = got
  BY DEF Request
<1>7. \A pc \in ReaderStates, got \in SUBSET Groups : Request(pc, got) \in Asker
  BY DEF Request, Asker, Builders
<1> QED
  BY <1>1, <1>2, <1>3, <1>4, <1>5, <1>6, <1>7

\* Nobody builds and scans.
LEMMA Disjoint == Scans \cap Builders = {} /\ "warm" \notin Readers
BY CatalogueConstants DEF Builders

LEMMA LaneOf == \A j \in Jobs : Lane(j) \in Lanes /\ (j \in Builders <=> Lane(j) = "projection")
BY Disjoint DEF Jobs, Lane, Lanes

LEMMA TableIsContents == ASSUME TableType PROVE table \in Contents
BY DEF TableType, Contents

\* A graph has the matches of what was read.
LEMMA MatchesOf ==
  ASSUME NEW c \in Contents
  PROVE  Matches(c) \in Contents /\ \A p \in PageNumbers : Matches(c)[p] = c[p]
<1>1. \A p \in PageNumbers : p # Shelf /\ p \in Places
  BY CatalogueConstants DEF Shelf, Places, PageNumbers
<1>2. -1 \in Int
  OBVIOUS
<1> DEFINE s == Shelf
<1>3. Matches(c) = [c EXCEPT ![s] = -1]
  BY DEF Matches
<1>4. c \in [Places -> Int]
  BY DEF Contents
<1> HIDE DEF s
<1>5. [c EXCEPT ![s] = -1] \in [Places -> Int] /\ \A p \in Places : p # s => [c EXCEPT ![s] = -1][p] = c[p]
  BY <1>2, <1>4
<1> QED
  BY <1>1, <1>3, <1>5 DEF Contents, s

LEMMA MatchesSame == ASSUME NEW c \in Contents, SameMatches(c) PROVE SameMatches(Matches(c))
BY MatchesOf DEF SameMatches, PageNumbers

\* Reading goes on page by page.
LEMMA ReadingType ==
  ASSUME TableType, ViewType
  PROVE  /\ Begins \in Reading /\ \A x \in {"worker", "here"} : Projects(x) \in Reading
         /\ \A r \in Reading : Reads(r) \in Reading
<1>1. token \in Nat /\ table \in Contents
  BY TableIsContents DEF TableType
<1>2. Begins \in Reading
  BY <1>1, Literals DEF Begins, Reading
<1>3. ASSUME NEW x \in {"worker", "here"} PROVE Projects(x) \in Reading
  <2>1. held[x] \in [version : Int, content : Contents]
    BY DEF ViewType
  <2>2. held[x].content \in Contents
    BY <2>1
  <2>3. Shelf \in Nat /\ token \in Int
    BY <1>1, CatalogueConstants DEF Shelf
  <2> QED
    BY <1>2, <2>2, <2>3 DEF Projects, Reading
<1>4. ASSUME NEW r \in Reading PROVE Reads(r) \in Reading
  <2>1. r.content \in Contents /\ r.page \in Nat /\ r.version \in Int
    BY DEF Reading
  <2>2. [r.content EXCEPT ![r.page] = table[r.page]] \in Contents
    BY <1>1, <2>1 DEF Contents
  <2>3. \A c \in Contents, n \in Nat : [r EXCEPT !.content = c, !.page = n] \in Reading
    BY DEF Reading
  <2>4. Reads(r) = [r EXCEPT !.content = [r.content EXCEPT ![r.page] = table[r.page]], !.page = r.page + 1]
    BY DEF Reads
  <2>5. r.page + 1 \in Nat
    BY <2>1
  <2> QED
    BY <2>2, <2>3, <2>4, <2>5
<1> QED
  BY <1>2, <1>3, <1>4

\* A job is sent to its lane and waited for.
LEMMA PostsPool ==
  ASSUME PoolType, NEW j \in Jobs, Posts(j),
         \A l \in Lanes : \A n \in 1..Len(posted[l]) : Lane(posted[l][n]) = l
  PROVE  /\ PoolType' /\ waiting' = waiting \cup {j}
         /\ \A l \in Lanes : \A n \in 1..Len(posted'[l]) : Lane(posted'[l][n]) = l
<1> DEFINE k == Lane(j)
           p == IF thread[k] = "failing" THEN posted[k] ELSE Append(posted[k], j)
<1>0. k \in Lanes
  BY LaneOf
<1>1. posted[k] \in Seq(Jobs)
  BY <1>0 DEF PoolType
<1>2. p \in Seq(Jobs) /\ \A n \in 1..Len(p) : Lane(p[n]) = k
  <2>1. CASE thread[k] = "failing"
    BY <1>0, <1>1, <2>1
  <2>2. CASE thread[k] # "failing"
    <3>1. p \in Seq(Jobs) /\ Len(p) = Len(posted[k]) + 1 /\ p[Len(posted[k]) + 1] = j
          /\ \A n \in 1..Len(posted[k]) : p[n] = posted[k][n]
      BY <1>1, <2>2, AppendProperties
    <3>2. Len(posted[k]) \in Nat
      BY <1>1
    <3>3. \A n \in 1..Len(p) : n \in 1..Len(posted[k]) \/ n = Len(posted[k]) + 1
      BY <3>1, <3>2
    <3> HIDE DEF p
    <3> QED
      BY <1>0, <3>1, <3>3
  <2> QED
    BY <2>1, <2>2
<1>3. posted' = [posted EXCEPT ![k] = p]
  BY DEF Posts
<1> HIDE DEF p
<1>4. posted' \in [Lanes -> Seq(Jobs)] /\ \A l \in Lanes : posted'[l] = IF l = k THEN p ELSE posted[l]
  BY <1>0, <1>2, <1>3 DEF PoolType
<1>5. thread' \in [Lanes -> {"none", "up", "failing"}]
  BY <1>0 DEF Posts, PoolType
<1>6. waiting' = waiting \cup {j} /\ worker' = worker
  BY DEF Posts
<1>7. PoolType'
  BY <1>4, <1>5, <1>6 DEF PoolType
<1> QED
  BY <1>2, <1>4, <1>6, <1>7

\* A rejected projection keeps what it was about.
LEMMA RejectedKeeps ==
  ASSUME StateInv, NEW J, J \subseteq waiting, Rejected(J)
  PROVE  /\ scan' \in [Scans -> {"idle", "job", "done", "failed"}] /\ build' \in [Builders -> Build]
         /\ waiting' \subseteq Jobs
         /\ waiting' = {s \in Scans : scan'[s] = "job"} \cup {b \in Builders : build'[b].pc = "job"}
         /\ \A b \in Builders :
              /\ build'[b].key = build[b].key /\ build'[b].groups = build[b].groups
              /\ build'[b].filled = build[b].filled /\ build'[b].reading = build[b].reading
              /\ build'[b].pc # "off" => build[b].pc # "off"
<1>0. PoolType /\ ViewType /\ ReaderType /\ JobsAreAwaited
  BY DEF StateInv
<1>1. scan' \in [Scans -> {"idle", "job", "done", "failed"}] /\ waiting' \subseteq Jobs
  BY <1>0 DEF Rejected, ReaderType, PoolType
<1>2. ASSUME NEW b \in Builders
      PROVE  /\ build'[b] \in Build /\ build'[b].pc = IF b \in J THEN "here" ELSE build[b].pc
             /\ build'[b].key = build[b].key /\ build'[b].groups = build[b].groups
             /\ build'[b].filled = build[b].filled /\ build'[b].reading = build[b].reading
  <2>1. build[b] \in Build
    BY <1>0 DEF ViewType
  <2>2. build'[b] = IF b \in J THEN [build[b] EXCEPT !.pc = "here"] ELSE build[b]
    BY DEF Rejected
  <2> QED
    BY <2>1, <2>2 DEF Build
<1>3. build' \in [Builders -> Build]
  <2>1. build' = [b \in Builders |-> build'[b]]
    BY DEF Rejected
  <2> QED
    BY <1>2, <2>1
<1>4. \A s \in Scans : scan'[s] = "job" <=> scan[s] = "job" /\ s \notin J
  BY DEF Rejected
<1>5. \A b \in Builders : build'[b].pc = "job" <=> build[b].pc = "job" /\ b \notin J
  BY <1>2
<1>6. waiting' = waiting \ J
  BY DEF Rejected
<1>7. waiting' = {s \in Scans : scan'[s] = "job"} \cup {b \in Builders : build'[b].pc = "job"}
  BY <1>0, <1>4, <1>5, <1>6 DEF JobsAreAwaited
<1>8. \A b \in Builders : b \in J => build[b].pc = "job"
  BY <1>0, Disjoint DEF JobsAreAwaited
<1> QED
  BY <1>1, <1>2, <1>3, <1>7, <1>8

LEMMA StoredType ==
  ASSUME ViewType, NEW key PROVE Stored(key) \in Answers /\ DOMAIN Stored(key) \subseteq Groups
<1>1. Stored(key) \in Answers
  BY Literals DEF Stored, ViewType
<1> QED
  BY <1>1, AnswersAre

\* Somebody begins to build.
LEMMA BuildsKeeps ==
  ASSUME StateInv, NEW b \in Builders, NEW key \in Int, NEW groups \in SUBSET Groups, Builds(b, key, groups)
  PROVE  /\ build' \in [Builders -> Build] /\ PoolType'
         /\ waiting' = waiting \cup {b}
         /\ \A l \in Lanes : \A n \in 1..Len(posted'[l]) : Lane(posted'[l][n]) = l
         /\ build'[b].pc = "job" /\ build'[b].key = key /\ build'[b].filled = Stored(key)
         /\ build'[b].groups = groups \ DOMAIN Stored(key) /\ build'[b].reading = NoReading
         /\ \A c \in Builders \ {b} : build'[c] = build[c]
         /\ DOMAIN building' \subseteq Int /\ (\A v \in DOMAIN building' : building'[v] \in Builders)
<1> DEFINE new == [NoBuild EXCEPT !.pc = "job", !.key = key, !.filled = Stored(key),
                                  !.groups = groups \ DOMAIN Stored(key)]
<1>0. PoolType /\ ViewType /\ JobsAreAwaited
  BY DEF StateInv
<1>1. build' = [build EXCEPT ![b] = new] /\ Posts(b)
  BY DEF Builds
<1>2. new \in Build /\ new.pc = "job" /\ new.key = key /\ new.filled = Stored(key)
      /\ new.groups = groups \ DOMAIN Stored(key) /\ new.reading = NoReading
  BY <1>0, Literals, StoredType DEF Build, NoBuild
<1> HIDE DEF new
<1>3. build' \in [Builders -> Build] /\ build'[b] = new /\ \A c \in Builders \ {b} : build'[c] = build[c]
  BY <1>0, <1>1, <1>2 DEF ViewType
<1>4. /\ PoolType' /\ waiting' = waiting \cup {b}
      /\ \A l \in Lanes : \A n \in 1..Len(posted'[l]) : Lane(posted'[l][n]) = l
  BY <1>0, <1>1, PostsPool DEF Jobs, JobsAreAwaited
<1>5. DOMAIN building' \subseteq Int /\ (\A v \in DOMAIN building' : building'[v] \in Builders)
  BY <1>0 DEF Builds, Put, ViewType
<1> QED
  BY <1>2, <1>3, <1>4, <1>5

\* What an answer holds: what was stored, and the groups asked for.
Filled(b, answer) ==
  [g \in DOMAIN build[b].filled \cup build[b].groups |->
     IF g \in build[b].groups THEN answer.content ELSE build[b].filled[g]]

LEMMA FilledType ==
  ASSUME ViewType, NEW b \in Builders, NEW answer \in Reading
  PROVE  /\ Filled(b, answer) \in Answers /\ DOMAIN Filled(b, answer) \subseteq Groups
         /\ DOMAIN Filled(b, answer) = DOMAIN build[b].filled \cup build[b].groups
         /\ build[b].key \in Int
<1>1. build[b] \in Build
  BY DEF ViewType
<1>2. build[b].filled \in Answers /\ build[b].groups \subseteq Groups /\ build[b].key \in Int
  BY <1>1 DEF Build
<1>3. PICK G \in SUBSET Groups : build[b].filled \in [G -> Contents]
  BY <1>2, AnswersAre
<1>4. answer.content \in Contents
  BY DEF Reading
<1>5. Filled(b, answer) \in [G \cup build[b].groups -> Contents]
  BY <1>3, <1>4 DEF Filled
<1>6. Filled(b, answer) \in Answers
  BY <1>2, <1>5, AnswersAre
<1> QED
  BY <1>2, <1>3, <1>5, <1>6 DEF Filled

\* An answer comes: what is kept, who builds, and who goes on.
LEMMA AnsweredKeeps ==
  ASSUME StateInv, NEW b \in Builders, NEW answer \in Reading, Answered(b, answer)
  PROVE  /\ \/ UNCHANGED <<roots, known>>
            \/ /\ answer.version = build[b].key
               /\ roots' = Put(roots, build[b].key, Filled(b, answer))
         /\ DOMAIN roots' \subseteq Int /\ (\A v \in DOMAIN roots' : roots'[v] \in Answers)
         /\ known' \subseteq Groups /\ build' \in [Builders -> Build]
         /\ DOMAIN building' \subseteq Int /\ (\A v \in DOMAIN building' : building'[v] \in Builders)
         /\ build'[b] = NoBuild /\ \A c \in Builders \ {b} : build'[c] = build[c]
         /\ reader' = [r \in Readers |-> Resumes(r, b, Filled(b, answer))]
         /\ pass' \in [pc : {"off", "version", "pages", "warming", "end"}, reading : Reading]
         /\ pass'.reading = pass.reading
<1>0. ViewType /\ CacheType
  BY DEF StateInv
<1>1. /\ Filled(b, answer) \in Answers /\ DOMAIN Filled(b, answer) \subseteq Groups
      /\ build[b].key \in Int
  BY <1>0, FilledType
<1>2. /\ IF Keeps(build[b].key, answer.version)
         THEN roots' = Put(roots, build[b].key, Filled(b, answer)) /\ known' = known \cup DOMAIN Filled(b, answer)
         ELSE UNCHANGED <<roots, known>>
      /\ build' = [build EXCEPT ![b] = NoBuild]
      /\ reader' = [r \in Readers |-> Resumes(r, b, Filled(b, answer))]
      /\ pass' = IF b = "warm" THEN [pass EXCEPT !.pc = "end"] ELSE pass
  BY DEF Answered, Filled
<1> HIDE DEF Filled
<1>3. \/ UNCHANGED <<roots, known>>
      \/ answer.version = build[b].key /\ roots' = Put(roots, build[b].key, Filled(b, answer))
  BY <1>2 DEF Keeps
<1>4. DOMAIN roots' \subseteq Int /\ (\A v \in DOMAIN roots' : roots'[v] \in Answers) /\ known' \subseteq Groups
  BY <1>0, <1>1, <1>2 DEF ViewType, Put
<1>5. build' \in [Builders -> Build] /\ build'[b] = NoBuild /\ \A c \in Builders \ {b} : build'[c] = build[c]
  BY <1>0, <1>2, Literals DEF ViewType
<1>6. pass' \in [pc : {"off", "version", "pages", "warming", "end"}, reading : Reading] /\ pass'.reading = pass.reading
  BY <1>0, <1>2 DEF CacheType
<1>7. DOMAIN building' \subseteq Int /\ (\A v \in DOMAIN building' : building'[v] \in Builders)
  BY <1>0 DEF Answered, ViewType
<1> QED
  BY <1>2, <1>3, <1>4, <1>5, <1>6, <1>7

LEMMA ResumesType ==
  ASSUME ReaderType, NEW b, NEW filled, DOMAIN filled \subseteq Groups,
         reader' = [r \in Readers |-> Resumes(r, b, filled)]
  PROVE  reader' \in [Readers -> Asker]
<1>1. ASSUME NEW r \in Readers PROVE Resumes(r, b, filled) \in Asker
  <2>1. reader[r] \in Asker
    BY DEF ReaderType
  <2>2. Request("done", DOMAIN filled) \in Asker
    BY Literals DEF ReaderStates
  <2>3. [reader[r] EXCEPT !.pc = "again"] \in Asker
    BY <2>1 DEF Asker, ReaderStates
  <2> QED
    BY <2>1, <2>2, <2>3 DEF Resumes
<1> QED
  BY <1>1

\* What a write of a match does to the version: a new one, or one the table has had.
ClockGoes ==
  /\ token' \in 0..(newest + 1)
  /\ newest' = IF token' > newest THEN token' ELSE newest
  /\ repeated' = repeated \cup IF token' > newest THEN {} ELSE {token'}

\* The matches of the table stay.
MatchesStay == \A p \in PageNumbers : table'[p] = table[p]

\* The largest of the table's numbers is one of them.
LEMMA LastWrite ==
  ASSUME TableType
  PROVE  /\ Latest \in Nat
         /\ \A p \in Places : table[p] <= Latest
<1> DEFINE T == {table[q] : q \in Places}
           U == {n \in Nat : \A p \in Places : table[p] <= n}
           R == {p \in Nat \X Nat : p[1] < p[2]}
<1>1. U \subseteq Nat /\ U # {} /\ T \subseteq Nat /\ 1 \in Places
  <2>1. U # {}
    BY DEF TableType
  <2>2. T \subseteq Nat
    BY DEF TableType
  <2>3. 1 \in Places
    BY CatalogueConstants DEF Places, Shelf
  <2> QED
    BY <2>1, <2>2, <2>3
<1>2. IsWellFoundedOn(R, Nat)
  BY NatLessThanWellFounded DEF OpToRel
<1>3. PICK m \in U : \A d \in U : ~(<<d, m>> \in R)
  BY <1>1, <1>2, WFMin
<1>4. \A d \in U : d \in Nat /\ m \in Nat /\ ~(d < m)
  BY <1>3
<1>5. m \in T
  <2> SUFFICES ASSUME m \notin T PROVE FALSE
    OBVIOUS
  <2>1. \A p \in Places : table[p] \in Nat /\ table[p] <= m /\ table[p] # m
    BY <1>3 DEF TableType
  <2>2. m - 1 \in Nat
    BY <1>1, <1>4, <2>1
  <2>3. m - 1 \in U
    BY <1>4, <2>1, <2>2
  <2> QED
    BY <1>4, <2>3
<1>6. m \in Nat /\ \A p \in Places : table[p] <= m
  BY <1>3
<1>7. \A x \in T : m >= x
  BY <1>6
<1>8. Max(T) = m
  <2> DEFINE M == CHOOSE x \in T : \A y \in T : x >= y
  <2>1. M \in T /\ \A y \in T : M >= y
    BY <1>5, <1>7
  <2>2. Max(T) = M
    BY DEF Max
  <2> HIDE DEF M, T
  <2>3. M >= m /\ m >= M /\ M \in Nat
    BY <1>1, <1>5, <1>7, <2>1
  <2> QED
    BY <1>6, <2>2, <2>3
<1> QED
  BY <1>6, <1>8 DEF Latest

\* A write leaves a table.
LEMMA WritesTable ==
  ASSUME TableType, NEW p \in Places, Writes(p), UNCHANGED <<token, newest, repeated>> \/ ClockGoes
  PROVE  TableType'
<1> DEFINE m == Latest + 1
<1>1. m \in Nat /\ \A q \in Places : table[q] <= m
  <2>1. table \in [Places -> Nat]
    BY DEF TableType
  <2> QED
    BY <2>1, LastWrite
<1>2. table' = [table EXCEPT ![p] = m]
  BY DEF Writes
<1> HIDE DEF m
<1>3. table' \in [Places -> Nat] /\ \E n \in Nat : \A q \in Places : table'[q] <= n
  BY <1>1, <1>2 DEF TableType
<1>4. newest' \in Nat /\ token' \in 0..newest' /\ repeated' \subseteq 0..newest'
  <2>0. newest \in Nat /\ token \in 0..newest /\ repeated \subseteq 0..newest
    BY DEF TableType
  <2>1. CASE UNCHANGED <<token, newest, repeated>>
    BY <2>0, <2>1
  <2>2. CASE ClockGoes /\ token' > newest
    <3>1. token' \in Nat /\ newest' = token' /\ repeated' = repeated
      BY <2>0, <2>2 DEF ClockGoes
    <3> QED
      BY <2>0, <2>2, <3>1
  <2>3. CASE ClockGoes /\ ~(token' > newest)
    <3>1. token' \in 0..newest /\ newest' = newest /\ repeated' = repeated \cup {token'}
      BY <2>0, <2>3 DEF ClockGoes
    <3> QED
      BY <2>0, <3>1
  <2> QED
    BY <2>1, <2>2, <2>3
<1> QED
  BY <1>3, <1>4 DEF TableType

LEMMA ScanWritesState ==
  ASSUME StateInv, NEW s \in Scans, ScanWrites(s)
  PROVE  StateInv' /\ ClockGoes /\ UNCHANGED <<worker, pass, views, reader>>
<1>0. TableType
  BY DEF StateInv
<1>1. \E p \in Places : Writes(p)
  BY CatalogueConstants DEF ScanWrites, Places, Shelf
<1>2. ClockGoes
  BY DEF ScanWrites, ClockGoes
<1>3. TableType'
  BY <1>0, <1>1, <1>2, WritesTable
<1>4. UNCHANGED <<pool, cache, views, scan, reader>>
  BY DEF ScanWrites
<1>6. UNCHANGED <<worker, pass>>
  BY <1>4 DEF pool, cache
<1> QED
  BY <1>2, <1>3, <1>4, <1>6
     DEF StateInv, PoolType, CacheType, ViewType, ReaderType, JobsAreAwaited, pool, cache, views

\* Faults of threads and jobs.
LEMMA FaultState ==
  ASSUME StateInv,
         \/ \E l \in Lanes : ThreadFails(l) \/ ThreadExits(l)
         \/ \E j \in Jobs : JobTimesOut(j)
  PROVE  /\ StateInv'
         /\ \A b \in Builders :
              /\ build'[b].key = build[b].key /\ build'[b].groups = build[b].groups
              /\ build'[b].filled = build[b].filled /\ build'[b].reading = build[b].reading
              /\ build'[b].pc # "off" => build[b].pc # "off"
         /\ UNCHANGED <<table, token, newest, repeated, pass, graph, roots, reader>>
         /\ worker' \in {worker, NoReading}
         /\ \A x \in {"worker", "here"} : held'[x] \in {held[x], NoHeld}
<1>0. TableType /\ PoolType /\ CacheType /\ ViewType /\ ReaderType /\ JobsAreAwaited
  BY DEF StateInv
<1>1. /\ UNCHANGED <<table, token, newest, repeated, cache, graph, roots, known, building, reader>>
      /\ \E J : J \subseteq waiting /\ Rejected(J)
  BY DEF ThreadFails, ThreadExits, JobTimesOut, Elsewhere, db, InLane
<1>2. /\ scan' \in [Scans -> {"idle", "job", "done", "failed"}] /\ build' \in [Builders -> Build]
      /\ waiting' \subseteq Jobs
      /\ waiting' = {s \in Scans : scan'[s] = "job"} \cup {b \in Builders : build'[b].pc = "job"}
      /\ \A b \in Builders :
           /\ build'[b].key = build[b].key /\ build'[b].groups = build[b].groups
           /\ build'[b].filled = build[b].filled /\ build'[b].reading = build[b].reading
           /\ build'[b].pc # "off" => build[b].pc # "off"
  BY <1>1, RejectedKeeps
<1>3. /\ thread' \in [Lanes -> {"none", "up", "failing"}] /\ worker' \in {worker, NoReading}
      /\ \A x \in {"worker", "here"} : held'[x] \in {held[x], NoHeld}
      /\ held' \in [{"worker", "here"} -> [version : Int, content : Contents]]
  <2>1. CASE \E l \in Lanes : ThreadFails(l)
    BY <1>0, <2>1, Literals DEF ThreadFails, PoolType, ViewType
  <2>2. CASE ~\E l \in Lanes : ThreadFails(l)
    <3>1. UNCHANGED <<worker, held>> /\ (thread' = thread \/ \E l \in Lanes : thread' = [thread EXCEPT ![l] = "none"])
      BY <2>2 DEF ThreadExits, JobTimesOut, Elsewhere
    <3> QED
      BY <1>0, <3>1 DEF PoolType, ViewType
  <2> QED
    BY <2>1, <2>2
<1>4. /\ posted' \in [Lanes -> Seq(Jobs)]
      /\ \A l \in Lanes : \A n \in 1..Len(posted'[l]) : Lane(posted'[l][n]) = l
  <2>1. CASE \E l \in Lanes : posted' = [posted EXCEPT ![l] = <<>>]
    <3>1. PICK l \in Lanes : posted' = [posted EXCEPT ![l] = <<>>]
      BY <2>1
    <3>2. <<>> \in Seq(Jobs) /\ Len(<<>>) = 0
      OBVIOUS
    <3>3. posted' \in [Lanes -> Seq(Jobs)] /\ \A k \in Lanes : posted'[k] = IF k = l THEN <<>> ELSE posted[k]
      BY <1>0, <3>1, <3>2 DEF PoolType
    <3> QED
      BY <1>0, <3>2, <3>3 DEF JobsAreAwaited
  <2>2. CASE posted' = posted
    BY <1>0, <2>2 DEF PoolType, JobsAreAwaited
  <2> QED
    BY <2>1, <2>2 DEF ThreadFails, ThreadExits, JobTimesOut, Elsewhere
<1>5. worker' \in Reading
  BY <1>0, <1>3, Literals DEF PoolType
<1>6. TableType' /\ CacheType'
  BY <1>0, <1>1 DEF TableType, CacheType, cache
<1>7. PoolType' /\ ViewType' /\ ReaderType' /\ JobsAreAwaited'
  BY <1>0, <1>1, <1>2, <1>3, <1>4, <1>5 DEF PoolType, ViewType, ReaderType, JobsAreAwaited
<1>8. UNCHANGED pass
  BY <1>1 DEF cache
<1> QED
  BY <1>1, <1>2, <1>3, <1>6, <1>7, <1>8 DEF StateInv

\* Scans, and what they schedule.
LEMMA ScanState ==
  ASSUME StateInv, NEW s \in Scans, ScanStarts(s) \/ ScanAnswers(s)
  PROVE  StateInv' /\ MatchesStay /\ UNCHANGED <<token, newest, repeated, worker, pass, views, reader>>
<1>0. TableType /\ PoolType /\ CacheType /\ ViewType /\ ReaderType /\ JobsAreAwaited
  BY DEF StateInv
<1>1. UNCHANGED <<token, newest, repeated, worker, pass, views, reader>>
  BY DEF ScanStarts, ScanAnswers, Posts, db, cache
<1>2. TableType' /\ ViewType' /\ MatchesStay
  <2>1. Shelf \in Places /\ \A p \in PageNumbers : p \in Places /\ p # Shelf
    BY CatalogueConstants DEF Shelf, Places, PageNumbers
  <2>2. Writes(Shelf) \/ UNCHANGED table
    BY DEF ScanStarts, ScanAnswers, db
  <2>3. TableType'
    BY <1>0, <1>1, <2>1, <2>2, WritesTable DEF TableType
  <2>4. MatchesStay
    BY <1>0, <2>1, <2>2 DEF MatchesStay, Writes, TableType
  <2> QED
    BY <1>0, <1>1, <2>3, <2>4 DEF ViewType, views
<1>3. CASE ScanStarts(s)
  <2>1. /\ PoolType' /\ waiting' = waiting \cup {s}
        /\ \A l \in Lanes : \A n \in 1..Len(posted'[l]) : Lane(posted'[l][n]) = l
    BY <1>0, <1>3, PostsPool DEF ScanStarts, Jobs, JobsAreAwaited
  <2>2. scan' = [scan EXCEPT ![s] = "job"] /\ UNCHANGED cache
    BY <1>3 DEF ScanStarts
  <2>3. ReaderType' /\ CacheType'
    BY <1>0, <1>1, <2>2 DEF ReaderType, CacheType, cache
  <2>4. JobsAreAwaited'
    BY <1>0, <1>1, <2>1, <2>2 DEF JobsAreAwaited, ReaderType, views
  <2> QED
    BY <1>1, <1>2, <2>1, <2>3, <2>4 DEF StateInv
<1>4. CASE ScanAnswers(s)
  <2>1. /\ posted' = [posted EXCEPT !["catalogue"] = Tail(@)] /\ waiting' = waiting \ {s}
        /\ UNCHANGED thread /\ posted["catalogue"] # <<>>
    BY <1>4, CatalogueConstants DEF ScanAnswers, Working, Lane
  <2>2. "catalogue" \in Lanes
    BY DEF Lanes
  <2>3. posted' \in [Lanes -> Seq(Jobs)]
        /\ \A l \in Lanes : \A n \in 1..Len(posted'[l]) : Lane(posted'[l][n]) = l
    <3> DEFINE q == posted["catalogue"]
    <3>1. q \in Seq(Jobs) /\ q # <<>>
      BY <1>0, <2>1, <2>2 DEF PoolType
    <3>2. Tail(q) \in Seq(Jobs) /\ Len(Tail(q)) = Len(q) - 1 /\ \A n \in 1..Len(Tail(q)) : Tail(q)[n] = q[n + 1]
      BY <3>1, HeadTailProperties
    <3>3. \A n \in 1..Len(Tail(q)) : n + 1 \in 1..Len(q)
      BY <3>1, <3>2
    <3>4. \A n \in 1..Len(Tail(q)) : Lane(Tail(q)[n]) = "catalogue"
      BY <1>0, <2>2, <3>2, <3>3 DEF JobsAreAwaited
    <3>5. \A l \in Lanes : posted'[l] = IF l = "catalogue" THEN Tail(q) ELSE posted[l]
      BY <1>0, <2>1 DEF PoolType
    <3>6. posted' \in [Lanes -> Seq(Jobs)]
      BY <1>0, <2>1, <3>2 DEF PoolType
    <3> HIDE DEF q
    <3> QED
      BY <1>0, <3>4, <3>5, <3>6 DEF JobsAreAwaited
  <2>4. PoolType'
    BY <1>0, <1>1, <2>1, <2>3 DEF PoolType
  <2>5. /\ \A t \in Scans : scan'[t] = IF t = s /\ s \in waiting THEN "done" ELSE scan[t]
        /\ scan' \in [Scans -> {"idle", "job", "done", "failed"}]
        /\ CacheType'
    <3>1. CASE s \in waiting
      <4>1. scan' = [scan EXCEPT ![s] = "done"] /\ Schedule(again)
        BY <1>4, <3>1 DEF ScanAnswers
      <4>2. timer' \in BOOLEAN /\ again' \in BOOLEAN
        BY <1>0, <4>1 DEF Schedule, CacheType
      <4> QED
        BY <1>0, <1>1, <3>1, <4>1, <4>2 DEF ReaderType, CacheType
    <3>2. CASE s \notin waiting
      BY <1>0, <1>1, <1>4, <3>2 DEF ScanAnswers, ReaderType, CacheType
    <3> QED
      BY <3>1, <3>2
  <2>6. JobsAreAwaited'
    <3>1. s \notin waiting => scan[s] # "job"
      BY <1>0 DEF JobsAreAwaited
    <3>2. s \notin Builders
      BY Disjoint
    <3>3. build' = build
      BY <1>1 DEF views
    <3>4. waiting' = {t \in Scans : scan'[t] = "job"} \cup {b \in Builders : build'[b].pc = "job"}
      BY <1>0, <2>1, <2>5, <3>1, <3>2, <3>3 DEF JobsAreAwaited
    <3> QED
      BY <2>3, <3>4 DEF JobsAreAwaited
  <2>7. ReaderType'
    BY <1>0, <1>1, <2>5 DEF ReaderType
  <2> QED
    BY <1>1, <1>2, <2>4, <2>5, <2>6, <2>7 DEF StateInv
<1> QED
  BY <1>3, <1>4

\* The steps of refresh that build nothing.
LEMMA PassState ==
  ASSUME StateInv, TimerFires \/ PassReadsVersion \/ PassReadsPage \/ PassEnds
  PROVE  /\ StateInv' /\ UNCHANGED <<table, token, newest, repeated, worker, views>>
         /\ \A r \in Readers : reader'[r].version = reader[r].version /\ reader'[r].got = reader[r].got
                               /\ (reader'[r].pc = "done" => reader[r].pc = "done")
         /\ pass'.reading \in {pass.reading, Begins, Reads(pass.reading), NoReading}
<1>0. TableType /\ PoolType /\ CacheType /\ ViewType /\ ReaderType /\ JobsAreAwaited
  BY DEF StateInv
<1>1. UNCHANGED <<table, token, newest, repeated, pool, views, scan>>
  BY DEF TimerFires, PassReadsVersion, PassReadsPage, PassEnds, db
<1>2. TableType' /\ PoolType' /\ ViewType' /\ JobsAreAwaited'
  BY <1>0, <1>1 DEF TableType, PoolType, ViewType, JobsAreAwaited, pool, views
<1>3. pass.reading \in Reading /\ Reads(pass.reading) \in Reading /\ Begins \in Reading
  <2>1. pass.reading \in Reading
    BY <1>0 DEF CacheType
  <2> QED
    BY <1>0, <2>1, ReadingType
<1>4. /\ pass'.reading \in {pass.reading, Begins, Reads(pass.reading), NoReading}
      /\ pass' \in [pc : {"off", "version", "pages", "warming", "end"}, reading : Reading]
  <2>1. CASE TimerFires
    BY <1>0, <2>1 DEF TimerFires, CacheType
  <2>2. CASE PassReadsVersion
    BY <1>3, <2>2 DEF PassReadsVersion
  <2>3. CASE PassReadsPage
    BY <1>0, <1>3, <2>3 DEF PassReadsPage, CacheType
  <2>4. CASE PassEnds
    BY <2>4, Literals DEF PassEnds
  <2> QED
    BY <2>1, <2>2, <2>3, <2>4
<1>5. timer' \in BOOLEAN /\ again' \in BOOLEAN
  BY <1>0 DEF TimerFires, PassReadsVersion, PassReadsPage, PassEnds, CacheType
<1>6. /\ reader' \in [Readers -> Asker]
      /\ \A r \in Readers : reader'[r].version = reader[r].version /\ reader'[r].got = reader[r].got
                            /\ (reader'[r].pc = "done" => reader[r].pc = "done")
  <2>1. CASE reader' = reader
    BY <1>0, <2>1 DEF ReaderType
  <2>2. CASE PassEnds
    <3>1. ASSUME NEW r \in Readers
          PROVE  /\ reader'[r] \in Asker /\ reader'[r].version = reader[r].version /\ reader'[r].got = reader[r].got
                 /\ (reader'[r].pc = "done" => reader[r].pc = "done")
      <4>1. reader[r] \in Asker
        BY <1>0 DEF ReaderType
      <4>2. reader'[r] = reader[r] \/ reader'[r] = [reader[r] EXCEPT !.pc = "warmed"]
        BY <2>2 DEF PassEnds
      <4> QED
        BY <4>1, <4>2 DEF Asker, ReaderStates
    <3>2. reader' = [r \in Readers |-> reader'[r]]
      BY <2>2 DEF PassEnds
    <3> QED
      BY <3>1, <3>2
  <2> QED
    BY <2>1, <2>2 DEF TimerFires, PassReadsVersion, PassReadsPage
<1>7. CacheType' /\ ReaderType'
  BY <1>0, <1>1, <1>4, <1>5, <1>6 DEF CacheType, ReaderType
<1>8. UNCHANGED worker
  BY <1>1 DEF pool
<1> QED
  BY <1>1, <1>2, <1>4, <1>6, <1>7, <1>8 DEF StateInv

\* The graph changes, and what people asked about is projected anew.
LEMMA PassStoresState ==
  ASSUME StateInv, PassStores
  PROVE  /\ StateInv' /\ UNCHANGED <<table, token, newest, repeated, worker, roots, known, held, reader>>
         /\ IsRead(pass.reading) /\ pass'.reading = pass.reading
         /\ graph'.version = pass.reading.version /\ graph'.content = pass.reading.content
         /\ \/ UNCHANGED build
            \/ /\ build'["warm"].key = pass.reading.version /\ build'["warm"].filled = Stored(pass.reading.version)
               /\ build'["warm"].reading = NoReading
               /\ \A c \in Builders \ {"warm"} : build'[c] = build[c]
<1>0. TableType /\ PoolType /\ CacheType /\ ViewType /\ ReaderType /\ JobsAreAwaited
  BY DEF StateInv
<1> DEFINE read == pass.reading
<1>1. read \in Reading /\ read.version \in Int /\ read.content \in Contents /\ "warm" \in Builders
  BY <1>0 DEF CacheType, Reading, Builders
<1>2. /\ UNCHANGED <<table, token, newest, repeated, timer, again, roots, known, held, scan, reader>> /\ IsRead(read)
      /\ graph' = [id |-> graph.id + 1, version |-> read.version, content |-> read.content]
      /\ pass' = [pass EXCEPT !.pc = "warming"] \/ pass' = [pass EXCEPT !.pc = "end"]
      /\ \/ Builds("warm", read.version, known)
         \/ UNCHANGED <<build, building, pool>>
  BY DEF PassStores, db
<1>3. /\ graph' \in [id : Nat, version : Int, content : Contents]
      /\ graph'.version = read.version /\ graph'.content = read.content
  BY <1>0, <1>1, <1>2 DEF ViewType
<1>4. CacheType' /\ pass'.reading = read
  BY <1>0, <1>2 DEF CacheType
<1>5. TableType' /\ ReaderType'
  BY <1>0, <1>2 DEF TableType, ReaderType
<1>6. CASE Builds("warm", read.version, known)
  <2>1. known \in SUBSET Groups
    BY <1>0 DEF ViewType
  <2>2. /\ build' \in [Builders -> Build] /\ PoolType'
        /\ waiting' = waiting \cup {"warm"}
        /\ \A l \in Lanes : \A n \in 1..Len(posted'[l]) : Lane(posted'[l][n]) = l
        /\ build'["warm"].pc = "job" /\ build'["warm"].key = read.version
        /\ build'["warm"].filled = Stored(read.version) /\ build'["warm"].reading = NoReading
        /\ \A c \in Builders \ {"warm"} : build'[c] = build[c]
        /\ DOMAIN building' \subseteq Int /\ (\A v \in DOMAIN building' : building'[v] \in Builders)
    BY <1>1, <1>6, <2>1, BuildsKeeps
  <2>3. JobsAreAwaited'
    BY <1>0, <1>1, <1>2, <2>2 DEF JobsAreAwaited
  <2>4. ViewType'
    BY <1>0, <1>2, <1>3, <2>2 DEF ViewType
  <2>5. worker' = worker
    BY <1>6 DEF Builds, Posts
  <2> QED
    BY <1>2, <1>3, <1>4, <1>5, <2>2, <2>3, <2>4, <2>5 DEF StateInv
<1>7. CASE UNCHANGED <<build, building, pool>>
  BY <1>0, <1>2, <1>3, <1>4, <1>5, <1>7 DEF StateInv, PoolType, ViewType, JobsAreAwaited, pool
<1> QED
  BY <1>2, <1>6, <1>7

\* The worker and the gateway read.
LEMMA ReadsState ==
  ASSUME StateInv, WorkerReads \/ \E b \in Builders : HereReads(b)
  PROVE  /\ StateInv' /\ UNCHANGED <<table, token, newest, repeated, pass, graph, roots, held, reader>>
         /\ worker' \in {worker, Projects("worker"), Reads(worker)}
         /\ \A b \in Builders :
              /\ build'[b].reading \in {build[b].reading, Projects("here"), Reads(build[b].reading)}
              /\ build'[b].pc = build[b].pc /\ build'[b].key = build[b].key
              /\ build'[b].filled = build[b].filled /\ build'[b].groups = build[b].groups
<1>0. TableType /\ PoolType /\ CacheType /\ ViewType /\ ReaderType /\ JobsAreAwaited
  BY DEF StateInv
<1>1. UNCHANGED <<table, token, newest, repeated, thread, posted, waiting, cache, graph, roots, known, building, held, scan, reader>>
  BY DEF WorkerReads, HereReads, db, pool, views
<1>2. TableType' /\ CacheType' /\ ReaderType' /\ UNCHANGED pass
  BY <1>0, <1>1 DEF TableType, CacheType, ReaderType, cache
<1>3. CASE WorkerReads
  <2>1. worker' \in {Projects("worker"), Reads(worker)} /\ UNCHANGED build
    BY <1>3 DEF WorkerReads, views
  <2>2. worker' \in Reading
    BY <1>0, <2>1, ReadingType DEF PoolType
  <2> QED
    BY <1>0, <1>1, <1>2, <2>1, <2>2 DEF StateInv, PoolType, ViewType, JobsAreAwaited
<1>4. CASE \E b \in Builders : HereReads(b)
  <2>1. PICK b \in Builders : HereReads(b)
    BY <1>4
  <2> DEFINE r == IF build[b].reading.page = 0 THEN Projects("here") ELSE Reads(build[b].reading)
             n == [build[b] EXCEPT !.reading = r]
  <2>2. build' = [build EXCEPT ![b] = n] /\ UNCHANGED worker
    BY <2>1 DEF HereReads, pool
  <2>3. build[b] \in Build /\ build[b].reading \in Reading
    BY <1>0 DEF ViewType, Build
  <2>4. r \in Reading /\ r \in {Projects("here"), Reads(build[b].reading)}
    BY <1>0, <2>3, ReadingType
  <2> HIDE DEF r
  <2>5. n \in Build /\ n.reading = r /\ n.pc = build[b].pc /\ n.key = build[b].key /\ n.filled = build[b].filled
        /\ n.groups = build[b].groups
    BY <2>3, <2>4 DEF Build
  <2> HIDE DEF n
  <2>6. build' \in [Builders -> Build] /\ \A c \in Builders : build'[c] = IF c = b THEN n ELSE build[c]
    BY <1>0, <2>2, <2>5 DEF ViewType
  <2>7. JobsAreAwaited'
    BY <1>0, <1>1, <2>5, <2>6 DEF JobsAreAwaited
  <2> QED
    BY <1>0, <1>1, <1>2, <2>2, <2>4, <2>5, <2>6, <2>7 DEF StateInv, PoolType, ViewType
<1> QED
  BY <1>3, <1>4

\* An answer that ended a reading.
Delivers(b, answer) ==
  /\ b \in Builders /\ answer \in Reading /\ IsProjected(answer) /\ build[b].pc # "off" /\ Answered(b, answer)

\* An answer of the worker is delivered, or nobody waits for it any more; the graph it
\* read is kept.
LEMMA AnswersState ==
  ASSUME StateInv, WorkerAnswers \/ \E b \in Builders : HereAnswers(b)
  PROVE  /\ StateInv' /\ UNCHANGED <<table, token, newest, repeated, graph>> /\ worker' \in {worker, NoReading}
         /\ \E answer \in {worker} \cup {build[b].reading : b \in Builders}, x \in {"worker", "here"} :
              /\ IsProjected(answer) /\ answer \in Reading
              /\ held' = [held EXCEPT ![x] = [version |-> answer.version, content |-> Matches(answer.content)]]
              /\ \/ \E b \in Builders : Delivers(b, answer)
                 \/ UNCHANGED <<roots, build, reader, pass>>
<1>0. TableType /\ PoolType /\ CacheType /\ ViewType /\ ReaderType /\ JobsAreAwaited
  BY DEF StateInv
<1>1. UNCHANGED <<table, token, newest, repeated, graph, thread, timer, again, scan>>
  BY DEF WorkerAnswers, HereAnswers, db, pool
<1>2. ASSUME NEW answer \in Reading, NEW x \in {"worker", "here"},
             held' = [held EXCEPT ![x] = [version |-> answer.version, content |-> Matches(answer.content)]]
      PROVE  held' \in [{"worker", "here"} -> [version : Int, content : Contents]]
  <2>1. answer.version \in Int /\ answer.content \in Contents
    BY DEF Reading
  <2>2. Matches(answer.content) \in Contents
    BY <2>1, MatchesOf
  <2> QED
    BY <1>0, <1>2, <2>1, <2>2 DEF ViewType
\* The state that an answer changes, when it is delivered.
<1>3. ASSUME NEW b \in Builders, NEW answer \in Reading, Answered(b, answer)
      PROVE  /\ DOMAIN roots' \subseteq Int /\ (\A v \in DOMAIN roots' : roots'[v] \in Answers)
             /\ known' \subseteq Groups /\ build' \in [Builders -> Build]
             /\ DOMAIN building' \subseteq Int /\ (\A v \in DOMAIN building' : building'[v] \in Builders)
             /\ \A c \in Builders : build'[c].pc = "job" <=> build[c].pc = "job" /\ c # b
             /\ CacheType' /\ ReaderType'
  <2>1. /\ DOMAIN roots' \subseteq Int /\ (\A v \in DOMAIN roots' : roots'[v] \in Answers)
        /\ known' \subseteq Groups /\ build' \in [Builders -> Build]
        /\ DOMAIN building' \subseteq Int /\ (\A v \in DOMAIN building' : building'[v] \in Builders)
        /\ build'[b] = NoBuild /\ \A c \in Builders \ {b} : build'[c] = build[c]
        /\ reader' = [r \in Readers |-> Resumes(r, b, Filled(b, answer))]
        /\ pass' \in [pc : {"off", "version", "pages", "warming", "end"}, reading : Reading]
    BY <1>3, AnsweredKeeps
  <2>2. DOMAIN Filled(b, answer) \subseteq Groups
    BY <1>0, FilledType
  <2>3. reader' \in [Readers -> Asker]
    BY <1>0, <2>1, <2>2, ResumesType
  <2> QED
    BY <1>0, <1>1, <2>1, <2>3, Literals DEF CacheType, ReaderType
<1>4. CASE WorkerAnswers
  <2> DEFINE q == posted["projection"]
             b == Head(q)
  <2>1. /\ q # <<>> /\ IsProjected(worker) /\ worker' = NoReading
        /\ posted' = [posted EXCEPT !["projection"] = Tail(@)] /\ waiting' = waiting \ {b}
        /\ IF b \in waiting THEN Answered(b, worker)
           ELSE UNCHANGED <<roots, known, build, building, reader, pass>>
        /\ held' = [held EXCEPT !["worker"] = [version |-> worker.version, content |-> Matches(worker.content)]]
    BY <1>4 DEF WorkerAnswers
  <2>2. "projection" \in Lanes /\ worker \in Reading /\ q \in Seq(Jobs)
    BY <1>0 DEF Lanes, PoolType
  <2>3. b \in Builders
    <3>1. Len(q) \in Nat /\ Len(q) # 0 /\ b = q[1]
      BY <2>1, <2>2, EmptySeq
    <3>2. b \in Jobs /\ Lane(b) = "projection"
      BY <1>0, <2>2, <3>1 DEF JobsAreAwaited
    <3> QED
      BY <3>2, LaneOf
  <2>4. /\ posted' \in [Lanes -> Seq(Jobs)]
        /\ \A l \in Lanes : \A n \in 1..Len(posted'[l]) : Lane(posted'[l][n]) = l
    <3>2. Tail(q) \in Seq(Jobs) /\ Len(Tail(q)) = Len(q) - 1 /\ \A n \in 1..Len(Tail(q)) : Tail(q)[n] = q[n + 1]
      BY <2>1, <2>2, HeadTailProperties
    <3>3. \A n \in 1..Len(Tail(q)) : n + 1 \in 1..Len(q)
      BY <2>2, <3>2
    <3>4. \A n \in 1..Len(Tail(q)) : Lane(Tail(q)[n]) = "projection"
      BY <1>0, <2>2, <3>2, <3>3 DEF JobsAreAwaited
    <3>5. \A l \in Lanes : posted'[l] = IF l = "projection" THEN Tail(q) ELSE posted[l]
      BY <1>0, <2>1 DEF PoolType
    <3>6. posted' \in [Lanes -> Seq(Jobs)]
      BY <1>0, <2>1, <3>2 DEF PoolType
    <3> HIDE DEF q
    <3> QED
      BY <1>0, <3>4, <3>5, <3>6 DEF JobsAreAwaited
  <2> HIDE DEF q, b
  <2>5. PoolType'
    BY <1>0, <1>1, <2>1, <2>4, Literals DEF PoolType
  <2>6. held' \in [{"worker", "here"} -> [version : Int, content : Contents]]
    BY <1>2, <2>1, <2>2
  <2>7. CASE b \in waiting
    <3>1. Answered(b, worker) /\ build[b].pc = "job"
      BY <1>0, <2>1, <2>3, <2>7, Disjoint DEF JobsAreAwaited
    <3>2. Delivers(b, worker)
      BY <2>1, <2>2, <2>3, <3>1 DEF Delivers
    <3>3. JobsAreAwaited'
      <4>1. b \notin Scans
        BY <2>3, Disjoint
      <4>2. waiting' = {s \in Scans : scan'[s] = "job"} \cup {c \in Builders : build'[c].pc = "job"}
        BY <1>0, <1>1, <1>3, <2>1, <2>2, <2>3, <3>1, <4>1 DEF JobsAreAwaited
      <4> QED
        BY <2>4, <4>2 DEF JobsAreAwaited
    <3>4. TableType' /\ ViewType' /\ CacheType' /\ ReaderType'
      BY <1>0, <1>1, <1>3, <2>2, <2>3, <2>6, <3>1 DEF TableType, ViewType
    <3> QED
      BY <1>1, <2>1, <2>2, <2>3, <2>5, <3>2, <3>3, <3>4 DEF StateInv
  <2>8. CASE b \notin waiting
    <3>1. UNCHANGED <<roots, known, build, building, reader, pass, waiting>>
      BY <2>1, <2>8
    <3>2. TableType' /\ ViewType' /\ CacheType' /\ ReaderType' /\ JobsAreAwaited'
      BY <1>0, <1>1, <2>4, <2>6, <3>1 DEF TableType, ViewType, CacheType, ReaderType, JobsAreAwaited
    <3> QED
      BY <1>1, <2>1, <2>2, <2>5, <3>1, <3>2 DEF StateInv
  <2> QED
    BY <2>7, <2>8
<1>5. CASE \E b \in Builders : HereAnswers(b)
  <2>1. PICK b \in Builders : HereAnswers(b)
    BY <1>5
  <2> DEFINE answer == build[b].reading
  <2>2. /\ build[b].pc = "here" /\ IsProjected(answer) /\ Answered(b, answer) /\ UNCHANGED pool
        /\ held' = [held EXCEPT !["here"] = [version |-> answer.version, content |-> Matches(answer.content)]]
    BY <2>1 DEF HereAnswers
  <2>3. answer \in Reading
    BY <1>0 DEF ViewType, Build
  <2>4. held' \in [{"worker", "here"} -> [version : Int, content : Contents]]
    BY <1>2, <2>2, <2>3
  <2>5. JobsAreAwaited'
    <3>1. \A c \in Builders : build'[c].pc = "job" <=> build[c].pc = "job"
      BY <1>3, <2>2, <2>3
    <3> QED
      BY <1>0, <1>1, <2>2, <3>1 DEF JobsAreAwaited, pool
  <2>6. TableType' /\ ViewType' /\ CacheType' /\ ReaderType' /\ PoolType'
    BY <1>0, <1>1, <1>3, <2>2, <2>3, <2>4 DEF TableType, ViewType, PoolType, pool
  <2>7. Delivers(b, answer) /\ UNCHANGED worker
    BY <2>2, <2>3 DEF Delivers, pool
  <2> QED
    BY <1>1, <2>2, <2>3, <2>5, <2>6, <2>7 DEF StateInv
<1> QED
  BY <1>4, <1>5

\* A request asks, compares, waits and takes a graph; it does not build.
LEMMA DrawsState ==
  ASSUME StateInv, NEW r \in Readers, Ask(r) \/ Compare(r) \/ Warmed(r)
  PROVE  /\ StateInv' /\ UNCHANGED <<table, token, newest, repeated, worker, roots, known, held, build>>
         /\ pass'.reading = pass.reading
         /\ \/ UNCHANGED graph
            \/ graph'.version = reader[r].version /\ graph'.content = Matches(table)
         /\ \A q \in Readers :
              /\ reader'[q].version \in {reader[q].version, token}
              /\ reader'[q].got = reader[q].got /\ (reader'[q].pc = "done" => reader[q].pc = "done")
<1>0. TableType /\ PoolType /\ CacheType /\ ViewType /\ ReaderType /\ JobsAreAwaited
  BY DEF StateInv
<1>1. UNCHANGED <<table, token, newest, repeated, pool, roots, known, build, building, held, scan, again>>
  BY DEF Ask, Compare, Warmed, db, views, cache
<1>2. /\ reader[r] \in Asker /\ reader[r].version \in Int /\ token \in Int /\ table \in Contents
      /\ graph.version \in Int /\ graph.id \in Nat
  BY <1>0, TableIsContents DEF ReaderType, Asker, TableType, ViewType
<1>3. /\ graph' \in [id : Nat, version : Int, content : Contents]
      /\ \/ UNCHANGED graph
         \/ graph'.version = reader[r].version /\ graph'.content = Matches(table)
  <2>1. CASE UNCHANGED graph
    BY <1>0, <2>1 DEF ViewType
  <2>2. CASE graph' = [id |-> graph.id + 1, version |-> reader[r].version, content |-> Matches(table)]
    BY <1>2, <2>2, MatchesOf
  <2> QED
    BY <2>1, <2>2 DEF Ask, Compare, Warmed, views
<1>4. /\ pass' \in [pc : {"off", "version", "pages", "warming", "end"}, reading : Reading]
      /\ pass'.reading = pass.reading /\ timer' \in BOOLEAN
  <2>1. /\ pass' = pass \/ pass' = [pass EXCEPT !.pc = "version"]
        /\ timer' = timer \/ timer' = FALSE
    BY DEF Ask, Compare, Warmed, cache
  <2> QED
    BY <1>0, <2>1 DEF CacheType
<1>5. PICK n \in Asker : /\ reader' = [reader EXCEPT ![r] = n] /\ n.version \in {reader[r].version, token}
                         /\ n.got = reader[r].got /\ n.pc # "done"
  <2>1. CASE Ask(r)
    <3> DEFINE n == [reader[r] EXCEPT !.pc = "context", !.version = token]
    <3>1. n \in Asker /\ n.version = token /\ n.got = reader[r].got /\ n.pc = "context"
      BY <1>2 DEF Asker, ReaderStates
    <3>2. reader' = [reader EXCEPT ![r] = n]
      BY <2>1 DEF Ask
    <3> QED
      BY <3>1, <3>2
  <2>2. CASE \E v \in Int : Draws(r, v)
    <3>1. PICK v \in Int : Draws(r, v)
      BY <2>2
    <3> DEFINE n == [reader[r] EXCEPT !.pc = "roots", !.drawn = v, !.before = 0]
    <3>2. n \in Asker /\ n.version = reader[r].version /\ n.got = reader[r].got /\ n.pc = "roots"
      BY <1>2 DEF Asker, ReaderStates
    <3>3. reader' = [reader EXCEPT ![r] = n]
      BY <3>1 DEF Draws
    <3> QED
      BY <3>2, <3>3
  <2>3. CASE reader' = [reader EXCEPT ![r] = [@ EXCEPT !.pc = "joined", !.before = graph.id]]
    <3> DEFINE n == [reader[r] EXCEPT !.pc = "joined", !.before = graph.id]
    <3>1. n \in Asker /\ n.version = reader[r].version /\ n.got = reader[r].got /\ n.pc = "joined"
      BY <1>2 DEF Asker, ReaderStates
    <3>2. reader' = [reader EXCEPT ![r] = n]
      BY <2>3
    <3> QED
      BY <3>1, <3>2
  <2> QED
    BY <1>2, <2>1, <2>2, <2>3 DEF Compare, Warmed
<1>6. /\ reader' \in [Readers -> Asker]
      /\ \A q \in Readers :
           /\ reader'[q].version \in {reader[q].version, token}
           /\ reader'[q].got = reader[q].got /\ (reader'[q].pc = "done" => reader[q].pc = "done")
  BY <1>0, <1>5 DEF ReaderType
<1>7. TableType' /\ CacheType' /\ ReaderType'
  BY <1>0, <1>1, <1>4, <1>6 DEF TableType, CacheType, ReaderType
<1>8. PoolType' /\ ViewType' /\ JobsAreAwaited' /\ UNCHANGED worker
  BY <1>0, <1>1, <1>3 DEF PoolType, ViewType, JobsAreAwaited, pool
<1> QED
  BY <1>1, <1>3, <1>4, <1>6, <1>7, <1>8 DEF StateInv

\* A request begins to build under a key it has.
BuildsFor(r, key) ==
  /\ build'[r].key = key /\ build'[r].filled = Stored(key) /\ build'[r].reading = NoReading
  /\ build'[r].groups = Wanted[r] \ DOMAIN Stored(key)
  /\ \A c \in Builders \ {r} : build'[c] = build[c]

\* A request that joins a pass.
Joined(x, builder, version) == [x EXCEPT !.pc = "joining", !.joined = builder, !.version = version]
Joins(x, builder, version) ==
  [x EXCEPT !.pc = "joining", !.joined = builder, !.version = version, !.drawn = -1]

LEMMA JoinsType ==
  ASSUME NEW x \in Asker, NEW b \in Builders, NEW v \in Int
  PROVE  Joins(x, b, v) \in Asker /\ Joins(x, b, v).version = v /\ Joins(x, b, v).pc = "joining"
<1>1. Joined(x, b, v) \in Asker /\ Joined(x, b, v).version = v /\ Joined(x, b, v).pc = "joining"
  BY DEF Joined, Asker, ReaderStates
<1>2. Joins(x, b, v) = [Joined(x, b, v) EXCEPT !.drawn = -1]
  BY DEF Joins, Joined
<1>3. -1 \in Int
  OBVIOUS
<1> QED
  BY <1>1, <1>2, <1>3 DEF Asker

\* A request is answered from the store, joins, or builds.
LEMMA RootsState ==
  ASSUME StateInv, NEW r \in Readers, Roots(r) \/ BuildAgain(r)
  PROVE  /\ StateInv' /\ UNCHANGED <<table, token, newest, repeated, worker, roots, known, held, graph, pass>>
         /\ UNCHANGED build \/ \E key \in {graph.version, reader[r].version} : BuildsFor(r, key)
         /\ \A q \in Readers :
              /\ reader'[q].version \in {reader[q].version, graph.version, -1}
              /\ (reader'[q].pc = "done" => \/ Wanted[q] \subseteq reader'[q].got
                                            \/ reader[q].pc = "done" /\ reader'[q].got = reader[q].got)
<1>0. TableType /\ PoolType /\ CacheType /\ ViewType /\ ReaderType /\ JobsAreAwaited
  BY DEF StateInv
<1>1. UNCHANGED <<table, token, newest, repeated, cache, roots, known, held, graph, scan>>
  BY DEF Roots, BuildAgain, db
<1>2. /\ reader[r] \in Asker /\ reader[r].version \in Int /\ graph.version \in Int /\ r \in Builders
      /\ Wanted[r] \in SUBSET Groups
  BY <1>0 DEF ReaderType, Asker, ViewType, Builders, Groups
<1>3. /\ \/ UNCHANGED <<build, building, pool>>
         \/ \E key \in {graph.version, reader[r].version} : Builds(r, key, Wanted[r])
      /\ \/ \E key \in {graph.version, reader[r].version} :
              /\ Wanted[r] \subseteq DOMAIN Stored(key)
              /\ reader' = [reader EXCEPT ![r] = Request("done", DOMAIN Stored(key))]
         \/ /\ graph.version \in DOMAIN building
            /\ reader' = [reader EXCEPT ![r] = [@ EXCEPT !.pc = "joining", !.joined = building[graph.version],
                                                         !.version = graph.version, !.drawn = -1]]
         \/ reader' = [reader EXCEPT ![r] = Request("built", {})]
  BY DEF Roots, BuildAgain
<1>4. PICK n \in Asker : /\ reader' = [reader EXCEPT ![r] = n]
                         /\ n.version \in {reader[r].version, graph.version, -1}
                         /\ n.pc = "done" => Wanted[r] \subseteq n.got
  <2>1. CASE \E key \in {graph.version, reader[r].version} :
               /\ Wanted[r] \subseteq DOMAIN Stored(key)
               /\ reader' = [reader EXCEPT ![r] = Request("done", DOMAIN Stored(key))]
    <3>1. PICK key \in {graph.version, reader[r].version} :
               /\ Wanted[r] \subseteq DOMAIN Stored(key)
               /\ reader' = [reader EXCEPT ![r] = Request("done", DOMAIN Stored(key))]
      BY <2>1
    <3>2. DOMAIN Stored(key) \in SUBSET Groups
      BY <1>0, StoredType
    <3>3. Request("done", DOMAIN Stored(key)) \in Asker
      BY <3>2, Literals DEF ReaderStates
    <3>4. /\ Request("done", DOMAIN Stored(key)).version = -1
          /\ Request("done", DOMAIN Stored(key)).got = DOMAIN Stored(key)
      BY Literals
    <3> QED
      BY <3>1, <3>3, <3>4
  <2>2. CASE /\ graph.version \in DOMAIN building
             /\ reader' = [reader EXCEPT ![r] = [@ EXCEPT !.pc = "joining", !.joined = building[graph.version],
                                                          !.version = graph.version, !.drawn = -1]]
    <3> DEFINE n == [reader[r] EXCEPT !.pc = "joining", !.joined = building[graph.version],
                                      !.version = graph.version, !.drawn = -1]
    <3>1. building[graph.version] \in Builders
      BY <1>0, <2>2 DEF ViewType
    <3>2. n \in Asker /\ n.version = graph.version /\ n.pc = "joining"
      <4>1. reader[r] \in Asker /\ graph.version \in Int
        BY <1>0, <1>2 DEF ViewType, ReaderType
      <4>2. Joins(reader[r], building[graph.version], graph.version) = n
        BY DEF Joins
      <4> HIDE DEF n
      <4> QED
        BY <3>1, <4>1, <4>2, JoinsType
    <3>3. reader' = [reader EXCEPT ![r] = n]
      BY <2>2
    <3> QED
      BY <3>2, <3>3
  <2>3. CASE reader' = [reader EXCEPT ![r] = Request("built", {})]
    <3>1. Request("built", {}) \in Asker /\ Request("built", {}).version = -1 /\ Request("built", {}).pc = "built"
      BY Literals DEF ReaderStates
    <3> QED
      BY <2>3, <3>1
  <2> QED
    BY <1>3, <2>1, <2>2, <2>3
<1>5. /\ reader' \in [Readers -> Asker]
      /\ \A q \in Readers :
           /\ reader'[q].version \in {reader[q].version, graph.version, -1}
           /\ (reader'[q].pc = "done" => \/ Wanted[q] \subseteq reader'[q].got
                                         \/ reader[q].pc = "done" /\ reader'[q].got = reader[q].got)
  BY <1>0, <1>4 DEF ReaderType
<1>6. TableType' /\ CacheType' /\ ReaderType' /\ UNCHANGED pass
  BY <1>0, <1>1, <1>5 DEF TableType, CacheType, ReaderType, cache
<1>7. CASE UNCHANGED <<build, building, pool>>
  <2>1. PoolType' /\ ViewType' /\ JobsAreAwaited' /\ UNCHANGED worker
    BY <1>0, <1>1, <1>7 DEF PoolType, ViewType, JobsAreAwaited, pool
  <2> QED
    BY <1>1, <1>5, <1>6, <1>7, <2>1 DEF StateInv
<1>8. CASE \E key \in {graph.version, reader[r].version} : Builds(r, key, Wanted[r])
  <2>1. PICK key \in {graph.version, reader[r].version} : Builds(r, key, Wanted[r])
    BY <1>8
  <2>2. /\ build' \in [Builders -> Build] /\ PoolType'
        /\ waiting' = waiting \cup {r} /\ build'[r].pc = "job"
        /\ \A l \in Lanes : \A i \in 1..Len(posted'[l]) : Lane(posted'[l][i]) = l
        /\ BuildsFor(r, key)
        /\ DOMAIN building' \subseteq Int /\ (\A v \in DOMAIN building' : building'[v] \in Builders)
    BY <1>2, <2>1, BuildsKeeps DEF BuildsFor
  <2>3. JobsAreAwaited'
    BY <1>0, <1>1, <1>2, <2>2 DEF JobsAreAwaited, BuildsFor
  <2>4. ViewType'
    BY <1>0, <1>1, <2>2 DEF ViewType
  <2>5. worker' = worker
    BY <2>1 DEF Builds, Posts
  <2> QED
    BY <1>1, <1>5, <1>6, <2>2, <2>3, <2>4, <2>5 DEF StateInv
<1> QED
  BY <1>3, <1>7, <1>8

LEMMA InitState == Init => StateInv
<1> SUFFICES ASSUME Init PROVE StateInv
  OBVIOUS
<1>1. TableType
  <2>1. table = [p \in Places |-> 0] /\ token = 0 /\ newest = 0 /\ repeated = {}
    BY DEF Init
  <2> QED
    BY <2>1 DEF TableType
<1>2. PoolType
  <2>1. <<>> \in Seq(Jobs)
    OBVIOUS
  <2> QED
    BY <2>1, Literals DEF Init, PoolType
<1>3. CacheType
  BY Literals DEF Init, CacheType
<1>4. ViewType
  <2>1. NoGraph \in [id : Nat, version : Int, content : Contents]
    BY Literals DEF NoGraph
  <2>2. /\ graph = NoGraph /\ held = [x \in {"worker", "here"} |-> NoHeld]
        /\ build = [b \in Builders |-> NoBuild] /\ known = {}
        /\ DOMAIN roots = {} /\ DOMAIN building = {}
    BY DEF Init
  <2> QED
    BY <2>1, <2>2, Literals DEF ViewType
<1>5. ReaderType
  <2>1. Request("idle", {}) \in Asker
    BY Literals DEF ReaderStates
  <2> QED
    BY <2>1 DEF Init, ReaderType
<1>6. JobsAreAwaited
  <2>1. waiting = {} /\ \A s \in Scans : scan[s] # "job"
    BY DEF Init
  <2>2. \A b \in Builders : build[b].pc # "job"
    BY Literals DEF Init
  <2>3. \A l \in Lanes : Len(posted[l]) = 0
    BY DEF Init
  <2> QED
    BY <2>1, <2>2, <2>3 DEF JobsAreAwaited
<1> QED
  BY <1>1, <1>2, <1>3, <1>4, <1>5, <1>6 DEF StateInv

-----------------------------------------------------------------------------
(* What is kept under the current version is current.                      *)

\* Whatever is read next is right so far, and a reading that ended is the table.
LEMMA ReadingIsExact ==
  ASSUME ExactInv
  PROVE  /\ ExactSoFar(NoReading) /\ ExactSoFar(Begins)
         /\ \A x \in {"worker", "here"} : ExactSoFar(Projects(x))
         /\ \A r \in Reading : ExactSoFar(r) => /\ ExactSoFar(Reads(r))
                                                /\ IsRead(r) \/ IsProjected(r) => Exact(r.version, r.content)
<1>0. /\ TableType /\ ViewType /\ KeptAreExact /\ token \in 0..newest /\ newest \in Nat /\ table \in Contents
      /\ Pages \in Nat
  BY TableIsContents, CatalogueConstants DEF ExactInv, StateInv, TableType
<1>1. ExactSoFar(NoReading)
  BY <1>0, Literals DEF ExactSoFar, Current, Version
<1>2. ExactSoFar(Begins)
  <2>1. Begins.version = token /\ Begins.page = 1
    BY DEF Begins
  <2>2. \A p \in PageNumbers : ~(p < 1)
    BY DEF PageNumbers
  <2> QED
    BY <1>0, <2>1, <2>2 DEF ExactSoFar, Current, Version
<1>3. ASSUME NEW x \in {"worker", "here"} PROVE ExactSoFar(Projects(x))
  <2>1. CASE held[x].version = token
    <3>1. Projects(x).version = token /\ Projects(x).content = held[x].content
      BY <2>1 DEF Projects
    <3>2. Exact(held[x].version, held[x].content)
      BY <1>0 DEF KeptAreExact
    <3> QED
      BY <1>0, <2>1, <3>1, <3>2 DEF ExactSoFar, Exact, Current, Version, SameMatches, PageNumbers
  <2>2. CASE held[x].version # token
    BY <1>2, <2>2 DEF Projects
  <2> QED
    BY <2>1, <2>2
<1>4. ASSUME NEW r \in Reading, ExactSoFar(r)
      PROVE  ExactSoFar(Reads(r)) /\ (IsRead(r) \/ IsProjected(r) => Exact(r.version, r.content))
  <2>1. r.content \in Contents /\ r.page \in Nat
    BY DEF Reading
  <2>2. /\ Reads(r).version = r.version /\ Reads(r).page = r.page + 1
        /\ Reads(r).content = [r.content EXCEPT ![r.page] = table[r.page]]
    BY DEF Reads, Reading
  <2>3. \A p \in PageNumbers : Reads(r).content[p] = IF p = r.page THEN table[p] ELSE r.content[p]
    BY <2>1, <2>2, CatalogueConstants DEF Contents, PageNumbers, Places, Shelf
  <2>4. \A p \in PageNumbers : p < r.page + 1 => p < r.page \/ p = r.page
    BY <2>1 DEF PageNumbers
  <2>5. ExactSoFar(Reads(r))
    BY <1>4, <2>2, <2>3, <2>4 DEF ExactSoFar, Current
  <2>6. ASSUME IsRead(r) \/ IsProjected(r), Current(r.version) PROVE SameMatches(r.content)
    <3>1. \A p \in PageNumbers : p < r.page
      BY <1>0, <2>1, <2>6 DEF IsRead, IsProjected, Shelf, PageNumbers
    <3>2. \A p \in PageNumbers : r.content[p] = table[p]
      BY <1>4, <2>6, <3>1 DEF ExactSoFar
    <3> QED
      BY <3>2 DEF SameMatches, PageNumbers
  <2> QED
    BY <1>4, <2>5, <2>6 DEF ExactSoFar, Exact
<1> QED
  BY <1>1, <1>2, <1>3, <1>4

\* What is stored under a version, or nothing.
LEMMA StoredIsExact ==
  ASSUME ExactInv, NEW key \in Version PROVE ExactAnswers(key, Stored(key))
BY Literals DEF ExactInv, KeptAreExact, ExactAnswers, Stored

\* An answer that is kept describes the version its key names.
LEMMA FilledIsExact ==
  ASSUME ExactInv, NEW b \in Builders, NEW answer \in Reading, ExactSoFar(answer), IsProjected(answer),
         answer.version = build[b].key
  PROVE  ExactAnswers(build[b].key, Filled(b, answer))
<1>1. Exact(answer.version, answer.content)
  BY ReadingIsExact
<1>2. ExactAnswers(build[b].key, build[b].filled)
  BY DEF ExactInv, KeptAreExact
<1> QED
  BY <1>1, <1>2 DEF ExactAnswers, Exact, Filled

\* Nothing is held under a version the table has not had, and of one it has again
\* nothing is claimed.
LEMMA ScanWritesExact ==
  ASSUME ExactInv, NEW s \in Scans, ScanWrites(s) PROVE ExactInv'
<1>1. StateInv' /\ ClockGoes /\ UNCHANGED <<worker, pass, views, reader>>
  BY ScanWritesState DEF ExactInv
<1>2. newest \in Nat /\ ReadingsAreExact /\ KeptAreExact /\ ReadersAreBehind
  BY DEF ExactInv, StateInv, TableType
<1>3. \A v \in Version : v \in -1..newest' /\ ~(v = token' /\ token' \notin repeated')
  BY <1>1, <1>2 DEF Version, ClockGoes
<1>4. ReadingsAreExact'
  BY <1>1, <1>2, <1>3 DEF ReadingsAreExact, ExactSoFar, Current, Version, views
<1>5. KeptAreExact'
  BY <1>1, <1>2, <1>3 DEF KeptAreExact, Exact, ExactAnswers, Current, Version, views
<1>6. ReadersAreBehind'
  BY <1>1, <1>2, <1>3 DEF ReadersAreBehind, Version
<1> QED
  BY <1>1, <1>4, <1>5, <1>6 DEF ExactInv

\* Steps that leave the matches and what is kept alone, but for what becomes empty.
LEMMA QuietExact ==
  ASSUME ExactInv, StateInv', MatchesStay, UNCHANGED <<token, newest, repeated, graph, roots>>,
         pass'.reading \in {pass.reading, Begins, Reads(pass.reading), NoReading},
         worker' \in {worker, NoReading, Projects("worker"), Reads(worker)},
         \A x \in {"worker", "here"} : held'[x] \in {held[x], NoHeld},
         \A b \in Builders : /\ build'[b].key = build[b].key /\ build'[b].filled = build[b].filled
                             /\ build'[b].reading \in {build[b].reading, Projects("here"), Reads(build[b].reading)},
         \A r \in Readers : reader'[r].version = reader[r].version
  PROVE  ExactInv'
<1>0. /\ token \in 0..newest /\ newest \in Nat /\ ReadingsAreExact /\ KeptAreExact /\ ReadersAreBehind
      /\ PoolType /\ CacheType /\ ViewType
  BY DEF ExactInv, StateInv, TableType
<1>1. /\ pass.reading \in Reading /\ worker \in Reading /\ \A b \in Builders : build[b].reading \in Reading
  BY <1>0 DEF PoolType, CacheType, ViewType, Build
<1>2. /\ ExactSoFar(NoReading) /\ ExactSoFar(Begins) /\ ExactSoFar(Projects("worker")) /\ ExactSoFar(Projects("here"))
      /\ ExactSoFar(Reads(pass.reading)) /\ ExactSoFar(Reads(worker))
      /\ \A b \in Builders : ExactSoFar(Reads(build[b].reading))
  BY <1>0, <1>1, ReadingIsExact DEF ReadingsAreExact
<1> DEFINE good == {r \in {pass.reading, worker, NoReading, Begins, Projects("worker"), Projects("here"),
                           Reads(pass.reading), Reads(worker)}
                      \cup {build[b].reading : b \in Builders} \cup {Reads(build[b].reading) : b \in Builders} :
                    ExactSoFar(r)}
<1>3. pass'.reading \in good /\ worker' \in good /\ \A b \in Builders : build'[b].reading \in good
  BY <1>0, <1>2 DEF ReadingsAreExact
<1>4. \A r \in good : /\ r.version \in -1..newest
                      /\ r.version = token /\ token \notin repeated => \A p \in PageNumbers : p < r.page => r.content[p] = table[p]
  BY DEF ExactSoFar, Version, Current
<1> HIDE DEF good
<1>5. ReadingsAreExact'
  BY <1>3, <1>4 DEF ReadingsAreExact, ExactSoFar, Version, Current, MatchesStay
<1>6. \A x \in {"worker", "here"} : Exact(held'[x].version, held'[x].content)
  BY <1>0, Literals DEF KeptAreExact, Exact, Version, Current
<1>9. \A content : SameMatches(content) => SameMatches(content)'
  BY DEF SameMatches, MatchesStay, PageNumbers
<1>7. KeptAreExact'
  BY <1>0, <1>6, <1>9 DEF KeptAreExact, Exact, ExactAnswers, Version, Current, SameMatches
<1>8. ReadersAreBehind'
  BY <1>0 DEF ReadersAreBehind, Version
<1> QED
  BY <1>5, <1>7, <1>8 DEF ExactInv

LEMMA PassStoresExact ==
  ASSUME ExactInv, PassStores PROVE ExactInv'
<1>0. /\ StateInv /\ token \in 0..newest /\ newest \in Nat /\ ReadingsAreExact /\ KeptAreExact /\ ReadersAreBehind /\ CacheType
  BY DEF ExactInv, StateInv, TableType
<1> DEFINE read == pass.reading
<1>1. /\ StateInv' /\ UNCHANGED <<table, token, newest, repeated, worker, roots, known, held, reader>>
      /\ IsRead(read) /\ pass'.reading = read
      /\ graph'.version = read.version /\ graph'.content = read.content
      /\ \/ UNCHANGED build
         \/ /\ build'["warm"].key = read.version /\ build'["warm"].filled = Stored(read.version)
            /\ build'["warm"].reading = NoReading
            /\ \A c \in Builders \ {"warm"} : build'[c] = build[c]
  BY <1>0, PassStoresState
<1>2. Exact(read.version, read.content) /\ ExactSoFar(NoReading)
  BY <1>0, <1>1, ReadingIsExact DEF ReadingsAreExact, CacheType
<1>3. read.version \in Version /\ ExactAnswers(read.version, Stored(read.version))
  BY <1>2, StoredIsExact DEF Exact
<1> HIDE DEF read
<1>4. \A b \in Builders : ExactSoFar(build'[b].reading) /\ ExactAnswers(build'[b].key, build'[b].filled)
  BY <1>0, <1>1, <1>2, <1>3 DEF ReadingsAreExact, KeptAreExact
<1>5. ReadingsAreExact'
  BY <1>0, <1>1, <1>4 DEF ReadingsAreExact, ExactSoFar, Version, Current, read
<1>6. KeptAreExact'
  BY <1>0, <1>1, <1>2, <1>4 DEF KeptAreExact, Exact, ExactAnswers, Version, Current, SameMatches
<1>7. ReadersAreBehind'
  BY <1>0, <1>1 DEF ReadersAreBehind, Version
<1> QED
  BY <1>1, <1>5, <1>6, <1>7 DEF ExactInv

LEMMA AnswersExact ==
  ASSUME ExactInv, WorkerAnswers \/ \E b \in Builders : HereAnswers(b) PROVE ExactInv'
<1>0. /\ StateInv /\ token \in 0..newest /\ newest \in Nat /\ ReadingsAreExact /\ KeptAreExact /\ ReadersAreBehind
      /\ PoolType /\ ViewType /\ ReaderType
  BY DEF ExactInv, StateInv, TableType
<1>1. StateInv' /\ UNCHANGED <<table, token, newest, repeated, graph>> /\ worker' \in {worker, NoReading}
  BY <1>0, AnswersState
<1>2. PICK answer \in {worker} \cup {build[b].reading : b \in Builders}, x \in {"worker", "here"} :
        /\ IsProjected(answer) /\ answer \in Reading
        /\ held' = [held EXCEPT ![x] = [version |-> answer.version, content |-> Matches(answer.content)]]
        /\ \/ \E b \in Builders : Delivers(b, answer)
           \/ UNCHANGED <<roots, build, reader, pass>>
  BY <1>0, AnswersState
<1>3. ExactSoFar(answer)
  BY <1>0 DEF ReadingsAreExact
<1>4. Exact(answer.version, answer.content) /\ ExactSoFar(NoReading)
  BY <1>2, <1>3, ReadingIsExact
<1>10. Exact(answer.version, Matches(answer.content))
  BY <1>2, <1>4, MatchesSame DEF Exact, Reading
<1>5. \A y \in {"worker", "here"} : Exact(held'[y].version, held'[y].content)
  BY <1>0, <1>2, <1>10 DEF ViewType, KeptAreExact
<1>6. /\ \A v \in DOMAIN roots' : ExactAnswers(v, roots'[v])
      /\ \A c \in Builders : ExactSoFar(build'[c].reading) /\ ExactAnswers(build'[c].key, build'[c].filled)
      /\ \A r \in Readers : reader'[r].version \in Version
      /\ pass'.reading = pass.reading
  <2>1. CASE UNCHANGED <<roots, build, reader, pass>>
    BY <1>0, <2>1 DEF ReadingsAreExact, KeptAreExact, ReadersAreBehind
  <2>2. CASE \E b \in Builders : Delivers(b, answer)
    <3>1. PICK b \in Builders : Delivers(b, answer)
      BY <2>2
    <3>2. /\ \/ UNCHANGED <<roots, known>>
             \/ answer.version = build[b].key /\ roots' = Put(roots, build[b].key, Filled(b, answer))
          /\ build'[b] = NoBuild /\ \A c \in Builders \ {b} : build'[c] = build[c]
          /\ reader' = [r \in Readers |-> Resumes(r, b, Filled(b, answer))]
          /\ pass'.reading = pass.reading
      BY <1>0, <1>2, <3>1, AnsweredKeeps DEF Delivers
    <3>3. \A v \in DOMAIN roots' : ExactAnswers(v, roots'[v])
      <4>1. CASE UNCHANGED roots
        BY <1>0, <4>1 DEF KeptAreExact
      <4>2. CASE answer.version = build[b].key /\ roots' = Put(roots, build[b].key, Filled(b, answer))
        <5>1. ExactAnswers(build[b].key, Filled(b, answer))
          BY <1>2, <1>3, <4>2, FilledIsExact
        <5> DEFINE k == build[b].key
                   f == Filled(b, answer)
        <5> HIDE DEF k, f
        <5>2. roots' = Put(roots, k, f)
          BY <4>2 DEF k, f
        <5>3. /\ DOMAIN roots' = DOMAIN roots \cup {k} /\ roots'[k] = f
              /\ \A j \in DOMAIN roots : j # k => roots'[j] = roots[j]
          <6>1. roots' = [j \in DOMAIN roots \cup {k} |-> IF j = k THEN f ELSE roots[j]]
            BY <5>2 DEF Put
          <6> QED
            BY <6>1
        <5>4. \A v \in DOMAIN roots : ExactAnswers(v, roots[v])
          BY <1>0 DEF KeptAreExact
        <5>5. ExactAnswers(k, f)
          BY <5>1 DEF k, f
        <5> QED
          BY <5>3, <5>4, <5>5
      <4> QED
        BY <3>2, <4>1, <4>2
    <3>4. ExactAnswers(NoBuild.key, NoBuild.filled) /\ ExactSoFar(NoBuild.reading)
      BY <1>0, <1>4, Literals DEF ExactAnswers, Version, Current
    <3>5. \A c \in Builders : ExactSoFar(build'[c].reading) /\ ExactAnswers(build'[c].key, build'[c].filled)
      BY <1>0, <3>2, <3>4 DEF ReadingsAreExact, KeptAreExact
    <3>6. ASSUME NEW r \in Readers PROVE reader'[r].version \in Version
      <4>1. reader[r] \in Asker /\ reader[r].version \in Version
        BY <1>0 DEF ReaderType, ReadersAreBehind
      <4>2. [reader[r] EXCEPT !.pc = "again"].version = reader[r].version
        BY <4>1 DEF Asker
      <4>3. \A got : Request("done", got).version = -1
        BY Literals
      <4>4. -1 \in Version
        BY <1>0 DEF Version
      <4>5. reader'[r] = Resumes(r, b, Filled(b, answer))
        BY <3>2
      <4> HIDE DEF Filled
      <4> QED
        BY <4>1, <4>2, <4>3, <4>4, <4>5 DEF Resumes
    <3> QED
      BY <3>2, <3>3, <3>5, <3>6
  <2> QED
    BY <1>2, <2>1, <2>2
<1>7. ReadingsAreExact'
  BY <1>0, <1>1, <1>4, <1>6 DEF ReadingsAreExact, ExactSoFar, Version, Current
<1>8. KeptAreExact'
  BY <1>0, <1>1, <1>5, <1>6 DEF KeptAreExact, Exact, ExactAnswers, Version, Current, SameMatches
<1>9. ReadersAreBehind'
  BY <1>1, <1>6 DEF ReadersAreBehind, Version
<1> QED
  BY <1>1, <1>7, <1>8, <1>9 DEF ExactInv

\* A request that reads the whole table reads it as it is now.
LEMMA RequestsExact ==
  ASSUME ExactInv, NEW r \in Readers, Ask(r) \/ ReaderStep(r) PROVE ExactInv'
<1>0. /\ StateInv /\ token \in 0..newest /\ newest \in Nat /\ ReadingsAreExact /\ KeptAreExact /\ ReadersAreBehind
  BY DEF ExactInv, StateInv, TableType
<1>1. token \in Version /\ -1 \in Version /\ graph.version \in Version /\ reader[r].version \in Version
  BY <1>0 DEF Version, KeptAreExact, Exact, ReadersAreBehind
<1>2. CASE Ask(r) \/ Compare(r) \/ Warmed(r)
  <2>1. /\ StateInv' /\ UNCHANGED <<table, token, newest, repeated, worker, roots, known, held, build>>
        /\ pass'.reading = pass.reading
        /\ \/ UNCHANGED graph
           \/ graph'.version = reader[r].version /\ graph'.content = Matches(table)
        /\ \A q \in Readers : reader'[q].version \in {reader[q].version, token}
    BY <1>0, <1>2, DrawsState
  <2>2. ReadingsAreExact'
    BY <1>0, <2>1 DEF ReadingsAreExact, ExactSoFar, Version, Current
  <2>3. Exact(graph'.version, graph'.content)
    <3>1. table \in Contents /\ SameMatches(table)
      BY <1>0, TableIsContents DEF StateInv, SameMatches
    <3> QED
      BY <1>0, <1>1, <2>1, <3>1, MatchesSame DEF KeptAreExact, Exact
  <2>4. KeptAreExact'
    BY <1>0, <2>1, <2>3 DEF KeptAreExact, Exact, ExactAnswers, Version, Current, SameMatches
  <2>5. ReadersAreBehind'
    BY <1>0, <1>1, <2>1 DEF ReadersAreBehind, Version
  <2> QED
    BY <2>1, <2>2, <2>4, <2>5 DEF ExactInv
<1>3. CASE Roots(r) \/ BuildAgain(r)
  <2>1. /\ StateInv' /\ UNCHANGED <<table, token, newest, repeated, worker, roots, known, held, graph, pass>>
        /\ UNCHANGED build \/ \E key \in {graph.version, reader[r].version} : BuildsFor(r, key)
        /\ \A q \in Readers : reader'[q].version \in {reader[q].version, graph.version, -1}
    BY <1>0, <1>3, RootsState
  <2>2. \A c \in Builders : ExactSoFar(build'[c].reading) /\ ExactAnswers(build'[c].key, build'[c].filled)
    <3>1. CASE UNCHANGED build
      BY <1>0, <3>1 DEF ReadingsAreExact, KeptAreExact
    <3>2. CASE \E key \in {graph.version, reader[r].version} : BuildsFor(r, key)
      <4>1. PICK key \in {graph.version, reader[r].version} : BuildsFor(r, key)
        BY <3>2
      <4>2. ExactAnswers(key, Stored(key)) /\ ExactSoFar(NoReading)
        BY <1>1, StoredIsExact, ReadingIsExact
      <4> QED
        BY <1>0, <4>1, <4>2 DEF BuildsFor, ReadingsAreExact, KeptAreExact
    <3> QED
      BY <2>1, <3>1, <3>2
  <2>3. ReadingsAreExact'
    BY <1>0, <2>1, <2>2 DEF ReadingsAreExact, ExactSoFar, Version, Current
  <2>4. KeptAreExact'
    BY <1>0, <2>1, <2>2 DEF KeptAreExact, Exact, ExactAnswers, Version, Current, SameMatches
  <2>5. ReadersAreBehind'
    BY <1>0, <1>1, <2>1 DEF ReadersAreBehind, Version
  <2> QED
    BY <2>1, <2>3, <2>4, <2>5 DEF ExactInv
<1> QED
  BY <1>2, <1>3 DEF ReaderStep

LEMMA ExactStep ==
  ASSUME ExactInv, [Next]_vars PROVE ExactInv'
<1>0. StateInv
  BY DEF ExactInv
<1>1. CASE \E s \in Scans : ScanWrites(s)
  BY <1>1, ScanWritesExact
<1>2. CASE \E s \in Scans : ScanStarts(s) \/ ScanAnswers(s)
  <2>1. StateInv' /\ MatchesStay /\ UNCHANGED <<token, newest, repeated, worker, pass, views, reader>>
    BY <1>0, <1>2, ScanState
  <2> QED
    BY <2>1, QuietExact DEF views
<1>3. CASE \/ \E l \in Lanes : ThreadFails(l) \/ ThreadExits(l)
           \/ \E j \in Scans \cup Builders : JobTimesOut(j)
  <2>1. /\ StateInv' /\ UNCHANGED <<table, token, newest, repeated, pass, graph, roots, reader>>
        /\ \A b \in Builders : /\ build'[b].key = build[b].key /\ build'[b].filled = build[b].filled
                               /\ build'[b].reading = build[b].reading
        /\ worker' \in {worker, NoReading}
        /\ \A x \in {"worker", "here"} : held'[x] \in {held[x], NoHeld}
    BY <1>0, <1>3, FaultState DEF Jobs
  <2> QED
    BY <2>1, QuietExact DEF MatchesStay
<1>4. CASE TimerFires \/ PassReadsVersion \/ PassReadsPage \/ PassEnds
  <2>1. /\ StateInv' /\ UNCHANGED <<table, token, newest, repeated, worker, views>>
        /\ \A r \in Readers : reader'[r].version = reader[r].version
        /\ pass'.reading \in {pass.reading, Begins, Reads(pass.reading), NoReading}
    BY <1>0, <1>4, PassState
  <2> QED
    BY <2>1, QuietExact DEF views, MatchesStay
<1>5. CASE PassStores
  BY <1>5, PassStoresExact
<1>6. CASE WorkerReads \/ \E b \in Builders : HereReads(b)
  <2>1. /\ StateInv' /\ UNCHANGED <<table, token, newest, repeated, pass, graph, roots, held, reader>>
        /\ worker' \in {worker, Projects("worker"), Reads(worker)}
        /\ \A b \in Builders :
             /\ build'[b].reading \in {build[b].reading, Projects("here"), Reads(build[b].reading)}
             /\ build'[b].key = build[b].key /\ build'[b].filled = build[b].filled
    BY <1>0, <1>6, ReadsState
  <2> QED
    BY <2>1, QuietExact DEF MatchesStay
<1>7. CASE WorkerAnswers \/ \E b \in Builders : HereAnswers(b)
  BY <1>7, AnswersExact
<1>8. CASE \E r \in Readers : Ask(r) \/ ReaderStep(r)
  BY <1>8, RequestsExact
<1>9. CASE UNCHANGED vars
  <2>1. UNCHANGED <<table, token, newest, repeated, worker, pass, views, reader, graph, roots, held, build>>
    BY <1>9 DEF vars, db, pool, cache, views
  <2>2. StateInv'
    BY <1>0, <1>9 DEF StateInv, TableType, PoolType, CacheType, ViewType, ReaderType, JobsAreAwaited, Version,
                      vars, db, pool, cache, views
  <2> QED
    BY <2>1, <2>2, QuietExact DEF MatchesStay
<1> QED
  BY <1>1, <1>2, <1>3, <1>4, <1>5, <1>6, <1>7, <1>8, <1>9 DEF Next, Progress

LEMMA InitExact == Init => ExactInv
<1> SUFFICES ASSUME Init PROVE ExactInv
  OBVIOUS
<1>1. StateInv
  BY InitState
<1>2. /\ token = 0 /\ newest = 0 /\ pass.reading = NoReading /\ worker = NoReading /\ graph = NoGraph
      /\ held = [x \in {"worker", "here"} |-> NoHeld] /\ build = [b \in Builders |-> NoBuild]
      /\ DOMAIN roots = {} /\ reader = [r \in Readers |-> Request("idle", {})]
  BY DEF Init
<1>3. -1 \in Version /\ ~Current(-1) /\ NoGraph.version = -1
  BY <1>2 DEF Version, Current, NoGraph
<1>4. ReadingsAreExact
  BY <1>2, <1>3, Literals DEF ReadingsAreExact, ExactSoFar
<1>5. KeptAreExact
  BY <1>2, <1>3, Literals DEF KeptAreExact, Exact, ExactAnswers
<1>6. ReadersAreBehind
  BY <1>2, <1>3, Literals DEF ReadersAreBehind
<1> QED
  BY <1>1, <1>4, <1>5, <1>6 DEF ExactInv

\* Always, whatever the catalogue, the scans, the requests and the faults: the state has
\* its shape, a job of the pool is waited for exactly while its caller waits, and no
\* graph is kept under a version the table has not had.
THEOREM TypeCorrect == Spec => []TypeOK
<1>1. ExactInv => TypeOK
  <2> SUFFICES ASSUME ExactInv PROVE TypeOK
    OBVIOUS
  <2>0. TableType /\ PoolType /\ CacheType /\ ViewType /\ ReaderType /\ JobsAreAwaited /\ KeptAreExact
    BY DEF ExactInv, StateInv
  <2>1. graph.content \in Contents /\ graph.version \in -1..newest /\ token \in 0..newest /\ repeated \subseteq 0..newest
    BY <2>0 DEF TableType, ViewType, KeptAreExact, Exact, Version
  <2>2. \A v \in DOMAIN roots : \A g \in DOMAIN roots[v] : g \in Groups /\ roots[v][g] \in Contents
    <3> SUFFICES ASSUME NEW v \in DOMAIN roots, NEW g \in DOMAIN roots[v]
                 PROVE  g \in Groups /\ roots[v][g] \in Contents
      OBVIOUS
    <3>1. PICK G \in SUBSET Groups : roots[v] \in [G -> Contents]
      BY <2>0, AnswersAre DEF ViewType
    <3> QED
      BY <3>1
  <2>3. \A r \in Readers : reader[r].pc \in ReaderStates
    BY <2>0 DEF ReaderType, Asker
  <2>4. \A b \in Builders : build[b].pc \in {"off", "job", "here"}
    BY <2>0 DEF ViewType, Build
  <2> QED
    BY <2>0, <2>1, <2>2, <2>3, <2>4 DEF TypeOK, PoolType, CacheType, ViewType, JobsAreAwaited, ReaderStates
<1> QED
  BY <1>1, InitExact, ExactStep, PTL DEF Spec

\* However many writes go on while the table is read, whatever threads die or time out,
\* and whoever shares whose projection: the graph and every answer kept under the version
\* the table has now was made from the matches it has now, unless a write has brought
\* that version back.
THEOREM KeptStaysExact == Spec => []KeptIsExact
<1>1. ExactInv => KeptIsExact
  BY DEF ExactInv, KeptAreExact, Exact, ExactAnswers, Current, KeptIsExact, GraphIsExact, RootsAreExact
<1> QED
  BY <1>1, InitExact, ExactStep, PTL DEF Spec

-----------------------------------------------------------------------------
(* Every request is answered for all it asked about.                       *)

\* Steps that begin no build and end no request.
LEMMA QuietWhole ==
  ASSUME WholeInv, StateInv',
         \A b \in Builders : /\ build'[b].filled = build[b].filled /\ build'[b].groups = build[b].groups
                             /\ build'[b].pc # "off" => build[b].pc # "off",
         \A r \in Readers : reader'[r].got = reader[r].got /\ (reader'[r].pc = "done" => reader[r].pc = "done")
  PROVE  WholeInv'
<1>0. BuildsAreWhole /\ AnswersAreComplete
  BY DEF WholeInv
<1>1. BuildsAreWhole'
  BY <1>0 DEF BuildsAreWhole, Builders
<1>2. AnswersAreComplete'
  BY <1>0 DEF AnswersAreComplete
<1> QED
  BY <1>1, <1>2 DEF WholeInv

\* Whoever made the answer has all it asked for; whoever joined goes on with it only if
\* it is enough.
LEMMA AnswersWhole ==
  ASSUME WholeInv, WorkerAnswers \/ \E b \in Builders : HereAnswers(b) PROVE WholeInv'
<1>0. StateInv /\ ViewType /\ ReaderType /\ BuildsAreWhole /\ AnswersAreComplete
  BY DEF WholeInv, StateInv
<1>1. StateInv'
  BY <1>0, AnswersState
<1>2. PICK answer \in {worker} \cup {build[b].reading : b \in Builders}, x \in {"worker", "here"} :
        /\ IsProjected(answer) /\ answer \in Reading
        /\ held' = [held EXCEPT ![x] = [version |-> answer.version, content |-> Matches(answer.content)]]
        /\ \/ \E b \in Builders : Delivers(b, answer)
           \/ UNCHANGED <<roots, build, reader, pass>>
  BY <1>0, AnswersState
<1>3. CASE UNCHANGED <<roots, build, reader, pass>>
  BY <1>1, <1>3, QuietWhole
<1>4. CASE \E b \in Builders : Delivers(b, answer)
  <2>1. PICK b \in Builders : Delivers(b, answer)
    BY <1>4
  <2>2. /\ build'[b] = NoBuild /\ \A c \in Builders \ {b} : build'[c] = build[c]
        /\ reader' = [r \in Readers |-> Resumes(r, b, Filled(b, answer))] /\ build[b].pc # "off"
    BY <1>0, <1>2, <2>1, AnsweredKeeps DEF Delivers
  <2>3. DOMAIN Filled(b, answer) = DOMAIN build[b].filled \cup build[b].groups
    BY <1>0, <1>2, FilledType
  <2>4. BuildsAreWhole'
    BY <1>0, <2>2, Literals DEF BuildsAreWhole, Builders
  <2>5. ASSUME NEW r \in Readers, reader'[r].pc = "done" PROVE Wanted[r] \subseteq reader'[r].got
    <3> DEFINE f == Filled(b, answer)
    <3>1. reader'[r] = Resumes(r, b, f) /\ (r = b => Wanted[r] \subseteq DOMAIN f)
      BY <1>0, <2>2, <2>3 DEF BuildsAreWhole
    <3>2. Request("done", DOMAIN f).got = DOMAIN f
      BY Literals
    <3> HIDE DEF f
    <3>3. reader[r] \in Asker
      BY <1>0 DEF ReaderType
    <3>4. [reader[r] EXCEPT !.pc = "again"].pc = "again"
      BY <3>3 DEF Asker
    <3>5. \/ reader'[r] = Request("done", DOMAIN f) /\ Wanted[r] \subseteq DOMAIN f
          \/ reader'[r] = [reader[r] EXCEPT !.pc = "again"]
          \/ reader'[r] = reader[r]
      BY <3>1 DEF Resumes
    <3> QED
      BY <1>0, <2>5, <3>2, <3>4, <3>5 DEF AnswersAreComplete
  <2>6. AnswersAreComplete'
    BY <2>5 DEF AnswersAreComplete
  <2> QED
    BY <1>1, <2>4, <2>6 DEF WholeInv
<1> QED
  BY <1>2, <1>3, <1>4

\* A request answered from the store finds there all it asked about; one that builds asks
\* for what is missing.
LEMMA RequestsWhole ==
  ASSUME WholeInv, NEW r \in Readers, Ask(r) \/ ReaderStep(r) PROVE WholeInv'
<1>0. StateInv /\ BuildsAreWhole /\ AnswersAreComplete
  BY DEF WholeInv
<1>1. CASE Ask(r) \/ Compare(r) \/ Warmed(r)
  <2>1. /\ StateInv' /\ UNCHANGED build
        /\ \A q \in Readers : reader'[q].got = reader[q].got /\ (reader'[q].pc = "done" => reader[q].pc = "done")
    BY <1>0, <1>1, DrawsState
  <2> QED
    BY <2>1, QuietWhole
<1>2. CASE Roots(r) \/ BuildAgain(r)
  <2>1. /\ StateInv'
        /\ UNCHANGED build \/ \E key \in {graph.version, reader[r].version} : BuildsFor(r, key)
        /\ \A q \in Readers :
             (reader'[q].pc = "done" => \/ Wanted[q] \subseteq reader'[q].got
                                        \/ reader[q].pc = "done" /\ reader'[q].got = reader[q].got)
    BY <1>0, <1>2, RootsState
  <2>2. BuildsAreWhole'
    BY <1>0, <2>1 DEF BuildsAreWhole, BuildsFor, Builders
  <2>3. AnswersAreComplete'
    BY <1>0, <2>1 DEF AnswersAreComplete
  <2> QED
    BY <2>1, <2>2, <2>3 DEF WholeInv
<1> QED
  BY <1>1, <1>2 DEF ReaderStep

LEMMA WholeStep ==
  ASSUME WholeInv, [Next]_vars PROVE WholeInv'
<1>0. StateInv /\ BuildsAreWhole /\ AnswersAreComplete
  BY DEF WholeInv
<1>1. CASE \E s \in Scans : ScanStarts(s) \/ ScanAnswers(s) \/ ScanWrites(s)
  <2>1. StateInv' /\ UNCHANGED <<views, reader>>
    BY <1>0, <1>1, ScanState, ScanWritesState
  <2> QED
    BY <2>1, QuietWhole DEF views
<1>2. CASE \/ \E l \in Lanes : ThreadFails(l) \/ ThreadExits(l)
           \/ \E j \in Scans \cup Builders : JobTimesOut(j)
  <2>1. /\ StateInv' /\ UNCHANGED reader
        /\ \A b \in Builders : /\ build'[b].groups = build[b].groups /\ build'[b].filled = build[b].filled
                               /\ build'[b].pc # "off" => build[b].pc # "off"
    BY <1>0, <1>2, FaultState DEF Jobs
  <2> QED
    BY <2>1, QuietWhole
<1>3. CASE TimerFires \/ PassReadsVersion \/ PassReadsPage \/ PassEnds
  <2>1. /\ StateInv' /\ UNCHANGED views
        /\ \A r \in Readers : reader'[r].got = reader[r].got /\ (reader'[r].pc = "done" => reader[r].pc = "done")
    BY <1>0, <1>3, PassState
  <2> QED
    BY <2>1, QuietWhole DEF views
<1>4. CASE PassStores
  <2>1. /\ StateInv' /\ UNCHANGED reader
        /\ UNCHANGED build \/ \A c \in Builders \ {"warm"} : build'[c] = build[c]
    BY <1>0, <1>4, PassStoresState
  <2>2. BuildsAreWhole'
    BY <1>0, <2>1, Disjoint DEF BuildsAreWhole, Builders
  <2>3. AnswersAreComplete'
    BY <1>0, <2>1 DEF AnswersAreComplete
  <2> QED
    BY <2>1, <2>2, <2>3 DEF WholeInv
<1>5. CASE WorkerReads \/ \E b \in Builders : HereReads(b)
  <2>1. /\ StateInv' /\ UNCHANGED reader
        /\ \A b \in Builders : /\ build'[b].pc = build[b].pc /\ build'[b].filled = build[b].filled
                               /\ build'[b].groups = build[b].groups
    BY <1>0, <1>5, ReadsState
  <2> QED
    BY <2>1, QuietWhole
<1>6. CASE WorkerAnswers \/ \E b \in Builders : HereAnswers(b)
  BY <1>6, AnswersWhole
<1>7. CASE \E r \in Readers : Ask(r) \/ ReaderStep(r)
  BY <1>7, RequestsWhole
<1>8. CASE UNCHANGED vars
  <2>1. UNCHANGED <<reader, build>>
    BY <1>8 DEF vars, views
  <2>2. StateInv'
    BY <1>0, <1>8 DEF StateInv, TableType, PoolType, CacheType, ViewType, ReaderType, JobsAreAwaited, Version,
                      vars, db, pool, cache, views
  <2> QED
    BY <2>1, <2>2, QuietWhole
<1> QED
  BY <1>1, <1>2, <1>3, <1>4, <1>5, <1>6, <1>7, <1>8 DEF Next, Progress

\* Always, whoever joins whose projection and whatever threads die or time out under
\* it: a request that is answered has every group it asked about.
THEOREM AnsweredInFull == Spec => []AnswersAreComplete
<1>1. Init => WholeInv
  <2> SUFFICES ASSUME Init PROVE WholeInv
    OBVIOUS
  <2>1. build = [b \in Builders |-> NoBuild] /\ reader = [r \in Readers |-> Request("idle", {})]
    BY DEF Init
  <2>2. BuildsAreWhole /\ AnswersAreComplete
    BY <2>1, Literals DEF BuildsAreWhole, AnswersAreComplete, Builders
  <2> QED
    BY <2>2, InitState DEF WholeInv
<1>2. WholeInv => AnswersAreComplete
  BY DEF WholeInv
<1> QED
  BY <1>1, <1>2, WholeStep, PTL DEF Spec
=============================================================================
