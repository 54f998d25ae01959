------------------------- MODULE TransferRun_proofs -------------------------
(***************************************************************************)
(* One transfer, for files of any number of pieces, any connections,       *)
(* sources, limits and requests: how its connections share the plan, and   *)
(* what its rows and its library file say of the bytes on disk.            *)
(***************************************************************************)
EXTENDS TransferRun, FiniteSetTheorems, WellFoundedInduction, TLAPS

Connection == [pc : {"end", "loop", "fetch"}, chunk : Chunks, from : Sources \cup {NoSource}]
SourceState == [fails : Nat, healthy : BOOLEAN, conns : Nat]
Mishaps == {"removed", "revived", "drained", "cut", "forgiven"}
Fetchers(s) == {w \in Workers : worker[w].pc = "fetch" /\ worker[w].from = s}

\* What a connection fetches is taken: nobody else fetches it and, while the
\* file is downloaded, the plan does not offer it.
ClaimsHeld ==
  /\ \A w \in Workers : Fetching(w) => worker[w].from \in Sources
  /\ \A v, w \in Workers : Fetching(v) /\ Fetching(w) /\ v # w => worker[v].chunk # worker[w].chunk
  /\ \A w \in Workers : Fetching(w) /\ phase = "download" => plan[worker[w].chunk].state # "pending"

\* Connections belong to the download; a repair fetches one piece at a time.
WorkersFollowPhase ==
  /\ phase \notin {"download", "repair"} => \A w \in Workers : worker[w].pc = "end"
  /\ phase = "repair" => \A w \in Workers : worker[w].pc # "loop"
  /\ phase = "repair" => \A v, w \in Workers : Fetching(v) /\ Fetching(w) => v = w

\* A source counts its connections, in every phase.
ConnsAreCounted ==
  \A s \in Sources : source[s].conns = Cardinality(Fetchers(s)) /\ source[s].conns <= PerSource

ClaimInv == TypeOK /\ ClaimsHeld /\ WorkersFollowPhase /\ ConnsAreCounted

-----------------------------------------------------------------------------
(* Connections, for any sources and requests.                              *)

\* The connections stay as they are.
LEMMA ConnectionsStay ==
  ASSUME ClaimInv, UNCHANGED <<worker, source, plan, phase>>
  PROVE  ClaimsHeld' /\ WorkersFollowPhase' /\ ConnsAreCounted'
BY DEF ClaimInv, ClaimsHeld, WorkersFollowPhase, ConnsAreCounted, Fetching, Fetchers

\* The end of a run leaves no connection.
LEMMA ForgetsClaims ==
  ASSUME Forgets
  PROVE  ClaimsHeld' /\ WorkersFollowPhase' /\ ConnsAreCounted'
<1>1. \A w \in Workers : worker'[w].pc = "end"
  BY DEF Forgets, Idle
<1>2. \A s \in Sources : source'[s].conns = 0
  BY DEF Forgets, Unasked
<1>3. \A s \in Sources : Fetchers(s)' = {}
  BY <1>1 DEF Fetchers
<1>4. \A s \in Sources : Cardinality(Fetchers(s)') = 0
  BY <1>3, FS_EmptySet
<1>5. ConnsAreCounted'
  BY <1>2, <1>4, RunConstants DEF ConnsAreCounted
<1> QED
  BY <1>1, <1>5 DEF Forgets, ClaimsHeld, WorkersFollowPhase, Fetching

\* What a run keeps in memory is typed when it ends.
LEMMA ForgetsType ==
  ASSUME Forgets
  PROVE  /\ phase' \in Phases /\ plan' \in [Chunks -> ChunkRow] /\ source' \in [Sources -> SourceState]
         /\ worker' \in [Workers -> Connection] /\ pausing' \in BOOLEAN /\ cancelling' \in BOOLEAN
         /\ reason' \in {"none", "pause", "cancel"}
         /\ DOMAIN suspects' \subseteq Chunks /\ pass' \in 0..MaxPasses
<1>1. 0 \in Chunks
  BY RunConstants DEF Chunks
<1>2. Fresh \in ChunkRow
  BY DEF Fresh, ChunkRow
<1>3. Idle \in Connection
  BY <1>1 DEF Idle, Connection
<1>4. plan' \in [Chunks -> ChunkRow] /\ worker' \in [Workers -> Connection]
  BY <1>2, <1>3 DEF Forgets, NoPlan
<1>5. source' \in [Sources -> SourceState]
  BY DEF Forgets, Unasked, SourceState
<1>6. DOMAIN suspects' \subseteq Chunks
  BY DEF Forgets, Nobody
<1>7. pausing' \in BOOLEAN /\ cancelling' \in BOOLEAN
  BY DEF Forgets
<1>8. phase' \in Phases /\ reason' \in {"none", "pause", "cancel"} /\ pass' \in 0..MaxPasses
  BY RunConstants DEF Forgets, Phases
<1> QED
  BY <1>4, <1>5, <1>6, <1>7, <1>8

\* One connection takes a piece: its source has one more.
LEMMA Taken ==
  ASSUME NEW w \in Workers, worker[w].pc # "fetch", NEW s,
         worker'[w].pc = "fetch" /\ worker'[w].from = s,
         \A v \in Workers \ {w} : worker'[v] = worker[v]
  PROVE  \A t : Cardinality(Fetchers(t)') = Cardinality(Fetchers(t)) + IF t = s THEN 1 ELSE 0
<1> TAKE t
<1>1. IsFiniteSet(Fetchers(t)) /\ Cardinality(Fetchers(t)) \in Nat
  <2>1. Fetchers(t) \subseteq Workers
    BY DEF Fetchers
  <2> QED
    BY <2>1, RunConstants, FS_Subset, FS_CardinalityType
<1>2. CASE t = s
  <2>1. Fetchers(t)' = Fetchers(t) \cup {w} /\ w \notin Fetchers(t)
    BY <1>2 DEF Fetchers
  <2>2. Cardinality(Fetchers(t) \cup {w}) = Cardinality(Fetchers(t)) + 1
    BY <1>1, <2>1, FS_AddElement
  <2> QED
    BY <1>2, <2>1, <2>2
<1>3. CASE t # s
  <2>1. Fetchers(t)' = Fetchers(t)
    BY <1>3 DEF Fetchers
  <2> QED
    BY <1>1, <1>3, <2>1
<1> QED
  BY <1>2, <1>3

\* One gives its piece back.
LEMMA GivenBack ==
  ASSUME NEW w \in Workers, worker[w].pc = "fetch", worker'[w].pc # "fetch",
         \A v \in Workers \ {w} : worker'[v] = worker[v]
  PROVE  \A t : /\ Cardinality(Fetchers(t)) \in Nat
                /\ t = worker[w].from => Cardinality(Fetchers(t)) > 0
                /\ Cardinality(Fetchers(t)')
                     = Cardinality(Fetchers(t)) - IF t = worker[w].from THEN 1 ELSE 0
<1> TAKE t
<1>1. IsFiniteSet(Fetchers(t)) /\ Cardinality(Fetchers(t)) \in Nat
  <2>1. Fetchers(t) \subseteq Workers
    BY DEF Fetchers
  <2> QED
    BY <2>1, RunConstants, FS_Subset, FS_CardinalityType
<1>2. CASE t = worker[w].from
  <2>1. Fetchers(t)' = Fetchers(t) \ {w} /\ w \in Fetchers(t)
    BY <1>2 DEF Fetchers
  <2>2. Cardinality(Fetchers(t)) # 0
    BY <1>1, <2>1, FS_EmptySet
  <2>3. Cardinality(Fetchers(t) \ {w}) = Cardinality(Fetchers(t)) - 1
    BY <1>1, <2>1, FS_RemoveElement
  <2> QED
    BY <1>1, <1>2, <2>1, <2>2, <2>3
<1>3. CASE t # worker[w].from
  <2>1. Fetchers(t)' = Fetchers(t)
    BY <1>3 DEF Fetchers
  <2> QED
    BY <1>1, <1>3, <2>1
<1> QED
  BY <1>2, <1>3

\* The types of what is on disk and in the database, and of what a run keeps in
\* memory: together they are TypeOK.
KeptType ==
  /\ faulty \in FaultPatterns /\ status \in Statuses /\ row \in [Chunks -> ChunkRow]
  /\ file \in [Chunks -> Contents] \cup {Nothing} /\ lib \in [Chunks -> Contents] \cup {Nothing}
  /\ dropping \in {"no", "asked", "saved"} /\ mishap \subseteq Mishaps
  /\ draining \in BOOLEAN /\ stray \in [Chunks -> Nat \cup {NotStray}] /\ asked \in 0..MaxRequests
FlagType == pausing \in BOOLEAN /\ cancelling \in BOOLEAN /\ reason \in {"none", "pause", "cancel"}
WorkType ==
  /\ phase \in Phases /\ plan \in [Chunks -> ChunkRow] /\ source \in [Sources -> SourceState]
  /\ worker \in [Workers -> Connection]
  /\ DOMAIN suspects \subseteq Chunks /\ pass \in 0..MaxPasses

LEMMA TypeParts == TypeOK <=> KeptType /\ FlagType /\ WorkType
BY DEF TypeOK, KeptType, FlagType, WorkType, Connection, SourceState, Mishaps

LEMMA TypePartsNext == TypeOK' <=> KeptType' /\ FlagType' /\ WorkType'
BY DEF TypeOK, KeptType, FlagType, WorkType, Connection, SourceState, Mishaps

LEMMA Literals ==
  /\ 0 \in Chunks /\ LastChunk \in Chunks /\ Fresh \in ChunkRow /\ Idle \in Connection /\ Empty \in [Chunks -> Contents]
  /\ [Idle EXCEPT !.pc = "loop"] \in Connection
<1>1. 0 \in Chunks /\ LastChunk \in Chunks
  BY RunConstants DEF Chunks
<1> QED
  BY <1>1 DEF Fresh, ChunkRow, Idle, Connection, Empty, Contents

\* A chunk row is one whatever its state becomes.
LEMMA RowStates ==
  ASSUME NEW k \in ChunkRow, NEW st \in {"pending", "active", "done", "failed", "corrupt"}
  PROVE  /\ k.tries \in Nat
         /\ [k EXCEPT !.state = st] \in ChunkRow
         /\ \A n \in Nat : [k EXCEPT !.state = st, !.tries = n] \in ChunkRow
         /\ \A s \in Sources : [state |-> st, tries |-> k.tries + 1, by |-> s] \in ChunkRow
<1>1. k.tries \in Nat
  BY DEF ChunkRow
<1>2. [k EXCEPT !.state = st] \in ChunkRow
  BY DEF ChunkRow
<1>3. \A n \in Nat : [k EXCEPT !.state = st, !.tries = n] \in ChunkRow
  BY DEF ChunkRow
<1>4. \A s \in Sources : [state |-> st, tries |-> k.tries + 1, by |-> s] \in ChunkRow
  BY DEF ChunkRow
<1> QED
  BY <1>1, <1>2, <1>3, <1>4

\* A name added to the history is one of its names.
LEMMA MishapNames ==
  ASSUME mishap \subseteq Mishaps
  PROVE  \A S : Forgives(S) => mishap' \subseteq Mishaps
BY DEF Forgives, Mishaps

LEMMA ForgetsKeepsType ==
  ASSUME TypeOK, Forgets, KeptType' PROVE TypeOK'
BY ForgetsType, TypePartsNext DEF FlagType, WorkType

\* What is written to the working file leaves it a file, or nowhere.
LEMMA WritesType ==
  ASSUME NEW f, Writes(f), file \in [Chunks -> Contents] \cup {Nothing},
         file \in [Chunks -> Contents] => f \in [Chunks -> Contents]
  PROVE  file' \in [Chunks -> Contents] \cup {Nothing}
BY DEF Writes

-----------------------------------------------------------------------------
(* Requests from outside.                                                  *)

LEMMA RequestKeepsClaims ==
  ASSUME ClaimInv, UNCHANGED faulty,
         Pause \/ Cancel \/ CancelSaves \/ CancelRemoves \/ Resume \/ Retry \/ Repair \/ Rot
           \/ Drain \/ Restart
  PROVE  ClaimInv'
<1>0. KeptType /\ FlagType /\ WorkType
  BY TypeParts DEF ClaimInv
<1>1. \A op : Asked(op) => asked' \in 0..MaxRequests
  BY <1>0, RunConstants DEF Asked, KeptType
<1>2. Nothing \in [Chunks -> Contents] \cup {Nothing}
  OBVIOUS
<1>3. CASE Restart
  <2>0. Forgets /\ Forgives(Sources)
    BY <1>3 DEF Restart, Forgets
  <2>2. mishap' \subseteq Mishaps
    BY <1>0, <2>0, MishapNames DEF KeptType
  <2>1. Forgets /\ KeptType'
    BY <1>0, <1>1, <1>3, <2>0, <2>2 DEF Restart, KeptType, Statuses, disk
  <2> QED
    BY <2>1, ForgetsClaims, ForgetsKeepsType DEF ClaimInv
<1>4. CASE Pause \/ Cancel \/ CancelSaves \/ CancelRemoves \/ Resume \/ Retry \/ Repair \/ Rot \/ Drain
  <2>1. UNCHANGED <<worker, source, plan, phase, suspects, pass>>
    BY <1>4 DEF Pause, Cancel, CancelSaves, CancelRemoves, DropsPartial, Resume, Retry, Repair, Rot, Drain, repair
  <2>2. WorkType' /\ ClaimsHeld' /\ WorkersFollowPhase' /\ ConnsAreCounted'
    BY <1>0, <2>1, ConnectionsStay DEF WorkType
  <2>3. CASE Pause
    BY <1>0, <1>1, <2>2, <2>3, TypePartsNext DEF Pause, Aborts, KeptType, FlagType, Statuses, disk, ClaimInv
  <2>4. CASE Cancel
    BY <1>0, <1>1, <2>2, <2>4, TypePartsNext DEF Cancel, Aborts, KeptType, FlagType, Statuses, disk, ClaimInv
  <2>10. CASE CancelSaves
    BY <1>0, <1>1, <2>2, <2>10, TypePartsNext DEF CancelSaves, KeptType, FlagType, Statuses, disk, flags, ClaimInv
  <2>11. CASE CancelRemoves
    <3>1. mishap' \subseteq Mishaps
      BY <1>0, <2>11 DEF CancelRemoves, DropsPartial, KeptType, Mishaps
    <3> QED
      BY <1>0, <1>1, <2>2, <2>11, <3>1, TypePartsNext DEF CancelRemoves, DropsPartial, KeptType, FlagType, flags, ClaimInv
  <2>5. CASE Resume
    BY <1>0, <1>1, <2>2, <2>5, TypePartsNext DEF Resume, KeptType, FlagType, Statuses, disk, flags, ClaimInv
  <2>6. CASE Retry
    BY <1>0, <1>1, <2>2, <2>6, Literals, TypePartsNext DEF Retry, KeptType, FlagType, Statuses, disk, flags, ClaimInv
  <2>7. CASE Repair
    <3>1. row' \in [Chunks -> ChunkRow]
      BY <1>0, <2>7, RowStates DEF Repair, KeptType
    <3>2. mishap' \subseteq Mishaps
      BY <1>0, <2>7 DEF Repair, KeptType, Mishaps
    <3> QED
      BY <1>0, <1>1, <2>2, <2>7, <3>1, <3>2, TypePartsNext DEF Repair, KeptType, FlagType, Statuses, disk, flags, ClaimInv
  <2>8. CASE Rot
    <3>1. lib' \in [Chunks -> Contents] \cup {Nothing}
      BY <1>0, <2>8 DEF Rot, KeptType, Contents
    <3> QED
      BY <1>0, <1>1, <2>2, <2>8, <3>1, TypePartsNext DEF Rot, KeptType, FlagType, flags, ClaimInv
  <2>9. CASE Drain
    BY <1>0, <1>1, <2>2, <2>9, TypePartsNext DEF Drain, Aborts, KeptType, FlagType, disk, ClaimInv
  <2> QED
    BY <1>4, <2>3, <2>4, <2>5, <2>6, <2>7, <2>8, <2>9, <2>10, <2>11
<1> QED
  BY <1>3, <1>4

-----------------------------------------------------------------------------
(* Steps of the run.                                                       *)

\* A set of numbers has a least one, and First finds it.
LEMMA FirstIsIn ==
  ASSUME NEW S, S \subseteq Nat, S # {}
  PROVE  First(S) \in S
<1> DEFINE R == {p \in Nat \X Nat : p[1] < p[2]}
<1>1. IsWellFoundedOn(R, Nat)
  BY NatLessThanWellFounded DEF OpToRel
<1>2. PICK c \in S : \A d \in S : ~(<<d, c>> \in R)
  BY <1>1, WFMin
<1>3. ASSUME NEW d \in S PROVE c <= d
  <2>1. c \in Nat /\ d \in Nat /\ <<d, c>> \notin R
    BY <1>2
  <2>2. ~(d < c)
    BY <2>1
  <2> QED
    BY <2>1, <2>2
<1> QED
  BY <1>3 DEF First

\* A connection takes a piece nobody fetches from a source with room.
LEMMA TakesKeepsClaims ==
  ASSUME ClaimInv, KeptType', FlagType', NEW w \in Workers, NEW c \in Chunks, NEW s \in Sources,
         Takes(w, c, s), UNCHANGED <<phase, pass>>, DOMAIN suspects' \subseteq Chunks,
         phase \in {"download", "repair"}, worker[w].pc # "fetch", source[s].conns < PerSource,
         phase = "download" => plan[c].state = "pending",
         phase = "repair" => \A v \in Workers : worker[v].pc = "end"
  PROVE  ClaimInv'
<1>0. KeptType /\ FlagType /\ WorkType /\ ClaimsHeld /\ WorkersFollowPhase /\ ConnsAreCounted
  BY TypeParts DEF ClaimInv
<1> DEFINE k == [state |-> IF phase = "repair" THEN "corrupt" ELSE "active", tries |-> plan[c].tries + 1, by |-> s]
           conn == [pc |-> "fetch", chunk |-> c, from |-> s]
<1>1. plan' = [plan EXCEPT ![c] = k] /\ worker' = [worker EXCEPT ![w] = conn]
  BY DEF Takes
<1>2. k \in ChunkRow /\ conn \in Connection /\ k.state # "pending"
  BY <1>0, RowStates DEF WorkType, Connection
<1> HIDE DEF k
<1>3. plan' \in [Chunks -> ChunkRow] /\ worker' \in [Workers -> Connection]
  BY <1>0, <1>1, <1>2 DEF WorkType
<1>4. \A v \in Workers \ {w} : worker'[v] = worker[v]
  BY <1>0, <1>1 DEF WorkType
<1>5. worker'[w] = conn
  BY <1>0, <1>1 DEF WorkType
<1>6. \A t : Cardinality(Fetchers(t)') = Cardinality(Fetchers(t)) + IF t = s THEN 1 ELSE 0
  BY <1>4, <1>5, Taken
<1>7. /\ source' \in [Sources -> SourceState]
      /\ \A t \in Sources : source'[t].conns = source[t].conns + IF t = s THEN 1 ELSE 0
  BY <1>0 DEF Takes, WorkType, SourceState
<1>8. ConnsAreCounted'
  BY <1>0, <1>6, <1>7, RunConstants DEF ConnsAreCounted, WorkType, SourceState
<1>9. ClaimsHeld'
  <2>1. \A v \in Workers : Fetching(v)' /\ v # w => Fetching(v) /\ worker'[v].chunk = worker[v].chunk
    BY <1>4 DEF Fetching
  <2>2. \A v \in Workers : Fetching(v)' /\ v # w => worker[v].chunk # c
    BY <1>0, <2>1 DEF ClaimsHeld, Fetching
  <2>3. \A d \in Chunks : plan'[d] = IF d = c THEN k ELSE plan[d]
    BY <1>0, <1>1 DEF WorkType
  <2>4. \A v \in Workers : worker'[v].chunk \in Chunks
    BY <1>3 DEF Connection
  <2> QED
    BY <1>0, <1>2, <1>4, <1>5, <2>1, <2>2, <2>3, <2>4 DEF ClaimsHeld, Fetching
<1>10. WorkersFollowPhase'
  BY <1>0, <1>4, <1>5 DEF WorkersFollowPhase, Fetching
<1>11. WorkType'
  BY <1>0, <1>3, <1>7 DEF WorkType
<1> QED
  BY <1>8, <1>9, <1>10, <1>11, TypePartsNext DEF ClaimInv

\* A connection gives its piece back, held or not, and its source one connection.
LEMMA GivesBackKeepsClaims ==
  ASSUME ClaimInv, KeptType', UNCHANGED <<phase, flags, repair>>, NEW w \in Workers, Fetching(w),
         worker' = [worker EXCEPT ![w] = Goes(w)],
         plan' \in [Chunks -> ChunkRow],
         \A c \in Chunks : plan'[c].state = "pending" => c = worker[w].chunk \/ plan[c].state = "pending",
         NEW fails \in Nat, NEW healthy \in BOOLEAN,
         source' = [source EXCEPT ![worker[w].from] =
                      [fails |-> fails, healthy |-> healthy, conns |-> @.conns - 1]]
  PROVE  ClaimInv'
<1>0. KeptType /\ FlagType /\ WorkType /\ ClaimsHeld /\ WorkersFollowPhase /\ ConnsAreCounted
  BY TypeParts DEF ClaimInv
<1> DEFINE s == worker[w].from
<1>1. s \in Sources /\ worker[w].pc = "fetch"
  BY <1>0 DEF ClaimsHeld, Fetching
<1>2. \A v \in Workers \ {w} : worker'[v] = worker[v]
  BY <1>0 DEF WorkType
<1>3. worker'[w] = Goes(w) /\ Goes(w) \in Connection /\ Goes(w).pc = IF phase = "repair" THEN "end" ELSE "loop"
  <2>1. worker'[w] = Goes(w)
    BY <1>0 DEF WorkType
  <2> QED
    BY <2>1, Literals DEF Goes, Idle
<1>4. \A t : /\ Cardinality(Fetchers(t)) \in Nat
             /\ t = s => Cardinality(Fetchers(t)) > 0
             /\ Cardinality(Fetchers(t)') = Cardinality(Fetchers(t)) - IF t = s THEN 1 ELSE 0
  <2>1. worker'[w].pc # "fetch"
    BY <1>3
  <2> QED
    BY <1>1, <1>2, <2>1, GivenBack
<1>5. source[s].conns > 0 /\ source[s].conns \in Nat
  BY <1>0, <1>1, <1>4 DEF ConnsAreCounted
<1>6. /\ source' \in [Sources -> SourceState]
      /\ \A t \in Sources : source'[t].conns = source[t].conns - IF t = s THEN 1 ELSE 0
  BY <1>0, <1>1, <1>5 DEF WorkType, SourceState
<1>7. ConnsAreCounted'
  BY <1>0, <1>4, <1>6, RunConstants DEF ConnsAreCounted, WorkType, SourceState
<1>8. ClaimsHeld'
  <2>1. \A v \in Workers : Fetching(v)' => v # w /\ Fetching(v) /\ worker'[v] = worker[v]
    BY <1>2, <1>3 DEF Fetching
  <2>2. \A v \in Workers : Fetching(v)' => worker[v].chunk # worker[w].chunk /\ worker[v].chunk \in Chunks
    BY <1>0, <2>1 DEF ClaimsHeld, WorkType, Connection
  <2> QED
    BY <1>0, <2>1, <2>2 DEF ClaimsHeld
<1>9. WorkersFollowPhase'
  BY <1>0, <1>1, <1>2, <1>3 DEF WorkersFollowPhase, Fetching
<1>10. WorkType' /\ FlagType'
  BY <1>0, <1>3, <1>6 DEF WorkType, FlagType, flags, repair
<1> QED
  BY <1>7, <1>8, <1>9, <1>10, TypePartsNext DEF ClaimInv

LEMMA BeginKeepsClaims ==
  ASSUME ClaimInv, UNCHANGED faulty, Unreached \/ Start \/ Register
  PROVE  ClaimInv'
<1>0. KeptType /\ FlagType /\ WorkType /\ ClaimsHeld /\ WorkersFollowPhase /\ ConnsAreCounted
  BY TypeParts DEF ClaimInv
<1>1. CASE Start
  <2>1. \A w \in Workers : worker'[w] = worker[w] /\ worker[w].pc = "end"
    BY <1>0, <1>1 DEF Start, WorkersFollowPhase
  <2>2. \A s \in Sources : Fetchers(s)' = {}
    BY <2>1 DEF Fetchers
  <2>3. source' \in [Sources -> SourceState] /\ \A s \in Sources : source'[s].conns = 0
    BY <1>1 DEF Start, SourceState
  <2>4. ConnsAreCounted'
    <3>1. \A s \in Sources : Cardinality(Fetchers(s)') = 0
      BY <2>2, FS_EmptySet
    <3> QED
      BY <2>3, <3>1, RunConstants DEF ConnsAreCounted
  <2>5. plan' \in [Chunks -> ChunkRow]
    BY <1>0, <1>1, RowStates DEF Start, KeptType, Resumed
  <2>6. KeptType' /\ FlagType'
    BY <1>0, <1>1 DEF Start, KeptType, FlagType, Statuses, disk, flags
  <2>7. WorkType'
    BY <1>0, <1>1, <2>3, <2>5 DEF Start, WorkType, Phases, repair
  <2>8. ClaimsHeld' /\ WorkersFollowPhase'
    BY <1>1, <2>1 DEF Start, ClaimsHeld, WorkersFollowPhase, Fetching
  <2> QED
    BY <2>4, <2>6, <2>7, <2>8, TypePartsNext DEF ClaimInv
<1>2. CASE Register
  <2>1. \A w \in Workers : worker[w].pc = "end"
    BY <1>0, <1>2 DEF Register, WorkersFollowPhase
  <2>2. worker' \in [Workers -> Connection] /\ \A w \in Workers : worker'[w].pc # "fetch"
    BY <1>2, Literals DEF Register, Idle
  <2>3. \A s \in Sources : Fetchers(s)' = Fetchers(s)
    BY <2>1, <2>2 DEF Fetchers
  <2>4. ConnsAreCounted'
    BY <1>0, <1>2, <2>3 DEF Register, ConnsAreCounted
  <2>8. mishap' \subseteq Mishaps
    BY <1>0, <1>2 DEF Register, KeptType, Mishaps
  <2>5. KeptType' /\ FlagType'
    BY <1>0, <1>2, <2>8, Literals DEF Register, KeptType, FlagType, Statuses, flags
  <2>6. WorkType'
    BY <1>0, <1>2, <2>2 DEF Register, WorkType, Phases, repair
  <2>7. ClaimsHeld' /\ WorkersFollowPhase'
    BY <1>2, <2>2 DEF Register, ClaimsHeld, WorkersFollowPhase, Fetching
  <2> QED
    BY <2>4, <2>5, <2>6, <2>7, TypePartsNext DEF ClaimInv
<1>3. CASE Unreached
  <2>1. KeptType' /\ FlagType' /\ WorkType'
    BY <1>0, <1>3 DEF Unreached, KeptType, FlagType, WorkType, Statuses, disk, flags, repair
  <2> QED
    BY <1>3, <2>1, ConnectionsStay, TypePartsNext DEF Unreached, ClaimInv
<1> QED
  BY <1>1, <1>2, <1>3

\* A run that is abandoned leaves what its orphans still try.
LEMMA AbandonsKeepsClaims ==
  ASSUME ClaimInv, UNCHANGED <<faulty, lib, asked>>, NEW w \in Workers, NEW p \in [Chunks -> ChunkRow],
         Abandons(w, p), row' \in [Chunks -> ChunkRow], file' \in [Chunks -> Contents] \cup {Nothing}
  PROVE  ClaimInv'
<1>0. KeptType
  BY TypeParts DEF ClaimInv
<1>1. stray' \in [Chunks -> Nat \cup {NotStray}]
  BY <1>0, RowStates DEF Abandons, KeptType
<1>3. mishap' \subseteq Mishaps
  BY <1>0, MishapNames DEF Abandons, Forgets, KeptType
<1>2. KeptType'
  BY <1>0, <1>1, <1>3 DEF Abandons, KeptType, Statuses
<1> QED
  BY <1>2, ForgetsClaims, ForgetsKeepsType DEF Abandons, ClaimInv

LEMMA LoopKeepsClaims ==
  ASSUME ClaimInv, UNCHANGED faulty, NEW w \in Workers, Claim(w) \/ Leave(w) \/ Starve(w)
  PROVE  ClaimInv'
<1>0. KeptType /\ FlagType /\ WorkType /\ ClaimsHeld /\ WorkersFollowPhase /\ ConnsAreCounted
  BY TypeParts DEF ClaimInv
<1>1. CASE Claim(w)
  <2>1. First(Pending) \in Pending
    BY <1>1, FirstIsIn, RunConstants DEF Claim, Pending, Chunks
  <2>2. PICK s \in Sources : Open(s) /\ Takes(w, First(Pending), s)
    BY <1>1 DEF Claim
  <2>3. KeptType' /\ FlagType' /\ UNCHANGED <<phase, pass, suspects>>
    BY <1>0, <1>1 DEF Claim, KeptType, FlagType, disk, flags, repair
  <2> QED
    BY <1>0, <1>1, <2>1, <2>2, <2>3, TakesKeepsClaims DEF Claim, Open, Pending, WorkType
<1>2. CASE Leave(w)
  <2>1. worker' \in [Workers -> Connection]
    BY <1>0, <1>2, Literals DEF Leave, WorkType
  <2>2. \A v \in Workers : IF v = w THEN worker'[v].pc = "end" /\ worker[v].pc = "loop" ELSE worker'[v] = worker[v]
    BY <1>0, <1>2 DEF Leave, WorkType, Idle
  <2>3. \A s \in Sources : Fetchers(s)' = Fetchers(s)
    BY <2>2 DEF Fetchers
  <2>4. ConnsAreCounted'
    BY <1>0, <1>2, <2>3 DEF Leave, ConnsAreCounted
  <2>5. KeptType' /\ FlagType' /\ WorkType'
    BY <1>0, <1>2, <2>1 DEF Leave, KeptType, FlagType, WorkType, disk, flags, repair
  <2>6. ClaimsHeld' /\ WorkersFollowPhase'
    BY <1>0, <1>2, <2>2 DEF Leave, ClaimsHeld, WorkersFollowPhase, Fetching
  <2> QED
    BY <2>4, <2>5, <2>6, TypePartsNext DEF ClaimInv
<1>3. CASE Starve(w)
  BY <1>0, <1>3, AbandonsKeepsClaims DEF Starve, disk, KeptType, WorkType
<1> QED
  BY <1>1, <1>2, <1>3

LEMMA FetchKeepsClaims ==
  ASSUME ClaimInv, UNCHANGED faulty, NEW w \in Workers, FetchFails(w) \/ FetchArrives(w) \/ FetchWhole(w)
  PROVE  ClaimInv'
<1>0. KeptType /\ FlagType /\ WorkType /\ ClaimsHeld /\ WorkersFollowPhase /\ ConnsAreCounted
  BY TypeParts DEF ClaimInv
<1> DEFINE c == worker[w].chunk
           s == worker[w].from
<1>1. Fetching(w) /\ c \in Chunks /\ s \in Sources /\ plan[c] \in ChunkRow /\ source[s] \in SourceState
  BY <1>0 DEF FetchFails, FetchArrives, FetchWhole, ClaimsHeld, WorkType, Connection
<1> HIDE DEF c, s
<1>2. ASSUME NEW k \in ChunkRow, Saves(c, k) PROVE row' \in [Chunks -> ChunkRow]
  BY <1>0, <1>1, <1>2 DEF Saves, KeptType
<1>3. CASE FetchFails(w)
  <2>1. PICK right \in BOOLEAN : Writes([file EXCEPT ![c] = Half(@, right)])
    BY <1>3 DEF FetchFails, c, s
  <2>8. Fails(w)
    BY <1>3 DEF FetchFails
  <2> DEFINE f == [file EXCEPT ![c] = Half(@, right)]
             k == [plan[c] EXCEPT !.state = IF plan[c].tries >= MaxAttempts THEN "failed" ELSE "pending"]
             n == source[s].fails + 1
             p == [plan EXCEPT ![c] = k]
  <2>2. file' \in [Chunks -> Contents] \cup {Nothing}
    <3>1. file \in [Chunks -> Contents] => f \in [Chunks -> Contents]
      BY <1>1 DEF Half, Contents
    <3> HIDE DEF f
    <3> QED
      BY <1>0, <2>1, <3>1, WritesType DEF KeptType, f
  <2>3. k \in ChunkRow /\ p \in [Chunks -> ChunkRow]
    BY <1>0, <1>1, RowStates DEF WorkType
  <2>4. row' \in [Chunks -> ChunkRow]
    BY <1>2, <2>8, <2>3 DEF Fails, c
  <2>5. UNCHANGED <<lib, asked>>
    BY <1>3 DEF FetchFails
  <2>6. CASE k.state = "failed"
    <3>1. Abandons(w, p)
      BY <2>8, <2>6 DEF Fails, c
    <3> QED
      BY <2>2, <2>3, <2>4, <2>5, <3>1, AbandonsKeepsClaims
  <2>7. CASE k.state # "failed"
    <3>1. /\ plan' = p /\ worker' = [worker EXCEPT ![w] = Goes(w)]
          /\ source' = [source EXCEPT ![s] = [fails |-> n, healthy |-> @.healthy /\ n < Strikes, conns |-> @.conns - 1]]
          /\ UNCHANGED <<status, phase, flags, repair, stray, dropping, mishap>>
      BY <2>8, <2>7 DEF Fails, c, s
    <3>2. KeptType'
      BY <1>0, <2>2, <2>4, <2>5, <3>1 DEF KeptType, flags
    <3>3. n \in Nat /\ (source[s].healthy /\ n < Strikes) \in BOOLEAN
      BY <1>1 DEF SourceState
    <3>4. \A d \in Chunks : plan'[d] = IF d = c THEN k ELSE plan[d]
      BY <1>0, <3>1 DEF WorkType
    <3>5. source' = [source EXCEPT ![s] = [fails |-> n, healthy |-> (source[s].healthy /\ n < Strikes), conns |-> @.conns - 1]]
      BY <3>1
    <3> HIDE DEF n, k, p, f
    <3> QED
      BY <1>1, <2>3, <3>1, <3>2, <3>3, <3>4, <3>5, GivesBackKeepsClaims DEF c, s
  <2> QED
    BY <2>6, <2>7
<1>4. CASE FetchArrives(w)
  <2> DEFINE k == [plan[c] EXCEPT !.state = "done"]
  <2>1. k \in ChunkRow /\ k.state = "done"
    <3>1. k \in ChunkRow
      BY <1>1, RowStates
    <3>2. k.state = "done"
      BY <1>1 DEF ChunkRow
    <3> QED
      BY <3>1, <3>2
  <2>2. plan' = [plan EXCEPT ![c] = k] /\ Saves(c, k)
    BY <1>4 DEF FetchArrives, Held, c
  <2> HIDE DEF k
  <2>3. plan' \in [Chunks -> ChunkRow] /\ \A d \in Chunks : plan'[d] = IF d = c THEN k ELSE plan[d]
    BY <1>0, <1>1, <2>1, <2>2 DEF WorkType
  <2>4. file' \in [Chunks -> Contents] \cup {Nothing}
    <3>1. PICK q \in {"good", "bad"} : Writes([file EXCEPT ![c] = q])
      BY <1>4 DEF FetchArrives, c
    <3>2. file \in [Chunks -> Contents] => [file EXCEPT ![c] = q] \in [Chunks -> Contents]
      BY <1>1 DEF Contents
    <3> QED
      BY <1>0, <3>1, <3>2, WritesType DEF KeptType
  <2>8. mishap' \subseteq Mishaps
    BY <1>0, <1>4, MishapNames DEF FetchArrives, Held, KeptType
  <2>5. KeptType' /\ UNCHANGED <<phase, flags, repair>>
    BY <1>0, <1>2, <1>4, <2>1, <2>2, <2>4, <2>8 DEF FetchArrives, KeptType, flags
  <2>6. /\ source' = [source EXCEPT ![s] = [fails |-> 0, healthy |-> source[s].healthy, conns |-> @.conns - 1]]
        /\ source[s].healthy \in BOOLEAN
    BY <1>1, <1>4 DEF FetchArrives, Held, SourceState, s
  <2>7. worker' = [worker EXCEPT ![w] = Goes(w)]
    BY <1>4 DEF FetchArrives, Held
  <2> QED
    BY <1>1, <2>3, <2>5, <2>6, <2>7, GivesBackKeepsClaims DEF c, s
<1>5. CASE FetchWhole(w)
  <2>1. plan' = [d \in Chunks |-> [plan[d] EXCEPT !.state = "done"]]
    BY <1>5 DEF FetchWhole
  <2>2. plan' \in [Chunks -> ChunkRow] /\ \A d \in Chunks : plan'[d].state = "done"
    <3>1. \A d \in Chunks : [plan[d] EXCEPT !.state = "done"] \in ChunkRow
      BY <1>0, RowStates DEF WorkType
    <3>2. \A d \in Chunks : [plan[d] EXCEPT !.state = "done"].state = "done"
      BY <1>0 DEF WorkType, ChunkRow
    <3> QED
      BY <2>1, <3>1, <3>2
  <2>3. row' \in [Chunks -> ChunkRow]
    <3>1. [plan[0] EXCEPT !.state = "done"] \in ChunkRow
      BY <1>0, Literals, RowStates DEF WorkType
    <3> QED
      BY <1>0, <1>5, <3>1, Literals DEF FetchWhole, Saves, KeptType
  <2>4. file' \in [Chunks -> Contents] \cup {Nothing}
    <3> DEFINE whole(n, q) == [d \in Chunks |-> IF d < n THEN q ELSE IF d = n THEN Half(file[d], q = "good") ELSE file[d]]
    <3>1. PICK n \in 0..(LastChunk + 1), q \in {"good", "bad"} : Writes(whole(n, q))
      BY <1>5 DEF FetchWhole
    <3>2. file \in [Chunks -> Contents] => whole(n, q) \in [Chunks -> Contents]
      BY DEF Half, Contents
    <3> HIDE DEF whole
    <3> QED
      BY <1>0, <3>1, <3>2, WritesType DEF KeptType
  <2>8. mishap' \subseteq Mishaps
    BY <1>0, <1>5 DEF FetchWhole, KeptType, Mishaps
  <2>5. KeptType' /\ UNCHANGED <<phase, flags, repair>>
    BY <1>0, <1>5, <2>3, <2>4, <2>8 DEF FetchWhole, KeptType, flags
  <2>6. /\ source' = [source EXCEPT ![s] = [fails |-> 0, healthy |-> source[s].healthy, conns |-> @.conns - 1]]
        /\ source[s].healthy \in BOOLEAN
    BY <1>1, <1>5 DEF FetchWhole, SourceState, s
  <2>7. worker' = [worker EXCEPT ![w] = Goes(w)]
    BY <1>5 DEF FetchWhole
  <2> QED
    BY <1>1, <2>2, <2>5, <2>6, <2>7, GivesBackKeepsClaims DEF c, s
<1> QED
  BY <1>3, <1>4, <1>5

\* Nothing a run keeps in memory is disturbed by its predecessors' orphans.
LEMMA StrayKeepsClaims ==
  ASSUME ClaimInv, UNCHANGED faulty, StraysEnd \/ \E c \in Chunks : StrayWrites(c)
  PROVE  ClaimInv'
<1>0. KeptType /\ FlagType /\ WorkType
  BY TypeParts DEF ClaimInv
<1>1. UNCHANGED <<status, disk, phase, plan, source, worker, flags, repair, dropping, mishap, asked>>
  BY DEF StraysEnd, StrayWrites
<1>2. FlagType' /\ WorkType' /\ ClaimsHeld' /\ WorkersFollowPhase' /\ ConnsAreCounted'
  BY <1>0, <1>1, ConnectionsStay DEF FlagType, WorkType, flags, repair
<1>3. CASE StraysEnd
  <2>1. KeptType'
    BY <1>0, <1>1, <1>3 DEF StraysEnd, KeptType, disk, flags
  <2> QED
    BY <1>2, <2>1, TypePartsNext DEF ClaimInv
<1>4. ASSUME NEW c \in Chunks, StrayWrites(c) PROVE ClaimInv'
  <2> DEFINE n == stray[c] + 1
             st == IF n >= MaxAttempts THEN "failed" ELSE "pending"
  <2>1. n \in Nat
    <3>1. stray[c] \in Nat
      BY <1>0, <1>4 DEF StrayWrites, KeptType
    <3> QED
      BY <3>1
  <2>2. row' = [row EXCEPT ![c] = [@ EXCEPT !.state = st, !.tries = n]]
    BY <1>4 DEF StrayWrites
  <2>3. stray' = [stray EXCEPT ![c] = IF n >= MaxAttempts THEN NotStray ELSE n]
    BY <1>4 DEF StrayWrites
  <2>4. stray' \in [Chunks -> Nat \cup {NotStray}]
    BY <1>0, <2>1, <2>3 DEF KeptType
  <2>5. [row[c] EXCEPT !.state = st, !.tries = n] \in ChunkRow
    BY <1>0, <2>1, RowStates DEF KeptType
  <2>6. row' \in [Chunks -> ChunkRow]
    BY <1>0, <2>2, <2>5 DEF KeptType
  <2> QED
    BY <1>0, <1>1, <1>2, <2>4, <2>6, TypePartsNext DEF KeptType, disk, flags, ClaimInv
<1> QED
  BY <1>3, <1>4

\* A phase that has no connections follows one that has none left.
LEMMA PhaseKeepsClaims ==
  ASSUME ClaimInv, UNCHANGED <<worker, source, plan>>, \A w \in Workers : worker[w].pc = "end"
  PROVE  ClaimsHeld' /\ WorkersFollowPhase' /\ ConnsAreCounted'
BY DEF ClaimInv, ClaimsHeld, WorkersFollowPhase, ConnsAreCounted, Fetching, Fetchers

LEMMA EndsKeepsClaims ==
  ASSUME ClaimInv, UNCHANGED <<faulty, row, asked>>, NEW st \in Statuses, Ends(st),
         file' \in [Chunks -> Contents] \cup {Nothing}, lib' \in [Chunks -> Contents] \cup {Nothing}
  PROVE  ClaimInv'
<1>2. KeptType
  BY TypeParts DEF ClaimInv
<1>3. mishap' \subseteq Mishaps
  BY <1>2, MishapNames DEF Ends, Forgets, KeptType
<1>1. KeptType'
  BY <1>2, <1>3 DEF KeptType, Ends
<1> QED
  BY <1>1, ForgetsClaims, ForgetsKeepsType DEF Ends, ClaimInv

LEMMA AfterDownloadKeepsClaims ==
  ASSUME ClaimInv, UNCHANGED faulty, DownloadEnds \/ Verify \/ RepairEnds \/ Place
  PROVE  ClaimInv'
<1>0. KeptType /\ FlagType /\ WorkType /\ ClaimsHeld /\ WorkersFollowPhase /\ ConnsAreCounted
  BY TypeParts DEF ClaimInv
<1>1. UNCHANGED <<faulty, row, asked>>
  BY DEF DownloadEnds, DropsPartial, Verify, RepairEnds, Place
<1>2. \A w \in Workers : worker[w].pc = "end"
  BY <1>0 DEF DownloadEnds, DropsPartial, Verify, RepairEnds, Place, WorkersFollowPhase
<1>3. \A st \in {"cancelled", "paused", "failed", "done"} :
        Ends(st) /\ file' \in {file, Nothing} /\ lib' \in {lib, file} => ClaimInv'
  BY <1>0, <1>1, EndsKeepsClaims DEF Statuses, KeptType
<1>4. ASSUME UNCHANGED <<status, disk, plan, source, worker, flags, stray, dropping, mishap>>, phase' \in Phases,
             DOMAIN suspects' \subseteq Chunks, pass' \in 0..MaxPasses
      PROVE  ClaimInv'
  <2>1. KeptType' /\ FlagType' /\ WorkType'
    BY <1>0, <1>1, <1>4 DEF KeptType, FlagType, WorkType, disk, flags
  <2> QED
    BY <1>2, <1>4, <2>1, PhaseKeepsClaims, TypePartsNext DEF ClaimInv
<1>5. CASE DownloadEnds
  <2>1. CASE ~Stopping /\ phase' = "verify" /\ UNCHANGED <<status, file, plan, source, worker, flags, repair, stray, dropping, mishap>>
    BY <1>0, <1>4, <1>5, <2>1 DEF DownloadEnds, DropsPartial, disk, repair, Phases, WorkType
  <2>2. CASE Ends("cancelled") /\ DropsPartial
    BY <1>3, <1>5, <2>2 DEF DownloadEnds, DropsPartial
  <2>3. CASE Ends("paused") /\ UNCHANGED file
    BY <1>3, <1>5, <2>3 DEF DownloadEnds, DropsPartial
  <2> QED
    BY <1>5, <2>1, <2>2, <2>3 DEF DownloadEnds
<1>6. CASE Verify
  <2>1. CASE phase' = "place" /\ UNCHANGED <<status, plan, source, worker, flags, repair, stray, dropping, mishap>>
    BY <1>0, <1>4, <1>6, <2>1 DEF Verify, repair, Phases, WorkType
  <2>2. CASE /\ phase' = "repair" /\ pass < MaxPasses /\ pass' = pass + 1
             /\ suspects' \in [Corrupt(file) -> Sources \cup {NoSource}]
             /\ UNCHANGED <<status, plan, source, worker, flags, stray, dropping, mishap>>
    <3>1. DOMAIN suspects' \subseteq Chunks
      BY <2>2 DEF Corrupt
    <3>2. pass' \in 0..MaxPasses
      BY <1>0, <2>2, RunConstants DEF WorkType
    <3> QED
      BY <1>4, <1>6, <2>2, <3>1, <3>2 DEF Verify, Phases
  <2>3. CASE Ends("failed")
    BY <1>3, <1>6, <2>3 DEF Verify, disk
  <2> QED
    BY <1>6, <2>1, <2>2, <2>3 DEF Verify
<1>7. CASE RepairEnds
  BY <1>0, <1>4, <1>7 DEF RepairEnds, repair, Phases, WorkType
<1>8. CASE Place
  BY <1>3, <1>8 DEF Place, DropsPartial, disk
<1> QED
  BY <1>5, <1>6, <1>7, <1>8

LEMMA RepairTakesKeepsClaims ==
  ASSUME ClaimInv, UNCHANGED faulty, NEW w \in Workers, RepairTakes(w)
  PROVE  ClaimInv'
<1>0. KeptType /\ FlagType /\ WorkType /\ ClaimsHeld /\ WorkersFollowPhase /\ ConnsAreCounted
  BY TypeParts DEF ClaimInv
<1> DEFINE c == First(DOMAIN suspects)
           S == IF suspects[c] \in Healthy THEN {suspects[c]} ELSE {s \in Sources : Open(s)}
<1>1. c \in Chunks /\ S \subseteq Sources
  <2>1. DOMAIN suspects \subseteq Nat /\ DOMAIN suspects # {}
    BY <1>0, RunConstants DEF RepairTakes, WorkType, Chunks
  <2> QED
    BY <1>0, <2>1, FirstIsIn DEF WorkType, Healthy
<1>2. KeptType' /\ FlagType' /\ UNCHANGED <<phase, pass>> /\ phase = "repair"
  BY <1>0 DEF RepairTakes, KeptType, FlagType, disk, flags
<1>3. DOMAIN suspects' \subseteq Chunks
  BY <1>0 DEF RepairTakes, Remaining, WorkType
<1>4. \A v \in Workers : worker[v].pc = "end"
  BY DEF RepairTakes
<1>5. ASSUME NEW s \in Sources, Takes(w, c, s) PROVE ClaimInv'
  <2>1. Fetchers(s) = {}
    BY <1>4 DEF Fetchers
  <2>2. source[s].conns < PerSource
    BY <1>0, <2>1, FS_EmptySet, RunConstants DEF ConnsAreCounted
  <2> QED
    BY <1>1, <1>2, <1>3, <1>4, <1>5, <2>2, TakesKeepsClaims
<1>6. CASE plan' = [plan EXCEPT ![c].state = "corrupt"] /\ UNCHANGED <<source, worker>>
  <2>1. plan' \in [Chunks -> ChunkRow]
    BY <1>0, <1>1, <1>6 DEF WorkType, ChunkRow
  <2>2. WorkType'
    BY <1>0, <1>2, <1>3, <1>6, <2>1 DEF WorkType
  <2>3. ClaimsHeld' /\ WorkersFollowPhase' /\ ConnsAreCounted'
    BY <1>0, <1>2, <1>4, <1>6 DEF ClaimsHeld, WorkersFollowPhase, ConnsAreCounted, Fetching, Fetchers
  <2> QED
    BY <1>2, <2>2, <2>3, TypePartsNext DEF ClaimInv
<1> QED
  BY <1>1, <1>5, <1>6 DEF RepairTakes

-----------------------------------------------------------------------------
(* Theorems about the connections.                                         *)

RunInv == ClaimInv

LEMMA InitRun == Init => RunInv
<1> SUFFICES ASSUME Init PROVE RunInv
  OBVIOUS
<1>1. KeptType /\ FlagType
  <2>1. row \in [Chunks -> ChunkRow] /\ stray \in [Chunks -> Nat \cup {NotStray}]
    BY Literals DEF Init
  <2>2. draining \in BOOLEAN /\ pausing \in BOOLEAN /\ cancelling \in BOOLEAN
    BY DEF Init
  <2> QED
    BY <2>1, <2>2, RunConstants DEF Init, KeptType, FlagType, Statuses, Mishaps
<1>2. WorkType
  <2>1. plan \in [Chunks -> ChunkRow] /\ worker \in [Workers -> Connection]
    BY Literals DEF Init, NoPlan
  <2>2. source \in [Sources -> SourceState]
    BY DEF Init, Unasked, SourceState
  <2> QED
    BY <2>1, <2>2, RunConstants DEF Init, WorkType, Phases, Nobody
<1>3. \A w \in Workers : worker[w].pc = "end"
  BY DEF Init, Idle
<1>4. \A s \in Sources : source[s].conns = 0 /\ Cardinality(Fetchers(s)) = 0
  <2>1. \A s \in Sources : Fetchers(s) = {}
    BY <1>3 DEF Fetchers
  <2> QED
    BY <2>1, FS_EmptySet DEF Init, Unasked
<1>5. ClaimsHeld /\ WorkersFollowPhase /\ ConnsAreCounted
  BY <1>3, <1>4, RunConstants DEF ClaimsHeld, WorkersFollowPhase, ConnsAreCounted, Fetching
<1> QED
  BY <1>1, <1>2, <1>5, TypeParts DEF RunInv, ClaimInv

LEMMA NextRun == RunInv /\ [Next]_vars => RunInv'
<1> SUFFICES ASSUME ClaimInv, [Next]_vars PROVE RunInv'
  BY DEF RunInv
<1>1. ClaimInv'
  <2>1. CASE UNCHANGED vars
    <3>1. KeptType' /\ FlagType' /\ WorkType'
      BY <2>1, TypeParts DEF ClaimInv, vars, disk, flags, repair, KeptType, FlagType, WorkType
    <3> QED
      BY <2>1, <3>1, ConnectionsStay, TypePartsNext DEF vars, ClaimInv
  <2>2. CASE Next
    BY <2>2, RequestKeepsClaims, BeginKeepsClaims, LoopKeepsClaims, FetchKeepsClaims, StrayKeepsClaims,
       AfterDownloadKeepsClaims, RepairTakesKeepsClaims DEF Next, RunStep
  <2> QED
    BY <2>1, <2>2
<1> QED
  BY <1>1 DEF RunInv

LEMMA RunInvariance == Spec => []RunInv
BY InitRun, NextRun, PTL DEF Spec

\* The row, the chunk rows, the files, the plan, the sources and the connections
\* have their types; a source is never counted below zero connections.
THEOREM TypeCorrect == Spec => []TypeOK
<1>1. RunInv => TypeOK
  BY DEF RunInv, ClaimInv
<1> QED
  BY <1>1, RunInvariance, PTL

\* However many connections, sources and pieces there are, and whatever fails or
\* is stopped: no piece is claimed by two connections at once, and each source is
\* counted exactly the connections it serves, never more than its limit.  It is about
\* claims: an answer for the whole file writes pieces that others have claimed.
THEOREM ClaimsExact == Spec => []ClaimsAreExact
<1>1. RunInv => ClaimsAreExact
  BY DEF RunInv, ClaimInv, ClaimsHeld, ConnsAreCounted, ClaimsAreExact, Fetching, Fetchers
<1> QED
  BY <1>1, RunInvariance, PTL

-----------------------------------------------------------------------------
(* What is placed, when pieces have checksums.                             *)

Good(f) == \A c \in Chunks : f[c] = "good"

\* What verification let through is right, and nothing touches it before the move.
CheckedInv == RunInv /\ (phase = "place" => file = Nothing \/ Good(file))

LEMMA NextChecked == ASSUME Checksums = TRUE PROVE CheckedInv /\ [Next]_vars => CheckedInv'
<1> SUFFICES ASSUME CheckedInv, [Next]_vars, phase' = "place" PROVE file' = Nothing \/ Good(file')
  BY NextRun DEF CheckedInv, Good
<1>0. ClaimsHeld /\ WorkersFollowPhase
  BY DEF CheckedInv, RunInv, ClaimInv
<1>1. CASE Verify
  <2>1. Intact(file) /\ file' = file
    BY <1>1 DEF Verify, Ends, Forgets, disk
  <2> QED
    BY <2>1, Literals DEF Intact, Corrupt, Good
<1>2. CASE UNCHANGED <<phase, file>>
  BY <1>2 DEF CheckedInv
<1>3. CASE Unreached \/ Start \/ Register \/ DownloadEnds \/ RepairEnds \/ Place
  BY <1>3 DEF Unreached, Start, Register, DownloadEnds, RepairEnds, Place, Ends, Forgets
<1>4. ASSUME NEW w \in Workers, Claim(w) \/ Leave(w) \/ Starve(w) \/ RepairTakes(w) PROVE FALSE
  BY <1>4 DEF Claim, Leave, Starve, RepairTakes, Abandons, Forgets
<1>5. ASSUME NEW w \in Workers, FetchFails(w) \/ FetchArrives(w) \/ FetchWhole(w) PROVE FALSE
  <2>1. phase \in {"download", "repair"}
    BY <1>0, <1>5 DEF FetchFails, FetchArrives, FetchWhole, WorkersFollowPhase, Fetching
  <2> QED
    BY <1>5, <2>1 DEF FetchFails, Fails, Abandons, Forgets, FetchArrives, FetchWhole
<1>6. CASE StraysEnd \/ \E c \in Chunks : StrayWrites(c)
  BY <1>2, <1>6 DEF StraysEnd, StrayWrites, disk
<1>7. CASE \/ Pause \/ Cancel \/ CancelSaves \/ CancelRemoves \/ Resume \/ Retry \/ Repair \/ Rot
           \/ Drain \/ Restart
  BY <1>2, <1>7 DEF Pause, Cancel, CancelSaves, CancelRemoves, DropsPartial, Resume, Retry, Repair, Rot, Drain, Restart, Forgets, disk
<1> QED
  BY <1>1, <1>2, <1>3, <1>4, <1>5, <1>6, <1>7 DEF Next, RunStep, vars, disk

\* A transfer becomes done only by moving its working file.
LEMMA DoneByPlacing ==
  ASSUME Next, status # "done", status' = "done"
  PROVE  phase = "place" /\ lib' = file /\ file # Nothing
<1>1. CASE RunStep
  BY <1>1 DEF RunStep, Unreached, Start, Register, DownloadEnds, Verify, RepairEnds, Place, Ends, Claim, Leave, Starve,
     Abandons, FetchFails, Fails, FetchArrives, FetchWhole, RepairTakes
<1>2. CASE ~RunStep
  BY <1>2 DEF Next, StraysEnd, StrayWrites, Pause, Cancel, CancelSaves, CancelRemoves, DropsPartial, Resume, Retry, Repair, Rot,
     Drain, Restart
<1> QED
  BY <1>1, <1>2

\* When a source gave checksums, what _finish moves into the library is right in
\* every piece, whatever the sources serve, ranges or not, and however the run was
\* stopped, repaired, restarted or drained before.
THEOREM CheckedIsWhole == ASSUME Checksums = TRUE PROVE Spec => PlacedIsWhole
<1>1. Init => CheckedInv
  BY InitRun DEF CheckedInv, Init
<1>2. CheckedInv /\ [Next]_vars => CheckedInv'
  BY NextChecked
<1>3. CheckedInv /\ [Next]_vars =>
        [lib' # lib /\ status' = "done" /\ status # "done" => \A c \in Chunks : lib'[c] = "good"]_vars
  BY DoneByPlacing DEF CheckedInv, Good
<1> QED
  BY <1>1, <1>2, <1>3, PTL DEF Spec, PlacedIsWhole

-----------------------------------------------------------------------------
(* What rows stand for, when sources are honest.                           *)

Sound(k, f, c) == k.state = "done" => f \in [Chunks -> Contents] /\ f[c] = "good"

\* A row, or the plan made of the rows, that says done stands for right bytes; those
\* of a cancelled transfer no longer need to, nor those of one in the library.
DiskKept ==
  /\ phase # "off" \/ status \notin {"cancelled", "done"} => \A c \in Chunks : Sound(row[c], file, c)
  /\ phase # "off" => \A c \in Chunks : Sound(plan[c], file, c)
  /\ phase \notin {"off", "starting"} => file # Nothing

DiskInv == RunInv /\ (Unharmed => DiskKept)

\* What has happened is not forgotten.
LEMMA MishapsStay == [Next]_vars => mishap \subseteq mishap'
<1> SUFFICES ASSUME [Next]_vars PROVE mishap \subseteq mishap'
  OBVIOUS
<1>1. \A S : Forgives(S) => mishap \subseteq mishap'
  BY DEF Forgives
<1>2. Forgets => mishap \subseteq mishap'
  BY <1>1 DEF Forgets
<1>3. CASE UNCHANGED mishap
  BY <1>3
<1>4. CASE Unreached \/ Start \/ Register \/ DownloadEnds \/ Verify \/ RepairEnds \/ Place
  BY <1>2, <1>4 DEF Unreached, Start, Register, DownloadEnds, Verify, RepairEnds, Place, Ends
<1>5. ASSUME NEW w \in Workers, Claim(w) \/ Leave(w) \/ Starve(w) \/ RepairTakes(w) PROVE mishap \subseteq mishap'
  BY <1>2, <1>5 DEF Claim, Leave, Starve, RepairTakes, Abandons
<1>6. ASSUME NEW w \in Workers, FetchFails(w) \/ FetchArrives(w) \/ FetchWhole(w) PROVE mishap \subseteq mishap'
  <2>1. CASE FetchFails(w)
    BY <1>2, <2>1 DEF FetchFails, Fails, Abandons
  <2>2. CASE FetchArrives(w)
    BY <1>1, <2>2 DEF FetchArrives, Held
  <2>3. CASE FetchWhole(w)
    BY <2>3 DEF FetchWhole
  <2> QED
    BY <1>6, <2>1, <2>2, <2>3
<1>7. CASE StraysEnd \/ \E c \in Chunks : StrayWrites(c)
  BY <1>7 DEF StraysEnd, StrayWrites
<1>8. CASE \/ Pause \/ Cancel \/ CancelSaves \/ CancelRemoves \/ Resume \/ Retry \/ Repair \/ Rot
           \/ Drain \/ Restart
  BY <1>2, <1>8 DEF Pause, Cancel, CancelSaves, CancelRemoves, DropsPartial, Resume, Retry, Repair, Rot, Drain, Restart
<1> QED
  BY <1>3, <1>4, <1>5, <1>6, <1>7, <1>8 DEF Next, RunStep, vars

LEMMA NextDisk ==
  ASSUME Honest = Sources, DiskInv, [Next]_vars, Unharmed'
  PROVE  DiskKept'
<1>0. /\ RunInv /\ RunInv' /\ KeptType /\ KeptType' /\ WorkType /\ WorkType'
      /\ ClaimsHeld /\ WorkersFollowPhase
  BY NextRun, TypeParts, TypePartsNext DEF DiskInv, RunInv, ClaimInv
<1>00. Unharmed /\ DiskKept
  BY MishapsStay DEF Unharmed, DiskInv
<1> USE <1>00 DEF DiskKept
<1>1. CASE Start
  <2>1. \A c \in Chunks : plan'[c].state = "done" => row[c].state = "done"
    BY <1>0, <1>1 DEF Start, Resumed, KeptType, ChunkRow
  <2> QED
    BY <1>1, <2>1 DEF Start, Sound, disk
\* An empty file is created only where no piece is held.
<1>2. CASE Register
  <2>1. file' # Nothing
    BY <1>0, <1>2, Literals DEF Register, Nothing, Empty
  <2> QED
    BY <1>0, <1>2, <2>1 DEF Register, Sound, Nothing
\* Rows, plan and file as they are; or the run ends, and they are not lost.
<1>3. CASE UNCHANGED <<status, row, file, phase, plan>>
  BY <1>3 DEF Sound
<1>4. ASSUME Forgets, phase # "off", UNCHANGED <<row, file>> PROVE DiskKept'
  BY <1>4 DEF Forgets, Sound
\* A piece taken is not held.
<1>5. ASSUME NEW w \in Workers, Claim(w) \/ RepairTakes(w) PROVE DiskKept'
  <2>1. UNCHANGED <<status, row, disk, phase>>
    BY <1>5 DEF Claim, RepairTakes
  <2>2. \A d \in Chunks : plan'[d].state = "done" => plan[d].state = "done"
    <3>1. CASE \E c, s : Takes(w, c, s)
      BY <1>0, <3>1 DEF Takes, WorkType
    <3>2. CASE \E c : plan' = [plan EXCEPT ![c].state = "corrupt"]
      BY <1>0, <3>2 DEF WorkType, ChunkRow
    <3> QED
      BY <1>5, <3>1, <3>2 DEF Claim, RepairTakes
  <2> QED
    BY <2>1, <2>2 DEF Sound, disk
<1>7. ASSUME NEW w \in Workers, Starve(w) PROVE DiskKept'
  BY <1>4, <1>7 DEF Starve, Abandons, disk
\* A piece that fails leaves what is on disk, for honest bytes overwrite good ones.
<1>8. ASSUME NEW w \in Workers, FetchFails(w) PROVE DiskKept'
  <2> DEFINE c == worker[w].chunk
             k == [plan[c] EXCEPT !.state = IF plan[c].tries >= MaxAttempts THEN "failed" ELSE "pending"]
  <2>1. Fetching(w) /\ worker[w].from \in Honest /\ c \in Chunks /\ phase \notin {"off", "starting"}
    BY <1>0, <1>8 DEF FetchFails, ClaimsHeld, WorkType, Connection, WorkersFollowPhase, Fetching
  <2>2. Fails(w) /\ Writes([file EXCEPT ![c] = Half(@, TRUE)])
    BY <1>8, <2>1 DEF FetchFails
  <2>3. [file EXCEPT ![c] = Half(@, TRUE)] = file
    BY <1>0, <2>1 DEF Half, KeptType, Nothing
  <2>4. file' = file
    BY <2>2, <2>3 DEF Writes
  <2>5. k.state # "done"
    BY <1>0, <2>1 DEF WorkType, ChunkRow
  <2>6. \A d \in Chunks : row'[d].state = "done" => row[d].state = "done"
    BY <1>0, <2>1, <2>2, <2>5 DEF Fails, Saves, KeptType
  <2>7. \A d \in Chunks : Sound(row'[d], file', d)
    BY <2>1, <2>4, <2>6 DEF Sound
  <2>8. CASE k.state = "failed"
    <3>1. phase' = "off"
      BY <2>2, <2>8 DEF Fails, Abandons, Forgets
    <3> QED
      BY <2>7, <3>1
  <2>9. CASE k.state # "failed"
    <3>1. plan' = [plan EXCEPT ![c] = k] /\ UNCHANGED phase
      BY <2>2, <2>9 DEF Fails
    <3>2. \A d \in Chunks : plan'[d].state = "done" => plan[d].state = "done"
      BY <1>0, <2>1, <2>5, <3>1 DEF WorkType
    <3> QED
      BY <2>1, <2>4, <2>7, <3>1, <3>2 DEF Sound
  <2> QED
    BY <2>8, <2>9
\* A piece that arrived is on disk before its row says so.
<1>9. ASSUME NEW w \in Workers, FetchArrives(w) PROVE DiskKept'
  <2> DEFINE c == worker[w].chunk
             k == [plan[c] EXCEPT !.state = "done"]
  <2>1. Fetching(w) /\ worker[w].from \in Honest /\ c \in Chunks /\ phase \notin {"off", "starting"}
    BY <1>0, <1>9 DEF FetchArrives, ClaimsHeld, WorkType, Connection, WorkersFollowPhase, Fetching
  <2>2. file \in [Chunks -> Contents] /\ file # Nothing
    BY <1>0, <2>1 DEF KeptType
  <2>3. file' = [file EXCEPT ![c] = "good"]
    BY <1>9, <2>1, <2>2 DEF FetchArrives, Writes
  <2>4. file' \in [Chunks -> Contents] /\ file'[c] = "good" /\ \A d \in Chunks : d # c => file'[d] = file[d]
    BY <2>1, <2>2, <2>3 DEF Contents
  <2>5. \A d \in Chunks : d # c => row'[d] = row[d] /\ plan'[d] = plan[d]
    BY <1>0, <1>9, <2>1 DEF FetchArrives, Held, Saves, KeptType, WorkType
  <2>6. \A d \in Chunks : Sound(row'[d], file', d) /\ Sound(plan'[d], file', d)
    BY <2>1, <2>4, <2>5 DEF Sound
  <2>7. file' # Nothing
    BY <2>1, <2>4 DEF Nothing
  <2> QED
    BY <1>9, <2>1, <2>6, <2>7 DEF FetchArrives
\* An answer for the whole file that does not break off brings every piece.
<1>10. ASSUME NEW w \in Workers, FetchWhole(w) PROVE DiskKept'
  <2>1. worker[w].from \in Honest /\ phase \notin {"off", "starting"} /\ file # Nothing /\ UNCHANGED phase
    BY <1>0, <1>10 DEF FetchWhole, ClaimsHeld, WorkersFollowPhase, Fetching
  <2> DEFINE whole(n, q) == [d \in Chunks |-> IF d < n THEN q ELSE IF d = n THEN Half(file[d], q = "good") ELSE file[d]]
  <2>2. PICK n \in 0..(LastChunk + 1) :
          /\ Writes(whole(n, "good"))
          /\ mishap' = mishap \cup (IF n <= LastChunk THEN {"cut"} ELSE {})
                              \cup IF source[worker[w].from].fails > 0 THEN {"forgiven"} ELSE {}
    BY <1>10, <2>1 DEF FetchWhole
  <2>3. n = LastChunk + 1
    <3>1. "cut" \notin mishap'
      BY DEF Unharmed
    <3> QED
      BY <2>2, <3>1, RunConstants
  <2>4. file' = whole(n, "good")
    BY <2>1, <2>2 DEF Writes
  <2>5. \A d \in Chunks : d < n
    BY <2>3, RunConstants DEF Chunks
  <2>6. file' = [d \in Chunks |-> "good"]
    BY <2>4, <2>5
  <2>7. file' \in [Chunks -> Contents] /\ file' # Nothing
    BY <2>6, Literals DEF Contents, Nothing
  <2> QED
    BY <2>1, <2>6, <2>7 DEF Sound
<1>11. ASSUME NEW w \in Workers, Leave(w) PROVE UNCHANGED <<status, row, file, phase, plan>>
  BY <1>11 DEF Leave, disk
<1>12. CASE StraysEnd
  BY <1>3, <1>12 DEF StraysEnd, disk, Sound
<1>13. ASSUME NEW c \in Chunks, StrayWrites(c) PROVE DiskKept'
  <2>1. PICK n : row' = [row EXCEPT ![c] = [@ EXCEPT !.state = IF n >= MaxAttempts THEN "failed" ELSE "pending", !.tries = n]]
    BY <1>13 DEF StrayWrites
  <2>2. row'[c].state # "done" /\ \A d \in Chunks : d # c => row'[d] = row[d]
    BY <1>0, <2>1 DEF KeptType, ChunkRow
  <2> QED
    BY <1>13, <2>2 DEF StrayWrites, disk, Sound
<1>14. CASE DownloadEnds \/ Verify \/ RepairEnds
  BY <1>4, <1>14 DEF DownloadEnds, DropsPartial, Verify, RepairEnds, Ends, Forgets, disk, Sound
<1>15. CASE Place
  BY <1>4, <1>15 DEF Place, DropsPartial, Ends, Forgets, disk
<1>16. CASE Unreached \/ Pause \/ Resume \/ Drain
  BY <1>3, <1>16 DEF Unreached, Pause, Resume, Drain, Registered, disk, Sound
<1>17. CASE Cancel \/ CancelSaves
  BY <1>3, <1>17 DEF Cancel, CancelSaves, Registered, Sound, disk
<1>18. CASE CancelRemoves
  <2>1. file' = file \/ (phase = "off" /\ status = "cancelled")
    BY <1>18 DEF CancelRemoves, Unharmed
  <2> QED
    BY <1>18, <2>1 DEF CancelRemoves, disk, Sound
<1>19. CASE Retry
  BY <1>19 DEF Retry, Fresh, Sound, disk
\* The rows a repair condemns are not held, and where the others would outlive the
\* working file the history says so.
<1>20. CASE Repair
  <2>1. \A c \in Chunks : row'[c].state = "done" => row[c].state = "done"
    BY <1>0, <1>20 DEF Repair, KeptType, ChunkRow
  <2>2. status \in {"cancelled", "done"} => \A c \in Chunks : row'[c].state # "done"
    BY <1>0, <1>20 DEF Repair, Unharmed, KeptType, ChunkRow
  <2> QED
    BY <1>20, <2>1, <2>2 DEF Repair, disk, Sound
<1>21. CASE Rot
  BY <1>21 DEF Rot, Sound
<1>22. CASE Restart
  BY <1>22 DEF Restart, Forgets, disk, Sound
<1>23. CASE UNCHANGED vars
  BY <1>3, <1>23 DEF vars, disk
<1>24. CASE RunStep
  BY <1>1, <1>2, <1>3, <1>5, <1>7, <1>8, <1>9, <1>10, <1>11, <1>14, <1>15, <1>16, <1>24 DEF RunStep
<1> QED
  BY <1>12, <1>13, <1>16, <1>17, <1>18, <1>19, <1>20, <1>21, <1>22, <1>23, <1>24 DEF Next

LEMMA InitDisk == Init => DiskInv
<1> SUFFICES ASSUME Init PROVE DiskInv
  OBVIOUS
<1>1. \A c \in Chunks : row[c].state = "pending"
  BY DEF Init, Fresh
<1> QED
  BY <1>1, InitRun DEF Init, DiskInv, DiskKept, Sound

\* _saveChunk: when the sources serve the right bytes, ranges or not, a chunk row that
\* says done stands for those bytes on disk, so a run that resumes after any requests,
\* failures, orphaned connections, shutdowns and crashes may trust it, until one of
\* four events has happened: the working file was removed under a transfer that goes
\* on, a transfer whose file is gone was repaired, a run registered under a shutdown,
\* an answer for the whole file broke off.
THEOREM DoneOnDisk ==
  ASSUME Honest = Sources PROVE Spec => []DoneIsOnDisk
<1>1. DiskInv /\ [Next]_vars => DiskInv'
  <2> SUFFICES ASSUME DiskInv, [Next]_vars PROVE DiskInv'
    OBVIOUS
  <2>1. RunInv'
    BY NextRun DEF DiskInv
  <2>2. Unharmed' => DiskKept'
    BY NextDisk
  <2> QED
    BY <2>1, <2>2 DEF DiskInv
<1>2. DiskInv => DoneIsOnDisk
  <2>1. Nothing \notin [Chunks -> Contents]
    BY Literals DEF Nothing
  <2> QED
    BY <2>1 DEF DiskInv, DiskKept, DoneIsOnDisk, Sound
<1> QED
  BY <1>1, <1>2, InitDisk, PTL DEF Spec
\* While nobody stops the download, what is not held yet has a connection that
\* fetches it or will look for it.
Attended(c) ==
  \/ plan[c].state = "done"
  \/ plan[c].state = "active" /\ \E w \in Workers : Fetching(w) /\ worker[w].chunk = c
  \/ plan[c].state = "pending" /\ \E w \in Workers : worker[w].pc # "end"

TrustedKept ==
  /\ phase # "repair" /\ (draining /\ Registered => Stopping)
  /\ phase = "starting" => \A c \in Chunks : plan[c].state \in {"pending", "done"}
  /\ phase = "download" /\ ~Stopping => \A c \in Chunks : Attended(c)
  /\ phase \in {"verify", "place"} => Good(file)

TrustedInv == DiskInv /\ (Unharmed => TrustedKept)

LEMMA NextTrusted ==
  ASSUME Honest = Sources, TrustedInv, [Next]_vars, Unharmed'
  PROVE  TrustedKept'
<1>00. Unharmed /\ TrustedKept /\ DiskKept
  BY MishapsStay DEF Unharmed, TrustedInv, DiskInv
<1>0. /\ RunInv /\ WorkType /\ WorkType' /\ ClaimsHeld /\ WorkersFollowPhase /\ DiskKept'
  BY NextRun, NextDisk, TypeParts, TypePartsNext DEF TrustedInv, DiskInv, RunInv, ClaimInv
<1> USE <1>00 DEF TrustedKept
<1>1. CASE Start
  BY <1>0, <1>1 DEF Start, Resumed, flags, Registered, RunInv, ClaimInv, TypeOK, ChunkRow
<1>2. CASE Register
  <2>1. \E w \in Workers : worker'[w].pc # "end"
    BY <1>2 DEF Register, Idle
  <2>2. ~draining'
    BY <1>2 DEF Register, Unharmed, flags
  <2> QED
    BY <1>2, <2>1, <2>2 DEF Register, Attended
<1>3. CASE UNCHANGED <<phase, file, plan, worker, draining>> /\ (Stopping => Stopping')
  BY <1>3 DEF Attended, Fetching, Registered
<1>4. CASE phase' = "off"
  BY <1>4 DEF Registered
<1>5. ASSUME NEW w \in Workers, Claim(w) PROVE TrustedKept'
  <2>1. PICK s \in Sources : Takes(w, First(Pending), s)
    BY <1>5 DEF Claim
  <2>2. phase = "download" /\ phase' = "download" /\ ~draining' /\ ~Stopping
    BY <1>5 DEF Claim, flags, Registered
  <2>3. \A v \in Workers : worker'[v] = IF v = w THEN [pc |-> "fetch", chunk |-> First(Pending), from |-> s] ELSE worker[v]
    BY <1>0, <2>1 DEF Takes, WorkType
  <2>4. worker[w].pc = "loop"
    BY <1>5 DEF Claim
  <2>5. ASSUME NEW c \in Chunks PROVE Attended(c)'
    <3>1. CASE c = First(Pending)
      <4>1. plan'[c].state = "active"
        BY <1>0, <2>1, <2>2, <3>1 DEF Takes, WorkType
      <4>2. Fetching(w)' /\ worker'[w].chunk = c
        BY <2>3, <3>1 DEF Fetching
      <4> QED
        BY <4>1, <4>2 DEF Attended
    <3>2. CASE c # First(Pending)
      <4>1. plan'[c] = plan[c]
        BY <1>0, <2>1, <3>2 DEF Takes, WorkType
      <4>2. \A v \in Workers : Fetching(v) => Fetching(v)' /\ worker'[v].chunk = worker[v].chunk
        BY <2>3, <2>4 DEF Fetching
      <4>3. worker'[w].pc # "end"
        BY <2>3
      <4> QED
        BY <2>2, <4>1, <4>2, <4>3 DEF Attended
    <3> QED
      BY <3>1, <3>2
  <2> QED
    BY <2>2, <2>5
<1>6. ASSUME NEW w \in Workers, Leave(w) PROVE TrustedKept'
  <2>1. UNCHANGED <<phase, plan, file, flags>> /\ phase = "download"
    BY <1>6 DEF Leave, disk
  <2>2. Stopping' = Stopping
    BY <2>1 DEF Stopping, flags
  <2>3. \A v \in Workers : Fetching(v) => Fetching(v)' /\ worker'[v].chunk = worker[v].chunk
    BY <1>0, <1>6 DEF Leave, Fetching, WorkType
  <2>4. ~Stopping => Pending = {}
    BY <1>6, <2>1 DEF Leave, Registered
  <2>5. ~Stopping => \A c \in Chunks : Attended(c)'
    BY <2>1, <2>3, <2>4 DEF Attended, Pending
  <2> QED
    BY <2>1, <2>2, <2>5 DEF flags, Registered
<1>7. ASSUME NEW w \in Workers, FetchFails(w) \/ FetchArrives(w) PROVE TrustedKept'
  <2> DEFINE c == worker[w].chunk
  <2>1. phase = "download" /\ Fetching(w) /\ c \in Chunks
    BY <1>0, <1>7 DEF FetchFails, FetchArrives, WorkersFollowPhase, Fetching, WorkType, Connection
  <2>2. CASE phase' = "off"
    BY <1>4, <2>2
  <2>3. CASE phase' # "off"
    <3>1. /\ UNCHANGED <<phase, flags>> /\ worker' = [worker EXCEPT ![w] = Goes(w)]
          /\ \E st \in {"pending", "done"} : plan' = [plan EXCEPT ![c] = [plan[c] EXCEPT !.state = st]]
      BY <1>7, <2>1, <2>3 DEF FetchFails, Fails, Abandons, Forgets, FetchArrives, Held
    <3>2. Stopping' = Stopping
      BY <3>1 DEF Stopping, flags
    <3>3. \A v \in Workers : worker'[v] = IF v = w THEN Goes(w) ELSE worker[v]
      BY <1>0, <3>1 DEF WorkType
    <3>4. Goes(w).pc = "loop"
      BY <2>1 DEF Goes, Idle
    <3>5. \A d \in Chunks : IF d = c THEN plan'[d].state \in {"pending", "done"} ELSE plan'[d] = plan[d]
      BY <1>0, <2>1, <3>1 DEF WorkType, ChunkRow
    <3>6. ASSUME NEW d \in Chunks, ~Stopping PROVE Attended(d)'
      <4>1. worker'[w].pc # "end"
        BY <3>3, <3>4
      <4>2. CASE d = c
        BY <3>5, <4>1, <4>2 DEF Attended
      <4>3. CASE d # c
        <5>1. \A v \in Workers : Fetching(v) /\ worker[v].chunk = d => Fetching(v)' /\ worker'[v].chunk = d
          BY <3>3, <4>3 DEF Fetching
        <5> QED
          BY <2>1, <3>5, <3>6, <4>1, <4>3, <5>1 DEF Attended
      <4> QED
        BY <4>2, <4>3
    <3> QED
      BY <2>1, <3>1, <3>2, <3>6 DEF flags, Registered
  <2> QED
    BY <2>2, <2>3
<1>8. ASSUME NEW w \in Workers, Starve(w) \/ RepairTakes(w) PROVE TrustedKept'
  BY <1>4, <1>8 DEF Starve, Abandons, Forgets, RepairTakes
<1>19. ASSUME NEW w \in Workers, FetchWhole(w) PROVE TrustedKept'
  <2>1. phase = "download" /\ UNCHANGED <<phase, flags>>
    BY <1>0, <1>19 DEF FetchWhole, WorkersFollowPhase, Fetching
  <2>2. plan' = [c \in Chunks |-> [plan[c] EXCEPT !.state = "done"]]
    BY <1>19 DEF FetchWhole
  <2>3. \A c \in Chunks : plan'[c].state = "done"
    BY <1>0, <2>2 DEF WorkType, ChunkRow
  <2> QED
    BY <2>1, <2>3 DEF Attended, Registered, Stopping, flags
<1>9. CASE DownloadEnds
  <2>1. CASE phase' = "off"
    BY <1>4, <2>1
  <2>2. CASE phase' # "off"
    <3>1. /\ phase = "download" /\ phase' = "verify" /\ ~Stopping /\ UNCHANGED <<file, flags>>
          /\ \A w \in Workers : worker[w].pc = "end"
      BY <1>9, <2>2 DEF DownloadEnds, DropsPartial, Ends, Forgets
    <3>2. \A c \in Chunks : plan[c].state = "done"
      BY <3>1 DEF Attended, Fetching
    <3>3. Good(file)
      BY <3>1, <3>2 DEF DiskKept, Sound, Good
    <3> QED
      BY <3>1, <3>3 DEF flags, Good, Registered, Stopping
  <2> QED
    BY <2>1, <2>2
<1>10. CASE Verify
  <2>1. phase = "verify" /\ Intact(file)
    BY <1>10, Literals DEF Verify, Intact, Corrupt, Good, DiskKept
  <2>2. phase' = "place" /\ UNCHANGED <<file, flags>>
    BY <1>10, <2>1 DEF Verify, disk
  <2> QED
    BY <2>1, <2>2 DEF flags, Good, Registered, Stopping
<1>11. CASE RepairEnds \/ Place
  BY <1>4, <1>11 DEF RepairEnds, Place, Ends, Forgets
<1>12. CASE StraysEnd \/ \E c \in Chunks : StrayWrites(c)
  BY <1>3, <1>12 DEF StraysEnd, StrayWrites, disk, flags, Stopping
<1>13. CASE Pause \/ Cancel
  BY <1>3, <1>13 DEF Pause, Cancel, Stopping, disk
<1>14. CASE Unreached \/ Resume \/ Retry \/ Repair \/ Rot \/ CancelSaves
  BY <1>3, <1>14 DEF Unreached, Resume, Retry, Repair, Rot, CancelSaves, disk, flags, Stopping
<1>15. CASE Drain
  BY <1>15 DEF Drain, Registered, Stopping, Attended, Fetching, disk
<1>20. CASE CancelRemoves
  <2>1. file' = file \/ (phase = "off" /\ status = "cancelled")
    BY <1>20 DEF CancelRemoves, Unharmed
  <2> QED
    BY <1>3, <1>4, <1>20, <2>1 DEF CancelRemoves, flags, Stopping, disk
<1>16. CASE Restart
  BY <1>4, <1>16 DEF Restart, Forgets
<1>17. CASE UNCHANGED vars
  BY <1>3, <1>17 DEF vars, disk, flags, Stopping
<1>18. CASE RunStep
  BY <1>1, <1>2, <1>5, <1>6, <1>7, <1>8, <1>9, <1>10, <1>11, <1>14, <1>18, <1>19 DEF RunStep
<1> QED
  BY <1>12, <1>13, <1>14, <1>15, <1>16, <1>17, <1>18, <1>20 DEF Next

\* Without checksums only the length is verified, and then the bookkeeping has to be
\* right: when the sources serve the right bytes, whatever is asked, fails, is stopped
\* or crashes, a file is placed with a hole only if one of the four events parted the
\* rows from the bytes before.
THEOREM OnlyMishapsTear ==
  ASSUME Honest = Sources PROVE Spec => OnlyAMishapTears
<1>1. Init => TrustedInv
  BY InitDisk DEF Init, TrustedInv, TrustedKept, Registered
<1>2. TrustedInv /\ [Next]_vars => TrustedInv'
  <2> SUFFICES ASSUME TrustedInv, [Next]_vars PROVE TrustedInv'
    OBVIOUS
  <2>1. RunInv' /\ (Unharmed' => DiskKept')
    BY NextRun, NextDisk DEF TrustedInv, DiskInv
  <2>2. Unharmed' => TrustedKept'
    BY NextTrusted
  <2> QED
    BY <2>1, <2>2 DEF TrustedInv, DiskInv
<1>3. TrustedInv /\ [Next]_vars =>
        [lib' # lib /\ status' = "done" /\ status # "done" /\ Unharmed
           => \A c \in Chunks : lib'[c] = "good"]_vars
  BY DoneByPlacing DEF TrustedInv, TrustedKept, Good
<1> QED
  BY <1>1, <1>2, <1>3, PTL DEF Spec, OnlyAMishapTears
=============================================================================
