----------------------------- MODULE Catalogue -----------------------------
(***************************************************************************)
(* The grouped catalogue: scans write the match table from a worker thread *)
(* (services/worker-pool.service.ts), the catalogue cache coalesces their  *)
(* requests to rebuild (services/catalogue-cache.service.ts), and the      *)
(* group manager keeps a graph of the table and projections made from it,  *)
(* each under the version of the table it read (managers/                  *)
(* media-group.manager.ts, services/catalogue-projection.service.ts).      *)
(*                                                                         *)
(* A page of the table is the number of its last write, and what a         *)
(* projection reads beside it, items and services, is a page of its own.   *)
(* A graph or a projection is what was read, page by page, while writes go *)
(* on.  One scope is projected, for several groups of states.  The match   *)
(* threshold does not move, and how matches become groups is left out.     *)
(***************************************************************************)
EXTENDS Integers, Sequences, FiniteSetsExt

CONSTANTS
  Pages,      \* pages of the match table, 1..Pages
  Scans,      \* indexing passes of services
  Readers,    \* requests for library pages
  Wanted,     \* the groups of states each reader asks about
  MaxWrites,  \* bound on the writes of a scan
  MaxFaults   \* bound on threads that die and jobs that time out

ASSUME CatalogueConstants ==
  /\ Pages \in Nat \ {0}
  /\ Scans \cap Readers = {} /\ "warm" \notin Scans \cup Readers
  /\ DOMAIN Wanted = Readers
  /\ MaxWrites \in Nat /\ MaxFaults \in Nat

VARIABLES
  table,     \* the match table, and the shelf: items and services
  token,     \* what MediaMatchRepository.version answers
  newest,    \* the highest version so far
  repeated,  \* history: versions the match table has had more than once
  writes,    \* writes of each scan so far
  thread,    \* _threads of the worker pool, by lane
  posted,    \* jobs a thread was sent and has not finished
  waiting,   \* _waiting of the worker pool
  worker,    \* the projection the worker is in the middle of
  held,      \* CatalogueProjectionService._graph, in the worker and in the gateway
  scan,      \* _indexing: where each pass is
  timer,     \* CatalogueCacheService._timer
  again,     \* CatalogueCacheService._again
  pass,      \* _running: where refresh is
  graph,     \* MediaGroupManager._graph
  roots,     \* _roots: answers per version and group
  known,     \* _warmable: groups somebody has asked about
  reader,    \* requests
  build,     \* calls of _project: one per reader and one of the warming
  building,  \* _building: who builds the answer for a version
  due, seen, \* last writes when a scan ended, when the last pass began
  faults     \* faults so far

db == <<table, token, newest, repeated, writes>>
pool == <<thread, posted, waiting, worker>>
cache == <<timer, again, pass>>
views == <<graph, roots, known, build, building, held>>
vars == <<db, pool, cache, views, scan, reader, due, seen, faults>>

Lanes == {"catalogue", "projection"}
Builders == Readers \cup {"warm"}
Groups == UNION {Wanted[r] : r \in Readers}
Lane(j) == IF j \in Scans THEN "catalogue" ELSE "projection"
Shelf == Pages + 1
Places == 1..Shelf
Unread == [p \in Places |-> -1]
NoGraph == [id |-> 0, version |-> -1, content |-> Unread]
NoHeld == [version |-> -1, content |-> Unread]
NoReading == [version |-> -1, content |-> Unread, page |-> 0]
NoAnswers == [g \in {} |-> Unread]
Request(pc, got) ==
  [pc |-> pc, version |-> -1, before |-> 0, drawn |-> -1, joined |-> "warm", got |-> got]
NoBuild == [pc |-> "off", key |-> -1, groups |-> {}, filled |-> NoAnswers, reading |-> NoReading]

Init ==
  /\ table = [p \in Places |-> 0] /\ token = 0 /\ newest = 0 /\ repeated = {}
  /\ writes = [s \in Scans |-> 0]
  /\ thread = [l \in Lanes |-> "none"] /\ posted = [l \in Lanes |-> <<>>]
  /\ waiting = {} /\ worker = NoReading
  /\ held = [x \in {"worker", "here"} |-> NoHeld]
  /\ scan = [s \in Scans |-> "idle"]
  /\ timer = TRUE /\ again = FALSE
  /\ pass = [pc |-> "off", reading |-> NoReading]
  /\ graph = NoGraph /\ roots = [v \in {} |-> NoAnswers] /\ known = {}
  /\ reader = [r \in Readers |-> Request("idle", {})]
  /\ build = [b \in Builders |-> NoBuild] /\ building = [v \in {} |-> "warm"]
  /\ due = 0 /\ seen = -1 /\ faults = 0

-----------------------------------------------------------------------------
(* Reading the table page by page, as refresh and the projections do.      *)

\* Mutant: the version is the one at the end of the reading.
Reads_Late(r) ==
  [version |-> token, content |-> [r.content EXCEPT ![r.page] = table[r.page]], page |-> r.page + 1]

\* The version is read first, then the pages.
Begins == [version |-> token, content |-> Unread, page |-> 1]
Reads(r) == [r EXCEPT !.content = [@ EXCEPT ![r.page] = table[r.page]], !.page = @ + 1]
IsRead(r) == r.page > Pages

\* What a graph is made of.
Matches(content) == [content EXCEPT ![Shelf] = -1]

\* A projection reads the services and the items after the matches.
IsProjected(r) == r.page > Shelf

\* _graphFor: a graph kept for this version is used again.
Projects(x) ==
  IF held[x].version = token THEN [version |-> token, content |-> held[x].content, page |-> Shelf]
  ELSE Begins

\* A write of a match or of an item.
Latest == Max({table[p] : p \in Places})
Writes(p) == table' = [table EXCEPT ![p] = Latest + 1]

-----------------------------------------------------------------------------
(* The worker pool.                                                        *)

\* _send: the lane's thread is started, or trusted to be there.
Posts(j) ==
  /\ waiting' = waiting \cup {j}
  /\ thread' = [thread EXCEPT ![Lane(j)] = IF @ = "none" THEN "up" ELSE @]
  /\ posted' = [posted EXCEPT ![Lane(j)] = IF thread[Lane(j)] = "failing" THEN @ ELSE Append(@, j)]
  /\ UNCHANGED worker

\* A rejected scan is logged and over; a rejected projection is made here.
Rejected(J) ==
  /\ scan' = [s \in Scans |-> IF s \in J THEN "failed" ELSE scan[s]]
  /\ build' = [b \in Builders |-> IF b \in J THEN [build[b] EXCEPT !.pc = "here"] ELSE build[b]]
  /\ waiting' = waiting \ J

InLane(l) == {j \in waiting : Lane(j) = l}

Fault == faults < MaxFaults /\ faults' = faults + 1
Elsewhere == <<db, held, cache, graph, roots, known, building, reader, due, seen>>

\* 'error': everybody waiting on the lane is told.  The thread is still in the map.
ThreadFails(l) ==
  /\ Fault /\ thread[l] = "up"
  /\ thread' = [thread EXCEPT ![l] = "failing"] /\ posted' = [posted EXCEPT ![l] = <<>>]
  /\ worker' = IF l = "projection" THEN NoReading ELSE worker
  /\ held' = IF l = "projection" THEN [held EXCEPT !["worker"] = NoHeld] ELSE held
  /\ Rejected(InLane(l))
  /\ UNCHANGED <<db, cache, graph, roots, known, building, reader, due, seen>>

\* Mutant: what was sent after the error is not thought of.
ThreadExits_Quietly(l) ==
  /\ thread[l] = "failing" /\ thread' = [thread EXCEPT ![l] = "none"]
  /\ UNCHANGED <<waiting, scan, build, posted, worker, faults, Elsewhere>>

\* 'exit': the next job starts another thread; what was sent to this one is lost.
ThreadExits(l) ==
  /\ thread[l] = "failing" /\ thread' = [thread EXCEPT ![l] = "none"]
  /\ Rejected(InLane(l))
  /\ UNCHANGED <<posted, worker, faults, Elsewhere>>

\* The timer of a job rejects it; the thread works on.
JobTimesOut(j) ==
  /\ Fault /\ j \in waiting /\ Rejected({j})
  /\ UNCHANGED <<thread, posted, worker, Elsewhere>>

-----------------------------------------------------------------------------
(* Scans, and the cache that follows them.                                 *)

\* Mutant: a request during a pass is dropped.
Schedule_Drops(a) ==
  /\ timer' = IF pass.pc # "off" THEN timer ELSE TRUE
  /\ again' = a

\* schedule: held while a pass runs, which read before it; otherwise a timer.
Schedule(a) ==
  /\ timer' = IF pass.pc # "off" THEN timer ELSE TRUE
  /\ again' = (a \/ pass.pc # "off")

\* _walk writes the items it finds and asks for their correlation.
ScanStarts(s) ==
  /\ scan[s] = "idle" /\ scan' = [scan EXCEPT ![s] = "job"] /\ Posts(s) /\ Writes(Shelf)
  /\ UNCHANGED <<token, newest, repeated, writes, cache, views, reader, due, seen, faults>>

Working(j) == posted[Lane(j)] # <<>> /\ Head(posted[Lane(j)]) = j

\* The correlation writes a match.  The version is a count and a time: within one tick
\* of the clock it may stay as it was, and a deletion may bring back an earlier one.
ScanWrites(s) ==
  /\ Working(s) /\ writes[s] < MaxWrites
  /\ \E p \in 1..Pages : Writes(p)
  /\ token' \in 0..(newest + 1)
  /\ newest' = IF token' > newest THEN token' ELSE newest
  /\ repeated' = repeated \cup IF token' > newest THEN {} ELSE {token'}
  /\ writes' = [writes EXCEPT ![s] = @ + 1]
  /\ UNCHANGED <<pool, cache, views, scan, reader, due, seen, faults>>

\* Its answer ends the scan, which schedules a refresh; a late one is ignored.
ScanAnswers(s) ==
  /\ Working(s) /\ posted' = [posted EXCEPT !["catalogue"] = Tail(@)]
  /\ waiting' = waiting \ {s}
  /\ IF s \in waiting
     THEN scan' = [scan EXCEPT ![s] = "done"] /\ due' = Latest /\ Schedule(again)
     ELSE UNCHANGED <<scan, due, timer, again>>
  /\ UNCHANGED <<db, thread, worker, pass, views, reader, seen, faults>>

-----------------------------------------------------------------------------
(* refresh.                                                                *)

TimerFires ==
  /\ timer /\ timer' = FALSE /\ pass' = [pass EXCEPT !.pc = "version"]
  /\ UNCHANGED <<db, pool, again, views, scan, reader, due, seen, faults>>

Stale == graph.id = 0 \/ graph.version # token

PassReadsVersion ==
  /\ pass.pc = "version" /\ seen' = Latest
  /\ pass' = [pc |-> IF Stale THEN "pages" ELSE "end", reading |-> Begins]
  /\ UNCHANGED <<db, pool, timer, again, views, scan, reader, due, faults>>

PassReadsPage ==
  /\ pass.pc = "pages" /\ ~IsRead(pass.reading)
  /\ pass' = [pass EXCEPT !.reading = Reads(@)]
  /\ UNCHANGED <<db, pool, timer, again, views, scan, reader, due, seen, faults>>

\* The end of the pass: whoever asked meanwhile is served by another one.
PassEnds ==
  /\ pass.pc = "end"
  /\ pass' = [pc |-> "off", reading |-> NoReading]
  /\ timer' = (timer \/ again) /\ again' = FALSE
  /\ reader' = [r \in Readers |-> IF reader[r].pc = "joined" THEN [reader[r] EXCEPT !.pc = "warmed"]
                                  ELSE reader[r]]
  /\ UNCHANGED <<db, pool, views, scan, due, seen, faults>>
-----------------------------------------------------------------------------
(* Projections.                                                            *)

Put(f, k, v) == [j \in DOMAIN f \cup {k} |-> IF j = k THEN v ELSE f[j]]
Stored(key) == IF key \in DOMAIN roots THEN roots[key] ELSE NoAnswers

\* _build: only the groups that are missing are asked of the worker.
Builds(b, key, groups) ==
  /\ build' = [build EXCEPT ![b] = [NoBuild EXCEPT !.pc = "job", !.key = key, !.filled = Stored(key),
                                                   !.groups = groups \ DOMAIN Stored(key)]]
  /\ building' = Put(building, key, b)
  /\ Posts(b)

\* Mutant: whoever joined a pass takes what it answered.
Resumes_Trusts(r, b, filled) ==
  IF r = b \/ (reader[r].pc = "joining" /\ reader[r].joined = b)
  THEN Request("done", DOMAIN filled)
  ELSE reader[r]

\* A reader goes on with its own answer, or with one it joined if that is enough.
Resumes(r, b, filled) ==
  IF r = b \/ (reader[r].pc = "joining" /\ reader[r].joined = b /\ Wanted[r] \subseteq DOMAIN filled)
  THEN Request("done", DOMAIN filled)
  ELSE IF reader[r].pc = "joining" /\ reader[r].joined = b
  THEN [reader[r] EXCEPT !.pc = "again"]
  ELSE reader[r]

\* _project keeps an answer that describes the version its key names.
Keeps(key, version) == version = key

\* What follows an answer: it is kept or not, and whoever waits goes on.
Answered(b, answer) ==
  LET key == build[b].key
      filled == [g \in DOMAIN build[b].filled \cup build[b].groups |->
                   IF g \in build[b].groups THEN answer.content ELSE build[b].filled[g]]
  IN  /\ IF Keeps(key, answer.version)
         THEN roots' = Put(roots, key, filled) /\ known' = known \cup DOMAIN filled
         ELSE UNCHANGED <<roots, known>>
      /\ build' = [build EXCEPT ![b] = NoBuild]
      /\ building' = [v \in DOMAIN building \ {key} |-> building[v]]
      /\ reader' = [r \in Readers |-> Resumes(r, b, filled)]
      /\ pass' = IF b = "warm" THEN [pass EXCEPT !.pc = "end"] ELSE pass

\* The worker reads the version, the pages and the shelf for its next job.
WorkerReads ==
  /\ posted["projection"] # <<>> /\ ~(worker.page > 0 /\ IsProjected(worker))
  /\ worker' = IF worker.page = 0 THEN Projects("worker") ELSE Reads(worker)
  /\ UNCHANGED <<db, thread, posted, waiting, cache, views, scan, reader, due, seen, faults>>

\* And answers, if the caller still waits.
WorkerAnswers ==
  /\ posted["projection"] # <<>> /\ worker.page > 0 /\ IsProjected(worker)
  /\ LET b == Head(posted["projection"])
     IN  /\ posted' = [posted EXCEPT !["projection"] = Tail(@)]
         /\ waiting' = waiting \ {b}
         /\ IF b \in waiting THEN Answered(b, worker)
            ELSE UNCHANGED <<roots, known, build, building, reader, pass>>
  /\ worker' = NoReading
  /\ held' = [held EXCEPT !["worker"] = [version |-> worker.version, content |-> Matches(worker.content)]]
  /\ UNCHANGED <<db, thread, timer, again, graph, scan, due, seen, faults>>

\* The gateway makes the projection itself when the worker could not.
HereReads(b) ==
  /\ build[b].pc = "here" /\ ~(build[b].reading.page > 0 /\ IsProjected(build[b].reading))
  /\ build' = [build EXCEPT ![b].reading = IF @.page = 0 THEN Projects("here") ELSE Reads(@)]
  /\ UNCHANGED <<db, pool, cache, graph, roots, known, building, held, scan, reader, due, seen, faults>>

HereAnswers(b) ==
  /\ build[b].pc = "here" /\ build[b].reading.page > 0 /\ IsProjected(build[b].reading)
  /\ Answered(b, build[b].reading)
  /\ held' = [held EXCEPT !["here"] = [version |-> build[b].reading.version,
                                       content |-> Matches(build[b].reading.content)]]
  /\ UNCHANGED <<db, pool, timer, again, graph, scan, due, seen, faults>>

\* The graph changes in one assignment; then _warm projects anew what people have
\* asked about, before the change is announced.
PassStores ==
  LET read == pass.reading
  IN  /\ pass.pc = "pages" /\ IsRead(read)
      /\ graph' = [id |-> graph.id + 1, version |-> read.version, content |-> read.content]
      /\ IF known # {} /\ read.version \notin DOMAIN roots
         THEN Builds("warm", read.version, known) /\ pass' = [pass EXCEPT !.pc = "warming"]
         ELSE pass' = [pass EXCEPT !.pc = "end"] /\ UNCHANGED <<build, building, pool>>
      /\ UNCHANGED <<db, timer, again, roots, known, held, scan, reader, due, seen, faults>>

-----------------------------------------------------------------------------
(* Requests.                                                               *)

\* _context reads the version, then other things.
Ask(r) ==
  /\ reader[r].pc = "idle"
  /\ reader' = [reader EXCEPT ![r] = [@ EXCEPT !.pc = "context", !.version = token]]
  /\ UNCHANGED <<db, pool, cache, views, scan, due, seen, faults>>

Draws(r, v) == reader' = [reader EXCEPT ![r] = [@ EXCEPT !.pc = "roots", !.drawn = v, !.before = 0]]

\* _cachedGraph: a graph of another version is waited for.  refreshNow joins the
\* pass that runs or starts one.
Compare(r) ==
  /\ reader[r].pc = "context"
  /\ IF graph.id # 0 /\ graph.version = reader[r].version
     THEN Draws(r, graph.version) /\ UNCHANGED <<timer, pass>>
     ELSE /\ reader' = [reader EXCEPT ![r] = [@ EXCEPT !.pc = "joined", !.before = graph.id]]
          /\ timer' = FALSE
          /\ pass' = IF pass.pc = "off" THEN [pass EXCEPT !.pc = "version"] ELSE pass
  /\ UNCHANGED <<db, pool, again, views, scan, due, seen, faults>>

\* A new graph is taken as it is; without one the request reads the whole table.
Warmed(r) ==
  /\ reader[r].pc = "warmed"
  /\ IF graph.id # reader[r].before
     THEN Draws(r, graph.version) /\ UNCHANGED graph
     ELSE /\ graph' = [id |-> graph.id + 1, version |-> reader[r].version, content |-> Matches(table)]
          /\ Draws(r, reader[r].version)
  /\ UNCHANGED <<db, pool, cache, roots, known, build, building, held, scan, due, seen, faults>>

\* _rootsBeneath: the answer from the store, from a pass under way, or from its own.
Roots(r) ==
  LET key == graph.version
  IN  /\ reader[r].pc = "roots"
      /\ \/ /\ Wanted[r] \subseteq DOMAIN Stored(key)
            /\ reader' = [reader EXCEPT ![r] = Request("done", DOMAIN Stored(key))]
            /\ UNCHANGED <<build, building, pool>>
         \/ /\ ~(Wanted[r] \subseteq DOMAIN Stored(key)) /\ key \in DOMAIN building
            /\ reader' = [reader EXCEPT ![r] = [@ EXCEPT !.pc = "joining", !.joined = building[key],
                                                         !.version = key, !.drawn = -1]]
            /\ UNCHANGED <<build, building, pool>>
         \/ /\ ~(Wanted[r] \subseteq DOMAIN Stored(key)) /\ key \notin DOMAIN building
            /\ reader' = [reader EXCEPT ![r] = Request("built", {})]
            /\ Builds(r, key, Wanted[r])
      /\ UNCHANGED <<db, cache, graph, roots, known, held, scan, due, seen, faults>>

\* What it joined was about other groups: it builds, unless the store has it by now.
BuildAgain(r) ==
  LET key == reader[r].version
  IN  /\ reader[r].pc = "again"
      /\ IF Wanted[r] \subseteq DOMAIN Stored(key)
         THEN /\ reader' = [reader EXCEPT ![r] = Request("done", DOMAIN Stored(key))]
              /\ UNCHANGED <<build, building, pool>>
         ELSE reader' = [reader EXCEPT ![r] = Request("built", {})] /\ Builds(r, key, Wanted[r])
      /\ UNCHANGED <<db, cache, graph, roots, known, held, scan, due, seen, faults>>

-----------------------------------------------------------------------------
ReaderStep(r) == Compare(r) \/ Warmed(r) \/ Roots(r) \/ BuildAgain(r)

\* What goes on by itself.
Progress ==
  \/ TimerFires \/ PassReadsVersion \/ PassReadsPage \/ PassStores \/ PassEnds
  \/ WorkerReads \/ WorkerAnswers
  \/ \E s \in Scans : ScanAnswers(s)
  \/ \E b \in Builders : HereReads(b) \/ HereAnswers(b)
  \/ \E r \in Readers : ReaderStep(r)
  \/ \E l \in Lanes : ThreadExits(l)

Next ==
  \/ Progress
  \/ \E s \in Scans : ScanStarts(s) \/ ScanWrites(s)
  \/ \E r \in Readers : Ask(r)
  \/ \E l \in Lanes : ThreadFails(l)
  \/ \E j \in Scans \cup Builders : JobTimesOut(j)

Spec == Init /\ [][Next]_vars

\* Queries answer, timers fire, a thread that failed exits.  Scans, requests and
\* faults are bounded and every step uses something up.
FairSpec == Spec /\ WF_vars(Progress)

-----------------------------------------------------------------------------
(* Properties.                                                             *)

Contents == [Places -> Int]

\* Shape of the state; a job is waited for exactly while its caller waits for it.
TypeOK ==
  /\ thread \in [Lanes -> {"none", "up", "failing"}]
  /\ waiting = {s \in Scans : scan[s] = "job"} \cup {b \in Builders : build[b].pc = "job"}
  /\ token \in 0..newest /\ repeated \subseteq 0..newest
  /\ graph.content \in Contents /\ graph.version \in -1..newest
  /\ \A v \in DOMAIN roots : \A g \in DOMAIN roots[v] : g \in Groups /\ roots[v][g] \in Contents
  /\ \A r \in Readers :
       reader[r].pc \in {"idle", "context", "joined", "warmed", "roots", "joining", "again", "built", "done"}
  /\ \A b \in Builders : build[b].pc \in {"off", "job", "here"}
  /\ known \subseteq Groups /\ timer \in BOOLEAN /\ again \in BOOLEAN

\* The matches of a reading are those the table has now.
SameMatches(content) == \A p \in 1..Pages : content[p] = table[p]

\* A graph that claims the version the table has now is the graph of that table,
\* however many writes went on while it was read.
GraphIsExact == graph.version = token => SameMatches(graph.content)

\* So is every stored projection.
RootsAreExact ==
  token \in DOMAIN roots => \A g \in DOMAIN roots[token] : SameMatches(roots[token][g])

\* _project: no wall is confidently wrong about the matches.  What is kept under the
\* version the table has now was made from the matches it has now, whatever was written
\* while it was read and whoever shared it, unless the table has had that version before.
KeptIsExact == token \notin repeated => GraphIsExact /\ RootsAreExact

\* A request is answered for every group it asked about, also when it joined a pass
\* that another request started for other groups.
AnswersAreComplete ==
  \A r \in Readers : reader[r].pc = "done" => Wanted[r] \subseteq reader[r].got

\* Whatever threads die or time out, every request is answered: there is always a
\* later moment when nobody waits.
RequestsEnd == []<>(\A r \in Readers : reader[r].pc \in {"idle", "done"})

\* A scan that ended is followed by a pass that began after its last write, even when
\* one was running that had not.
ScansAreFollowed == seen < due ~> seen >= due

-----------------------------------------------------------------------------
(* What comments promise and the code does not keep.                       *)

\* _context: "answering from a graph built before it shows somebody a library that
\* disagrees with the pass they watched run": a request is drawn from a graph no
\* older than the version it read.
DrawnIsNotBehind ==
  \A r \in Readers : reader[r].pc = "roots" => reader[r].drawn >= reader[r].version

\* _rootsBeneath: "the answer only changes when the catalogue does, and the catalogue
\* says so": what is kept was made from the items and services there are.
KeptFollowsItems ==
  token \in DOMAIN roots => \A g \in DOMAIN roots[token] : roots[token][g][Shelf] = table[Shelf]
=============================================================================
