--------------------------- MODULE TransferQueue ---------------------------
(***************************************************************************)
(* The pool of services/transfer-engine.service.ts and the requests        *)
(* managers/transfer.manager.ts makes of it: which transfers wait, which   *)
(* start, and what pausing, cancelling, redirecting, retrying or archiving *)
(* one does to a run that is already under way.                            *)
(*                                                                         *)
(* A step is the code between two awaits that leave the process (the       *)
(* database, a source, the disk).  Reading the settings does not: they are *)
(* cached.  A run is one call of _run; the pieces it downloads, verifies   *)
(* and repairs are TransferRun's, the copy into the library is FileMove's. *)
(*                                                                         *)
(* TypeORM's save(entity) writes every column in which the entity differs  *)
(* from its row, and inserts a row that is gone: saving the entity a run   *)
(* loaded when it started is modelled as writing that whole entity.        *)
(***************************************************************************)
EXTENDS Integers, Sequences, FiniteSets

CONSTANTS
  Transfers,     \* transfers, numbered in the order they were created
  MaxParallel,   \* the setting maxParallelTransfers
  Lanes,         \* names for rival runs of one transfer; the code wants one
  Folders,       \* destinations a transfer can be sent to
  Home,          \* the destination placement chose first
  Requests,      \* which requests are made of the manager
  Callers,       \* requests in progress at once
  MaxRequests,   \* bound on the requests of a behaviour
  MaxStops       \* bound on crashes and shutdowns of a behaviour

ASSUME QueueConstants ==
  /\ Transfers \subseteq Nat /\ IsFiniteSet(Transfers)
  /\ MaxParallel \in Nat \ {0}
  /\ Lanes \subseteq Nat \ {0} /\ Lanes # {}
  /\ Home \in Folders
  /\ MaxRequests \in Nat /\ MaxStops \in Nat

VARIABLES
  row,         \* the transfer rows of the database
  work,        \* transfers whose working file is on disk
  placed,      \* where a transfer's file has been moved to
  queuePaused, \* the setting queuePaused
  up,          \* the process is serving
  draining,    \* _draining
  queue,       \* _queue
  starting,    \* _starting
  running,     \* _running: the lane registered for a transfer, or NoLane
  run,         \* the calls of _run in progress
  caller,      \* the manager calls in progress
  asked,       \* requests made so far
  stops        \* crashes and shutdowns so far

store   == <<row, work, placed, queuePaused>>
memory  == <<queue, starting, running, run>>
bounds  == <<asked, stops>>
vars    == <<store, up, draining, memory, caller, bounds>>

Finished == {"done", "failed", "cancelled"}
Live     == {"queued", "connecting", "downloading", "verifying", "repairing", "placing"}
States   == Finished \cup Live \cup {"paused"}
Kinds    == {"none", "failed", "cancelled", "service_removed"}

Row    == [state : States, target : Folders, kind : Kinds]
NoRow  == [state |-> "none", target |-> Home, kind |-> "none"]
NoLane == 0

Steps == {"idle", "load", "connect", "prepare", "persist", "open", "announce",
          "download", "verify", "place", "move", "settle", "close"}

Run == [pc : Steps, seen : Row \cup {NoRow}, pausing : BOOLEAN, cancelling : BOOLEAN,
        kind : Kinds, reason : {"none", "pause", "cancel"}]
NoRun == [pc |-> "idle", seen |-> NoRow, pausing |-> FALSE, cancelling |-> FALSE,
          kind |-> "cancelled", reason |-> "none"]

Runs == Transfers \X Lanes

Operations == {"pause", "resume", "cancel", "remove", "retry", "repair", "archive",
               "redirect", "pauseAll", "resumeAll"}
Caller == [op : Operations \cup {"none"}, step : 0..2, todo : Seq(Transfers),
           seen : Row \cup {NoRow}]
NoCall == [op |-> "none", step |-> 0, todo |-> <<>>, seen |-> NoRow]

Init ==
  /\ row = [t \in Transfers |-> [state |-> "queued", target |-> Home, kind |-> "none"]]
  /\ work = {} /\ placed = [t \in Transfers |-> {}]
  /\ queuePaused = FALSE
  /\ up = FALSE /\ draining = FALSE
  /\ queue = <<>> /\ starting = {}
  /\ running = [t \in Transfers |-> NoLane]
  /\ run = [r \in Runs |-> NoRun]
  /\ caller = [c \in Callers |-> NoCall]
  /\ asked = 0 /\ stops = 0

-----------------------------------------------------------------------------
(* The pool.                                                               *)

Registered(rn) == {t \in Transfers : rn[t] # NoLane}

\* Mutant: only registered runs count, as before _starting existed.
Free_RegisteredOnly(q, s, rn, i) == Cardinality(Registered(rn)) < MaxParallel

\* The loop condition of _pump once i transfers have been taken off the queue:
\* a registered run is counted in _running and still in _starting.
Free(q, s, rn, i) ==
  Cardinality(Registered(rn)) + Cardinality(s \cup {q[j] : j \in 1..i}) < MaxParallel

\* The loop takes n transfers: it goes on while there is room and stops when there is none.
Admits(q, s, rn, n) ==
  /\ \A i \in 0..(n - 1) : Free(q, s, rn, i)
  /\ n < Len(q) => ~Free(q, s, rn, n)

FreeLane(rs, t) == CHOOSE l \in Lanes : rs[<<t, l>>] = NoRun

\* n transfers leave the queue and a call of _run begins for each.
Take(n, q, s, rn, rs) ==
  LET ids == {q[i] : i \in 1..n}
  IN  /\ queue' = SubSeq(q, n + 1, Len(q))
      /\ starting' = s \cup ids
      /\ run' = [r \in Runs |-> IF r[1] \in ids /\ r[2] = FreeLane(rs, r[1])
                                THEN [NoRun EXCEPT !.pc = "load"] ELSE rs[r]]
      /\ running' = rn

\* Mutant: the pump does not look at the setting.
Pump_Ungated(q, s, rn, rs) ==
  \E n \in 0..Len(q) :
    /\ IF draining THEN n = 0 ELSE Admits(q, s, rn, n)
    /\ Take(n, q, s, rn, rs)

\* _pump, called with the queue, the sets and the runs the caller leaves.
Pump(q, s, rn, rs) ==
  \E n \in 0..Len(q) :
    /\ IF draining \/ queuePaused THEN n = 0 ELSE Admits(q, s, rn, n)
    /\ Take(n, q, s, rn, rs)

InQueue(t) == \E i \in 1..Len(queue) : queue[i] = t

\* _removeFromQueue: the first occurrence goes.
Without(q, t) ==
  IF \E i \in 1..Len(q) : q[i] = t
  THEN LET k == CHOOSE i \in 1..Len(q) : q[i] = t /\ \A j \in 1..(i - 1) : q[j] # t
       IN  [i \in 1..(Len(q) - 1) |-> IF i < k THEN q[i] ELSE q[i + 1]]
  ELSE q

\* Mutant: a transfer between the queue and its registration is invisible.
Enqueue_BlindToStarting(t) ==
  IF running[t] # NoLane \/ InQueue(t)
  THEN UNCHANGED <<row, memory>>
  ELSE Pump(Append(queue, t), starting, running, run) /\ UNCHANGED row

\* Mutant: a transfer that already waits is queued again.
Enqueue_BlindToQueue(t) ==
  IF running[t] # NoLane \/ t \in starting
  THEN UNCHANGED <<row, memory>>
  ELSE Pump(Append(queue, t), starting, running, run) /\ UNCHANGED row

\* enqueue: ignored for a transfer already in hand, paused behind a paused queue.
Enqueue(t) ==
  IF running[t] # NoLane \/ t \in starting \/ InQueue(t)
  THEN UNCHANGED <<row, memory>>
  ELSE IF queuePaused
       THEN /\ row' = IF row[t] = NoRow THEN row ELSE [row EXCEPT ![t].state = "paused"]
            /\ UNCHANGED memory
       ELSE Pump(Append(queue, t), starting, running, run) /\ UNCHANGED row

\* The first abort of a controller decides its reason; a later one changes nothing.
Aborted(r, why) == IF r.reason = "none" THEN why ELSE r.reason

\* Mutant: the row is given the name of the request, not of the state.
EnginePause_WritesRequest(t) ==
  /\ queue' = Without(queue, t)
  /\ row' = [row EXCEPT ![t].state = "pause"]
  /\ UNCHANGED <<run, starting, running>>

\* TransferEngineService.pause
EnginePause(t) ==
  IF running[t] # NoLane
  THEN /\ run' = [run EXCEPT ![<<t, running[t]>>].pausing = TRUE,
                             ![<<t, running[t]>>].reason = Aborted(run[<<t, running[t]>>], "pause")]
       /\ UNCHANGED <<row, queue, starting, running>>
  ELSE /\ queue' = Without(queue, t)
       /\ row' = IF row[t] = NoRow THEN row ELSE [row EXCEPT ![t].state = "paused"]
       /\ UNCHANGED <<run, starting, running>>

\* The half of cancel that acts on a transfer that is not running.
Discard(t, kind) ==
  /\ row' = IF row[t] = NoRow THEN row
            ELSE [row EXCEPT ![t].state = "cancelled", ![t].kind = kind]
  /\ work' = IF row[t] = NoRow THEN work ELSE work \ {t}
  /\ queue' = Without(queue, t)

\* TransferEngineService.cancel
EngineCancel(t, kind) ==
  IF running[t] # NoLane
  THEN LET r == <<t, running[t]>>
       IN  /\ run' = [run EXCEPT ![r].cancelling = TRUE, ![r].kind = kind,
                                 ![r].reason = Aborted(run[r], "cancel")]
           /\ UNCHANGED <<row, work, queue, starting, running>>
  ELSE Discard(t, kind) /\ UNCHANGED <<run, starting, running>>

-----------------------------------------------------------------------------
(* One call of _run, await by await.                                       *)

At(r, pc) == up /\ run[r].pc = pc
Goto(r, pc) == run' = [run EXCEPT ![r].pc = pc]
Quiet == UNCHANGED <<up, draining, caller, bounds, queuePaused>>

\* _setState: a row that has been deleted makes it throw, and _run then ends.
RunSetsState(r, state, next) ==
  IF row[r[1]] = NoRow
  THEN Goto(r, "close") /\ UNCHANGED row
  ELSE Goto(r, next) /\ row' = [row EXCEPT ![r[1]].state = state]

\* save(running.transfer): the entity as the run loaded it, whatever the row says now.
RunSaves(r, state, kind) ==
  row' = [row EXCEPT ![r[1]] = [run[r].seen EXCEPT !.state = state, !.kind = kind]]

\* The catch of _run: the row is loaded afresh and marked failed, if it is still there.
RunThrows(r) ==
  /\ row' = IF row[r[1]] = NoRow THEN row
            ELSE [row EXCEPT ![r[1]].state = "failed", ![r[1]].kind = "failed"]
  /\ Goto(r, "close")
  /\ UNCHANGED <<work, placed, queue, starting, running>>

\* The entry leaves _running first, then cancel acts on a transfer that is not running.
RunCancels(r, kind) ==
  /\ running' = [running EXCEPT ![r[1]] = NoLane]
  /\ Discard(r[1], kind)
  /\ Goto(r, "close")
  /\ UNCHANGED <<placed, starting>>

RunLoad(r) ==
  /\ At(r, "load")
  /\ IF row[r[1]] = NoRow \/ row[r[1]].state \in {"cancelled", "done"}
     THEN Goto(r, "close")
     ELSE run' = [run EXCEPT ![r].pc = "connect", ![r].seen = row[r[1]]]
  /\ UNCHANGED <<store, queue, starting, running>> /\ Quiet

RunConnect(r) ==
  /\ At(r, "connect")
  /\ RunSetsState(r, "connecting", "prepare")
  /\ UNCHANGED <<work, placed, queue, starting, running>> /\ Quiet

\* _prepareSources asks every source; with none left the transfer fails.
RunPrepare(r) ==
  /\ At(r, "prepare")
  /\ \/ Goto(r, "persist") /\ UNCHANGED row
     \/ Goto(r, "close") /\ RunSaves(r, "failed", "failed")
  /\ UNCHANGED <<work, placed, queue, starting, running>> /\ Quiet

\* _persistPlan saves the entity loaded before the sources were asked.
RunPersist(r) ==
  /\ At(r, "persist")
  /\ RunSaves(r, run[r].seen.state, run[r].seen.kind)
  /\ Goto(r, "open")
  /\ UNCHANGED <<work, placed, queue, starting, running>> /\ Quiet

\* _openWorkFile, then the run registers itself.
RunOpen(r) ==
  /\ At(r, "open")
  /\ work' = work \cup {r[1]}
  /\ running' = [running EXCEPT ![r[1]] = r[2]]
  /\ Goto(r, "announce")
  /\ UNCHANGED <<row, placed, queue, starting>> /\ Quiet

RunAnnounce(r) ==
  /\ At(r, "announce")
  /\ RunSetsState(r, "downloading", "download")
  /\ UNCHANGED <<work, placed, queue, starting, running>> /\ Quiet

\* _account saves the entity every few megabytes, without waiting for it.
RunProgress(r) ==
  /\ At(r, "download")
  /\ RunSaves(r, run[r].seen.state, run[r].seen.kind)
  /\ row' # row
  /\ UNCHANGED <<work, placed, memory>> /\ Quiet

\* _download returns: cancelled, paused, or every piece held.
RunDownloaded(r) ==
  /\ At(r, "download")
  /\ IF run[r].cancelling
     THEN RunCancels(r, run[r].kind)
     ELSE /\ IF run[r].pausing
             THEN RunSetsState(r, "paused", "close")
             ELSE RunSetsState(r, "verifying", "verify")
          /\ UNCHANGED <<work, placed, queue, starting, running>>
  /\ Quiet

\* Verification and its repair passes give a verdict; no flag is read meanwhile.
RunVerify(r) ==
  /\ At(r, "verify")
  /\ \/ RunSetsState(r, "placing", "place")
     \/ RunSaves(r, "failed", "failed") /\ Goto(r, "close")
  /\ UNCHANGED <<work, placed, queue, starting, running>> /\ Quiet

\* The move was stopped: the reason of the abort decides what that means.
RunMoveStopped(r) ==
  IF run[r].reason = "cancel"
  THEN RunCancels(r, "cancelled")
  ELSE /\ RunSetsState(r, "paused", "close")
       /\ UNCHANGED <<work, placed, queue, starting, running>>

\* FileMoveService.move looks at the signal before it touches anything.
RunPlace(r) ==
  /\ At(r, "place")
  /\ IF run[r].reason = "none"
     THEN Goto(r, "move") /\ UNCHANGED <<row, work, placed, queue, starting, running>>
     ELSE RunMoveStopped(r)
  /\ Quiet

\* Mutant: the file goes where the row says, the entity saved afterwards does not know.
RunMove_ReadsRow(r) ==
  /\ At(r, "move")
  /\ placed' = [placed EXCEPT ![r[1]] = @ \cup {row[r[1]].target}]
  /\ work' = work \ {r[1]}
  /\ Goto(r, "settle")
  /\ UNCHANGED <<row, queue, starting, running>>
  /\ Quiet

\* The move itself: a rename cannot be stopped any more, a copy can.
RunMove(r) ==
  /\ At(r, "move")
  /\ \/ /\ placed' = [placed EXCEPT ![r[1]] = @ \cup {run[r].seen.target}]
        /\ work' = work \ {r[1]}
        /\ Goto(r, "settle")
        /\ UNCHANGED <<row, queue, starting, running>>
     \/ run[r].reason # "none" /\ RunMoveStopped(r)
  /\ Quiet

RunSettle(r) ==
  /\ At(r, "settle")
  /\ RunSaves(r, "done", "none")
  /\ Goto(r, "close")
  /\ UNCHANGED <<work, placed, queue, starting, running>> /\ Quiet

\* A source, the disk or the database fails where _run has no answer of its own.
RunError(r) ==
  /\ up /\ run[r].pc \in {"open", "download", "move"}
  /\ RunThrows(r) /\ Quiet

\* Mutant: the slot is not given back.
RunEnds_KeepsSlot(r) ==
  /\ At(r, "close")
  /\ Pump(queue, starting, [running EXCEPT ![r[1]] = NoLane], [run EXCEPT ![r] = NoRun])
  /\ UNCHANGED store /\ Quiet

\* Mutant: the end of a run does not pump.
RunEnds_NoPump(r) ==
  /\ At(r, "close")
  /\ starting' = starting \ {r[1]}
  /\ running' = [running EXCEPT ![r[1]] = NoLane]
  /\ run' = [run EXCEPT ![r] = NoRun]
  /\ UNCHANGED <<store, queue>> /\ Quiet

\* The handle is closed, the finally of _pump forgets the run and pumps again.
RunEnds(r) ==
  /\ At(r, "close")
  /\ Pump(queue, starting \ {r[1]}, [running EXCEPT ![r[1]] = NoLane],
          [run EXCEPT ![r] = NoRun])
  /\ UNCHANGED store /\ Quiet

RunStep(r) ==
  \/ RunLoad(r) \/ RunConnect(r) \/ RunPrepare(r) \/ RunPersist(r) \/ RunOpen(r)
  \/ RunAnnounce(r) \/ RunDownloaded(r) \/ RunVerify(r) \/ RunPlace(r) \/ RunMove(r)
  \/ RunSettle(r) \/ RunError(r) \/ RunEnds(r)

-----------------------------------------------------------------------------
(* Requests: the manager reads the row, decides, then acts on what it read. *)

Begin(c, op, call) ==
  /\ up /\ ~draining /\ op \in Requests /\ caller[c] = NoCall /\ asked < MaxRequests
  /\ caller' = [caller EXCEPT ![c] = call]
  /\ asked' = asked + 1
  /\ UNCHANGED <<up, draining, stops, memory>>

\* cancel leaves a failed transfer alone; cancelling its whole lot does not.
Allowed(op, state) ==
  CASE op = "pause"    -> state \notin Finished \cup {"paused"}
    [] op = "resume"   -> state \in {"paused", "failed"}
    [] op = "retry"    -> state \in {"failed", "cancelled"}
    [] op = "cancel"   -> state \notin {"done", "cancelled"}
    [] op = "remove"   -> state \notin Finished
    [] op = "repair"   -> TRUE
    [] op = "archive"  -> TRUE
    [] op = "redirect" -> state \notin {"placing", "done"}

\* A request about one transfer; what it read stays with it until it acts.
Ask(c, op, t) ==
  /\ row[t] # NoRow
  /\ Allowed(op, row[t].state)
  /\ Begin(c, op, [op |-> op, step |-> 1, todo |-> <<t>>, seen |-> row[t]])
  /\ UNCHANGED store

InOrder(S) == {q \in [1..Cardinality(S) -> S] : \A i, j \in 1..Cardinality(S) : i < j => q[i] < q[j]}

\* pauseAll and resumeAll write the setting, then list the rows they will walk.
AskAll(c, op) ==
  /\ op \in {"pauseAll", "resumeAll"}
  /\ LET S == IF op = "pauseAll"
              THEN {t \in Transfers : row[t].state \in Live}
              ELSE {t \in Transfers : row[t].state = "paused"}
     IN  \E q \in InOrder(S) : Begin(c, op, [op |-> op, step |-> 1, todo |-> q, seen |-> NoRow])
  /\ queuePaused' = (op = "pauseAll")
  /\ UNCHANGED <<row, work, placed>>

Subject(c) == Head(caller[c].todo)
Acting(c, ops, step) ==
  /\ up /\ caller[c].op \in ops /\ caller[c].step = step /\ caller[c].todo # <<>>
  /\ UNCHANGED <<up, draining, bounds, queuePaused, placed>>
Halfway(c) == caller' = [caller EXCEPT ![c].step = 2]
\* The walk of pauseAll and resumeAll goes on with the next row of its list.
Walked(k)  == IF Len(k.todo) = 1 THEN NoCall
              ELSE [op |-> k.op, step |-> 1, todo |-> Tail(k.todo), seen |-> k.seen]
Finish(c)  == caller' = [caller EXCEPT ![c] = Walked(caller[c])]

ActPause(c) ==
  /\ Acting(c, {"pause", "pauseAll"}, 1)
  /\ EnginePause(Subject(c))
  /\ Finish(c) /\ UNCHANGED work

ActCancel(c) ==
  /\ Acting(c, {"cancel", "remove"}, 1)
  /\ EngineCancel(Subject(c), IF caller[c].op = "remove" THEN "service_removed" ELSE "cancelled")
  /\ Finish(c)

\* engine.resume writes the row first; for a row that is gone it throws.
ActResume(c) ==
  /\ Acting(c, {"resume", "resumeAll"}, 1)
  /\ IF row[Subject(c)] = NoRow
     THEN Finish(c) /\ UNCHANGED row
     ELSE Halfway(c) /\ row' = [row EXCEPT ![Subject(c)].state = "queued"]
  /\ UNCHANGED <<work, memory>>

\* retry drops the chunk rows and saves the entity it read, repair likewise.
ActRequeue(c) ==
  /\ Acting(c, {"retry", "repair"}, 1)
  /\ row' = [row EXCEPT ![Subject(c)] =
       IF caller[c].op = "retry"
       THEN [caller[c].seen EXCEPT !.state = "queued", !.kind = "none"]
       ELSE [caller[c].seen EXCEPT !.state = "repairing"]]
  /\ Halfway(c)
  /\ UNCHANGED <<work, memory>>

ActEnqueue(c) ==
  /\ Acting(c, {"resume", "resumeAll", "retry", "repair"}, 2)
  /\ Enqueue(Subject(c))
  /\ Finish(c) /\ UNCHANGED work

\* archive cancels what was live when it read the row, then deletes the rows.
ActArchive(c) ==
  /\ Acting(c, {"archive"}, 1)
  /\ IF caller[c].seen.state \in Finished
     THEN UNCHANGED <<row, work, memory>>
     ELSE EngineCancel(Subject(c), "cancelled")
  /\ Halfway(c)

ActDelete(c) ==
  /\ Acting(c, {"archive"}, 2)
  /\ row' = [row EXCEPT ![Subject(c)] = NoRow]
  /\ Finish(c) /\ UNCHANGED <<work, memory>>

\* _retarget saves the entity the request read, with its new destination.
ActRedirect(c) ==
  /\ Acting(c, {"redirect"}, 1)
  /\ \E f \in Folders \ {caller[c].seen.target} :
       row' = [row EXCEPT ![Subject(c)] = [caller[c].seen EXCEPT !.target = f]]
  /\ Finish(c) /\ UNCHANGED <<work, memory>>

\* A walk over no rows has nothing to do.
ActNothing(c) ==
  /\ up /\ caller[c].op # "none" /\ caller[c].todo = <<>>
  /\ caller' = [caller EXCEPT ![c] = NoCall]
  /\ UNCHANGED <<store, up, draining, bounds, memory>>

CallStep(c) ==
  \/ ActPause(c) \/ ActCancel(c) \/ ActResume(c) \/ ActRequeue(c) \/ ActEnqueue(c)
  \/ ActArchive(c) \/ ActDelete(c) \/ ActRedirect(c) \/ ActNothing(c)

-----------------------------------------------------------------------------
(* The process: what survives it is the database and the disk.             *)

\* onApplicationBootstrap rebuilds the queue from the rows that were moving.
Boot ==
  /\ ~up
  /\ up' = TRUE
  /\ LET S == {t \in Transfers : row[t].state \in Live}
     IN  IF queuePaused
         THEN /\ row' = [t \in Transfers |-> IF t \in S THEN [row[t] EXCEPT !.state = "paused"]
                                                        ELSE row[t]]
              /\ UNCHANGED memory
         ELSE /\ \E q \in InOrder(S) : Pump(q, starting, running, run)
              /\ UNCHANGED row
  /\ UNCHANGED <<work, placed, queuePaused, draining, caller, bounds>>

\* onModuleDestroy: every registered run is asked to pause, nothing starts any more.
Shutdown ==
  /\ up /\ ~draining /\ stops < MaxStops
  /\ draining' = TRUE
  /\ run' = [r \in Runs |-> IF running[r[1]] = r[2]
                            THEN [run[r] EXCEPT !.pausing = TRUE, !.reason = Aborted(run[r], "pause")]
                            ELSE run[r]]
  /\ UNCHANGED <<store, up, queue, starting, running, caller, bounds>>

\* The process is gone, at the end of a shutdown or without one.
Die ==
  /\ up /\ stops < MaxStops
  /\ stops' = stops + 1
  /\ up' = FALSE /\ draining' = FALSE
  /\ queue' = <<>> /\ starting' = {}
  /\ running' = [t \in Transfers |-> NoLane]
  /\ run' = [r \in Runs |-> NoRun]
  /\ caller' = [c \in Callers |-> NoCall]
  /\ UNCHANGED <<store, asked>>

Next ==
  \/ \E r \in Runs : RunStep(r) \/ RunProgress(r)
  \/ \E c \in Callers, op \in Operations \ {"pauseAll", "resumeAll"}, t \in Transfers : Ask(c, op, t)
  \/ \E c \in Callers, op \in {"pauseAll", "resumeAll"} : AskAll(c, op)
  \/ \E c \in Callers : CallStep(c)
  \/ Boot \/ Shutdown \/ Die

\* Every await ends: sources and database calls time out, the event loop is fair.
Fairness ==
  /\ \A r \in Runs : WF_vars(RunStep(r))
  /\ \A c \in Callers : WF_vars(CallStep(c))
  /\ WF_vars(Boot)

Spec == Init /\ [][Next]_vars
FairSpec == Spec /\ Fairness

-----------------------------------------------------------------------------
(* Properties.                                                             *)

Alive(r) == run[r].pc # "idle"

\* Shape of the state.
TypeOK ==
  /\ row \in [Transfers -> Row \cup {NoRow}]
  /\ work \subseteq Transfers /\ placed \in [Transfers -> SUBSET Folders]
  /\ queuePaused \in BOOLEAN /\ up \in BOOLEAN /\ draining \in BOOLEAN
  /\ queue \in Seq(Transfers) /\ starting \subseteq Transfers
  /\ running \in [Transfers -> Lanes \cup {NoLane}]
  /\ run \in [Runs -> Run]
  /\ caller \in [Callers -> Caller]
  /\ asked \in Nat /\ stops \in Nat

\* _pump: maxParallelTransfers bounds the transfers being worked on, those that
\* are still loading their row and asking their sources included.
PoolBound == Cardinality({t \in Transfers : \E l \in Lanes : Alive(<<t, l>>)}) <= MaxParallel

\* _starting: a transfer is never carried by two competing runs, which would
\* write the same offsets of one working file.
NoRivals == \A t \in Transfers : \A l, m \in Lanes : Alive(<<t, l>>) /\ Alive(<<t, m>>) => l = m

\* A transfer waits once or is being worked on, never both; and a slot of the
\* pool is held exactly as long as a run is using it.
InHandOnce ==
  /\ \A i, j \in 1..Len(queue) : queue[i] = queue[j] => i = j
  /\ \A i \in 1..Len(queue) : queue[i] \notin starting
  /\ starting = {t \in Transfers : \E l \in Lanes : Alive(<<t, l>>)}

\* A row that says done names the place its file was moved to, whatever was
\* saved over it on the way.
DoneIsPlaced == \A t \in Transfers : row[t].state = "done" => row[t].target \in placed[t]

\* Settings.queuePaused: behind a paused queue nothing new starts, whichever of
\* enqueue, a finishing run or a restart calls the pump.
PausedQueueStartsNothing == [][queuePaused /\ queuePaused' => starting' \subseteq starting]_vars

\* A run always ends and gives its slot back.
RunsEnd == \A t \in Transfers : t \in starting ~> t \notin starting

\* The pool loses no wake-up: a queued transfer leaves the queue unless the
\* queue is paused or the process is going down.
QueueMoves ==
  \A t \in Transfers : InQueue(t) ~> (~InQueue(t) \/ queuePaused \/ draining)

-----------------------------------------------------------------------------
(* What comments promise and the code does not keep.                       *)

\* _pump: "Start as many transfers as the settings allow, then stop."
AsManyAsAllowed ==
  up /\ ~draining /\ ~queuePaused /\ queue # <<>> => Cardinality(starting) >= MaxParallel

\* changeDestination: `targetPath` "is not read until that file is finally moved
\* into place": a file lands where its row says at that moment.
RedirectHolds ==
  [][\A t \in Transfers :
       placed'[t] # placed[t] /\ row[t] # NoRow => row[t].target \in placed'[t]]_vars

\* cancel: "Stop a transfer for good": a cancelled row changes only when
\* somebody retries, repairs or archives it.
CancelIsFinal ==
  [][\A t \in Transfers :
       row[t].state = "cancelled" /\ row'[t] # row[t] => \E c \in Callers : caller[c] # NoCall]_vars

\* cancelKind: a cancellation the gateway makes never reads as a person's.
CancelReasonKept == \A t \in Transfers : row[t].kind = "cancelled" => Requests \cap {"cancel", "archive"} # {}

\* archive: cancelling a running transfer "is what drops its partial file".
ArchiveDropsPartial ==
  \A t \in Transfers : row[t] = NoRow /\ t \notin starting /\ (\A c \in Callers : caller[c] = NoCall)
                       => t \notin work

\* resumeAll: "Let the queue run again, and everything that was stopped with it."
ResumeAllReachesAll ==
  up /\ ~queuePaused /\ starting = {} /\ (\A c \in Callers : caller[c] = NoCall)
    => \A t \in Transfers : row[t].state = "paused" => "pause" \in Requests

\* onApplicationBootstrap: "Everything that was running when the process stopped
\* is put back in the queue": a stop of the process leaves no row paused.
RestartResumes ==
  \A t \in Transfers : row[t].state = "paused" => Requests \cap {"pause", "pauseAll"} # {}

\* pauseAll acts on "everything not already over": it leaves a finished row alone.
FinishedIsFinal ==
  [][\A t \in Transfers : row[t].state = "done" => row'[t].state # "paused"]_vars

\* A run told to cancel does not end as a pause with its partial kept.
CancelBeatsPause ==
  [][\A r \in Runs : run[r].cancelling /\ run[r].pc # "close" /\ run'[r].pc = "close"
       => row'[r[1]].state # "paused"]_vars

\* resume and retry: `_setState(transferId, QUEUED)` and `enqueue` put a transfer back
\* to work: once nothing is in hand, no row is left queued with nothing to start it.
QueuedIsInHand ==
  up /\ ~draining /\ starting = {} /\ queue = <<>> /\ (\A c \in Callers : caller[c] = NoCall)
    => \A t \in Transfers : row[t].state # "queued"
=============================================================================
