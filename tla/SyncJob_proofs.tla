--------------------------- MODULE SyncJob_proofs ---------------------------
(***************************************************************************)
(* Runs of a plan, for any calls, items and requests: the shape of their   *)
(* rows and, where the queries of a handler answer in its own turn, that   *)
(* what is told of a run is what happened to it.                           *)
(***************************************************************************)
EXTENDS SyncJob, FiniteSetTheorems, SequenceTheorems, TLAPS

CallStates == {"idle", "refused", "planning", "creating", "died"}
JobStates == {"none", "running"} \cup Over
LineStates == {"none", "pending", "running"} \cup Closed
TransferStates == {"none", "queued", "active", "paused", "stopping", "orphan", "gone"} \cup Finished
Counts == [done : Nat, failed : Nat]
Reports == [job : Calls, item : Items, pc : {"line", "job", "progress", "save"}, state : TransferStates,
            row : JobStates, seen : Counts, open : Nat]
Stops == [pc : {"off", "transfers", "skipped"}, left : SUBSET Items, count : Counts]

\* Calls that have written nothing.
Fresh == {"idle", "planning", "refused"}

CallType == call \in [Calls -> CallStates] /\ todo \in [Calls -> SUBSET Items]
RowType ==
  /\ job \in [Calls -> JobStates] /\ count \in [Calls -> Counts]
  /\ line \in [Calls -> [Items -> LineStates]]
WorkType ==
  /\ transfer \in [Calls -> [Items -> TransferStates]] /\ held \subseteq Items
  /\ reports \in Seq(Reports) /\ stop \in [Calls -> Stops] /\ told \in [Calls -> Nat]
StateType == CallType /\ RowType /\ WorkType

\* A call that has written nothing has nothing.
FreshIsBlank ==
  \A c \in Calls : call[c] \in Fresh =>
    /\ job[c] = "none" /\ count[c] = Zero /\ stop[c].pc = "off" /\ told[c] = 0
    /\ \A i \in Items : line[c][i] = "none" /\ transfer[c][i] = "none"

\* Lines come before transfers, and only made transfers are stopped.
LinesComeFirst ==
  \A c \in Calls, i \in Items :
    /\ transfer[c][i] # "none" \/ i \in todo[c] => line[c][i] # "none"
    /\ i \in stop[c].left => transfer[c][i] # "none"

\* Only runs with rows are reported on.
ReportsAreOfRuns == \A n \in 1..Len(reports) : call[reports[n].job] \notin Fresh

TypeInv == StateType /\ FreshIsBlank /\ LinesComeFirst /\ ReportsAreOfRuns

\* A handler has its turn for itself.
OneTurn ==
  /\ Len(reports) <= 1
  /\ reports # <<>> => \A c \in Calls : stop[c].pc # "skipped"
  /\ \A c, d \in Calls : stop[c].pc = "skipped" /\ stop[d].pc = "skipped" => c = d

Exact(c) == [done |-> In(c, {"done"}), failed |-> In(c, {"failed"})]

\* What a handler has read is still so.
ReadIsCurrent ==
  reports # <<>> =>
    LET r == reports[1]
    IN  /\ r.pc \in {"progress", "save"} => r.row = job[r.job]
        /\ r.pc = "save" => r.seen = Exact(r.job) /\ r.open = Open(r.job)

\* The counters of a run are those of its lines, but for one being handled.
CountsAreExact ==
  \A c \in Calls : job[c] # "cancelled" /\ (reports = <<>> \/ reports[1].job # c) => count[c] = Exact(c)

\* A finish that was told is over.
ToldIsOver == \A c \in Calls : told[c] <= 1 /\ (told[c] = 1 => job[c] \in Over)

SerialInv == TypeInv /\ OneTurn /\ ReadIsCurrent /\ CountsAreExact /\ ToldIsOver

-----------------------------------------------------------------------------
(* The shape of the state, however queries interleave.                     *)

LEMMA Literals ==
  /\ Zero \in Counts /\ NoStop \in Stops /\ NoStop.pc = "off" /\ NoStop.left = {}
  /\ \A c \in Calls, i \in Items, s \in TransferStates :
       Report(c, i, s) \in Reports /\ Report(c, i, s).job = c /\ Report(c, i, s).pc = "line"
  /\ \A s \in TransferStates : LineOf(s) \in LineStates \ {"none"}
<1>1. Zero \in Counts
  BY DEF Zero, Counts
<1>2. NoStop \in Stops /\ NoStop.pc = "off" /\ NoStop.left = {}
  BY <1>1 DEF NoStop, Stops
<1>3. \A c \in Calls, i \in Items, s \in TransferStates :
        Report(c, i, s) \in Reports /\ Report(c, i, s).job = c /\ Report(c, i, s).pc = "line"
  BY <1>1 DEF Report, Reports, JobStates
<1>4. \A s \in TransferStates : LineOf(s) \in LineStates \ {"none"}
  BY DEF LineOf, LineStates, Closed
<1> QED
  BY <1>1, <1>2, <1>3, <1>4

\* Lines are counted in natural numbers.
LEMMA InIsNat == \A c, S : In(c, S) \in Nat
<1> TAKE c, S
<1>1. {i \in Items : line[c][i] \in S} \subseteq Items
  OBVIOUS
<1> QED
  BY <1>1, SyncJobConstants, FS_Subset, FS_CardinalityType DEF In

LEMMA InitTypeInv == Init => TypeInv
<1> SUFFICES ASSUME Init PROVE TypeInv
  OBVIOUS
<1>1. CallType /\ RowType
  BY Literals DEF Init, CallType, RowType, CallStates, JobStates, LineStates
<1>2. reports \in Seq(Reports) /\ Len(reports) = 0
  BY DEF Init
<1>3. WorkType
  BY <1>2, Literals DEF Init, WorkType, TransferStates
<1>4. FreshIsBlank /\ LinesComeFirst
  BY Literals DEF Init, FreshIsBlank, LinesComeFirst
<1>5. ReportsAreOfRuns
  BY <1>2 DEF ReportsAreOfRuns
<1> QED
  BY <1>1, <1>3, <1>4, <1>5 DEF TypeInv, StateType

\* One transfer of a line moves, and may announce it.
LEMMA TransferMoves ==
  ASSUME TypeInv, NEW c \in Calls, NEW i \in Items, NEW s \in TransferStates \ {"none"},
         NEW t \in TransferStates,
         line[c][i] # "none", transfer' = [transfer EXCEPT ![c][i] = s],
         reports' = reports \/ reports' = Append(reports, Report(c, i, t)),
         UNCHANGED <<call, rows, told>>, held' \subseteq Items,
         todo' \in [Calls -> SUBSET Items], \A d \in Calls : todo'[d] \subseteq todo[d],
         stop' \in [Calls -> Stops],
         \A d \in Calls : stop'[d].left \subseteq stop[d].left /\ (stop[d].pc = "off" => stop'[d].pc = "off")
  PROVE  TypeInv'
<1>0. CallType /\ RowType /\ WorkType /\ FreshIsBlank /\ LinesComeFirst /\ ReportsAreOfRuns
  BY DEF TypeInv, StateType
<1>1. call[c] \notin Fresh
  BY <1>0 DEF FreshIsBlank
<1>2. transfer' \in [Calls -> [Items -> TransferStates]]
  BY <1>0 DEF WorkType
<1>3. \A d \in Calls, j \in Items : transfer'[d][j] = IF d = c /\ j = i THEN s ELSE transfer[d][j]
  BY <1>0 DEF WorkType
<1>4. reports' \in Seq(Reports) /\ ReportsAreOfRuns'
  <2>1. CASE reports' = reports
    BY <1>0, <2>1 DEF WorkType, ReportsAreOfRuns, rows
  <2>2. CASE reports' = Append(reports, Report(c, i, t))
    <3>1. reports' \in Seq(Reports) /\ Len(reports') = Len(reports) + 1 /\ Len(reports) \in Nat
      BY <1>0, <2>2, Literals DEF WorkType
    <3>2. reports'[Len(reports) + 1].job = c
      BY <1>0, <2>2, Literals DEF WorkType
    <3>3. \A n \in 1..Len(reports) : reports'[n] = reports[n]
      BY <1>0, <2>2, Literals DEF WorkType
    <3> QED
      BY <1>0, <1>1, <3>1, <3>2, <3>3 DEF ReportsAreOfRuns
  <2> QED
    BY <2>1, <2>2
<1>5. FreshIsBlank'
  BY <1>0, <1>1, <1>3 DEF FreshIsBlank, rows
<1>6. LinesComeFirst'
  BY <1>0, <1>3 DEF LinesComeFirst, rows
<1>7. StateType'
  BY <1>0, <1>2, <1>4 DEF StateType, CallType, RowType, WorkType, rows
<1> QED
  BY <1>4, <1>5, <1>6, <1>7 DEF TypeInv

\* What every step of one transfer has in common.
Moves ==
  /\ Quiet /\ UNCHANGED <<call, rows, told>> /\ held' \subseteq Items
  /\ todo' \in [Calls -> SUBSET Items] /\ stop' \in [Calls -> Stops]
  /\ \A d \in Calls :
       /\ todo'[d] \subseteq todo[d] /\ stop'[d].left \subseteq stop[d].left
       /\ stop[d].pc = "off" => stop'[d].pc = "off"
       /\ stop'[d].pc = "skipped" => stop[d].pc = "skipped"
  /\ \E c \in Calls, i \in Items, s \in TransferStates \ {"none"}, t \in TransferStates :
       /\ line[c][i] # "none" /\ transfer' = [transfer EXCEPT ![c][i] = s]
       /\ reports' = reports \/ reports' = Append(reports, Report(c, i, t))

LEMMA TransferSteps ==
  ASSUME TypeInv, NEW c \in Calls, NEW i \in Items,
         \/ Start(c, i) \/ End(c, i) \/ Stopped(c, i) \/ OrphanEnds(c, i)
         \/ Pause(c, i) \/ Resume(c, i) \/ Retry(c, i) \/ CancelOne(c, i) \/ Archive(c, i)
  PROVE  Moves
<1>0. CallType /\ RowType /\ WorkType /\ LinesComeFirst
  BY DEF TypeInv, StateType
<1>1. Quiet /\ UNCHANGED <<call, rows, told, todo, stop>> /\ held' \subseteq Items
  BY <1>0 DEF Start, End, Stopped, OrphanEnds, Pause, Resume, Retry, CancelOne, Archive, calls, WorkType
<1>2. transfer[c][i] # "none"
  BY DEF Start, End, Stopped, OrphanEnds, Pause, Resume, Retry, CancelOne, Archive
<1>3. line[c][i] # "none"
  BY <1>0, <1>2 DEF LinesComeFirst
<1>4. ASSUME NEW s \in {"active", "done", "failed", "cancelled", "paused", "queued"}, Becomes(c, i, s)
      PROVE  \E q \in TransferStates \ {"none"}, t \in TransferStates :
               /\ transfer' = [transfer EXCEPT ![c][i] = q]
               /\ reports' = reports \/ reports' = Append(reports, Report(c, i, t))
  <2>1. s \in TransferStates \ {"none"} /\ s \in TransferStates
    BY DEF TransferStates, Finished
  <2> QED
    BY <1>4, <2>1 DEF Becomes
<1>5. ASSUME NEW s \in {"gone", "queued", "stopping", "orphan"}, transfer' = [transfer EXCEPT ![c][i] = s],
             reports' = reports \/ reports' = Append(reports, Report(c, i, "cancelled"))
      PROVE  \E q \in TransferStates \ {"none"}, t \in TransferStates :
               /\ transfer' = [transfer EXCEPT ![c][i] = q]
               /\ reports' = reports \/ reports' = Append(reports, Report(c, i, t))
  <2>1. s \in TransferStates \ {"none"} /\ "cancelled" \in TransferStates
    BY DEF TransferStates, Finished
  <2> QED
    BY <1>5, <2>1
<1>6. \E q \in TransferStates \ {"none"}, t \in TransferStates :
        /\ transfer' = [transfer EXCEPT ![c][i] = q]
        /\ reports' = reports \/ reports' = Append(reports, Report(c, i, t))
  <2>1. CASE Start(c, i) \/ End(c, i) \/ Stopped(c, i) \/ Pause(c, i) \/ Resume(c, i)
    BY <1>4, <2>1 DEF Start, End, Stopped, Pause, Resume
  <2>2. CASE OrphanEnds(c, i)
    BY <1>5, <2>2 DEF OrphanEnds
  <2>3. CASE Retry(c, i)
    BY <1>5, <2>3 DEF Retry
  <2>4. CASE CancelOne(c, i)
    BY <1>4, <1>5, <2>4 DEF CancelOne, EngineCancels
  <2>5. CASE Archive(c, i)
    <3>1. transfer' = [transfer EXCEPT ![c][i] = "gone"] \/ transfer' = [transfer EXCEPT ![c][i] = "orphan"]
      BY <1>0, <2>5 DEF Archive, WorkType
    <3>2. reports' = reports \/ reports' = Append(reports, Report(c, i, "cancelled"))
      BY <2>5 DEF Archive
    <3> QED
      BY <1>5, <3>1, <3>2
  <2> QED
    BY <2>1, <2>2, <2>3, <2>4, <2>5
<1>7. todo' \in [Calls -> SUBSET Items] /\ stop' \in [Calls -> Stops]
  BY <1>0, <1>1 DEF CallType, WorkType
<1> QED
  BY <1>1, <1>3, <1>6, <1>7 DEF Moves

LEMMA CreateMoves ==
  ASSUME TypeInv, NEW c \in Calls, Create(c) PROVE Moves
<1>0. CallType /\ RowType /\ WorkType /\ LinesComeFirst
  BY DEF TypeInv, StateType
<1>1. PICK i \in Items : First(todo[c], i) /\ transfer' = [transfer EXCEPT ![c][i] = "queued"]
                         /\ todo' = [todo EXCEPT ![c] = @ \ {i}]
  BY DEF Create
<1>2. line[c][i] # "none"
  BY <1>0, <1>1 DEF LinesComeFirst, First
<1>3. "queued" \in TransferStates \ {"none"} /\ "queued" \in TransferStates
  BY DEF TransferStates
<1>4. Quiet /\ UNCHANGED <<call, rows, told, held, stop, reports>>
  BY DEF Create
<1>5. todo' \in [Calls -> SUBSET Items] /\ stop' \in [Calls -> Stops] /\ held' \subseteq Items
  BY <1>0, <1>1, <1>4 DEF CallType, WorkType
<1>6. \A d \in Calls : todo'[d] \subseteq todo[d]
  BY <1>0, <1>1 DEF CallType
<1> QED
  BY <1>1, <1>2, <1>3, <1>4, <1>5, <1>6 DEF Moves

\* Cancelling the next transfer of a run moves it, unless its row is gone: then the
\* call ends and nothing moves.
LEMMA CancelNextMoves ==
  ASSUME TypeInv, NEW c \in Calls, CancelNext(c)
  PROVE  Moves \/ (Quiet /\ stop' = [stop EXCEPT ![c] = NoStop]
                   /\ UNCHANGED <<call, todo, rows, transfer, held, reports, told>>)
<1>0. CallType /\ RowType /\ WorkType /\ LinesComeFirst
  BY DEF TypeInv, StateType
<1>1. PICK i \in Items :
        \/ /\ First(stop[c].left, i) /\ EngineCancels(c, i)
           /\ stop' = [stop EXCEPT ![c].left = @ \ {i}]
        \/ /\ First(stop[c].left, i) /\ stop' = [stop EXCEPT ![c] = NoStop]
           /\ UNCHANGED <<transfer, reports>>
  BY DEF CancelNext
<1>2. Quiet /\ UNCHANGED <<call, todo, rows, told, held>>
  BY DEF CancelNext, calls
<1>3. ASSUME First(stop[c].left, i), EngineCancels(c, i), stop' = [stop EXCEPT ![c].left = @ \ {i}]
      PROVE  Moves
  <2>1. line[c][i] # "none"
    BY <1>0, <1>3 DEF LinesComeFirst, First
  <2>2. {"stopping", "cancelled"} \subseteq TransferStates \ {"none"} /\ "cancelled" \in TransferStates
    BY DEF TransferStates, Finished
  <2>3. \E q \in TransferStates \ {"none"}, t \in TransferStates :
          /\ transfer' = [transfer EXCEPT ![c][i] = q]
          /\ reports' = reports \/ reports' = Append(reports, Report(c, i, t))
    BY <1>3, <2>2 DEF EngineCancels, Becomes
  <2>4. stop' \in [Calls -> Stops]
    <3>1. stop[c] \in Stops
      BY <1>0 DEF WorkType
    <3>2. [stop[c] EXCEPT !.left = @ \ {i}] \in Stops
      BY <3>1 DEF Stops
    <3> QED
      BY <1>0, <1>3, <3>2 DEF WorkType
  <2>5. \A d \in Calls : /\ stop'[d].left \subseteq stop[d].left
                         /\ stop'[d].pc = stop[d].pc
    BY <1>0, <1>3 DEF WorkType, Stops
  <2>6. todo' \in [Calls -> SUBSET Items] /\ held' \subseteq Items
    BY <1>0, <1>2 DEF CallType, WorkType
  <2> QED
    BY <1>2, <2>1, <2>3, <2>4, <2>5, <2>6 DEF Moves
<1> QED
  BY <1>1, <1>2, <1>3

LEMMA MovesType ==
  ASSUME TypeInv, Moves PROVE TypeInv'
BY TransferMoves DEF Moves

\* A handler reads, and writes what it read.
LEMMA HandlesType ==
  ASSUME TypeInv, NEW n \in 1..Len(reports), Handles(n)
  PROVE  TypeInv'
<1>0. CallType /\ RowType /\ WorkType /\ FreshIsBlank /\ LinesComeFirst /\ ReportsAreOfRuns
  BY DEF TypeInv, StateType
<1> DEFINE r == reports[n]
           c == r.job
<1>1. r \in Reports /\ Len(reports) \in Nat /\ n \in 1..Len(reports)
  BY <1>0 DEF WorkType
<1>2. /\ c \in Calls /\ r.item \in Items /\ r.state \in TransferStates /\ r.row \in JobStates
      /\ r.seen \in Counts /\ call[c] \notin Fresh
  BY <1>0, <1>1 DEF Reports, ReportsAreOfRuns
<1>3. UNCHANGED <<call, todo, transfer, held, stop>>
  BY DEF Handles, RecordLine, ReadJob, ReadProgress, SaveJob, calls
\* A report that is carried on keeps its run.
<1>4. ASSUME NEW q \in Reports, q.job = c, reports' = [reports EXCEPT ![n] = q]
      PROVE  reports' \in Seq(Reports) /\ ReportsAreOfRuns'
  <2>1. reports' \in Seq(Reports) /\ Len(reports') = Len(reports)
        /\ \A k \in 1..Len(reports) : reports'[k] = IF k = n THEN q ELSE reports[k]
    BY <1>0, <1>1, <1>4, ExceptSeq DEF WorkType
  <2> QED
    BY <1>0, <1>2, <1>3, <1>4, <2>1 DEF ReportsAreOfRuns
<1>5. CASE RecordLine(n)
  <2> DEFINE q == [r EXCEPT !.pc = "job"]
  <2>1. q \in Reports /\ q.job = c
    BY <1>1 DEF Reports
  <2>2. reports' = [reports EXCEPT ![n] = q]
    BY <1>5 DEF RecordLine
  <2> HIDE DEF q
  <2>3. reports' \in Seq(Reports) /\ ReportsAreOfRuns'
    BY <1>4, <2>1, <2>2
  <2>4. line' = [line EXCEPT ![c][r.item] = LineOf(r.state)] /\ UNCHANGED <<job, count, told>>
    BY <1>5 DEF RecordLine
  <2>5. LineOf(r.state) \in LineStates \ {"none"}
    BY <1>2, Literals
  <2> HIDE DEF r, c
  <2>6. line' \in [Calls -> [Items -> LineStates]]
    BY <1>0, <1>2, <2>4, <2>5 DEF RowType
  <2>7. \A d \in Calls, j \in Items : line'[d][j] = IF d = c /\ j = r.item THEN LineOf(r.state) ELSE line[d][j]
    BY <1>0, <1>2, <2>4 DEF RowType
  <2>8. FreshIsBlank'
    BY <1>0, <1>2, <1>3, <2>4, <2>7 DEF FreshIsBlank
  <2>9. LinesComeFirst'
    BY <1>0, <1>3, <2>5, <2>7 DEF LinesComeFirst
  <2> QED
    BY <1>0, <1>3, <2>3, <2>4, <2>6, <2>8, <2>9 DEF TypeInv, StateType, CallType, RowType, WorkType
<1>6. CASE ReadJob(n)
  <2> DEFINE q == [r EXCEPT !.pc = "progress", !.row = job[c]]
  <2>1. q \in Reports /\ q.job = c
    BY <1>0, <1>1, <1>2 DEF Reports, RowType
  <2>2. reports' = [reports EXCEPT ![n] = q] /\ UNCHANGED <<rows, told>>
    BY <1>6 DEF ReadJob
  <2> HIDE DEF q
  <2>3. reports' \in Seq(Reports) /\ ReportsAreOfRuns'
    BY <1>4, <2>1, <2>2
  <2> QED
    BY <1>0, <1>3, <2>2, <2>3
       DEF TypeInv, StateType, CallType, RowType, WorkType, FreshIsBlank, LinesComeFirst, rows
<1>7. CASE ReadProgress(n)
  <2> DEFINE q == [r EXCEPT !.pc = "save", !.seen = Progress(c, r.state), !.open = Open(c)]
  <2>0. Progress(c, r.state) \in Counts /\ Open(c) \in Nat
    BY InIsNat DEF Progress, Open, Counts
  <2>1. q \in Reports /\ q.job = c
    BY <1>1, <2>0 DEF Reports
  <2>2. reports' = [reports EXCEPT ![n] = q] /\ UNCHANGED <<rows, told>>
    BY <1>7 DEF ReadProgress
  <2> HIDE DEF q
  <2>3. reports' \in Seq(Reports) /\ ReportsAreOfRuns'
    BY <1>4, <2>1, <2>2
  <2> QED
    BY <1>0, <1>3, <2>2, <2>3
       DEF TypeInv, StateType, CallType, RowType, WorkType, FreshIsBlank, LinesComeFirst, rows
<1>8. CASE SaveJob(n)
  <2> DEFINE state == IF Finishing(r) THEN "done" ELSE r.row
  <2>1. /\ job' = [job EXCEPT ![c] = state] /\ count' = [count EXCEPT ![c] = r.seen]
        /\ told' = [told EXCEPT ![c] = @ + 1] \/ told' = told
        /\ reports' = Drop(n) /\ UNCHANGED line
    BY <1>8 DEF SaveJob
  <2>2. state \in JobStates
    BY <1>2 DEF JobStates, Over
  <2>3. /\ \A k \in 1..(Len(reports) - 1) : (IF k < n THEN k ELSE k + 1) \in 1..Len(reports)
        /\ Len(reports) - 1 \in Nat
    BY <1>1
  <2>4. \A k \in 1..(Len(reports) - 1) : reports[IF k < n THEN k ELSE k + 1] \in Reports
    BY <1>0, <2>3 DEF WorkType
  <2>5. reports' \in [1..(Len(reports) - 1) -> Reports]
    BY <2>1, <2>4 DEF Drop
  <2>6. reports' \in Seq(Reports) /\ Len(reports') = Len(reports) - 1
    BY <2>3, <2>5, IsASeq, LenProperties
  <2>7. ReportsAreOfRuns'
    BY <1>0, <1>3, <2>1, <2>3, <2>6 DEF Drop, ReportsAreOfRuns
  <2> HIDE DEF state, r, c
  <2>8. RowType' /\ told' \in [Calls -> Nat]
    BY <1>0, <1>2, <2>1, <2>2 DEF RowType, WorkType
  <2>9. \A d \in Calls : d # c => job'[d] = job[d] /\ count'[d] = count[d] /\ told'[d] = told[d]
    BY <1>0, <2>1 DEF RowType, WorkType
  <2>10. FreshIsBlank'
    BY <1>0, <1>2, <1>3, <2>1, <2>9 DEF FreshIsBlank
  <2> QED
    BY <1>0, <1>3, <2>1, <2>6, <2>7, <2>8, <2>10 DEF TypeInv, StateType, CallType, WorkType, LinesComeFirst
<1> QED
  BY <1>5, <1>6, <1>7, <1>8 DEF Handles

LEMMA CallKeepsType ==
  ASSUME TypeInv, NEW c \in Calls, Call(c) PROVE TypeInv'
<1>0. CallType /\ RowType /\ WorkType /\ FreshIsBlank /\ LinesComeFirst /\ ReportsAreOfRuns
  BY DEF TypeInv, StateType
<1>1. /\ call[c] = "idle" /\ UNCHANGED <<todo, rows, transfer, held, reports, stop, told>>
      /\ \E s \in {"refused", "planning"} : call' = [call EXCEPT ![c] = s]
  BY DEF Call
<1>2. call' \in [Calls -> CallStates]
  BY <1>0, <1>1 DEF CallType, CallStates
<1>3. \A d \in Calls : call'[d] \in Fresh <=> call[d] \in Fresh
  BY <1>0, <1>1 DEF CallType, Fresh
<1>4. FreshIsBlank'
  BY <1>0, <1>1, <1>3 DEF FreshIsBlank, rows
<1>5. ReportsAreOfRuns'
  <2>0. \A n \in 1..Len(reports) : reports[n] \in Reports
    BY <1>0 DEF WorkType
  <2>1. \A n \in 1..Len(reports) : reports[n].job \in Calls
    BY <2>0 DEF Reports
  <2> QED
    BY <1>0, <1>1, <1>3, <2>1 DEF ReportsAreOfRuns
<1> QED
  BY <1>0, <1>1, <1>2, <1>4, <1>5 DEF TypeInv, StateType, CallType, RowType, WorkType, LinesComeFirst, rows

LEMMA PlanType ==
  ASSUME TypeInv, NEW c \in Calls, Plan(c) PROVE TypeInv'
<1>0. CallType /\ RowType /\ WorkType /\ FreshIsBlank /\ LinesComeFirst /\ ReportsAreOfRuns
  BY DEF TypeInv, StateType
<1>1. PICK kept \in SUBSET (Items \ held) :
        /\ todo' = [todo EXCEPT ![c] = kept]
        /\ job' = [job EXCEPT ![c] = IF kept = {} THEN "done" ELSE "running"]
        /\ line' = [line EXCEPT ![c] = Lines(kept, (Items \ held) \ kept)]
  BY DEF Plan
<1>2. /\ call[c] = "planning" /\ call' = [call EXCEPT ![c] = "creating"]
      /\ UNCHANGED <<count, transfer, held, reports, stop, told>>
  BY DEF Plan
<1>3. Lines(kept, (Items \ held) \ kept) \in [Items -> LineStates]
  BY DEF Lines, LineStates, Closed
<1>4. call' \in [Calls -> CallStates] /\ todo' \in [Calls -> SUBSET Items]
  BY <1>0, <1>1, <1>2 DEF CallType, CallStates
<1>5. RowType'
  BY <1>0, <1>1, <1>2, <1>3 DEF RowType, JobStates, Over
<1>6. \A d \in Calls : d # c => /\ call'[d] = call[d] /\ job'[d] = job[d] /\ line'[d] = line[d] /\ todo'[d] = todo[d]
  BY <1>0, <1>1, <1>2 DEF CallType, RowType
<1>7. call'[c] = "creating" /\ todo'[c] = kept /\ \A i \in Items : i \in kept => line'[c][i] # "none"
  BY <1>0, <1>1, <1>2 DEF CallType, RowType, Lines
<1>8. FreshIsBlank'
  BY <1>0, <1>2, <1>6, <1>7 DEF FreshIsBlank, Fresh
<1>9. LinesComeFirst'
  <2>1. \A i \in Items : transfer[c][i] = "none"
    BY <1>0, <1>2 DEF FreshIsBlank, Fresh
  <2> QED
    BY <1>0, <1>2, <1>6, <1>7, <2>1 DEF LinesComeFirst
<1>10. ReportsAreOfRuns'
  <2>0. \A n \in 1..Len(reports) : reports[n] \in Reports
    BY <1>0 DEF WorkType
  <2>1. \A n \in 1..Len(reports) : reports[n].job \in Calls
    BY <2>0 DEF Reports
  <2> QED
    BY <1>0, <1>2, <1>6, <1>7, <2>1 DEF ReportsAreOfRuns, Fresh
<1> QED
  BY <1>0, <1>2, <1>4, <1>5, <1>8, <1>9, <1>10 DEF TypeInv, StateType, CallType, WorkType

\* The steps of a call of cancel.
LEMMA StopType ==
  ASSUME TypeInv, NEW c \in Calls,
         \/ Cancel(c) \/ SkipUnfinished(c) \/ SaveCancelled(c)
         \/ stop' = [stop EXCEPT ![c] = NoStop] /\ UNCHANGED <<call, todo, rows, transfer, held, reports, told>>
  PROVE  TypeInv'
<1>0. CallType /\ RowType /\ WorkType /\ FreshIsBlank /\ LinesComeFirst /\ ReportsAreOfRuns
  BY DEF TypeInv, StateType
<1>1. UNCHANGED <<call, todo, transfer, held, reports, told>>
  BY DEF Cancel, SkipUnfinished, SaveCancelled, calls
<1>2. stop[c] \in Stops /\ count[c] \in Counts
  BY <1>0 DEF WorkType, RowType
<1>3. PICK p \in Stops : /\ stop' = [stop EXCEPT ![c] = p]
                         /\ \A i \in Items : i \in p.left => transfer[c][i] # "none"
                         /\ p.pc # "off" => call[c] \notin Fresh
  <2>1. CASE Cancel(c)
    <3> DEFINE p == [pc |-> "transfers", count |-> count[c],
                     left |-> {i \in Items : transfer[c][i] \notin Finished \cup {"none", "orphan", "gone"}}]
    <3>1. p \in Stops /\ p.left = {i \in Items : transfer[c][i] \notin Finished \cup {"none", "orphan", "gone"}}
      BY <1>2 DEF Stops
    <3>2. stop' = [stop EXCEPT ![c] = p] /\ call[c] \notin Fresh
      BY <1>0, <2>1 DEF Cancel, Live, FreshIsBlank
    <3> HIDE DEF p
    <3> QED
      BY <3>1, <3>2
  <2>2. CASE SkipUnfinished(c)
    <3> DEFINE p == [stop[c] EXCEPT !.pc = "skipped"]
    <3>1. p \in Stops /\ p.left = stop[c].left
      BY <1>2 DEF Stops
    <3>2. stop' = [stop EXCEPT ![c] = p] /\ call[c] \notin Fresh
      BY <1>0, <2>2 DEF SkipUnfinished, FreshIsBlank
    <3> HIDE DEF p
    <3> QED
      BY <1>0, <3>1, <3>2 DEF LinesComeFirst
  <2>3. CASE SaveCancelled(c) \/ stop' = [stop EXCEPT ![c] = NoStop]
    <3>1. stop' = [stop EXCEPT ![c] = NoStop]
      BY <2>3 DEF SaveCancelled
    <3> QED
      BY <3>1, Literals
  <2> QED
    BY <2>1, <2>2, <2>3
<1>4. stop' \in [Calls -> Stops] /\ \A d \in Calls : stop'[d] = IF d = c THEN p ELSE stop[d]
  BY <1>0, <1>3 DEF WorkType
<1>5. /\ RowType'
      /\ \A d \in Calls, i \in Items : line'[d][i] = "none" <=> line[d][i] = "none"
      /\ \A d \in Calls : d # c \/ call[c] \in Fresh => job'[d] = job[d] /\ count'[d] = count[d]
  <2>1. CASE UNCHANGED rows
    BY <1>0, <2>1 DEF RowType, rows
  <2>2. CASE SkipUnfinished(c)
    <3> DEFINE f == [i \in Items |-> IF line[c][i] \in {"pending", "running"} THEN "skipped" ELSE line[c][i]]
    <3>1. line' = [line EXCEPT ![c] = f] /\ UNCHANGED <<job, count>>
      BY <2>2 DEF SkipUnfinished
    <3>2. f \in [Items -> LineStates] /\ \A i \in Items : f[i] = "none" <=> line[c][i] = "none"
      BY <1>0 DEF RowType, LineStates, Closed
    <3> HIDE DEF f
    <3>3. \A d \in Calls : line'[d] = IF d = c THEN f ELSE line[d]
      BY <1>0, <3>1 DEF RowType
    <3> QED
      BY <1>0, <3>1, <3>2, <3>3 DEF RowType
  <2>3. CASE SaveCancelled(c)
    <3>1. /\ job' = [job EXCEPT ![c] = "cancelled"] /\ count' = [count EXCEPT ![c] = stop[c].count]
          /\ UNCHANGED line /\ call[c] \notin Fresh
      BY <1>0, <2>3 DEF SaveCancelled, FreshIsBlank
    <3>2. stop[c].count \in Counts
      BY <1>2 DEF Stops
    <3> QED
      BY <1>0, <3>1, <3>2 DEF RowType, JobStates, Over
  <2> QED
    BY <2>1, <2>2, <2>3 DEF Cancel
<1>6. FreshIsBlank'
  BY <1>0, <1>1, <1>3, <1>4, <1>5 DEF FreshIsBlank, Stops
<1>7. LinesComeFirst'
  BY <1>0, <1>1, <1>3, <1>4, <1>5 DEF LinesComeFirst
<1>8. ReportsAreOfRuns'
  BY <1>0, <1>1 DEF ReportsAreOfRuns
<1> QED
  BY <1>0, <1>1, <1>4, <1>5, <1>6, <1>7, <1>8 DEF TypeInv, StateType, CallType, WorkType

LEMMA CrashType ==
  ASSUME TypeInv, Crash PROVE TypeInv'
<1>0. CallType /\ RowType /\ WorkType /\ FreshIsBlank /\ LinesComeFirst /\ ReportsAreOfRuns
  BY DEF TypeInv, StateType
<1>1. /\ call' = [c \in Calls |-> IF call[c] = "planning" \/ todo[c] # {} THEN "died" ELSE call[c]]
      /\ todo' = [c \in Calls |-> {}] /\ reports' = <<>> /\ stop' = [c \in Calls |-> NoStop]
      /\ transfer' = [c \in Calls |-> [i \in Items |->
           CASE transfer[c][i] \in {"active", "stopping"} -> "queued"
             [] transfer[c][i] = "orphan" -> "gone"
             [] OTHER -> transfer[c][i]]]
      /\ UNCHANGED <<rows, held, told>>
  BY DEF Crash
<1>2. CallType'
  BY <1>0, <1>1 DEF CallType, CallStates
<1>3. \A c \in Calls : call'[c] \in Fresh => call[c] \in Fresh
  BY <1>1 DEF Fresh
<1>4. \A c \in Calls, i \in Items :
        /\ transfer[c][i] \in TransferStates
        /\ transfer'[c][i] = IF transfer[c][i] \in {"active", "stopping"} THEN "queued"
                             ELSE IF transfer[c][i] = "orphan" THEN "gone" ELSE transfer[c][i]
  BY <1>0, <1>1 DEF WorkType
<1>5. \A c \in Calls, i \in Items :
        transfer'[c][i] \in TransferStates /\ (transfer'[c][i] = "none" <=> transfer[c][i] = "none")
  BY <1>4 DEF TransferStates, Finished
<1>6. transfer' \in [Calls -> [Items -> TransferStates]]
  <2> DEFINE g(c, i) == CASE transfer[c][i] \in {"active", "stopping"} -> "queued"
                          [] transfer[c][i] = "orphan" -> "gone"
                          [] OTHER -> transfer[c][i]
  <2>1. transfer' = [c \in Calls |-> [i \in Items |-> g(c, i)]]
    BY <1>1
  <2> HIDE DEF g
  <2>2. \A c \in Calls, i \in Items : g(c, i) \in TransferStates
    BY <1>5, <2>1
  <2> QED
    BY <2>1, <2>2
<1>7. reports' \in Seq(Reports) /\ Len(reports') = 0
  BY <1>1
<1>8. StateType'
  BY <1>0, <1>1, <1>2, <1>6, <1>7, Literals DEF StateType, RowType, WorkType, rows
<1>9. FreshIsBlank'
  BY <1>0, <1>1, <1>3, <1>5, Literals DEF FreshIsBlank, rows
<1>10. LinesComeFirst'
  BY <1>0, <1>1, <1>5, Literals DEF LinesComeFirst, rows
<1>11. ReportsAreOfRuns'
  BY <1>7 DEF ReportsAreOfRuns
<1> QED
  BY <1>8, <1>9, <1>10, <1>11 DEF TypeInv

\* The steps a run of a plan takes, in the groups they are proved in.
LEMMA Steps ==
  ASSUME TypeInv, Next
  PROVE  \/ Moves \/ Crash
         \/ \E n \in 1..Len(reports) : Handles(n)
         \/ \E c \in Calls :
              \/ Call(c) \/ Plan(c) \/ Cancel(c) \/ SkipUnfinished(c) \/ SaveCancelled(c)
              \/ /\ Quiet /\ stop' = [stop EXCEPT ![c] = NoStop]
                 /\ UNCHANGED <<call, todo, rows, transfer, held, reports, told>>
<1>1. CASE \E c \in Calls : Create(c)
  BY <1>1, CreateMoves
<1>2. CASE \E c \in Calls : CancelNext(c)
  BY <1>2, CancelNextMoves
<1>3. CASE \E c \in Calls, i \in Items :
             \/ Start(c, i) \/ End(c, i) \/ Stopped(c, i) \/ OrphanEnds(c, i)
             \/ Pause(c, i) \/ Resume(c, i) \/ Retry(c, i) \/ CancelOne(c, i) \/ Archive(c, i)
  BY <1>3, TransferSteps
<1> QED
  BY <1>1, <1>2, <1>3 DEF Next, GoesOn

LEMMA TypeStep ==
  ASSUME TypeInv, [Next]_vars PROVE TypeInv'
<1>1. CASE Next
  BY <1>1, Steps, MovesType, HandlesType, CallKeepsType, PlanType, StopType, CrashType
<1>2. CASE UNCHANGED vars
  BY <1>2 DEF vars, TypeInv, StateType, CallType, RowType, WorkType, FreshIsBlank, LinesComeFirst, ReportsAreOfRuns
<1> QED
  BY <1>1, <1>2

\* The rows of a run, its lines, transfers and reports keep their shape, and no transfer
\* is made before its line: with either database, for any calls, items and requests.
THEOREM TypeCorrect == Spec => []TypeOK
<1>1. TypeInv => TypeOK
  BY DEF TypeInv, StateType, CallType, RowType, WorkType, TypeOK, LinesComeFirst, CallStates, JobStates, Stops
<1> QED
  BY <1>1, InitTypeInv, TypeStep, PTL DEF Spec

-----------------------------------------------------------------------------
(* Where the queries of a handler answer in its own turn.                  *)

\* The reports are none or one.
LEMMA NoneOrOne ==
  ASSUME WorkType, OneTurn
  PROVE  \/ reports = <<>> /\ Len(reports) = 0
         \/ Len(reports) = 1 /\ reports # <<>> /\ reports[1] \in Reports
<1>1. reports \in Seq(Reports) /\ Len(reports) \in Nat /\ Len(reports) <= 1
  BY DEF WorkType, OneTurn
<1>2. CASE Len(reports) = 0
  BY <1>1, <1>2, EmptySeq
<1>3. CASE Len(reports) = 1
  BY <1>1, <1>3, ElementOfSeq, EmptySeq
<1>4. Len(reports) = 0 \/ Len(reports) = 1
  BY <1>1
<1> QED
  BY <1>2, <1>3, <1>4

\* Counters are of the lines alone.
LEMMA ExactFollowsLines ==
  ASSUME NEW c \in Calls,
         \A i \in Items : /\ line'[c][i] = "done" <=> line[c][i] = "done"
                          /\ line'[c][i] = "failed" <=> line[c][i] = "failed"
  PROVE  Exact(c)' = Exact(c)
<1>1. {i \in Items : line'[c][i] \in {"done"}} = {i \in Items : line[c][i] \in {"done"}}
  OBVIOUS
<1>2. {i \in Items : line'[c][i] \in {"failed"}} = {i \in Items : line[c][i] \in {"failed"}}
  OBVIOUS
<1>3. Exact(c)' = [done |-> Cardinality({i \in Items : line'[c][i] \in {"done"}}),
                   failed |-> Cardinality({i \in Items : line'[c][i] \in {"failed"}})]
  BY DEF Exact, In
<1> QED
  BY <1>1, <1>2, <1>3 DEF Exact, In

\* A run none of whose lines ended well or badly has counted nothing.
LEMMA ExactZero ==
  ASSUME NEW c \in Calls, \A i \in Items : line[c][i] \notin {"done", "failed"}
  PROVE  Exact(c) = Zero
<1>1. {i \in Items : line[c][i] \in {"done"}} = {} /\ {i \in Items : line[c][i] \in {"failed"}} = {}
  OBVIOUS
<1>2. In(c, {"done"}) = 0 /\ In(c, {"failed"}) = 0
  BY <1>1, FS_EmptySet DEF In
<1> QED
  BY <1>2 DEF Exact, Zero

LEMMA ExactZeroNext ==
  ASSUME NEW c \in Calls, \A i \in Items : line'[c][i] \notin {"done", "failed"}
  PROVE  Exact(c)' = Zero
<1>1. {i \in Items : line'[c][i] \in {"done"}} = {} /\ {i \in Items : line'[c][i] \in {"failed"}} = {}
  OBVIOUS
<1>2. In(c, {"done"})' = 0 /\ In(c, {"failed"})' = 0
  BY <1>1, FS_EmptySet DEF In
<1> QED
  BY <1>2 DEF Exact, Zero

LEMMA InitSerial == Init => SerialInv
<1> SUFFICES ASSUME Init PROVE SerialInv
  OBVIOUS
<1>1. TypeInv
  BY InitTypeInv
<1>2. OneTurn /\ ReadIsCurrent
  BY Literals DEF Init, OneTurn, ReadIsCurrent
<1>3. \A c \in Calls : Exact(c) = Zero
  BY ExactZero DEF Init
<1>4. CountsAreExact
  BY <1>3 DEF Init, CountsAreExact
<1>5. ToldIsOver
  BY DEF Init, ToldIsOver
<1> QED
  BY <1>1, <1>2, <1>4, <1>5 DEF SerialInv

\* A transfer that moves leaves the rows, and announces only in a turn of its own.
LEMMA MovesSerial ==
  ASSUME Pooled = FALSE, SerialInv, Moves PROVE SerialInv'
<1>0. TypeInv /\ OneTurn /\ ReadIsCurrent /\ CountsAreExact /\ ToldIsOver /\ TypeInv'
  BY MovesType DEF SerialInv
<1>1. reports = <<>> /\ \A c \in Calls : stop[c].pc # "skipped"
  BY DEF Moves, Quiet
<1>2. PICK c \in Calls, i \in Items, t \in TransferStates :
        reports' = reports \/ reports' = Append(reports, Report(c, i, t))
  BY DEF Moves
<1>3. reports' = <<>> \/ (Len(reports') = 1 /\ reports'[1].pc = "line")
  BY <1>1, <1>2, Literals
<1>4. Len(reports') <= 1
  BY <1>3
<1>5. \A d \in Calls : Exact(d)' = Exact(d)
  BY ExactFollowsLines DEF Moves, rows
<1>6. OneTurn'
  BY <1>1, <1>4 DEF OneTurn, Moves
<1>7. ReadIsCurrent'
  BY <1>3 DEF ReadIsCurrent
<1>8. CountsAreExact'
  BY <1>0, <1>1, <1>5 DEF CountsAreExact, Moves, rows
<1>9. ToldIsOver'
  BY <1>0 DEF ToldIsOver, Moves, rows
<1> QED
  BY <1>0, <1>6, <1>7, <1>8, <1>9 DEF SerialInv

\* What handling the report at hand does to its run: nothing else moves meanwhile.
LEMMA HandlesSerial ==
  ASSUME Pooled = FALSE, SerialInv, NEW n \in 1..Len(reports), Handles(n)
  PROVE  SerialInv'
<1>0. /\ TypeInv /\ OneTurn /\ ReadIsCurrent /\ CountsAreExact /\ ToldIsOver /\ TypeInv'
      /\ RowType /\ WorkType /\ WorkType'
  BY HandlesType DEF SerialInv, TypeInv, StateType
<1> DEFINE r == reports[1]
           c == r.job
<1>1. n = 1 /\ Len(reports) = 1 /\ reports # <<>> /\ r \in Reports
  BY <1>0, NoneOrOne DEF Handles, RecordLine, ReadJob, ReadProgress, SaveJob, Turn
<1>2. c \in Calls /\ r.item \in Items /\ \A d \in Calls : stop'[d].pc # "skipped"
  BY <1>0, <1>1 DEF Reports, OneTurn, Handles, RecordLine, ReadJob, ReadProgress, SaveJob
<1>3. UNCHANGED stop
  BY DEF Handles, RecordLine, ReadJob, ReadProgress, SaveJob
\* While the report is carried on, its run is exempt.
<1>4. ASSUME NEW q, q.job = c, reports' = [reports EXCEPT ![1] = q], UNCHANGED <<job, count, told>>,
             \A d \in Calls : d # c => \A i \in Items : line'[d][i] = line[d][i]
      PROVE  reports'[1] = q /\ reports' # <<>> /\ OneTurn' /\ CountsAreExact' /\ ToldIsOver'
  <2>1. Len(reports') = 1 /\ reports'[1] = q /\ reports' # <<>>
    BY <1>0, <1>1, <1>4 DEF WorkType
  <2>2. OneTurn'
    BY <1>2, <2>1 DEF OneTurn
  <2>3. \A d \in Calls : d # c => Exact(d)' = Exact(d)
    BY <1>4, ExactFollowsLines
  <2>4. CountsAreExact'
    BY <1>0, <1>1, <1>4, <2>1, <2>3 DEF CountsAreExact
  <2>5. ToldIsOver'
    BY <1>0, <1>4 DEF ToldIsOver
  <2> QED
    BY <2>1, <2>2, <2>4, <2>5
<1>5. CASE RecordLine(n)
  <2> DEFINE q == [r EXCEPT !.pc = "job"]
  <2>1. q.job = c /\ q.pc = "job"
    BY <1>1 DEF Reports
  <2>2. reports' = [reports EXCEPT ![1] = q] /\ UNCHANGED <<job, count, told>>
    BY <1>1, <1>5 DEF RecordLine
  <2>3. \A d \in Calls : d # c => \A i \in Items : line'[d][i] = line[d][i]
    BY <1>0, <1>1, <1>2, <1>5 DEF RecordLine, RowType
  <2> HIDE DEF q
  <2>4. reports'[1] = q /\ reports' # <<>> /\ OneTurn' /\ CountsAreExact' /\ ToldIsOver'
    BY <1>4, <2>1, <2>2, <2>3
  <2>5. ReadIsCurrent'
    BY <2>1, <2>4 DEF ReadIsCurrent
  <2> QED
    BY <1>0, <2>4, <2>5 DEF SerialInv
<1>6. CASE ReadJob(n)
  <2> DEFINE q == [r EXCEPT !.pc = "progress", !.row = job[c]]
  <2>1. q.job = c /\ q.pc = "progress" /\ q.row = job[c]
    BY <1>1 DEF Reports
  <2>2. reports' = [reports EXCEPT ![1] = q] /\ UNCHANGED <<rows, told>>
    BY <1>1, <1>6 DEF ReadJob
  <2> HIDE DEF q
  <2>4. reports'[1] = q /\ reports' # <<>> /\ OneTurn' /\ CountsAreExact' /\ ToldIsOver'
    BY <1>4, <2>1, <2>2 DEF rows
  <2>5. ReadIsCurrent'
    BY <2>1, <2>2, <2>4 DEF ReadIsCurrent, rows
  <2> QED
    BY <1>0, <2>4, <2>5 DEF SerialInv
<1>7. CASE ReadProgress(n)
  <2> DEFINE q == [r EXCEPT !.pc = "save", !.seen = Progress(c, r.state), !.open = Open(c)]
  <2>1. q.job = c /\ q.pc = "save" /\ q.row = r.row /\ q.seen = Progress(c, r.state) /\ q.open = Open(c)
    BY <1>1 DEF Reports
  <2>2. reports' = [reports EXCEPT ![1] = q] /\ UNCHANGED <<rows, told>> /\ r.pc = "progress"
    BY <1>1, <1>7 DEF ReadProgress
  <2> HIDE DEF q
  <2>4. reports'[1] = q /\ reports' # <<>> /\ OneTurn' /\ CountsAreExact' /\ ToldIsOver'
    BY <1>4, <2>1, <2>2 DEF rows
  <2>5. q.row = job[c] /\ q.seen = Exact(c)
    BY <1>0, <1>1, <2>1, <2>2 DEF ReadIsCurrent, Exact, Progress
  <2>6. \A d \in Calls : Exact(d)' = Exact(d) /\ Open(d)' = Open(d)
    <3>1. line' = line
      BY <2>2 DEF rows
    <3> QED
      BY <3>1 DEF Exact, Open, In
  <2>7. ReadIsCurrent'
    BY <1>2, <2>1, <2>2, <2>4, <2>5, <2>6 DEF ReadIsCurrent, rows
  <2> QED
    BY <1>0, <2>4, <2>7 DEF SerialInv
<1>8. CASE SaveJob(n)
  <2>1. r.pc = "save" /\ r.row = job[c] /\ r.seen = Exact(c)
    BY <1>0, <1>1, <1>8 DEF SaveJob, ReadIsCurrent
  <2>2. /\ job' = [job EXCEPT ![c] = IF Finishing(r) THEN "done" ELSE job[c]]
        /\ count' = [count EXCEPT ![c] = Exact(c)] /\ line' = line
        /\ told' = IF Finishing(r) THEN [told EXCEPT ![c] = @ + 1] ELSE told
        /\ Finishing(r) => job[c] = "running"
    BY <1>1, <1>8, <2>1 DEF SaveJob, Finishing
  <2>3. reports' = <<>>
    <3>1. reports' = Drop(1)
      BY <1>1, <1>8 DEF SaveJob
    <3>2. DOMAIN reports' = 1..0
      BY <1>1, <3>1 DEF Drop
    <3>3. reports' \in Seq(Reports)
      BY <1>0 DEF WorkType
    <3> QED
      BY <3>2, <3>3
  <2>4. \A d \in Calls : Exact(d)' = Exact(d)
    BY <2>2, ExactFollowsLines
  <2> HIDE DEF r, c
  <2>5. OneTurn' /\ ReadIsCurrent'
    BY <1>2, <2>3 DEF OneTurn, ReadIsCurrent
  <2>6. CountsAreExact'
    <3> SUFFICES ASSUME NEW d \in Calls, job'[d] # "cancelled" PROVE count'[d] = Exact(d)'
      BY DEF CountsAreExact
    <3>1. CASE d = c
      BY <1>0, <1>2, <2>2, <2>4, <3>1 DEF RowType
    <3>2. CASE d # c
      BY <1>0, <1>1, <2>2, <2>4, <3>2 DEF RowType, CountsAreExact, r, c
    <3> QED
      BY <3>1, <3>2
  <2>7. ToldIsOver'
    <3> SUFFICES ASSUME NEW d \in Calls PROVE told'[d] <= 1 /\ (told'[d] = 1 => job'[d] \in Over)
      BY DEF ToldIsOver
    <3>1. told[d] \in Nat /\ told[d] <= 1 /\ (told[d] = 1 => job[d] \in Over)
      BY <1>0 DEF ToldIsOver, WorkType
    <3>2. CASE d = c /\ Finishing(r)
      <4>1. told[d] = 0 /\ job'[d] = "done" /\ told'[d] = told[d] + 1
        BY <1>0, <2>2, <3>1, <3>2 DEF Over, RowType, WorkType
      <4> QED
        BY <4>1 DEF Over
    <3>3. CASE ~(d = c /\ Finishing(r))
      <4>1. told'[d] = told[d] /\ job'[d] = job[d]
        BY <1>0, <2>2, <3>3 DEF RowType, WorkType
      <4> QED
        BY <3>1, <4>1
    <3> QED
      BY <3>2, <3>3
  <2> QED
    BY <1>0, <2>5, <2>6, <2>7 DEF SerialInv
<1> QED
  BY <1>5, <1>6, <1>7, <1>8 DEF Handles

LEMMA CallSerial ==
  ASSUME Pooled = FALSE, SerialInv, NEW c \in Calls, Call(c) PROVE SerialInv'
<1>0. TypeInv /\ OneTurn /\ ReadIsCurrent /\ CountsAreExact /\ ToldIsOver /\ TypeInv'
  BY CallKeepsType DEF SerialInv
<1>1. reports = <<>> /\ UNCHANGED <<rows, reports, stop, told>>
  BY DEF Call, Quiet
<1>2. \A d \in Calls : Exact(d)' = Exact(d)
  BY <1>1, ExactFollowsLines DEF rows
<1> QED
  BY <1>0, <1>1, <1>2 DEF SerialInv, OneTurn, ReadIsCurrent, CountsAreExact, ToldIsOver, rows

\* The lines of a new run are counted as nothing, as its row says.
LEMMA PlanSerial ==
  ASSUME Pooled = FALSE, SerialInv, NEW c \in Calls, Plan(c) PROVE SerialInv'
<1>0. /\ TypeInv /\ OneTurn /\ ReadIsCurrent /\ CountsAreExact /\ ToldIsOver /\ TypeInv'
      /\ RowType /\ FreshIsBlank
  BY PlanType DEF SerialInv, TypeInv, StateType
<1>1. reports = <<>> /\ call[c] = "planning" /\ UNCHANGED <<count, reports, stop, told>>
  BY DEF Plan, Quiet
<1>2. PICK kept \in SUBSET (Items \ held) :
        /\ job' = [job EXCEPT ![c] = IF kept = {} THEN "done" ELSE "running"]
        /\ line' = [line EXCEPT ![c] = Lines(kept, (Items \ held) \ kept)]
  BY DEF Plan
<1>3. count[c] = Zero /\ told[c] = 0
  BY <1>0, <1>1 DEF FreshIsBlank, Fresh
<1>4. \A i \in Items : line'[c][i] \notin {"done", "failed"}
  BY <1>0, <1>2 DEF RowType, Lines
<1>5. Exact(c)' = Zero
  BY <1>4, ExactZeroNext
<1>6. \A d \in Calls : d # c => job'[d] = job[d] /\ line'[d] = line[d]
  BY <1>0, <1>2 DEF RowType
<1>7. \A d \in Calls : d # c => Exact(d)' = Exact(d)
  BY <1>6, ExactFollowsLines
<1>8. CountsAreExact'
  BY <1>0, <1>1, <1>3, <1>5, <1>6, <1>7 DEF CountsAreExact
<1>9. ToldIsOver'
  BY <1>0, <1>1, <1>3, <1>6 DEF ToldIsOver
<1> QED
  BY <1>0, <1>1, <1>8, <1>9 DEF SerialInv, OneTurn, ReadIsCurrent

LEMMA StopSerial ==
  ASSUME Pooled = FALSE, SerialInv, NEW c \in Calls,
         \/ Cancel(c) \/ SkipUnfinished(c) \/ SaveCancelled(c)
         \/ /\ Quiet /\ stop' = [stop EXCEPT ![c] = NoStop]
            /\ UNCHANGED <<call, todo, rows, transfer, held, reports, told>>
  PROVE  SerialInv'
<1>0. /\ TypeInv /\ OneTurn /\ ReadIsCurrent /\ CountsAreExact /\ ToldIsOver /\ TypeInv'
      /\ RowType /\ WorkType
  BY StopType DEF SerialInv, TypeInv, StateType
\* SaveCancelled is the rest of a turn no report was made in.
<1>1. reports = <<>> /\ UNCHANGED <<reports, told>>
  BY <1>0 DEF Cancel, SkipUnfinished, SaveCancelled, Quiet, OneTurn
<1>2. \A d \in Calls : Exact(d)' = Exact(d)
  <2>1. CASE line' = line
    BY <2>1, ExactFollowsLines
  <2>2. CASE SkipUnfinished(c)
    <3>1. \A d \in Calls, i \in Items :
            line'[d][i] = IF d = c /\ line[d][i] \in {"pending", "running"} THEN "skipped" ELSE line[d][i]
      BY <1>0, <2>2 DEF SkipUnfinished, RowType
    <3> QED
      BY <3>1, ExactFollowsLines
  <2> QED
    BY <2>1, <2>2 DEF Cancel, SaveCancelled, rows
<1>3. \A d \in Calls : stop'[d].pc = "skipped" => d = c \/ stop[d].pc = "skipped"
  BY <1>0 DEF WorkType, Cancel, SkipUnfinished, SaveCancelled
<1>4. OneTurn'
  <2>1. CASE SaveCancelled(c)
    <3>1. \A d \in Calls : stop'[d] = IF d = c THEN NoStop ELSE stop[d]
      BY <1>0, <2>1 DEF WorkType, SaveCancelled
    <3> QED
      BY <1>0, <1>1, <3>1, Literals DEF OneTurn
  <2>2. CASE ~SaveCancelled(c)
    <3>1. \A d \in Calls : stop[d].pc # "skipped"
      BY <2>2 DEF Cancel, SkipUnfinished, Quiet
    <3> QED
      BY <1>0, <1>1, <1>3, <3>1 DEF OneTurn
  <2> QED
    BY <2>1, <2>2
<1>5. CountsAreExact' /\ ToldIsOver'
  <2>1. CASE SaveCancelled(c)
    <3>1. \A d \in Calls : /\ job'[d] = IF d = c THEN "cancelled" ELSE job[d]
                           /\ d # c => count'[d] = count[d]
      BY <1>0, <2>1 DEF RowType, SaveCancelled
    <3> QED
      BY <1>0, <1>1, <1>2, <3>1 DEF CountsAreExact, ToldIsOver, Over
  <2>2. CASE UNCHANGED <<job, count>>
    BY <1>0, <1>1, <1>2, <2>2 DEF CountsAreExact, ToldIsOver
  <2> QED
    BY <2>1, <2>2 DEF Cancel, SkipUnfinished, rows
<1> QED
  BY <1>0, <1>1, <1>4, <1>5 DEF SerialInv, ReadIsCurrent

LEMMA CrashSerial ==
  ASSUME Pooled = FALSE, SerialInv, Crash PROVE SerialInv'
<1>0. TypeInv /\ OneTurn /\ ReadIsCurrent /\ CountsAreExact /\ ToldIsOver /\ TypeInv'
  BY CrashType DEF SerialInv
<1>1. reports = <<>> /\ reports' = <<>> /\ stop' = [c \in Calls |-> NoStop] /\ UNCHANGED <<rows, told>>
  BY DEF Crash, Quiet
<1>2. \A d \in Calls : Exact(d)' = Exact(d)
  BY <1>1, ExactFollowsLines DEF rows
<1>3. OneTurn'
  BY <1>1, Literals DEF OneTurn
<1> QED
  BY <1>0, <1>1, <1>2, <1>3 DEF SerialInv, ReadIsCurrent, CountsAreExact, ToldIsOver, rows

LEMMA SerialStep ==
  ASSUME Pooled = FALSE, SerialInv, [Next]_vars PROVE SerialInv'
<1>0. TypeInv
  BY DEF SerialInv
<1>1. CASE Next
  BY <1>0, <1>1, Steps, MovesSerial, HandlesSerial, CallSerial, PlanSerial, StopSerial, CrashSerial
<1>2. CASE UNCHANGED vars
  <2>1. \A d : Open(d)' = Open(d) /\ Exact(d)' = Exact(d)
    BY <1>2 DEF vars, Open, Exact, In
  <2>2. TypeInv'
    BY <1>0, <1>2, TypeStep
  <2> QED
    BY <1>2, <2>1, <2>2 DEF vars, SerialInv, OneTurn, ReadIsCurrent, CountsAreExact, ToldIsOver
<1> QED
  BY <1>1, <1>2

LEMMA SerialInvariance == ASSUME Pooled = FALSE PROVE Spec => []SerialInv
BY InitSerial, SerialStep, PTL DEF Spec

\* With the embedded database, whatever is paused, retried, cancelled, archived or crashes:
\* the counters of a run that was not stopped are those of its lines whenever no report is
\* being handled, and its end is announced at most once.
THEOREM RunsTellTheTruth == ASSUME Pooled = FALSE PROVE Spec => []TellsWhatHappened
<1>1. SerialInv => TellsWhatHappened
  BY DEF SerialInv, CountsAreExact, ToldIsOver, Exact, TellsWhatHappened, CountsFollowLines, FinishIsToldOnce
<1> QED
  BY <1>1, SerialInvariance, PTL

\* Nothing open is nothing pending and nothing running.
LEMMA NothingOpen ==
  ASSUME RowType, NEW c \in Calls, Open(c) = 0
  PROVE  \A i \in Items : line[c][i] \in Closed \cup {"none"}
<1> DEFINE S == {i \in Items : line[c][i] \in {"pending", "running"}}
<1>1. IsFiniteSet(S)
  BY SyncJobConstants, FS_Subset
<1>2. Cardinality(S) = 0
  BY DEF Open, In
<1>3. S = {}
  BY <1>1, <1>2, FS_EmptySet
<1> QED
  BY <1>3 DEF RowType, LineStates

LEMMA EarnedStep ==
  ASSUME Pooled = FALSE, SerialInv, [Next]_vars
  PROVE  /\ \A c \in Calls : job[c] = "running" /\ job'[c] = "done" => \A i \in Items : line[c][i] \in Closed \cup {"none"}
         /\ \A c \in Calls : job[c] = "cancelled" => job'[c] = "cancelled"
<1>0. TypeInv /\ OneTurn /\ ReadIsCurrent /\ RowType /\ WorkType /\ FreshIsBlank
  BY DEF SerialInv, TypeInv, StateType
<1>1. CASE job' = job
  BY <1>1
<1>2. CASE \E n \in 1..Len(reports) : SaveJob(n)
  <2>1. PICK n \in 1..Len(reports) : SaveJob(n)
    BY <1>2
  <2> DEFINE r == reports[1]
  <2>2. n = 1 /\ r \in Reports /\ reports # <<>> /\ r.pc = "save"
    BY <1>0, <2>1, NoneOrOne DEF SaveJob, Turn
  <2>3. r.row = job[r.job] /\ r.open = Open(r.job) /\ r.job \in Calls
    BY <1>0, <2>2 DEF ReadIsCurrent, Reports
  <2>4. job' = [job EXCEPT ![r.job] = IF Finishing(r) THEN "done" ELSE r.row]
    BY <2>1, <2>2 DEF SaveJob
  <2>5. Finishing(r) => job[r.job] = "running" /\ \A i \in Items : line[r.job][i] \in Closed \cup {"none"}
    BY <1>0, <2>3, NothingOpen DEF Finishing
  <2> HIDE DEF r
  <2> QED
    BY <1>0, <2>3, <2>4, <2>5 DEF RowType
<1>3. CASE \E c \in Calls : Plan(c) \/ SaveCancelled(c)
  <2>1. PICK c \in Calls : Plan(c) \/ SaveCancelled(c)
    BY <1>3
  <2>2. CASE Plan(c)
    <3>1. job[c] = "none"
      BY <1>0, <2>2 DEF Plan, FreshIsBlank, Fresh
    <3>2. \A d \in Calls : d # c => job'[d] = job[d]
      BY <1>0, <2>2 DEF Plan, RowType
    <3> QED
      BY <3>1, <3>2
  <2>3. CASE SaveCancelled(c)
    BY <1>0, <2>3 DEF SaveCancelled, RowType
  <2> QED
    BY <2>1, <2>2, <2>3
<1>4. Next => job' = job \/ (\E n \in 1..Len(reports) : SaveJob(n)) \/ (\E c \in Calls : Plan(c) \/ SaveCancelled(c))
  <2> SUFFICES ASSUME Next PROVE job' = job \/ (\E n \in 1..Len(reports) : SaveJob(n)) \/ (\E c \in Calls : Plan(c) \/ SaveCancelled(c))
    OBVIOUS
  <2>1. CASE Moves \/ Crash
    BY <2>1 DEF Moves, Crash, rows
  <2>2. CASE \E n \in 1..Len(reports) : Handles(n)
    BY <2>2 DEF Handles, RecordLine, ReadJob, ReadProgress, rows
  <2>3. CASE \E c \in Calls :
              \/ Call(c) \/ Plan(c) \/ Cancel(c) \/ SkipUnfinished(c) \/ SaveCancelled(c)
              \/ UNCHANGED rows
    BY <2>3 DEF Call, Cancel, SkipUnfinished, rows
  <2> QED
    BY <1>0, <2>1, <2>2, <2>3, Steps
<1> QED
  BY <1>1, <1>2, <1>3, <1>4 DEF vars

\* With the embedded database a run is done only when each of its lines is closed, and
\* one that was stopped is never anything else again, while its transfers go on reporting.
THEOREM EndsEarned == ASSUME Pooled = FALSE PROVE Spec => EndsAreEarned
<1>1. SerialInv /\ [Next]_vars
        => [\A c \in Calls : job[c] = "running" /\ job'[c] = "done" => \A i \in Items : line[c][i] \in Closed \cup {"none"}]_vars
  BY EarnedStep
<1>2. SerialInv /\ [Next]_vars => [\A c \in Calls : job[c] = "cancelled" => job'[c] = "cancelled"]_vars
  BY EarnedStep
<1>3. Spec => []SerialInv
  BY SerialInvariance
<1> QED
  BY <1>1, <1>2, <1>3, PTL DEF Spec, EndsAreEarned, DoneWhenClosed, StoppedIsStopped

=============================================================================
