------------------------------ MODULE SyncJob ------------------------------
(***************************************************************************)
(* Runs of a synchronisation plan (managers/sync.manager.ts): what `run`   *)
(* writes down, how the states of its transfers come back as lines and     *)
(* counters, and what `cancel` stops.                                      *)
(*                                                                         *)
(* A run is named by the call that makes it.  What a transfer does between *)
(* its states belongs to TransferQueue and TransferRun; here it starts,    *)
(* ends or is stopped, and announces it.  With the embedded database every *)
(* query answers before the event loop moves on, so what follows an        *)
(* announcement is one turn; with a server (Pooled) its queries interleave *)
(* with everything else.                                                   *)
(***************************************************************************)
EXTENDS Integers, Sequences, FiniteSets

CONSTANTS
  Calls,       \* calls of run for one plan
  Items,       \* what the plan's scope covers, in the order of the plan
  Pooled,      \* whether queries of different handlers interleave
  Requests,    \* requests made of runs and transfers
  MaxRequests  \* bound on them, for each run

ASSUME SyncJobConstants ==
  /\ Items \subseteq Nat /\ IsFiniteSet(Items) /\ Pooled \in BOOLEAN /\ MaxRequests \in [Calls -> Nat]
  /\ Requests \subseteq {"pause", "resume", "retry", "cancel", "stop", "archive", "crash"}

VARIABLES
  call,      \* where each call of run is
  todo,      \* transfers a call has still to make
  job,       \* the state of each run's row
  count,     \* itemsDone and itemsFailed of each row
  line,      \* the lines of each run
  transfer,  \* the transfer of each line
  held,      \* items whose file is in the library
  reports,   \* announcements on their way to the lines, oldest first
  stop,      \* where each call of cancel is
  told,      \* how often a run was announced as finished
  requests   \* requests of each run so far

rows == <<job, count, line>>
calls == <<call, todo>>
vars == <<call, todo, job, count, line, transfer, held, reports, stop, told, requests>>

First(S, i) == i \in S /\ \A j \in S : i <= j
Zero == [done |-> 0, failed |-> 0]
NoStop == [pc |-> "off", left |-> {}, count |-> Zero]
Closed == {"done", "failed", "skipped"}
Over == {"done", "cancelled"}
Finished == {"done", "failed", "cancelled"}

Init ==
  /\ call = [c \in Calls |-> "idle"] /\ todo = [c \in Calls |-> {}]
  /\ job = [c \in Calls |-> "none"] /\ count = [c \in Calls |-> Zero]
  /\ line = [c \in Calls |-> [i \in Items |-> "none"]]
  /\ transfer = [c \in Calls |-> [i \in Items |-> "none"]]
  /\ held = {} /\ reports = <<>> /\ stop = [c \in Calls |-> NoStop]
  /\ told = [c \in Calls |-> 0] /\ requests = [c \in Calls |-> 0]

\* Nothing else runs in the turn of a handler whose queries answer at once.
Quiet == Pooled \/ (reports = <<>> /\ \A c \in Calls : stop[c].pc # "skipped")

Asked(c, r) ==
  /\ r \in Requests /\ requests[c] < MaxRequests[c] /\ requests' = [requests EXCEPT ![c] = @ + 1]

-----------------------------------------------------------------------------
(* Announcements.                                                          *)

Report(c, i, s) == [job |-> c, item |-> i, pc |-> "line", state |-> s, row |-> "none", seen |-> Zero,
                    open |-> 0]

\* _setState, _fail, _finish and cancel of the engine: the row, then whoever listens.
Becomes(c, i, s) ==
  /\ transfer' = [transfer EXCEPT ![c][i] = s]
  /\ reports' = Append(reports, Report(c, i, s))

\* jobItemStateOf.
LineOf(s) ==
  CASE s \in {"done", "failed"} -> s
    [] s = "cancelled" -> "skipped"
    [] s \in {"queued", "paused"} -> "pending"
    [] OTHER -> "running"

\* The announcement a step is about: the oldest, or any when queries interleave.
Turn(n) == n \in 1..Len(reports) /\ (Pooled \/ n = 1)

\* _recordTransferState writes the line.
RecordLine(n) ==
  /\ Turn(n) /\ reports[n].pc = "line"
  /\ line' = [line EXCEPT ![reports[n].job][reports[n].item] = LineOf(reports[n].state)]
  /\ reports' = [reports EXCEPT ![n].pc = "job"]
  /\ UNCHANGED <<calls, job, count, transfer, held, stop, told, requests>>

\* _settleJob reads the row.
ReadJob(n) ==
  /\ Turn(n) /\ reports[n].pc = "job"
  /\ reports' = [reports EXCEPT ![n] = [@ EXCEPT !.pc = "progress", !.row = job[reports[n].job]]]
  /\ UNCHANGED <<calls, rows, transfer, held, stop, told, requests>>

In(c, S) == Cardinality({i \in Items : line[c][i] \in S})

\* Mutant: counters go up with every report instead of being counted.
Progress_Adds(c, s) ==
  [done |-> count[c].done + IF s = "done" THEN 1 ELSE 0,
   failed |-> count[c].failed + IF s = "failed" THEN 1 ELSE 0]

\* progressOf: counted over the lines.
Progress(c, s) == [done |-> In(c, {"done"}), failed |-> In(c, {"failed"})]

\* Mutant: only what ended well or badly is closed.
Open_Skipped(c) == In(c, {"pending", "running", "skipped"})

\* What keeps a run going.
Open(c) == In(c, {"pending", "running"})

ReadProgress(n) ==
  LET c == reports[n].job
  IN  /\ Turn(n) /\ reports[n].pc = "progress"
      /\ reports' = [reports EXCEPT ![n] = [@ EXCEPT !.pc = "save", !.seen = Progress(c, reports[n].state),
                                                     !.open = Open(c)]]
      /\ UNCHANGED <<calls, rows, transfer, held, stop, told, requests>>

\* Mutant: whatever the row said, a run with nothing open is done.
Finishing_Always(r) == r.open = 0

\* Only a run still believed to be going is finished.
Finishing(r) == r.row = "running" /\ r.open = 0

Drop(n) == [k \in 1..(Len(reports) - 1) |-> reports[IF k < n THEN k ELSE k + 1]]

\* save writes back the row that was read.
SaveJob(n) ==
  LET r == reports[n]
      c == r.job
      state == IF Finishing(r) THEN "done" ELSE r.row
  IN  /\ Turn(n) /\ r.pc = "save"
      /\ job' = [job EXCEPT ![c] = state] /\ count' = [count EXCEPT ![c] = r.seen]
      /\ told' = IF Finishing(r) THEN [told EXCEPT ![c] = @ + 1] ELSE told
      /\ reports' = Drop(n)
      /\ UNCHANGED <<calls, line, transfer, held, stop, requests>>

Handles(n) == RecordLine(n) \/ ReadJob(n) \/ ReadProgress(n) \/ SaveJob(n)

-----------------------------------------------------------------------------
(* run.                                                                    *)

Live == {"running"}

\* A plan with a run in flight is refused.
Call(c) ==
  /\ Quiet /\ call[c] = "idle"
  /\ call' = [call EXCEPT ![c] = IF \E d \in Calls : job[d] \in Live THEN "refused" ELSE "planning"]
  /\ UNCHANGED <<todo, rows, transfer, held, reports, stop, told, requests>>

\* _recordLines: all of them at once, and the ones a ceiling dropped.
Lines(kept, dropped) ==
  [i \in Items |-> IF i \in kept THEN "pending" ELSE IF i \in dropped THEN "skipped" ELSE "none"]

\* What is in the library is not planned; a ceiling drops the end of the rest.  The row and
\* its lines come before the first transfer; a run of nothing is over.
Plan(c) ==
  /\ Quiet /\ call[c] = "planning"
  /\ \E kept \in SUBSET (Items \ held) :
       /\ kept = {} => held = Items
       /\ \A i \in kept, j \in (Items \ held) \ kept : i < j
       /\ todo' = [todo EXCEPT ![c] = kept]
       /\ job' = [job EXCEPT ![c] = IF kept = {} THEN "done" ELSE "running"]
       /\ line' = [line EXCEPT ![c] = Lines(kept, (Items \ held) \ kept)]
  /\ call' = [call EXCEPT ![c] = "creating"]
  /\ UNCHANGED <<count, transfer, held, reports, stop, told, requests>>

\* A transfer is made and queued; its companions are fetched before the next one.
Create(c) ==
  /\ Quiet /\ call[c] = "creating"
  /\ \E i \in Items :
       /\ First(todo[c], i)
       /\ transfer' = [transfer EXCEPT ![c][i] = "queued"]
       /\ todo' = [todo EXCEPT ![c] = @ \ {i}]
  /\ UNCHANGED <<call, rows, held, reports, stop, told, requests>>

-----------------------------------------------------------------------------
(* Transfers, as the engine reports them.                                  *)

Start(c, i) ==
  /\ Quiet /\ transfer[c][i] = "queued" /\ Becomes(c, i, "active")
  /\ UNCHANGED <<calls, rows, held, stop, told, requests>>

\* A transfer being stopped may still have been placed, or have failed.
End(c, i) ==
  /\ Quiet /\ transfer[c][i] \in {"active", "stopping"}
  /\ \/ Becomes(c, i, "done") /\ held' = held \cup {i}
     \/ Becomes(c, i, "failed") /\ UNCHANGED held
  /\ UNCHANGED <<calls, rows, stop, told, requests>>

Stopped(c, i) ==
  /\ Quiet /\ transfer[c][i] = "stopping" /\ Becomes(c, i, "cancelled")
  /\ UNCHANGED <<calls, rows, held, stop, told, requests>>

\* Of a transfer whose row is gone nothing is announced.
OrphanEnds(c, i) ==
  /\ Quiet /\ transfer[c][i] = "orphan" /\ transfer' = [transfer EXCEPT ![c][i] = "gone"]
  /\ UNCHANGED <<calls, rows, held, reports, stop, told, requests>>

Pause(c, i) ==
  /\ Quiet /\ Asked(c, "pause") /\ transfer[c][i] \in {"queued", "active"} /\ Becomes(c, i, "paused")
  /\ UNCHANGED <<calls, rows, held, stop, told>>

Resume(c, i) ==
  /\ Quiet /\ Asked(c, "resume") /\ transfer[c][i] \in {"paused", "failed"} /\ Becomes(c, i, "queued")
  /\ UNCHANGED <<calls, rows, held, stop, told>>

\* retry writes the row itself: nobody is told until it starts.
Retry(c, i) ==
  /\ Quiet /\ Asked(c, "retry") /\ transfer[c][i] \in {"failed", "cancelled"}
  /\ transfer' = [transfer EXCEPT ![c][i] = "queued"]
  /\ UNCHANGED <<calls, rows, held, reports, stop, told>>

\* engine.cancel: a running transfer is asked to stop, any other row is cancelled.
EngineCancels(c, i) ==
  IF transfer[c][i] \in {"active", "stopping"}
  THEN transfer' = [transfer EXCEPT ![c][i] = "stopping"] /\ UNCHANGED reports
  ELSE Becomes(c, i, "cancelled")

CancelOne(c, i) ==
  /\ Quiet /\ Asked(c, "cancel") /\ transfer[c][i] \in {"queued", "paused", "active"} /\ EngineCancels(c, i)
  /\ UNCHANGED <<calls, rows, held, stop, told>>

\* archive: cancelled if it is not finished, then the row goes, also under a worker.
Archive(c, i) ==
  /\ Quiet /\ Asked(c, "archive") /\ transfer[c][i] \notin {"none", "orphan", "gone"}
  /\ transfer' = [transfer EXCEPT ![c][i] = IF @ \in {"active", "stopping"} THEN "orphan" ELSE "gone"]
  /\ reports' = IF transfer[c][i] \in {"queued", "paused"} THEN Append(reports, Report(c, i, "cancelled"))
                ELSE reports
  /\ UNCHANGED <<calls, rows, held, stop, told>>

-----------------------------------------------------------------------------
(* cancel of a run.                                                        *)

\* The row and its transfers are read.
Cancel(c) ==
  /\ Quiet /\ Asked(c, "stop") /\ job[c] \in Live /\ stop[c].pc = "off"
  /\ stop' = [stop EXCEPT ![c] = [pc |-> "transfers", count |-> count[c],
       left |-> {i \in Items : transfer[c][i] \notin Finished \cup {"none", "orphan", "gone"}}]]
  /\ UNCHANGED <<calls, rows, transfer, held, reports, told>>

\* Each is cancelled as it was read; a row that is gone ends the call with an error.
CancelNext(c) ==
  /\ Quiet /\ stop[c].pc = "transfers"
  /\ \E i \in Items :
       \/ /\ First(stop[c].left, i) /\ transfer[c][i] \notin {"orphan", "gone"} /\ EngineCancels(c, i)
          /\ stop' = [stop EXCEPT ![c].left = @ \ {i}]
       \/ /\ First(stop[c].left, i) /\ transfer[c][i] \in {"orphan", "gone"} /\ stop' = [stop EXCEPT ![c] = NoStop]
          /\ UNCHANGED <<transfer, reports>>
  /\ UNCHANGED <<calls, rows, held, told, requests>>

\* skipUnfinished.
SkipUnfinished(c) ==
  /\ Quiet /\ stop[c].pc = "transfers" /\ stop[c].left = {}
  /\ line' = [line EXCEPT ![c] = [i \in Items |-> IF @[i] \in {"pending", "running"} THEN "skipped" ELSE @[i]]]
  /\ stop' = [stop EXCEPT ![c].pc = "skipped"]
  /\ UNCHANGED <<calls, job, count, transfer, held, reports, told, requests>>

\* The row as it was read is saved with its new state.
SaveCancelled(c) ==
  /\ stop[c].pc = "skipped"
  /\ job' = [job EXCEPT ![c] = "cancelled"] /\ count' = [count EXCEPT ![c] = stop[c].count]
  /\ stop' = [stop EXCEPT ![c] = NoStop]
  /\ UNCHANGED <<calls, line, transfer, held, reports, told, requests>>

\* The process stops: calls and announcements are lost, the engine queues again what ran.
Crash ==
  /\ Quiet /\ \E c \in Calls : Asked(c, "crash")
  /\ call' = [c \in Calls |-> IF call[c] = "planning" \/ todo[c] # {} THEN "died" ELSE call[c]]
  /\ todo' = [c \in Calls |-> {}] /\ reports' = <<>> /\ stop' = [c \in Calls |-> NoStop]
  /\ transfer' = [c \in Calls |-> [i \in Items |->
       CASE transfer[c][i] \in {"active", "stopping"} -> "queued"
         [] transfer[c][i] = "orphan" -> "gone"
         [] OTHER -> transfer[c][i]]]
  /\ UNCHANGED <<rows, held, told>>

-----------------------------------------------------------------------------
\* What goes on by itself.
GoesOn ==
  \/ \E n \in 1..Len(reports) : Handles(n)
  \/ \E c \in Calls :
       \/ Plan(c) \/ Create(c) \/ CancelNext(c) \/ SkipUnfinished(c) \/ SaveCancelled(c)
       \/ \E i \in Items : Start(c, i) \/ End(c, i) \/ Stopped(c, i) \/ OrphanEnds(c, i)

Next ==
  \/ GoesOn \/ Crash
  \/ \E c \in Calls :
       \/ Call(c) \/ Cancel(c)
       \/ \E i \in Items : Pause(c, i) \/ Resume(c, i) \/ Retry(c, i) \/ CancelOne(c, i) \/ Archive(c, i)

Spec == Init /\ [][Next]_vars

\* Handlers end, the engine starts what is queued and every running transfer ends.
\* Each of these steps uses something up, so one of them always being taken is enough.
FairSpec == Spec /\ WF_vars(GoesOn)

-----------------------------------------------------------------------------
(* Properties.                                                             *)

\* Shape of the state; a transfer is made only for a line that was written before it.
TypeOK ==
  /\ \A c \in Calls :
       /\ call[c] \in {"idle", "refused", "planning", "creating", "died"}
       /\ todo[c] \subseteq Items /\ job[c] \in {"none", "running"} \cup Over
       /\ stop[c].pc \in {"off", "transfers", "skipped"}
       /\ \A i \in Items : transfer[c][i] # "none" => line[c][i] # "none"
  /\ held \subseteq Items

\* What a run reports is what its lines say, however often a transfer fails, is retried
\* and reports again: never more items than there are, never fewer.
CountsFollowLines ==
  \A c \in Calls :
    reports = <<>> /\ stop[c].pc = "off" /\ job[c] # "cancelled"
      => count[c] = [done |-> In(c, {"done"}), failed |-> In(c, {"failed"})]

\* A finish is announced once, whatever stragglers report afterwards.
FinishIsToldOnce == \A c \in Calls : told[c] <= 1

\* What is told of a run is what happened: its counters, and its end.
TellsWhatHappened == CountsFollowLines /\ FinishIsToldOnce

\* A run is finished by its reports only when every line of it is closed: also the ones
\* whose transfer had not been made yet when another one ended.
DoneWhenClosed ==
  [][\A c \in Calls : job[c] = "running" /\ job'[c] = "done" => \A i \in Items : line[c][i] \in Closed \cup {"none"}]_vars

\* A run that was stopped stays stopped, while its transfers go on reporting.
StoppedIsStopped == [][\A c \in Calls : job[c] = "cancelled" => job'[c] = "cancelled"]_vars

\* The state of a run is earned: done by closed lines only, cancelled for good.
EndsAreEarned == DoneWhenClosed /\ StoppedIsStopped

\* A run does not block its plan for ever: it ends, unless something of it is paused,
\* was archived under it, or its call died before its transfers were made.
RunsEnd ==
  []<>(\A c \in Calls :
         \/ job[c] \in Over \cup {"none"} \/ call[c] = "died"
         \/ \E i \in Items : transfer[c][i] \in {"paused", "gone"})

-----------------------------------------------------------------------------
(* What comments promise and the code does not keep.                       *)

\* run: "Two runs of the same plan would pull the same missing episodes into the same
\* paths at the same time".
OneRunAtATime == Cardinality({c \in Calls : job[c] \in Live}) <= 1

\* findLive: "Anything not finished, which is what a restart has to adopt or fail", and
\* archive: "a row deleted under a running worker is a worker writing into a transfer
\* nothing describes any more": no run is left going for ever.
EveryRunEnds ==
  []<>(\A c \in Calls : job[c] \in Over \cup {"none"} \/ \E i \in Items : transfer[c][i] = "paused")

\* _recordTransferState: "The counters are recounted from the lines": also those of a
\* run that was stopped.
StoppedCountsFollowLines ==
  \A c \in Calls :
    reports = <<>> /\ job[c] = "cancelled" /\ (\A i \in Items : transfer[c][i] \in Finished \cup {"none"})
      => count[c].done = In(c, {"done"})

\* cancel: "Stop a run and everything it started.  The transfers go too."
StopStopsTransfers ==
  [][\A c \in Calls, i \in Items :
       job[c] = "cancelled" /\ transfer[c][i] \in {"none", "queued"} => transfer'[c][i] # "active"]_vars
=============================================================================
