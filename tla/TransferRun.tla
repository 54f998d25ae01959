---------------------------- MODULE TransferRun ----------------------------
(***************************************************************************)
(* One transfer of services/transfer-engine.service.ts from its first byte *)
(* to the library: connections claim pieces and write them at their        *)
(* offsets, verification and repair judge the working file, and pauses,    *)
(* cancellations, shutdowns and crashes come at any point in between.      *)
(*                                                                         *)
(* The plan exists and is whole (ChunkPlan), one run at a time is in hand  *)
(* and a transfer put in the queue again under it is not started a second  *)
(* time (TransferQueue).  A piece of a file is "good", "bad" (all its bytes are *)
(* there, some wrong) or a "hole" (bytes are missing).  Files are sparse,  *)
(* so the size of a file tells only whether its last piece is complete.    *)
(***************************************************************************)
EXTENDS Integers, FiniteSets

CONSTANTS
  LastChunk,     \* chunks are numbered 0..LastChunk
  Workers,       \* connections a run may open
  Sources,       \* services that hold the file
  Ranged,        \* sources that honour byte ranges; others send the whole file
  Honest,        \* sources that always serve the right bytes
  FaultPatterns, \* the sets of sources whose requests may fail or fall short
  PerSource,     \* the setting maxConnectionsPerSource
  Checksums,     \* whether a source offered piece checksums
  MaxAttempts,   \* MAX_CHUNK_ATTEMPTS
  MaxPasses,     \* MAX_REPAIR_PASSES
  Strikes,       \* failures in a row that drop a source
  Requests,      \* what is done to the transfer from outside
  MaxRequests    \* bound on that

ASSUME RunConstants ==
  /\ LastChunk \in Nat /\ Workers # {} /\ IsFiniteSet(Workers) /\ Sources # {}
  /\ Ranged \subseteq Sources /\ Honest \subseteq Sources
  /\ FaultPatterns \subseteq SUBSET Sources
  /\ PerSource \in Nat \ {0} /\ Checksums \in BOOLEAN
  /\ MaxAttempts \in Nat \ {0} /\ MaxPasses \in Nat /\ Strikes \in Nat \ {0}
  /\ MaxRequests \in Nat

VARIABLES
  faulty,      \* the sources that fail in this behaviour
  status,      \* the state of the transfer row
  row,         \* the chunk rows
  file,        \* the working file, or Nothing
  lib,         \* the file at its library path, or Nothing
  phase,       \* where the run is, "off" when there is none
  plan,        \* running.plan.chunks
  source,      \* running.sources
  worker,      \* the connections
  pausing, cancelling, \* the flags of the run
  reason,      \* why its signal was aborted first
  draining,    \* _draining
  suspects,    \* chunks the repair pass has still to fetch, with the source chosen
  pass,        \* repair passes begun
  stray,       \* attempts of pieces orphaned connections of a failed run still try
  dropping,    \* how far a cancellation that found no registered run has come
  mishap,      \* history: what has happened that a property excuses
  asked        \* requests so far

disk == <<file, lib>>
flags == <<pausing, cancelling, reason, draining>>
repair == <<suspects, pass>>
vars == <<faulty, status, row, disk, phase, plan, source, worker, flags, repair, stray,
          dropping, mishap, asked>>

Chunks   == 0..LastChunk
NoSource == "no source"
Nobody   == [c \in {} |-> NoSource]
Nothing  == [c \in {} |-> "hole"]
Contents == {"hole", "good", "bad"}
Statuses == {"queued", "running", "paused", "cancelled", "failed", "done"}
Phases   == {"off", "starting", "download", "verify", "repair", "place"}

ChunkRow == [state : {"pending", "active", "done", "failed", "corrupt"},
             tries : Nat, by : Sources \cup {NoSource}]
Fresh    == [state |-> "pending", tries |-> 0, by |-> NoSource]
Idle     == [pc |-> "end", chunk |-> 0, from |-> NoSource]
Empty    == [c \in Chunks |-> "hole"]
NotStray == -1
NoPlan   == [c \in Chunks |-> Fresh]
Unasked  == [s \in Sources |-> [fails |-> 0, healthy |-> FALSE, conns |-> 0]]

Init ==
  /\ faulty \in FaultPatterns
  /\ status = "queued" /\ row = [c \in Chunks |-> Fresh]
  /\ file = Nothing /\ lib = Nothing
  /\ phase = "off" /\ plan = NoPlan /\ source = Unasked
  /\ worker = [w \in Workers |-> Idle]
  /\ pausing = FALSE /\ cancelling = FALSE /\ reason = "none" /\ draining = FALSE
  /\ suspects = Nobody /\ pass = 0
  /\ stray = [c \in Chunks |-> NotStray] /\ dropping = "no" /\ mishap = {} /\ asked = 0

-----------------------------------------------------------------------------
(* A run begins and ends.                                                  *)

\* A source whose count of failures starts again has been forgiven.
Forgives(S) == mishap' = mishap \cup IF \E s \in S : source[s].fails > 0 THEN {"forgiven"} ELSE {}

\* What a run keeps in memory goes with it.
Forgets ==
  /\ Forgives(Sources)
  /\ phase' = "off" /\ plan' = NoPlan /\ source' = Unasked
  /\ worker' = [w \in Workers |-> Idle]
  /\ pausing' = FALSE /\ cancelling' = FALSE /\ reason' = "none"
  /\ suspects' = Nobody /\ pass' = 0

Ends(state) == Forgets /\ status' = state /\ UNCHANGED <<draining, stray, dropping>>

\* Mutant: a piece in flight when the process stopped is trusted.
Resumed_TrustsAny(k) ==
  [k EXCEPT !.state = IF k.state = "pending" /\ k.tries > 0 THEN "done" ELSE "pending"]

\* resumePlan: a piece is held when its row says done, and pending otherwise.
Resumed(k) == [k EXCEPT !.state = IF k.state = "done" THEN "done" ELSE "pending"]

\* No source answers.
Unreached ==
  /\ phase = "off" /\ status = "queued" /\ Sources \subseteq faulty
  /\ status' = "failed"
  /\ UNCHANGED <<row, disk, phase, plan, source, worker, flags, repair, stray, dropping, mishap, asked>>

\* _prepareSources keeps the sources that answer, the plan is read from its rows.
\* A pump that was reading the settings when the shutdown began starts it even so.
Start ==
  /\ phase = "off" /\ status = "queued"
  /\ \E S \in SUBSET Sources :
       /\ S # {} /\ Sources \ faulty \subseteq S
       /\ source' = [s \in Sources |-> [fails |-> 0, healthy |-> s \in S, conns |-> 0]]
  /\ plan' = [c \in Chunks |-> Resumed(row[c])]
  /\ phase' = "starting" /\ status' = "running"
  /\ UNCHANGED <<row, disk, worker, flags, repair, stray, dropping, mishap, asked>>

\* The working file is opened or created, the run registers itself, its state is
\* written over whatever the row says by then, and its connections start: one only
\* when no source serves ranges.  A shutdown told the runs it found, not this one.
Register ==
  /\ phase = "starting" /\ status' = "running"
  /\ mishap' = mishap \cup IF draining THEN {"drained"} ELSE {}
  /\ file' = IF file = Nothing THEN Empty ELSE file
  /\ phase' = "download"
  /\ \E W \in SUBSET Workers :
       /\ W # {}
       /\ IF \E s \in Ranged : source[s].healthy THEN W = Workers ELSE Cardinality(W) = 1
       /\ worker' = [w \in Workers |-> IF w \in W THEN [Idle EXCEPT !.pc = "loop"] ELSE Idle]
  /\ UNCHANGED <<row, lib, plan, source, flags, repair, stray, dropping, asked>>

-----------------------------------------------------------------------------
(* Connections.                                                            *)

Stopping == pausing \/ cancelling

Open(s) == source[s].healthy /\ source[s].conns < PerSource
First(S) == CHOOSE c \in S : \A d \in S : c <= d
Pending == {c \in Chunks : plan[c].state = "pending"}

\* Whoever takes a piece counts as one connection and one attempt of it.
Takes(w, c, s) ==
  /\ source' = [source EXCEPT ![s].conns = @ + 1]
  /\ plan' = [plan EXCEPT ![c] = [state |-> IF phase = "repair" THEN "corrupt" ELSE "active",
                                  tries |-> plan[c].tries + 1, by |-> s]]
  /\ worker' = [worker EXCEPT ![w] = [pc |-> "fetch", chunk |-> c, from |-> s]]

\* Mutant: two connections may be handed the same piece.
Claim_Shared(w) ==
  /\ phase = "download" /\ worker[w].pc = "loop"
  /\ ~Stopping /\ ~draining
  /\ LET P == {c \in Chunks : plan[c].state \in {"pending", "active"}}
     IN  P # {} /\ \E s \in Sources : Open(s) /\ Takes(w, First(P), s)
  /\ UNCHANGED <<status, row, disk, phase, flags, repair, stray, dropping, mishap, asked>>

\* _worker takes the first pending piece, _pickSource any source with room: the
\* measured rates that order them are not modelled.
Claim(w) ==
  /\ phase = "download" /\ worker[w].pc = "loop"
  /\ ~Stopping /\ ~draining
  /\ Pending # {} /\ \E s \in Sources : Open(s) /\ Takes(w, First(Pending), s)
  /\ UNCHANGED <<status, row, disk, phase, flags, repair, stray, dropping, mishap, asked>>

\* Mutant: a connection with nothing left to take waits for more.
Leave_OnlyWhenStopped(w) ==
  /\ phase = "download" /\ worker[w].pc = "loop"
  /\ Stopping \/ draining
  /\ worker' = [worker EXCEPT ![w] = Idle]
  /\ UNCHANGED <<status, row, disk, phase, plan, source, flags, repair, stray, dropping, mishap, asked>>

\* A connection returns when told to stop or when nothing is left to take.
Leave(w) ==
  /\ phase = "download" /\ worker[w].pc = "loop"
  /\ Stopping \/ draining \/ Pending = {}
  /\ worker' = [worker EXCEPT ![w] = Idle]
  /\ UNCHANGED <<status, row, disk, phase, plan, source, flags, repair, stray, dropping, mishap, asked>>

\* The run fails.  Connections still at work are orphans: they go on with the
\* old plan, but the file they write to is closed.
Abandons(w, p) ==
  /\ Forgets /\ status' = "failed" /\ UNCHANGED <<draining, dropping>>
  /\ stray' = IF \E v \in Workers \ {w} : worker[v].pc # "end"
              THEN [c \in Chunks |-> IF p[c].state \in {"pending", "active"} THEN p[c].tries
                                     ELSE stray[c]]
              ELSE stray

\* Every source has been dropped: the connection throws and the run fails.
Starve(w) ==
  /\ phase = "download" /\ worker[w].pc = "loop"
  /\ ~Stopping /\ ~draining
  /\ Pending # {} /\ \A s \in Sources : ~source[s].healthy
  /\ Abandons(w, plan)
  /\ UNCHANGED <<row, disk, asked>>

Fetching(w) == worker[w].pc = "fetch"
Goes(w) == IF phase = "repair" THEN Idle ELSE [Idle EXCEPT !.pc = "loop"]

\* What a write of right or wrong bytes that stops halfway leaves of a piece.
Half(old, right) == IF old = "good" /\ ~right THEN "bad" ELSE old

\* Bytes written to a file that was removed under the run are nowhere.
Writes(f) == file' = IF file = Nothing THEN Nothing ELSE f

\* _saveChunk: an update that fails is logged and forgotten.
Saves(c, k) == row' \in {row, [row EXCEPT ![c] = k]}

\* The catch of _fetchChunk.
Fails(w) ==
  LET c == worker[w].chunk
      s == worker[w].from
      k == [plan[c] EXCEPT !.state = IF plan[c].tries >= MaxAttempts THEN "failed" ELSE "pending"]
      n == source[s].fails + 1
  IN  /\ Saves(c, k)
      /\ IF k.state = "failed"
         THEN Abandons(w, [plan EXCEPT ![c] = k])
         ELSE /\ plan' = [plan EXCEPT ![c] = k]
              /\ source' = [source EXCEPT ![s] = [fails |-> n, healthy |-> @.healthy /\ n < Strikes,
                                                  conns |-> @.conns - 1]]
              /\ worker' = [worker EXCEPT ![w] = Goes(w)]
              /\ UNCHANGED <<status, phase, flags, repair, stray, dropping, mishap>>

\* A request fails, a stream falls short, or a stop cuts it: some of the piece
\* may have been written.  A source that ignores ranges fails every piece but
\* the first.
FetchFails(w) ==
  /\ Fetching(w)
  /\ \/ worker[w].from \in faulty
     \/ Stopping
     \/ worker[w].from \notin Ranged /\ worker[w].chunk # 0
  /\ LET c == worker[w].chunk
     IN  \E right \in BOOLEAN :
           /\ worker[w].from \in Honest => right
           /\ Writes([file EXCEPT ![c] = Half(@, right)])
  /\ Fails(w)
  /\ UNCHANGED <<lib, asked>>

\* The whole piece was received and is recorded as held.
Held(w) ==
  LET c == worker[w].chunk
      s == worker[w].from
      k == [plan[c] EXCEPT !.state = "done"]
  IN  /\ plan' = [plan EXCEPT ![c] = k]
      /\ Saves(c, k)
      /\ source' = [source EXCEPT ![s] = [fails |-> 0, healthy |-> @.healthy, conns |-> @.conns - 1]]
      /\ Forgives({s})
      /\ worker' = [worker EXCEPT ![w] = Goes(w)]

\* Mutant: a short stream counts as a whole piece.
FetchArrives_Short(w) ==
  /\ Fetching(w) /\ worker[w].from \in Ranged
  /\ UNCHANGED file
  /\ Held(w)
  /\ UNCHANGED <<status, lib, phase, flags, repair, stray, dropping, asked>>

\* A ranged answer carried exactly its piece.
FetchArrives(w) ==
  /\ Fetching(w) /\ worker[w].from \in Ranged
  /\ \E q \in {"good"} \cup IF worker[w].from \in Honest THEN {} ELSE {"bad"} :
       Writes([file EXCEPT ![worker[w].chunk] = q])
  /\ Held(w)
  /\ UNCHANGED <<status, lib, phase, flags, repair, stray, dropping, asked>>

\* The source sends the file from zero.  Pieces up to some point are written and
\* every piece counts as held, however the stream ended, those other connections
\* are fetching among them; one row is saved.
FetchWhole(w) ==
  /\ Fetching(w) /\ worker[w].from \notin Ranged /\ worker[w].chunk = 0
  /\ LET s == worker[w].from
     IN  \E n \in 0..(LastChunk + 1) :
           /\ n <= LastChunk => s \in faulty \/ Stopping
           /\ \E q \in {"good"} \cup IF s \in Honest THEN {} ELSE {"bad"} :
                Writes([c \in Chunks |-> IF c < n THEN q
                                         ELSE IF c = n THEN Half(file[c], q = "good") ELSE file[c]])
           /\ plan' = [c \in Chunks |-> [plan[c] EXCEPT !.state = "done"]]
           /\ Saves(0, [plan[0] EXCEPT !.state = "done"])
           /\ mishap' = mishap \cup (IF n <= LastChunk THEN {"cut"} ELSE {})
                               \cup IF source[s].fails > 0 THEN {"forgiven"} ELSE {}
           /\ source' = [source EXCEPT ![s] = [fails |-> 0, healthy |-> @.healthy, conns |-> @.conns - 1]]
           /\ worker' = [worker EXCEPT ![w] = Goes(w)]
  /\ UNCHANGED <<status, lib, phase, flags, repair, stray, dropping, asked>>

\* An orphan fails on the closed file and records the failure over the row.
StrayWrites(c) ==
  /\ stray[c] # NotStray
  /\ LET n == stray[c] + 1
     IN  /\ row' = [row EXCEPT ![c] = [@ EXCEPT !.state = IF n >= MaxAttempts THEN "failed" ELSE "pending",
                                                !.tries = n]]
         /\ stray' = [stray EXCEPT ![c] = IF n >= MaxAttempts THEN NotStray ELSE n]
  /\ UNCHANGED <<status, disk, phase, plan, source, worker, flags, repair, dropping, mishap, asked>>

\* Orphans run out of sources.
StraysEnd ==
  /\ \E c \in Chunks : stray[c] # NotStray
  /\ stray' = [c \in Chunks |-> NotStray]
  /\ UNCHANGED <<status, row, disk, phase, plan, source, worker, flags, repair, dropping, mishap, asked>>

-----------------------------------------------------------------------------
(* Verification, repair, placement.                                        *)

\* Mutant: the checksums the plan adopted are not read.
Corrupt_SizeOnly(f) == IF f # Nothing /\ f[LastChunk] = "hole" THEN Chunks ELSE {}

\* VerificationService.verify: a wrong length condemns every piece, a hash one, and
\* a file that is not there none.
Corrupt(f) ==
  IF f = Nothing THEN {}
  ELSE IF f[LastChunk] = "hole" THEN Chunks
  ELSE {c \in Chunks : Checksums /\ f[c] # "good"}

Intact(f) == f # Nothing /\ Corrupt(f) = {}

\* The partial file goes with a cancelled transfer; that it could not be removed is
\* swallowed.
DropsPartial == file' \in {Nothing, file}

\* _download resolved.
DownloadEnds ==
  /\ phase = "download" /\ \A w \in Workers : worker[w].pc = "end"
  /\ \/ cancelling /\ Ends("cancelled") /\ DropsPartial
     \/ ~cancelling /\ pausing /\ Ends("paused") /\ UNCHANGED file
     \/ ~Stopping /\ phase' = "verify"
        /\ UNCHANGED <<status, file, plan, source, worker, flags, repair, stray, dropping, mishap>>
  /\ UNCHANGED <<row, lib, asked>>

Healthy == {s \in Sources : source[s].healthy}

\* Mutant: the first source that answers, even the one that served the bad bytes.
Assigns_Same(c) == IF Healthy = {} THEN {NoSource} ELSE Healthy

\* planRepair: away from the source that served the piece, where there is another.
Assigns(c) ==
  IF Healthy \ {plan[c].by} # {} THEN Healthy \ {plan[c].by}
  ELSE IF Healthy # {} THEN Healthy ELSE {NoSource}

\* The file is read again: intact, worth another repair pass, or given up.
Verify ==
  /\ phase = "verify"
  /\ \/ /\ Intact(file) /\ phase' = "place"
        /\ UNCHANGED <<status, plan, source, worker, flags, repair, stray, dropping, mishap>>
     \/ /\ ~Intact(file) /\ pass < MaxPasses
        /\ phase' = "repair" /\ pass' = pass + 1
        /\ suspects' \in [Corrupt(file) -> Sources \cup {NoSource}]
        /\ \A c \in Corrupt(file) : suspects'[c] \in Assigns(c)
        /\ UNCHANGED <<status, plan, source, worker, flags, stray, dropping, mishap>>
     \/ ~Intact(file) /\ pass = MaxPasses /\ Ends("failed")
  /\ UNCHANGED <<row, disk, asked>>

Remaining(c) == [d \in DOMAIN suspects \ {c} |-> suspects[d]]

\* One piece of a repair pass, from the source chosen, or from another with room
\* when that one has been dropped since, or from nobody.
RepairTakes(w) ==
  /\ phase = "repair" /\ \A v \in Workers : worker[v].pc = "end"
  /\ DOMAIN suspects # {}
  /\ LET c == First(DOMAIN suspects)
         S == IF suspects[c] \in Healthy THEN {suspects[c]} ELSE {s \in Sources : Open(s)}
     IN  /\ \/ \E s \in S : Takes(w, c, s)
            \/ S = {} /\ plan' = [plan EXCEPT ![c].state = "corrupt"] /\ UNCHANGED <<source, worker>>
         /\ suspects' = Remaining(c)
  /\ UNCHANGED <<status, row, disk, phase, flags, pass, stray, dropping, mishap, asked>>

\* The pass is over and the file is verified again.
RepairEnds ==
  /\ phase = "repair" /\ \A v \in Workers : worker[v].pc = "end"
  /\ DOMAIN suspects = {}
  /\ phase' = "verify"
  /\ UNCHANGED <<status, row, disk, plan, source, worker, flags, repair, stray, dropping, mishap, asked>>

\* The file is moved, or the move finds the run stopped (FileMove has the rest).
Place ==
  /\ phase = "place"
  /\ \/ reason = "none" /\ file # Nothing /\ Ends("done") /\ lib' = file /\ file' = Nothing
     \/ reason = "none" /\ file = Nothing /\ Ends("failed") /\ UNCHANGED disk
     \/ reason = "pause" /\ Ends("paused") /\ UNCHANGED disk
     \/ reason = "cancel" /\ Ends("cancelled") /\ DropsPartial /\ UNCHANGED lib
  /\ UNCHANGED <<row, asked>>

-----------------------------------------------------------------------------
(* From outside.                                                           *)

Asked(op) == op \in Requests /\ asked < MaxRequests /\ asked' = asked + 1
Registered == phase \notin {"off", "starting"}

\* The first abort of a controller decides its reason.
Aborts(why) == reason' = IF reason = "none" THEN why ELSE reason

\* A run that is not registered yet is not told: only its row is written.
Pause ==
  /\ Asked("pause") /\ ~draining
  /\ \/ Registered /\ pausing' = TRUE /\ Aborts("pause") /\ UNCHANGED status
     \/ /\ phase = "starting" \/ (phase = "off" /\ status = "queued")
        /\ status \in {"queued", "running"} /\ status' = "paused"
        /\ UNCHANGED <<pausing, reason>>
  /\ UNCHANGED <<row, disk, phase, plan, source, worker, cancelling, draining, repair, stray,
                 dropping, mishap>>

\* A run that is registered is told; otherwise the row is written and the partial
\* file removed, each behind an await, and a run that was starting goes on meanwhile
\* (one such cancellation at a time).
Cancel ==
  /\ Asked("cancel") /\ ~draining /\ status \notin {"done", "cancelled"}
  /\ \/ Registered /\ cancelling' = TRUE /\ Aborts("cancel") /\ UNCHANGED <<status, dropping>>
     \/ /\ phase = "starting" /\ dropping = "no" /\ dropping' = "asked"
        /\ UNCHANGED <<status, cancelling, reason>>
     \/ /\ phase = "off" /\ dropping = "no" /\ dropping' = "saved" /\ status' = "cancelled"
        /\ UNCHANGED <<cancelling, reason>>
  /\ UNCHANGED <<row, disk, phase, plan, source, worker, pausing, draining, repair, stray, mishap>>

CancelSaves ==
  /\ dropping = "asked" /\ dropping' = "saved" /\ status' = "cancelled"
  /\ UNCHANGED <<row, disk, phase, plan, source, worker, flags, repair, stray, mishap, asked>>

CancelRemoves ==
  /\ dropping = "saved" /\ dropping' = "no" /\ DropsPartial
  /\ mishap' = mishap \cup IF file' # file /\ (phase # "off" \/ status # "cancelled") THEN {"removed"} ELSE {}
  /\ UNCHANGED <<status, row, lib, phase, plan, source, worker, flags, repair, stray, asked>>

\* resume, retry and repair look at the row only: under a run that goes on, the
\* engine declines the transfer it has in hand.
Resume ==
  /\ Asked("resume") /\ ~draining /\ status \in {"paused", "failed"}
  /\ status' = "queued"
  /\ UNCHANGED <<row, disk, phase, plan, source, worker, flags, repair, stray, dropping, mishap>>

\* retry forgets the chunk rows, and keeps whatever bytes a failure left.
Retry ==
  /\ Asked("retry") /\ ~draining /\ status \in {"failed", "cancelled"}
  /\ status' = "queued" /\ row' = [c \in Chunks |-> Fresh]
  /\ UNCHANGED <<disk, phase, plan, source, worker, flags, repair, stray, dropping, mishap>>

\* TransferManager.repair: verify what there is, condemn the pieces found bad,
\* queue the transfer.  A file that is not there condemns none, and the pieces of a
\* transfer whose working file is gone stay held.
Repair ==
  /\ Asked("repair") /\ ~draining
  /\ LET f   == IF status = "done" THEN lib ELSE file
         bad == Corrupt(f)
     IN  /\ ~Intact(f)
         /\ row' = [c \in Chunks |-> IF c \in bad THEN [row[c] EXCEPT !.state = "corrupt"] ELSE row[c]]
         /\ mishap' = mishap \cup IF status \in {"cancelled", "done"} /\ bad # Chunks
                                  THEN {"revived"} ELSE {}
  /\ status' = "queued"
  /\ UNCHANGED <<disk, phase, plan, source, worker, flags, repair, stray, dropping>>

\* Something outside the gateway damages or truncates a file of the library.
Rot ==
  /\ phase = "off" /\ status = "done" /\ lib # Nothing
  /\ \/ Asked("damage") /\ \E c \in Chunks : lib' = [lib EXCEPT ![c] = "bad"]
     \/ Asked("truncate") /\ lib' = [lib EXCEPT ![LastChunk] = "hole"]
  /\ UNCHANGED <<status, row, file, phase, plan, source, worker, flags, repair, stray, dropping, mishap>>

\* onModuleDestroy: only a registered run is told to pause.
Drain ==
  /\ Asked("drain") /\ ~draining
  /\ draining' = TRUE
  /\ IF Registered THEN pausing' = TRUE /\ Aborts("pause") ELSE UNCHANGED <<pausing, reason>>
  /\ UNCHANGED <<status, row, disk, phase, plan, source, worker, cancelling, repair, stray,
                 dropping, mishap>>

\* The process dies and comes back: what it was doing is queued again.
Restart ==
  /\ Asked("crash") \/ (draining /\ UNCHANGED asked)
  /\ status' = IF status = "running" THEN "queued" ELSE status
  /\ Forgets /\ draining' = FALSE /\ dropping' = "no"
  /\ stray' = [c \in Chunks |-> NotStray]
  /\ UNCHANGED <<row, disk>>

RunStep ==
  \/ Unreached \/ Start \/ Register \/ DownloadEnds \/ Verify \/ RepairEnds \/ Place
  \/ \E w \in Workers : \/ Claim(w) \/ Leave(w) \/ Starve(w) \/ FetchFails(w)
                        \/ FetchArrives(w) \/ FetchWhole(w) \/ RepairTakes(w)

Next ==
  /\ \/ RunStep
     \/ StraysEnd \/ \E c \in Chunks : StrayWrites(c)
     \/ Pause \/ Cancel \/ CancelSaves \/ CancelRemoves \/ Resume \/ Retry \/ Repair \/ Rot
     \/ Drain \/ Restart
  /\ UNCHANGED faulty

Spec == Init /\ [][Next]_vars
\* Requests to a source and to the disk time out or answer.
FairSpec == Spec /\ WF_vars(RunStep /\ UNCHANGED faulty)

-----------------------------------------------------------------------------
(* Properties.                                                             *)

\* Shape of the state.
TypeOK ==
  /\ faulty \in FaultPatterns
  /\ status \in Statuses /\ row \in [Chunks -> ChunkRow] /\ plan \in [Chunks -> ChunkRow]
  /\ file \in [Chunks -> Contents] \cup {Nothing} /\ lib \in [Chunks -> Contents] \cup {Nothing}
  /\ phase \in Phases
  /\ source \in [Sources -> [fails : Nat, healthy : BOOLEAN, conns : Nat]]
  /\ worker \in [Workers -> [pc : {"end", "loop", "fetch"}, chunk : Chunks,
                             from : Sources \cup {NoSource}]]
  /\ pausing \in BOOLEAN /\ cancelling \in BOOLEAN /\ draining \in BOOLEAN
  /\ reason \in {"none", "pause", "cancel"}
  /\ DOMAIN suspects \subseteq Chunks /\ pass \in 0..MaxPasses
  /\ dropping \in {"no", "asked", "saved"}
  /\ mishap \subseteq {"removed", "revived", "drained", "cut", "forgiven"}
  /\ stray \in [Chunks -> Nat \cup {NotStray}] /\ asked \in 0..MaxRequests

\* Connections share one plan: two of them never have claimed the same piece, and a
\* source's count follows the connections to it and stays within its limit.  (An
\* answer that ignores the range writes pieces others have claimed.)
ClaimsAreExact ==
  /\ \A v, w \in Workers : worker[v].pc = "fetch" /\ worker[w].pc = "fetch" /\ v # w
                           => worker[v].chunk # worker[w].chunk
  /\ phase = "download" =>
       \A s \in Sources :
         /\ source[s].conns = Cardinality({w \in Workers : worker[w].pc = "fetch" /\ worker[w].from = s})
         /\ source[s].conns <= PerSource

\* _finish: what is moved into the library is the file, whole and right.
PlacedIsWhole ==
  [][lib' # lib /\ status' = "done" /\ status # "done" => \A c \in Chunks : lib'[c] = "good"]_vars

\* The four events that part the rows from the bytes: the working file removed under
\* a transfer that goes on, a repair of a transfer whose working file is gone, a run
\* that registers under a shutdown, an answer for the whole file that breaks off.
Unharmed == mishap \subseteq {"forgiven"}

\* _saveChunk: a row that says done stands for bytes on disk, so a restart may
\* trust it, whatever is asked, fails or crashes, until one of the four has happened.
DoneIsOnDisk ==
  Unharmed /\ (phase # "off" \/ status \notin {"cancelled", "done"}) =>
    \A c \in Chunks : row[c].state = "done" => file # Nothing /\ file[c] = "good"

\* Without checksums only the length of a file is looked at, and still: a file with a
\* hole is placed only after one of the four.
OnlyAMishapTears ==
  [][lib' # lib /\ status' = "done" /\ status # "done" /\ Unharmed
       => \A c \in Chunks : lib'[c] = "good"]_vars

\* A source that only fails is dropped before it has used up the attempts of a piece,
\* and a piece served wrong comes from elsewhere: while an honest source answers, a
\* run fails only when stopped, when its file went, or when a source was forgiven.
RepairConverges ==
  [][status # "failed" /\ status' = "failed"
       => Stopping \/ Honest \subseteq faulty \/ mishap # {}]_vars

\* Every run comes to an end.
RunEnds == [](phase # "off" => <>(phase = "off"))

-----------------------------------------------------------------------------
(* What comments promise and the code does not keep.                       *)

\* pause: "a pause never throws away a piece that was nearly complete": pausing
\* alone never turns a transfer into a failed one.
PauseIsHarmless == status # "failed"

\* _fetchChunk: dropping a source "takes it out of the rotation without failing the
\* transfer, which the other sources can still finish".
OthersFinish ==
  [][status # "failed" /\ status' = "failed" => Stopping \/ Honest \subseteq faulty]_vars

\* _saveChunk: "a restart knows which pieces are whole": a held piece is not
\* recorded as missing again.
DoneRowsStay ==
  [][\A c \in Chunks : row[c].state = "done" => row'[c].state = "done"]_vars

\* repair: "Only the pieces that failed come back."
OnlyBadPiecesComeBack ==
  [][\A w \in Workers : lib # Nothing /\ worker[w].pc # "fetch" /\ worker'[w].pc = "fetch"
       => lib[worker'[w].chunk] # "good"]_vars
=============================================================================
