----------------------------- MODULE ChunkPlan -----------------------------
(***************************************************************************)
(* The chunk plan of one transfer: how services/chunk-planner.ts cuts a    *)
(* file into pieces, how the engine writes the pieces to the database      *)
(* (_persistPlan, insertPlan) and how a later run takes the plan up again. *)
(*                                                                         *)
(* Bytes are counted, never carried: a chunk is the range it addresses.    *)
(* The source, the attempts and the checksum of a chunk are left to        *)
(* TransferRun; here a chunk is whole or it is not.                        *)
(***************************************************************************)
EXTENDS Integers, Sequences, FiniteSetsExt, SequencesExt

CONSTANTS
  MaxChunks,      \* MAX_CHUNKS: how many pieces a transfer may be cut into
  MinChunkSize,   \* MIN_CHUNK_SIZE: the smallest piece worth a round trip
  SizeUnit,       \* what a raised chunk size is rounded up to (1 MiB)
  InsertBatch,    \* INSERT_BATCH: chunk rows written by one statement
  Sizes,          \* the sizes a file may have
  Configured      \* the values the setting `chunkSize` may take

ASSUME PlanConstants ==
  /\ MaxChunks \in Nat \ {0} /\ MinChunkSize \in Nat \ {0}
  /\ SizeUnit \in Nat \ {0}  /\ InsertBatch \in Nat \ {0}
  /\ Sizes \subseteq Nat     /\ Configured \subseteq Nat

VARIABLES
  size,      \* the size the transfer's row and its sources agree on
  setting,   \* the chunk size the settings hold now
  rows,      \* the chunk rows of the database, as a set
  plan,      \* the plan the running process holds, or NoPlan
  unwritten, \* the chunks of a new plan that insertPlan has still to write
  cut        \* history: what came while the rows in the database were being written

plannerVars == <<size, setting, rows, plan, unwritten, cut>>

NoPlan == [resumed |-> FALSE, chunks |-> <<>>, bytesDone |-> -1]

-----------------------------------------------------------------------------
(* The planner: pure functions of the size, the setting and the rows.      *)

CeilDiv(a, b) == (a + b - 1) \div b

Larger(a, b) == IF a >= b THEN a ELSE b
Smaller(a, b) == IF a <= b THEN a ELSE b

\* The chunk size used for a file of `total` bytes: the configured one, raised
\* when it would cut the file into more than MaxChunks pieces.
ResolveChunkSize(total, configured) ==
  LET requested == Larger(MinChunkSize, configured)
  IN  IF total <= requested \/ CeilDiv(total, requested) <= MaxChunks
      THEN requested
      ELSE CeilDiv(CeilDiv(total, MaxChunks), SizeUnit) * SizeUnit

ChunkLength(c) == c.end - c.start + 1

\* Mutant: the inclusive end is taken for an exclusive one.
LayOut_ExclusiveEnd(total, chunkSize) ==
  [i \in 1..CeilDiv(total, chunkSize) |->
     [index |-> i - 1, start |-> (i - 1) * chunkSize,
      end |-> Smaller(i * chunkSize, total - 1), state |-> "pending"]]

\* The loop that lays the pieces out: the i-th turn starts at (i-1)*chunkSize
\* and the loop runs while that start is inside the file.
LayOut(total, chunkSize) ==
  [i \in 1..CeilDiv(total, chunkSize) |->
     [index |-> i - 1,
      start |-> (i - 1) * chunkSize,
      end   |-> Smaller(i * chunkSize, total) - 1,
      state |-> "pending"]]

BytesDone(chunks) ==
  FoldSeq(LAMBDA c, sum : IF c.state = "done" THEN sum + ChunkLength(c) ELSE sum, 0, chunks)

\* The stored chunks in the order of their indexes.
Place(r, existing) == Cardinality({s \in existing : s.index < r.index}) + 1
ByIndex(existing) == [i \in 1..Cardinality(existing) |-> CHOOSE r \in existing : Place(r, existing) = i]

\* Mutant: a piece a verification rejected is trusted again.
ResumePlan_TrustsCorrupt(existing) ==
  LET ordered == ByIndex(existing)
      chunks  == [i \in DOMAIN ordered |->
                    [ordered[i] EXCEPT !.state = IF @ \in {"done", "corrupt"} THEN "done" ELSE "pending"]]
  IN  [resumed |-> TRUE, chunks |-> chunks, bytesDone |-> BytesDone(chunks)]

\* Continue the stored plan: its geometry is kept, the pieces known to be whole
\* stay done and everything else is fetched again.
ResumePlan(existing) ==
  LET ordered == ByIndex(existing)
      chunks  == [i \in DOMAIN ordered |->
                    [ordered[i] EXCEPT !.state = IF @ = "done" THEN "done" ELSE "pending"]]
  IN  [resumed |-> TRUE, chunks |-> chunks, bytesDone |-> BytesDone(chunks)]

PlanChunks(total, configured, existing) ==
  IF existing # {}
  THEN ResumePlan(existing)
  ELSE [resumed   |-> FALSE,
        chunks    |-> LayOut(total, ResolveChunkSize(total, configured)),
        bytesDone |-> 0]

-----------------------------------------------------------------------------
(* The life of a plan across runs, crashes and changes of the setting.     *)

PlannerInit ==
  /\ size \in Sizes
  /\ setting \in Configured
  /\ rows = {} /\ plan = NoPlan /\ unwritten = <<>> /\ cut = {}

Idle == plan = NoPlan

\* _run reads the chunk rows, plans, and _persistPlan starts writing a new plan.
Plan ==
  /\ Idle
  /\ plan' = PlanChunks(size, setting, rows)
  /\ unwritten' = IF plan'.resumed THEN <<>> ELSE plan'.chunks
  /\ cut' = IF plan'.resumed THEN cut ELSE {}
  /\ UNCHANGED <<size, setting, rows>>

\* Mutant: insertPlan's loop ends before the last batch when it is not a full one.
WriteBatch_FullBatches ==
  /\ ~Idle /\ unwritten # <<>>
  /\ IF Len(unwritten) < InsertBatch
     THEN rows' = rows /\ unwritten' = <<>>
     ELSE /\ rows' = rows \cup ToSet(SubSeq(unwritten, 1, InsertBatch))
          /\ unwritten' = SubSeq(unwritten, InsertBatch + 1, Len(unwritten))
  /\ UNCHANGED <<size, setting, plan, cut>>

\* One INSERT of insertPlan; the batches are statements of their own.
WriteBatch ==
  /\ ~Idle /\ unwritten # <<>>
  /\ LET n == Smaller(InsertBatch, Len(unwritten))
     IN  /\ rows' = rows \cup ToSet(SubSeq(unwritten, 1, n))
         /\ unwritten' = SubSeq(unwritten, n + 1, Len(unwritten))
  /\ UNCHANGED <<size, setting, plan, cut>>

\* A chunk ends up done, failed or rejected by a verification; _saveChunk updates
\* its row, when there still is one.  Bytes are only fetched once the whole plan is
\* written.
SettleChunk(i, state) ==
  /\ ~Idle /\ unwritten = <<>>
  /\ plan.chunks[i].state # state
  /\ plan' = [plan EXCEPT !.chunks[i].state = state]
  /\ rows' = {IF r.index = plan.chunks[i].index THEN [r EXCEPT !.state = state] ELSE r : r \in rows}
  /\ UNCHANGED <<size, setting, unwritten, cut>>

\* The run ends, or the process dies: what was only in memory is gone.
Stop ==
  /\ ~Idle
  /\ plan' = NoPlan /\ unwritten' = <<>>
  /\ cut' = IF unwritten = <<>> THEN cut ELSE cut \cup {"stop"}
  /\ UNCHANGED <<size, setting, rows>>

\* Somebody changes the chunk size setting, at any moment.
Configure(c) ==
  /\ setting # c
  /\ setting' = c
  /\ UNCHANGED <<size, rows, plan, unwritten, cut>>

\* TransferManager.retry deletes the chunk rows.  It asks for the status of the
\* transfer's row, which a cancel writes while a run is still planning, and never
\* whether a run is live: it may come between two batches, and under a held plan.
Retry ==
  /\ rows # {}
  /\ rows' = {}
  /\ cut' = IF unwritten = <<>> THEN cut ELSE cut \cup {"retry"}
  /\ UNCHANGED <<size, setting, plan, unwritten>>

PlannerNext ==
  \/ Plan \/ WriteBatch \/ Stop \/ Retry
  \/ \E i \in DOMAIN plan.chunks, s \in {"done", "failed", "corrupt"} : SettleChunk(i, s)
  \/ \E c \in Configured : Configure(c)

PlannerSpec == PlannerInit /\ [][PlannerNext]_plannerVars

-----------------------------------------------------------------------------
(* Properties.                                                             *)

Covers(c, b) == c.start <= b /\ b <= c.end

\* Shape of the state: chunks and rows are records over the file's range.
PlannerTypeOK ==
  /\ size \in Sizes /\ setting \in Configured
  /\ \A r \in rows : r.index \in Nat /\ r.start \in 0..size /\ r.end \in 0..size
                     /\ r.state \in {"pending", "done", "failed", "corrupt"}
  /\ plan.resumed \in BOOLEAN /\ plan.bytesDone \in -1..size
  /\ Len(unwritten) <= Len(plan.chunks)
  /\ cut \subseteq {"stop", "retry"}

\* chunk-planner.ts: "the one place where an off-by-one costs a corrupt file".
\* Whatever was configured, however often the plan was taken up again and whatever
\* was deleted or left unwritten of its rows, its pieces are non-empty, inside the
\* file and one after the other: every byte between two bytes they cover is covered
\* by exactly one of them.  Nor are there more of them than MAX_CHUNKS, the raised
\* chunk size included.
PiecesTile ==
  LET pieces  == plan.chunks
      covered == {b \in 0..size : \E i \in DOMAIN pieces : Covers(pieces[i], b)}
  IN  /\ \A a \in covered, b \in covered :
           b < size /\ \A c \in a..b : Cardinality({i \in DOMAIN pieces : Covers(pieces[i], c)}) = 1
      /\ \A i \in DOMAIN pieces : pieces[i].start <= pieces[i].end
                                 /\ pieces[i].index = pieces[1].index + i - 1
      /\ Len(pieces) <= MaxChunks

\* The plan bytes are fetched under reaches from the first byte of the file to the
\* last, unless the writing of its rows was disturbed, and then at one end only: a
\* run stopped between two INSERTs of insertPlan leaves a plan that may lack the end,
\* a retry that deletes the rows written so far one that may lack the beginning.
\* Nothing else (a changed setting, a crash elsewhere, a piece that failed) tears one.
OnlyACutTears ==
  (plan # NoPlan /\ unwritten = <<>> /\ size > 0) =>
    /\ "retry" \in cut \/ \E i \in DOMAIN plan.chunks : Covers(plan.chunks[i], 0)
    /\ "stop" \in cut \/ \E i \in DOMAIN plan.chunks : Covers(plan.chunks[i], size - 1)

\* resumePlan: taking a plan up again never moves an offset, never drops a piece
\* that was done and never trusts one that was not, whatever the setting now is.
ResumeKeepsGeometry ==
  [][(plan = NoPlan /\ plan' # NoPlan /\ rows # {}) =>
       /\ {<<c.start, c.end>> : c \in ToSet(plan'.chunks)} = {<<r.start, r.end>> : r \in rows}
       /\ {c.start : c \in {x \in ToSet(plan'.chunks) : x.state = "done"}}
            = {r.start : r \in {x \in rows : x.state = "done"}}
       /\ plan'.bytesDone = MapThenSumSet(ChunkLength, {x \in rows : x.state = "done"})]_plannerVars

\* A run that fetches bytes fetches them under a plan that addresses the whole
\* file.  TransferEngineService: "A gateway that crashed mid-transfer has to be
\* able to come back and continue from the byte it reached".
RunningPlanIsWhole ==
  (plan # NoPlan /\ unwritten = <<>>) =>
    \A b \in 0..(size - 1) : \E i \in DOMAIN plan.chunks : Covers(plan.chunks[i], b)
=============================================================================
