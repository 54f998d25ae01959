# Formal model of media-center-sync

media-center-sync is a gateway that brings films and episodes from remote media
services and peers into a local library. This directory holds TLA+ models of the
parts that can lose or corrupt something, answer wrongly or wait for ever: the
transfer engine from the request to the file under its final name, the runs of a
synchronisation plan around it, the releases a download client fetches instead, the
landing of files in a media server, the grouped catalogue everything is decided from,
and the relay that carries a peer who cannot be reached. TLC checks the models on
small instances; TLAPS proves the central safety facts of the pool, the run, the move, the
synchronisation, the grabs, the catalogue and the relay for every instance.
`PROJECT.json` maps each definition to the lines it models and lists components,
runs, hazards and theorems.

## 1. The system

The gateway is one Node process (NestJS) with a database and a disk. Nothing runs
in parallel inside the process except worker threads: concurrency is the
interleaving of asynchronous calls at their `await`s.

| component | state it keeps | operations | correct when |
| --- | --- | --- | --- |
| transfer pool (`transfer-engine.service.ts`) | `_queue`, `_starting`, `_running`, `_draining`; transfer rows | enqueue, pause, resume, cancel, `_pump`, bootstrap, shutdown | the pool is bounded, a transfer has one run, the queue is never stuck, a stop holds |
| transfer run (same file) | plan, sources, connections, flags, working file, chunk rows | `_prepareSources`, `_worker`, `_fetchChunk`, `_finish`, `_place`, `_fail` | only a whole and right file is placed; rows never claim bytes that are not there; every run ends |
| chunk planner (`chunk-planner.ts`) | none; chunk rows through the repository | planChunks, resumePlan, resolveChunkSize, planMatchesSize | pieces tile the file, a resume keeps the geometry |
| verification (`verification.service.ts`) | none | verify, planRepair | every bad piece is found and fetched elsewhere |
| file move (`file-move.service.ts`) | partial beside the destination, the source, the link | move, `_copy`, `_commit`, `_link`, `_aborted` | the final name is never a prefix, bytes are never lost, a seed stays readable |
| transfer manager (`transfer.manager.ts`) | none of its own; reads a row, then acts | pause, resume, cancel, retry, repair, archive, redirect, pauseAll, resumeAll | what a person asked for holds |
| settings | one cached row | update | a paused queue starts nothing |
| sync plans and jobs (`sync.manager.ts`, `run-ceiling.ts`) | job rows, lines, counters | plan, run, `_recordTransferState`, cancel | what is missing is planned, once and to a free path; counters and states follow the lines; a run ends |
| placement (`placement.service.ts`) | none | resolve, `_freePath`, `_probe` | nothing is written over, a show stays together |
| release grabs (`release.manager.ts`) | grab rows, `_passing`, `_placing` | grab, poll, `_choose`, `_place`, retry, pause, archive | each grab ends filed or failed, nothing filed is replaced |
| landings (`landing.manager.ts`) | landing rows, the state screens show | recordFile, `_announce`, reconcile | a landed file is found, or reported as not found |
| catalogue (`media-group.manager.ts`, `catalogue-cache.service.ts`, `catalogue-projection.service.ts`) | graph, projections, builds under way | schedule, refresh, `_rootsBeneath`, `_project` | what is answered as current is; a scan is followed |
| worker pool (`worker-pool.service.ts`) | threads, waiting jobs | `_send`, `_settle`, `_fail` | every job settles |
| peer relay (`peer-relay.service.ts`) and gateway | registrations, carried and hosted sessions, backlog | reserve, attach, deliver, close, unregister | each session is a pipe of its own; neither end outlives the other |
| indexing, matching, handlers, naming, peers, accounts, scheduler, interface | – | – | see `components` |

How they interact. A controller calls a manager, which reads a row, decides and calls
the engine. The engine answers at once: for a registered run it only sets flags and
aborts a signal, for any other transfer it writes the row. `_pump` starts runs without
awaiting them. A run reads its row, asks its sources through the transports, stores
its plan, opens the working file, registers itself in `_running`, downloads with
several connections that share the plan, verifies, repairs, and hands the file to the
move service with its signal. Each change of state is announced; a sync run hears it
and recounts its lines, and a done transfer leaves a landing. A grab is the same story
with a download client in place of the run: a poll reads every row, asks the client,
chooses files, and files what has arrived. An indexing pass reads what the media server
lists, closes landings, correlates in a worker thread and asks for a refresh of the
catalogue, from which the next plan is made. What survives the process is the database
and the disk.

What is hard: rows read before an `await` and saved after it; windows between a check
and the registration it guards; flags that are looked at only in some phases; a signal
that keeps its first reason; a table read page by page while it is written; answers
that come after whoever waited has given up; a crash between any two writes. The list,
with lines, is `hazards` in `PROJECT.json`.

## 2. Modules

| module | models | proved |
| --- | --- | --- |
| `ChunkPlan` | the planner and the plan's rows over runs, crashes, settings | in `TransferQueue_proofs` |
| `TransferQueue` | the pool, `_run` await by await, the manager's requests, process starts and stops | `TransferQueue_proofs` |
| `TransferRun` | one transfer: connections, sources, pieces, verification, repair, stops | `TransferRun_proofs` |
| `FileMove` (`MCFileMove` gives sizes) | rename, resumable copy, commit, link, aborts | `FileMove_proofs` |
| `AtomicPlacement` | the abstract promise of a placement, refined by `FileMove` | that it is, in `FileMove_proofs` |
| `SyncPlanning` (`MCSyncPlanning` gives catalogues) | `plan`: selection, placement, pins, ceilings | `SyncPlanning_proofs` |
| `SyncJob` (`MCSyncJob`) | `run`, what follows announcements, `cancel` | `SyncJob_proofs` |
| `MediaLanding` | landings, their announcement and reconciliation, the state shown | – |
| `ReleaseGrab` (`MCReleaseGrab` gives releases) | grabs, the poll, the choice of files, filing; composed with `MediaLanding`, which it extends | `ReleaseGrab_proofs` |
| `Catalogue` (`MCCatalogue`) | worker pool, cache of refreshes, graph and projections, with scans and readers | `Catalogue_proofs` |
| `PeerRelay` (`MCPeerRelay` places the diallers) | two linked gateways that carry and host sessions | `PeerRelay_proofs` |
| `RelayedLink` | the abstract promise of a carried session, refined by `PeerRelay` | that it is, in `PeerRelay_proofs` |

The modules share facts by assumption. `TransferRun` takes the plan to be whole and
one run to be in hand; `TransferQueue` establishes the second for every instance,
and the scenario `chunk_plan_torn` shows when the first fails. `TransferQueue` sees a
move as one step that may be stopped; `FileMove` opens it. `SyncJob` sees a transfer as
what it announces; `TransferQueue` opens that. `SyncJob` runs what `SyncPlanning` plans.

### Correspondence

**TransferQueue.** `row` is the transfer table (state, target path, failure kind),
`work` the working files, `placed` where files have been moved. `queue`, `starting`,
`running` and `run` are the engine's memory; `run[<<t, l>>].pc` is the `await` a call
of `_run` is at, and `seen` the entity it loaded. Rival runs of a transfer have
lanes, so that a second one can exist and be excluded. `caller` is a manager call
between its read and its writes. One action is the code between two `await`s that
leave the process. Reading the settings is not such an `await`: they are cached.
`save(entity)` writes the entity the caller holds, all of it, and inserts it when the
row is gone, as TypeORM's `save` does. `RunProgress` is the unawaited save of
`_account`. `Free` is the loop condition of `_pump`, where a registered run counts
twice.

**TransferRun.** A piece of the working file is good, bad or a hole; files are sparse,
so length says only whether the last piece is there. `row` holds the chunk rows and
`plan` the pieces in memory, and `_saveChunk` may fail and be forgotten. Sources may
ignore ranges (not in `Ranged`), lie (not in `Honest`) or fail (in `faulty`, one of
`FaultPatterns` for the whole behaviour). Any source with room can be picked: the
measured rates only order them. `stray` stands for the connections that `Promise.all`
leaves behind when one of them throws; each can only record failures, because its
handle is closed. A chunk-row save lands in issue order or is lost. `dropping` is a
cancellation that found no registered run: it writes the row, then removes the working
file, and a run that was starting registers over both. The manager's `resume`, `retry` and
`repair` look at the row alone and may come under a live run, which the engine then does
not start twice. `mishap` is history: the four events after which rows and bytes may
differ, and a source whose failures were forgotten; no code holds it.

**ChunkPlan.** Sizes are small numbers and the constants of the planner are
parameters; the arithmetic is the code's. A retry may come at any moment: the manager
looks at the status of the row, which a cancel closes while a run is still planning, and
deletes the chunk rows under that run. `cut` remembers whether a stop or a retry came
while rows were being written; no code holds it. `planMatchesSize` is not modelled:
nothing calls it.

**FileMove.** A byte is its file and position, so a mixture of two files shows. Which
answer a rename, a free-space probe or a write gives is a choice, and so is whether a
file is a seeded one (`seeded`). The two failures the code swallows and that change what
follows are remembered in `swallowed`: a partial whose length could not be read is taken
for an empty one while the copy appends to it, and a partial may outlive its removal. The
wait for `drain` is inside the step of a buffer. The engine's reaction to a cancelled move is part of
the action sequence (`Drop`, `RemoveWork`).

**SyncPlanning.** An input is a catalogue (rows with work, fingerprint, cut and state),
the matches among them, the services asked (`rank`) and the rows the request covers
(`scope`), a filter, ceilings, destinations and disks. A lot is a show as one service
lists it. `Select`,
`PlaceNext` and `Cut` are the three parts of `plan`; items are placed one by one, each
seeing the paths claimed and the roots pinned by those before it. A path is a root, the
name rendered for a work and the number of the attempt.

**SyncJob.** A run is named by the call that makes it. `line`, `count` and `job` are its
rows; `reports` are announcements between the change of a transfer and the save of the
job, with what the handler has read so far. With the embedded database every query of a
handler answers in one turn of the event loop; `Pooled` opens these queries to each
other, as with a database server.

**ReleaseGrab and MediaLanding.** `row` is the grab table, `torrent` what the client
holds, `pass` the rows and the answer a poll works from. A step ends where the code
waits for the client or for a copy. `landing` holds one landing per item, `indexed`
what our index has of the media server, `shown` what every screen shows; `scan` is an
indexing pass, from its reads to its reconciliation and correlation. `lib` says whose
file is under which path; the files of transfers arrive by a rename over whatever is
there, and `arrived` holds them until their landing is told. A release may be grabbed
again, the client may hold its torrent already, and its list of torrents may be no list;
`again` and `misheard` remember where that can make a row read cancelled.

**Catalogue.** A page of the match table is the number of its last write, so a graph or
projection says exactly which writes it has seen; what a projection reads beside it, items
and services, is one page more, the shelf. `token` is what the repository's `version`
answers: a write of matches moves it to a new value or to one the table has had, which
`repeated` remembers, and a write of items does not move it. `build` and `building` are calls of `_project` and who answers for a
version; `thread`, `posted` and `waiting` are the worker pool, whose threads may die
before or after they report it and whose jobs may time out.

**PeerRelay.** `carried` and `hosted` are the maps of a registration, by session number;
`call` is the carried session with the progress of `_carry` and `reserve`; `client` and
`host` are its two ends. The wire delivers whole frames in order until one end finds the
link lost, which the other may find later. Sent and received messages of each direction
are mapped to `RelayedLink`'s pipes.

A crash is a crash of the process: writes already made stay, and the file system is
not rolled back.

## 3. Runs

| run | question | bounds |
| --- | --- | --- |
| `chunk_plan` | do the pieces of a plan tile, stay bounded, keep their geometry; what can tear a plan, and at which end | sizes on both sides of every boundary of at most 4 pieces; batches of 2, so that plans tear |
| `queue_restart` | pool bound, queue and slots consistent, done rows name their file, a paused queue starts nothing | 2 transfers, 1 slot (a full pool with one waiting), 2 requests of any kind at any await, 1 stop of the process |
| `queue_liveness` | no rival runs, runs end, the queue moves | 2 transfers, 2 slots (a rival needs a free one), 1 request of any kind |
| `run_pieces` | which four events alone part done rows from bytes and let a torn file be placed; one claim per piece, limits | 2 pieces, 2 connections, 2 failing sources, 2 requests of any kind, no checksums |
| `run_checked` | with piece checksums nothing wrong is ever placed | a dishonest source without ranges, every request, 2 of them |
| `run_liveness` | while an honest source answers, a run fails only when stopped, robbed of its file, or let down by a source that was forgiven; every run ends | one or both of 2 sources failing and dropped at the second failure, before the 3 attempts of a piece, as 3 strikes come before 5 attempts in the code; 2 connections to one source, one pass, one request |
| `move` | what is under the final name is torn only if the length of a partial could not be read; refinement of `AtomicPlacement` (bytes are never lost), a seed is always readable, a pause keeps bytes and a cancellation drops them, every call comes back | 3 buffers, a working file or a seeded one, crashes, failing and swallowed filesystem calls, and enough requests to stop and resume a copy several times |
| `relay` | refinement of `RelayedLink`, capacity and backlog, both ends released | 2 diallers, at one end or at both (numbers could collide), 1 session and 1 message of room (both limits are met), messages both ways |
| `catalogue` | what is kept under the current version has its matches, joined requests are complete, requests end, scans are followed | a table of 2 pages (a reading can be torn) and the shelf, 1 write of each, 2 readers who ask for different groups (one can join the other), 1 fault |
| `sync` | counters follow lines and the finish is told once, ends are earned, runs end | 2 calls, 2 items, 7 kinds of requests, 2 of them, so that a retry follows a failure and a stop follows a pause |
| `plan` | what is missing is planned, to free paths, lots together | every combination of versions, cuts, matches, filters, full disks and ceilings for a film held here, once or by two media servers, and on two services, and an episode of its show; all services asked, two, or part of the rows; plans of at most 2 items |
| `grabs` | cancelled means lost, grabbed again or not heard of, filing is final, only wanted files are fetched, grabs and landings settle | a pack of two episodes with one wanted and a release of that one alone (one name for two grabs), 2 libraries, 2 pollers, 1 of 13 kinds of requests and faults |

`CHECK_DEADLOCK FALSE` is set where requests are bounded: a gateway with nothing to do
and nobody asking is idle, not stuck. That nothing gets stuck is what the liveness
properties are for. The bounds reach the interesting cases: a waiting transfer behind a
full pool, a request during each await of a run, a second request after the effect of
the first, a restart after a request. Each property is shown to have teeth by a mutant
of the code (`mutants` in `PROJECT.json`; the operators named `X_Variant`). `TypeOK` is
a listed property of `TransferQueue`; that of every other module holds in its runs too,
and is checked by naming it under `INVARIANT`. In the eight modules with proofs it is a
theorem.

### Fairness

Weak fairness of the steps of a run, of a manager call, of the start of the process
and of a move; in the other modules, of what goes on once it has begun: in `SyncJob`
announcements are handled and transfers end, in `Catalogue` queries answer, timers fire
and a thread that failed exits, in `PeerRelay` frames on the wire are delivered, timers
fire and admissions end, in `ReleaseGrab` the poll goes on, the client and the media
server answer or fail, and scans come again. It stands for: database and file-system
calls answer or fail, requests to others answer, fail or are cut by their timeouts, and
the event loop runs every callback that is ready. Nothing is assumed of people,
sources' honesty, crashes, losses or shutdowns; requests, faults and `RunProgress` have
no fairness. Where fairness is of a component as a whole (`TransferRun`, `SyncJob`,
`Catalogue`, `PeerRelay`) it is enough because each of its steps makes progress.

## 4. Scenarios

What a comment or a test promises and the code does not keep is stated as a property
too, below the others in its module, and has a configuration that violates it:
`tlc -config queue_redirect.cfg TransferQueue`, with the module of its prefix
(`ChunkPlan`, `TransferQueue`, `TransferRun`, and the `MC` modules of the others; `grabs`
with `MCReleaseGrab`). Rows that name no configuration of their own say what to change in
another one.

| scenario | property | what happens | where |
| --- | --- | --- | --- |
| `chunk_plan_torn` | `RunningPlanIsWhole` | a crash between two inserts of a plan leaves a prefix that is resumed as the whole plan; with `OnlyACutTears` without its `"retry"`, a retry between two leaves a suffix | `transfer-chunk.repository.ts:88` |
| `queue_underfilled` | `AsManyAsAllowed` | a registered run counts twice, so a pool of two carries one | engine 551 |
| `queue_cancel_lost` | `CancelIsFinal` | a cancellation before the run registers is undone by the run's saves | engine 1225 |
| `queue_redirect` | `RedirectHolds` | a destination changed during the download is not used, and is overwritten | engine 984 |
| as `queue_redirect`, `Requests = {"remove"}` | `CancelReasonKept` | a service removal that reaches the move reads as a person's cancellation | engine 937 |
| as `queue_redirect`, `Requests = {"archive"}` | `ArchiveDropsPartial` | archiving a running transfer leaves its working file for ever | transfer manager 909 |
| `queue_resume_all` | `ResumeAllReachesAll` | resumeAll misses a run that has not finished pausing | transfer manager 580 |
| as `queue_resume_all`, `Requests = {"pauseAll"}` | `FinishedIsFinal` | pauseAll writes paused over a transfer that finished meanwhile | transfer manager 551 |
| `queue_shutdown` | `RestartResumes` | a graceful shutdown leaves transfers paused that a crash would resume | engine 508 |
| as `queue_resume_all`, `Requests = {"pause", "resume"}` | `QueuedIsInHand` | a resume between the write of a state and the end of its run leaves a queued row nothing will start | engine 395 |
| as `queue_resume_all`, `Requests = {"pause", "cancel"}` | `CancelBeatsPause` | a cancel after a pause is taken for a pause by the move | engine 419 |
| `run_drain` | `PlacedIsWhole` | a run that registers during a shutdown may place a file with a hole | engine 725 |
| `run_whole_pause` | `PlacedIsWhole` | a whole-file answer cut by a pause is recorded as held | engine 811 |
| `run_repair_cancelled` | `PlacedIsWhole` | repairing a cancelled transfer trusts the rows of a removed file | transfer manager 1019 |
| as `run_repair_cancelled`, `Requests = {"crash", "cancel"}` | `PlacedIsWhole` | a cancel before the run registers removes the file under it, and the run fetches only the rest | engine 435 |
| as `run_liveness`, `Strikes = 3`, `MaxAttempts = 5`, `MaxRequests = 0`, `SPECIFICATION Spec` | `OthersFinish` | a source that delivers a piece between failures is never dropped, and uses up the attempts of another piece while an honest source is left | engine 827, 836 |
| as `run_repair_cancelled`, `Checksums = TRUE`, `Requests = {"damage", "repair"}` | `OnlyBadPiecesComeBack` | repairing a placed file fetches all of it again | engine 1167 |
| `run_pause_fails` | `PauseIsHarmless` | pausing often enough fails a transfer | engine 831 |
| `run_orphans` | `DoneRowsStay` | orphaned connections overwrite rows of the next run | engine 718 |
| `move_stale_partial` | `OnlyAMisreadTears` | a shorter partial of another file is completed with the wrong bytes | file move 363 |
| `move.cfg` | `DestIsWhole` | a partial whose length could not be read is appended to from the start, and committed when it was stopped at the file's length | file move 358, 432 |
| as `move_stale_partial`, `Files = {"film"}` | `CancelFreesSpace` | cancelling a stopped move leaves its partial in the library | engine 435 |
| `relay_unanswered` | `EveryDiallerIsAnswered` | a dialler whose reservation ends with the link gets no answer | `peer-relay.service.ts:671` |
| `catalogue_same_second` | `GraphIsExact` | two writes in one tick of the database's clock leave the version as it was | `media-match.repository.ts:84` |
| as `catalogue_same_second` | `KeptFollowsItems` | a projection also reads items and services, which do not move the version it is kept under | catalogue projection 117, media group 760 |
| as `catalogue_same_second` | `DrawnIsNotBehind` | a request that waits for a refresh may be drawn from a graph older than the version it read | media group 1389 |
| `sync_two_runs` | `OneRunAtATime` | two calls pass the check before either has its row | sync 726 |
| `sync_stop_late` | `StopStopsTransfers` | transfers made after a stop has listed them go on | sync 1335 |
| as `sync_stop_late`, `SPECIFICATION Spec` | `StoppedCountsFollowLines` | the counters of a stopped run are those of before | sync 1349 |
| `sync_crash` | `EveryRunEnds` | a crash between the row of a run and its last transfer leaves lines open for ever | sync 762 |
| as `sync_crash`, `Requests = {"archive"}` | `EveryRunEnds` | so does archiving a transfer of it | transfer manager 910 |
| as `sync_crash`, `Pooled = TRUE`, `Requests = {}`, `MaxRequests <- MCNoRequests` | `EveryRunEnds` | with a database server the last two announcements may each see the other's line open | sync 1037 |
| as `sync_crash`, `Pooled = TRUE`, `Requests = {"stop"}` | `StoppedIsStopped` | and a stop may be overwritten by the row a handler has read | sync 1050 |
| `plan_two_on_one` | `PathsAreClaimed` | two versions that replace one copy are both given its path | placement 385 |
| as `plan_two_on_one` | `LandedIsNotFetched` | what landed from one service is fetched again from another that is asked first | sync 1697 |
| as `plan_two_on_one` | `NothingHeldIsFetched` | a copy of ours outside the services or rows a run names does not count unless it was correlated | sync 1902, 1676 |
| as `plan_two_on_one` | `ShowsStayTogether` | a show fetched from two services is two lots, and may go under two roots | sync 2066 |
| as `plan_two_on_one` | `HeldIsKept` | a copy kept beside the new one is written over when the names agree | placement 385 |
| `grabs_destination` | `DestinationHolds` | a destination changed during a pass is undone by the pass's save | release 957 |
| as `grabs_destination`, `Requests = {"archive"}` | `ArchivedStaysAway` | a grab archived during a pass is inserted again | release 1238 |
| as `grabs_destination`, `Requests = {"suspend"}` | `FiledIsOnTheRow` | a pause that waits for the client saves a row without what was filed meanwhile | release 1077 |
| `grabs_halfway` | `OwnFilesAreNoObstacle` | a grab that filed one file and failed is stopped by that file on retry | release 995, 1566 |
| as `grabs_destination`, `Requests = {"suspend"}` | `PartIsEnough` | resuming before the files are chosen fetches the whole release; so does grabbing it again in that time (`{"remove"}`) | release 838 |
| as `grabs_destination`, `Requests = {"arrival"}` | `NothingIsReplaced` | a file that comes after the path was found free is replaced | placement 348, file move 301 |
| as `grabs_destination`, `Requests = {"forget"}` | `NothingIsReplaced` | the file of a grab whose media is gone replaces a file of its name | release 1601 |
| as `grabs_destination`, `Requests = {"garbled"}` | `CancelledIsGone` | an answer of the client that is no list cancels what it is fetching | `qbittorrent.client.ts:826` |
| as `grabs_destination` | `LandingsAreEarned` | a landing is closed by a reconciliation that read an earlier one of the same item | landing 102 |

The passing runs are arranged around these: without checksums `run_drain`,
`run_repair_cancelled` (twice) and `run_whole_pause` break `PlacedIsWhole`, so
`run_pieces` states it until `mishap` has recorded one of those four events; its sources
serve ranges, so the fourth is left to its scenario and to the proof. `move` includes the cancellation of a
stopped move, and claims an empty library only of a move cancelled while it runs whose
partial could be removed.
`RunsEnd` of `SyncJob` excepts the runs whose call died and those with a transfer
archived under them; `sync` has the embedded database. `FilingIsFinal` speaks of files
that grabs have filed, and of filings that look at their path; `OnlyLostIsCancelled` leaves
out rows whose release was grabbed again behind them and those a garbled answer was about.

## 5. Proofs

Every theorem is about the same specification that TLC runs, with its constants left
open. Each module of proofs EXTENDS its component and states one inductive invariant for
a family of theorems. A hypothesis of a theorem is either shown to be needed by a scenario
of section 4, which is named with it, or said to be what the code relies on.

### TransferQueue_proofs

`TransferQueue_proofs` proves, for any set of transfers, pool size, callers, requests
and bounds (assumption `QueueConstants`: transfers are numbers and finitely many, the
pool has at least one slot, there is at least one lane):

* `TypeCorrect`: `Spec => []TypeOK`
* `PoolIsBounded`: `Spec => []PoolBound`
* `OneRunEach`: `Spec => []NoRivals`
* `HandsAreExclusive`: `Spec => []InHandOnce`

None of the last three is inductive. Whether a pump may start a transfer depends on
`_starting`, and that `_starting` is exactly the set of live runs depends on each run
ending once, on a queue without duplicates and on no queued transfer being in
`_starting`. The inductive invariant `Inv` is `TypeOK` together with `Pool` (idle runs
are empty, a registered lane is alive, lanes do not compete, the queue is duplicate
free and disjoint from `_starting`, `_starting` is the set of live runs and no larger
than the pool), an empty memory while the process is down (a start-up builds its queue
on top of what is there), and that a redirection holds a row it has read (it saves that
row). The argument has three layers: lemmas about the operators (`WithoutShrinks`,
`TakeKeepsPool`, `PumpKeepsPool`, `EndKeepsPool`, `EnqueueKeepsPool`), which speak of
values of the four memory variables so that they serve every caller of `_pump`; one
lemma per family of actions (`RunKeepsInv`, `CallStepKeepsInv`, `AskKeepsInv`,
`BootKeepsInv`, `ShutdownKeepsInv`, `DieKeepsInv`); and `NextInv`, from which the
theorems follow.

* `DoneStaysPlaced`: `Spec => []DoneIsPlaced`
* `PausedStartsNothing`: `Spec => PausedQueueStartsNothing`

A run settles with the entity it loaded, so that a done row names the place of its file
only if every entity in a run's hands can still be finished and the one of a run that has
moved its file names where it moved it (`SeenIsOpen`, `SettlesWherePlaced`; with `Inv` and
`DoneIsPlaced` they are `PlacedInv`). `RunGoesOn` and `RowGoesOn` say once what any action
may do to a run and to a row, and `NextGoes` that every action does no more.

The same module extends `ChunkPlan` (whose names begin with `Planner` where they would
clash) and proves, of the plan a run is given, for any sizes, settings, limits and batches
that `PlanConstants` allows:

* `PlansTile`: `PlannerSpec => []PiecesTile`
* `TornByACut`: `PlannerSpec => []OnlyACutTears`
* `GeometryKept`: `PlannerSpec => ResumeKeepsGeometry`
* `PlannerTypeCorrect`: `PlannerSpec => []PlannerTypeOK`

The invariant (`PlanInv`) is that one chunk size explains the rows and the plan, whatever
the setting has become: the rows are its pieces from one place to another, once each, and
what a process holds is such a stretch, or all pieces with those after the stored ones
still to be written. That is why a plan may be taken up after a stop between two batches,
or after a retry that deleted the first of them: it is a stretch of one cut, and never a
mixture of two. `Torn` and `Ends` say at which end it may be short, by what `cut`
remembers. `CeilIs` and `ResolvedSize` are the arithmetic of
`resolveChunkSize`, `ByIndexIs` says that ordering the stored rows by index gives the stored
pieces in the order of the file, and `Tiles` that the pieces of one cut tile.

The last two theorems count bytes. `BytesDone` folds over a sequence and
`ResumeKeepsGeometry` sums over a set, each in the order `CHOOSE` picks: `FoldExists` says
that such a fold is a function (by the least size of a set for which it would not be),
`AnyOrder` that a sum may be taken from any member on, and `SameSum` that a renaming which
keeps the weights keeps the sum. The pieces and the rows that are done are renamings of
each other (`ResumedRows`), and `BytesInFile` bounds the sum by the file: the pieces before
the n-th sum to at most what lies before it.

### FileMove_proofs

For a file of any length (`MoveConstants`: lengths are positive)
and any number of requests, refusals and crashes:

* `TypeCorrect`: `Spec => []TypeOK`, for any set of files
* `SeedStaysReadable`: `Spec => []SeedReadable`
* `WholeOrAbsent`: `Spec => []OnlyAMisreadTears`
* `StopsHonoured`: `Spec => StopsAreHonoured`
* `MoveIsAtomic`: `Spec => PlacementIsAtomic`, the refinement of `AtomicPlacement`

All but the first assume `Files = {f}`, a destination of the file's own: a shorter partial
of another file is completed with the wrong bytes (`move_stale_partial`). `MoveInv` says
that the partial is the beginning of the file as long as its length could always be read,
how long it is at each step, that what is under the final name has the file's length and
from the rename on something is there, and which calls can be live with which source:
without the first the commit could rename anything of the right length, without the second
a link could be made to nothing. The refinement maps the misread to `AtomicPlacement`'s
`Doubt`, after which alone a torn file may appear.

### TransferRun_proofs

For any pieces, connections, sources, limits, fault patterns and requests:

* `TypeCorrect`: `Spec => []TypeOK`
* `ClaimsExact`: `Spec => []ClaimsAreExact`
* `CheckedIsWhole`: `Checksums = TRUE` implies `Spec => PlacedIsWhole`, whatever the
  sources serve
* `DoneOnDisk`: with honest sources, `Spec => []DoneIsOnDisk`
* `OnlyMishapsTear`: with honest sources, `Spec => OnlyAMishapTears`

Exclusive claims follow from the plan: what a connection fetches is not pending, and a
repair has one connection (`ClaimsHeld`, `WorkersFollowPhase`); a source's counter is the
number of connections it serves in every phase (`ConnsAreCounted`, by the cardinality
lemmas). `CheckedInv` adds that a file about to be placed is good, which the verification
establishes and nothing between it and the move undoes. Without checksums that has to
come from the books: `DiskInv` says that a piece done in the plan or in a row has its
bytes, and `TrustedInv` that a download which has ended without a stop has every piece
done. Both hold until `mishap` has recorded one of the four events (`MishapsStay`: it is
not forgotten), whatever sources do about ranges and whatever is asked. That sources are
honest is a hypothesis because without checksums nothing could tell.

### SyncJob_proofs

For any calls, items and requests:

* `TypeCorrect`: `Spec => []TypeOK`, with either database
* `RunsTellTheTruth`: `Pooled = FALSE` implies `Spec => []TellsWhatHappened`
* `EndsEarned`: `Pooled = FALSE` implies `Spec => EndsAreEarned`

`Pooled = FALSE` is the embedded database; with a server two handlers overwrite each
other (`sync_crash` with `Pooled = TRUE`). `SerialInv` says what that hypothesis gives: at
most one report is being handled (`OneTurn`), what it has read is what the rows say
(`ReadIsCurrent`), and outside of it the counters are those of the lines
(`CountsAreExact`). `TypeInv` carries that a call that has written nothing has nothing and
that reports are of runs that exist.

### SyncPlanning_proofs

For any catalogue, matches, filter, ceilings, roots and disks (`Inputs` is any set of
inputs of the right shape):

* `LotsTogether`: `Spec => []LotsStayTogether`
* `TargetsFree`: `Spec => []TargetsAreFree`
* `FetchedOnce`: `Spec => []TypeOK`
* `PlansTheMissing`: `Spec => []PlansWhatIsMissing`

`PlanInv` follows the placement: what is placed went to the root its lot is pinned to, and
two items of one path both replace what is there. That two items may do so is
`plan_two_on_one`. `SelectInv` follows the selection: the wanted list is each wanted media
and version once, the items are its beginning, and a cut takes a beginning of them.
Nothing is assumed of fingerprints or paths: copies with one fingerprint may be filed under
two works, and two services may list one file. What stands for a row (`StandsFor`) is a
copy in the scope that is not another cut, or a correlated one, in conflict at most over the
label of the same bytes.

### Catalogue_proofs

For any table, scans, readers, wanted groups, writes and faults:

* `TypeCorrect`: `Spec => []TypeOK`
* `KeptStaysExact`: `Spec => []KeptIsExact`
* `AnsweredInFull`: `Spec => []AnswersAreComplete`

The version is read before the pages, so a reading says of each page it has seen what that
page says now, provided its version is still the table's (`ReadingsAreExact`, of the
gateway's pass, the worker's and each projection); what was kept under a version that is
no longer current is not claimed of. That no one holds a version the table has not had yet
is part of the invariant, since it could become current (`ReadersAreBehind`). The
property is about the matches, and about versions the table has had once: a second write in
one tick leaves the version as it was, and a deletion may bring back an earlier one
(`catalogue_same_second`). What a projection read of items and services is not claimed to
be current: nothing ties it to the version (`KeptFollowsItems`, section 4).
For completeness `WholeInv` says that a request which builds has all it asked about among
the groups it has filled and those it is to fill.

### ReleaseGrab_proofs

For any releases, items, libraries, callers of the poll and requests (`GrabConstants`: a
release holds and is taken for something, and "others" is nobody's grab):

* `TypeCorrect`: `Spec => []TypeOK`, that of `MediaLanding` included
* `CancelledMeansLost`: `Spec => []OnlyLostIsCancelled`
* `OnlyWantedFetched`: `Spec => OnlyWantedIsFetched`
* `FilingStays`: `Spec => FilingIsFinal`

A pass works from rows and from an answer of minutes ago, and saves what it holds. The
inductive invariant `GrabInv` says of each pass what of that may be relied on still:
`PassShape` (it holds rows that were live, and a grab in hand is not looked at yet),
`PassHeard` (what the client had lost stays lost, unless it was grabbed again or the pass
was answered with something that is no list; a torrent about to be started has only wanted
files chosen) and `PassFiles` (of the grabs a pass may still write of only the one just
being filed is placed; the path it is about to use is free, if it was asked about, but for
what transfers put there). That there is one pass at a time (`OnePass`) is what makes these
hold. The lemmas split by who acts: beside the passes (`BesidePasses`), a pass that turns
to the next grab (`TurnsKeep`), a pass that goes on (`PassMoves`).

### PeerRelay_proofs

For any diallers and placements, limits (`MaxSessions`, `MaxBuffered` of at least one) and
numbers of messages:

* `TypeCorrect`: `Spec => []TypeOK`
* `CarriesWithinLimits`: `Spec => []CarryingIsBounded`
* `CarriesEachPipe`: `Spec => CarriesPipes`, that the relay implements `RelayedLink`

The carrier's handlers are functions of its state, so the invariant `Carries` is one of
that state: a slot is held by a session of its own node, under its own number, that has
begun and is not over (`Slot`). Each handler keeps it (`CloseCarriedKeeps`, `ForwardKeeps`,
`ToClientKeeps`, `AttachesKeeps`), and the steps follow. That what was never opened holds
nothing (`Unused`) is what makes a refusal and a new number safe.

The refinement needs a second invariant, `PipesInv`, on top of the first:

* `Numbers`: no two sessions of the link have one number, whichever end gave it, because
  one end counts in even numbers and the other in odd ones (`FirstSession`);
* `WireOK`, `HostedOK`, `HostOK`, `CallOK`: a frame belongs to a session that has begun,
  bears its number and goes the way its session has it go; an OPEN is on the wire once
  and before its holder knows of it; what an end has in its maps, the other end agrees
  with;
* `Upwards`: what the dialler sent and its holder does not have is on the wire and then
  in the queue, in order. While the holder listens there is no gap (`NoGap`), and while
  the session lasts nothing is missing at the end (`NoLoss`): a session closed at the
  carrier may still have frames on the wire, and they are a beginning of what follows;
* `Downwards`: while a session lasts, its queue, its inbox and the wire hold, in this
  order, exactly what the holder sent and the dialler does not have.

The lemmas on pipes (`UpSends`, `UpDrains`, `UpReceives`, `DownKept`, `DownAttached`,
`DownDrains` and the like) say what becomes of the numbers of the messages when one moves
from a place to the next; they know nothing of sessions. The step lemmas (`...Pipes`) show
that each handler moves messages of one session only (`QuietBut`) and use one of these.
Then a message that reaches an end is the next one (`NextUp`, `NextDown`), so a step is a
`Receive`; the requests of the ends are a `Send`; every other step ends something or is
not seen (`...Refines`). Two facts carry most of it: that a session is `attached` with
its inbox empty, so that what comes later cannot overtake it, and that a frame of a
session that neither map knows any more is of one that no end listens to (`StrayPipes`).

### Only model-checked

The liveness properties: fairness and `ENABLED` are out of the prover's reach. Every safety
invariant and every action property of the runs is stated by a theorem. Of `MediaLanding`
the types are proved, with `ReleaseGrab`; its other property is liveness.

## 6. Not modelled

Most of the repository is not control: the web interface, translation of media servers'
answers, queries, entities and their documentation, texts in several languages,
validation of one request, and tests. The map therefore covers a small share of its
lines, and nearly all of the code that interleaves. Left out of what is near the models:

* rates, rate limiting, events and live figures (read-outs);
* the rendering of names, the scores of matching and correlation, the ranking of
  releases: text and numeric heuristics, each a function of its arguments with tests of
  its own;
* `revalidation.service.ts`: a pure decision table over an answer;
* credentials, invitations and introductions of peers: what a credential proves is
  cryptography, and the rest are requests to other gateways around single-row writes;
* media handlers, transports and download clients: their possible answers are choices of
  the models;
* the scheduler: the calls it makes may come at any time in the models;
* accounts, rights, notifications, maintenance, household requests, the interface;
* a power failure (the order in which the disk keeps writes);
* two rows that follow one torrent at a time, overlapping copies to one destination by the move
  service itself, changes of destination and renames after a file has landed;
* the cap on planned items of one run, companions and metadata of a file.

The reason of each is in `components`.

## 7. Plan

1. Moving a landed file, and overlapping moves to one destination, in `FileMove` and
   `TransferQueue`.
2. The read pool of the worker pool, and the keep-alive and redialling of a peer link.
