---------------------------- MODULE ReleaseGrab -----------------------------
(***************************************************************************)
(* managers/release.manager.ts: releases handed to a download client, the  *)
(* poll that follows them, and the filing of what has arrived, announced   *)
(* to MediaLanding.                                                        *)
(*                                                                         *)
(* A torrent is what the client says of it: a file is the item its name    *)
(* speaks of.  A step ends where the code waits for the client or for a    *)
(* copy; a request that only reads and saves its row is one step.  Texts,  *)
(* rates, byte counts and the search that leads to a grab are left out,    *)
(* and so are the copy itself (FileMove) and the choice of a library: a    *)
(* row's destination is the library, and the rule picks the default one.   *)
(* Any failure of a step of the filing is one outcome.  Of the rows of one *)
(* release, one is followed at a time.                                     *)
(***************************************************************************)
EXTENDS MediaLanding

CONSTANTS
  Grabs,        \* releases somebody may grab
  Pack,         \* the items each one holds a file of
  Wanted,       \* the items it is taken for
  Partial,      \* grabs that name part of their release
  Home,         \* the library the placement rule picks
  Pollers       \* callers of poll: the timer and a route

ASSUME GrabConstants ==
  /\ Pack \in [Grabs -> (SUBSET Items) \ {{}}] /\ Wanted \in [Grabs -> (SUBSET Items) \ {{}}]
  /\ Partial \subseteq Grabs /\ Home \in Roots /\ Grabs \subseteq Owners /\ "others" \in Owners \ Grabs

VARIABLES
  row,       \* the row of each grab, or NoRow
  torrent,   \* what the client holds of it
  known,     \* grabs whose media the catalogue still has
  passing,   \* _passing
  placing,   \* _placing
  pass,      \* the passes: the rows and the answer each works from
  suspend,   \* a pause or resume waiting for the client, or Nobody
  again,     \* rows behind which the client was given their release once more
  misheard   \* rows a pass has asked about, when the answer was no list

history  == <<again, misheard>>
grabVars == <<row, torrent, known, passing, placing, pass, suspend, history>>
vars == <<landingVars, grabVars>>

Live     == {"sent", "downloading", "paused", "fetched"}
States   == Live \cup {"placed", "failed", "cancelled"}
Ways     == {"each", "some", "one", "orphan"}
Phases   == {"idle", "ask", "loop", "files", "select", "start", "resolve", "move",
             "save", "rescan"}
None     == "none"
NoRow    == [state |-> None, named |-> {}, dest |-> Home, filed |-> {}]
NoPass   == [pc |-> "idle", ents |-> <<>>, seen |-> <<>>, todo |-> {}, at |-> None,
             left |-> {}, way |-> "one", path |-> <<>>]
NoTorrent == [state |-> None, meta |-> FALSE, chosen |-> {}, says |-> {}]
Nobody   == [pc |-> "idle", at |-> None, pausing |-> FALSE, ent |-> NoRow]

Init ==
  /\ LandingInit
  /\ row = [g \in Grabs |-> NoRow] /\ torrent = [g \in Grabs |-> NoTorrent]
  /\ known = Grabs /\ passing = FALSE /\ placing = {}
  /\ pass = [p \in Pollers |-> NoPass] /\ suspend = Nobody /\ again = {} /\ misheard = {}

-----------------------------------------------------------------------------
(* Grabs and what people do to them.                                       *)

\* The client takes a release: stopped when only part of it is wanted.  The names
\* of its files speak of their items, or of nothing.
Added(g, says) ==
  [torrent EXCEPT ![g] = [state |-> IF g \in Partial THEN "stopped" ELSE "running",
                          meta |-> g \notin Partial, chosen |-> Pack[g], says |-> says]]

Lost(t) == t.state \in {None, "gone"}

\* No pass, pause or resume has read the row and may still write it.
Unread(g) ==
  /\ suspend.at # g
  /\ \A p \in Pollers : g \notin pass[p].todo /\ (pass[p].pc = "ask" => g \notin DOMAIN pass[p].ents)

\* grab: a torrent the client holds is followed rather than added.  A row of its own
\* remembers what it is for, unless the process dies first; while an earlier row of
\* the release is at work or of use, it is that one that is followed here.
Grab(g) ==
  /\ \/ ~Lost(torrent[g]) /\ UNCHANGED torrent
     \/ /\ Lost(torrent[g])
        /\ \E says \in {Pack[g]} \cup (IF g \in Partial THEN {{}} ELSE {}) : torrent' = Added(g, says)
  /\ \/ /\ row[g].state \in {None, "cancelled"} /\ Unread(g)
        /\ row' = [row EXCEPT ![g] = [NoRow EXCEPT !.state = "sent"]]
        /\ again' = again \ {g} /\ misheard' = misheard \ {g} /\ UNCHANGED asked
     \/ row[g] # NoRow /\ Lost(torrent[g]) /\ again' = again \cup {g} /\ UNCHANGED <<row, misheard, asked>>
     \/ row[g] = NoRow /\ Asked("lost") /\ again' = again \cup {g} /\ UNCHANGED <<row, misheard>>
  /\ UNCHANGED <<lib, indexed, landing, shown, scan, arrived, known, passing, placing, pass, suspend>>

Rewrites(g, r) ==
  /\ row[g] # NoRow /\ row' = [row EXCEPT ![g] = r]
  /\ UNCHANGED <<lib, indexed, landing, shown, scan, arrived, history, torrent, known, passing, placing, pass, suspend>>

SetDestination(g, root) ==
  /\ Asked("destination") /\ row[g].state # "placed" /\ root # row[g].dest
  /\ Rewrites(g, [row[g] EXCEPT !.dest = root])

Retry(g) ==
  /\ Asked("retry") /\ row[g].state \in {"failed", "cancelled"}
  /\ Rewrites(g, [row[g] EXCEPT !.state = "downloading"])

\* The row and nothing else: the torrent stays.
Archive(g) == Asked("archive") /\ Rewrites(g, NoRow)

\* _suspend reads the row, asks the client, and saves what it read.
SuspendReads(g, pausing) ==
  /\ Asked("suspend") /\ suspend = Nobody /\ row[g].state \in Live
  /\ suspend' = [pc |-> "call", at |-> g, pausing |-> pausing, ent |-> row[g]]
  /\ UNCHANGED <<lib, indexed, landing, shown, scan, arrived, history, row, torrent, known, passing, placing, pass>>

SuspendCalls ==
  /\ suspend.pc = "call" /\ suspend' = [suspend EXCEPT !.pc = "save"]
  /\ torrent' = IF torrent[suspend.at].state \in {"stopped", "running", "error"}
                THEN [torrent EXCEPT ![suspend.at].state = IF suspend.pausing THEN "stopped" ELSE "running"]
                ELSE torrent
  /\ UNCHANGED <<landingVars, history, row, known, passing, placing, pass>>

SuspendSaves ==
  /\ suspend.pc = "save" /\ suspend' = Nobody
  /\ row' = [row EXCEPT ![suspend.at] = [suspend.ent EXCEPT !.state =
                                           IF suspend.pausing THEN "paused" ELSE "downloading"]]
  /\ UNCHANGED <<landingVars, history, torrent, known, passing, placing, pass>>

-----------------------------------------------------------------------------
(* The client and the rest of the world.                                   *)

\* A torrent gets its metadata, running or not (only asked about when part of it
\* is wanted), then its bytes.
ClientStep(g) ==
  /\ \/ /\ torrent[g].state \in {"stopped", "running"} /\ ~torrent[g].meta
        /\ torrent' = [torrent EXCEPT ![g].meta = TRUE]
     \/ /\ torrent[g].state = "running" /\ torrent[g].meta
        /\ torrent' = [torrent EXCEPT ![g].state = "complete"]
  /\ UNCHANGED <<landingVars, history, row, known, passing, placing, pass, suspend>>

\* The client gives up on a torrent, or somebody takes it away there.
ClientLoses(g) ==
  /\ \/ Asked("error") /\ torrent[g].state = "running"
        /\ torrent' = [torrent EXCEPT ![g].state = "error"]
     \/ Asked("remove") /\ torrent[g].state \notin {None, "gone"}
        /\ torrent' = [torrent EXCEPT ![g].state = "gone"]
  /\ UNCHANGED <<lib, indexed, landing, shown, scan, arrived, history, row, known, passing, placing, pass, suspend>>

\* The media of a grab leaves the catalogue.
Forgets(g) ==
  /\ Asked("forget") /\ known' = known \ {g}
  /\ UNCHANGED <<lib, indexed, landing, shown, scan, arrived, history, row, torrent, passing, placing, pass, suspend>>

\* The process dies and starts again.
Crash ==
  /\ Asked("crash")
  /\ passing' = FALSE /\ placing' = {} /\ suspend' = Nobody
  /\ pass' = [p \in Pollers |-> NoPass] /\ scan' = NoScan /\ arrived' = {}
  /\ UNCHANGED <<lib, indexed, landing, shown, row, torrent, known, history>>

-----------------------------------------------------------------------------
(* A pass of the poll.                                                     *)

At(p, pc) == pass[p].pc = pc
Ent(p) == pass[p].ents[pass[p].at]
Goto(p, pc) == pass' = [pass EXCEPT ![p].pc = pc]

\* save: the entity the pass works on is written over the row, or inserted again.
Saves(g, e) == row' = [row EXCEPT ![g] = e]

\* The next grab.
Turns(p, g) ==
  pass' = [pass EXCEPT ![p] = [NoPass EXCEPT !.pc = "loop", !.ents = pass[p].ents, !.seen = pass[p].seen,
                                             !.todo = pass[p].todo \ {g}]]

\* Callers of poll are alike: one that is not waiting for a pass of its own.
Caller == CHOOSE p \in Pollers : At(p, "idle") \/ \A q \in Pollers : ~At(q, "idle")

\* Mutant: every tick starts a pass.
PollStarts_Overlaps(p) ==
  LET live == {g \in Grabs : row[g].state \in Live}
  IN  /\ p = Caller /\ At(p, "idle") /\ live # {} /\ passing' = TRUE
      /\ pass' = [pass EXCEPT ![p] = [NoPass EXCEPT !.pc = "ask", !.ents = [g \in live |-> row[g]]]]
      /\ UNCHANGED <<landingVars, history, row, torrent, known, placing, suspend>>

\* poll: one pass at a time, over the rows the client may have news of.
PollStarts(p) ==
  LET live == {g \in Grabs : row[g].state \in Live}
  IN  /\ p = Caller /\ ~passing /\ live # {} /\ passing' = TRUE
      /\ pass' = [pass EXCEPT ![p] = [NoPass EXCEPT !.pc = "ask", !.ents = [g \in live |-> row[g]]]]
      /\ UNCHANGED <<landingVars, history, row, torrent, known, placing, suspend>>

Hears(p, seen) ==
  pass' = [pass EXCEPT ![p] = [@ EXCEPT !.pc = "loop", !.seen = seen, !.todo = DOMAIN pass[p].ents]]

\* Mutant: a client that does not answer holds nothing.
PassAsks_Lenient(p) ==
  /\ At(p, "ask") /\ \E seen \in {torrent, [g \in Grabs |-> NoTorrent]} : Hears(p, seen)
  /\ UNCHANGED <<landingVars, history, row, torrent, known, passing, placing, suspend>>

\* One question for all of them.  An answer that is no list says that the client holds
\* nothing.
PassAsks(p) ==
  /\ At(p, "ask")
  /\ \/ Hears(p, torrent) /\ UNCHANGED <<asked, misheard>>
     \/ /\ Asked("garbled") /\ Hears(p, [g \in Grabs |-> NoTorrent])
        /\ misheard' = misheard \cup DOMAIN pass[p].ents
  /\ UNCHANGED <<lib, indexed, landing, shown, scan, arrived, again, row, torrent, known, passing, placing, suspend>>

\* Mutant: the flag is put down after the last grab, not in a finally.
PassBreaks_KeepsFlag(p) ==
  /\ Asked("outage") /\ pass[p].pc \in {"ask", "files", "select", "start"}
  /\ pass' = [pass EXCEPT ![p] = NoPass]
  /\ UNCHANGED <<lib, indexed, landing, shown, scan, arrived, history, row, torrent, known, passing, placing, suspend>>

\* The client does not answer: the pass is over.
PassBreaks(p) ==
  /\ Asked("outage") /\ pass[p].pc \in {"ask", "files", "select", "start"}
  /\ pass' = [pass EXCEPT ![p] = NoPass] /\ passing' = FALSE
  /\ UNCHANGED <<lib, indexed, landing, shown, scan, arrived, history, row, torrent, known, placing, suspend>>

PassEnds(p) ==
  /\ At(p, "loop") /\ pass[p].todo = {}
  /\ pass' = [pass EXCEPT ![p] = NoPass] /\ passing' = FALSE
  /\ UNCHANGED <<landingVars, history, row, torrent, known, placing, suspend>>

AwaitsChoice(g, e) == e.state = "sent" /\ g \in Partial /\ e.named = {}

\* What the client says of a grab: nothing, an error, its progress, or its end.
Settles(p, g) ==
  LET e == pass[p].ents[g]
      t == pass[p].seen[g]
      to(state) == Saves(g, [e EXCEPT !.state = state])
  IN  /\ \/ Lost(t) /\ IF e.state = "downloading" THEN to("cancelled") ELSE UNCHANGED row
         \/ ~Lost(t) /\ ~AwaitsChoice(g, e) /\ t.state = "error" /\ to("failed")
         \/ ~Lost(t) /\ ~AwaitsChoice(g, e) /\ t.state = "stopped" /\ to("paused")
         \/ ~Lost(t) /\ ~AwaitsChoice(g, e) /\ t.state = "running" /\ to("downloading")
      /\ Turns(p, g)

\* A grab of the pass is looked at.
PassTakes(p, g) ==
  /\ At(p, "loop") /\ g \in pass[p].todo
  /\ \/ Settles(p, g)
     \/ /\ ~Lost(pass[p].seen[g]) /\ AwaitsChoice(g, pass[p].ents[g])
        /\ pass' = [pass EXCEPT ![p] = [@ EXCEPT !.pc = "files", !.at = g]] /\ UNCHANGED row
  /\ UNCHANGED <<landingVars, history, torrent, known, passing, placing, suspend>>

-----------------------------------------------------------------------------
(* The files of a pack are chosen.                                         *)

Step(p) == UNCHANGED <<landingVars, history, known, passing, placing, suspend>>

\* A file is matched to a wanted item by its own name.
Matches(g) == Wanted[g] \cap torrent[g].says

\* The list of files: not there yet, or without anything wanted.
ChooseReads(p) ==
  LET g == pass[p].at
  IN  /\ At(p, "files")
      /\ \/ ~torrent[g].meta /\ Turns(p, g) /\ UNCHANGED row
         \/ torrent[g].meta /\ Matches(g) = {} /\ Saves(g, [Ent(p) EXCEPT !.state = "failed"]) /\ Turns(p, g)
         \/ torrent[g].meta /\ Matches(g) # {} /\ Goto(p, "select") /\ UNCHANGED row
      /\ Step(p) /\ UNCHANGED torrent

\* Mutant: the torrent is started before its files are selected.
ChooseSelects_Starts(p) ==
  /\ At(p, "select") /\ Goto(p, "start")
  /\ torrent' = [torrent EXCEPT ![pass[p].at].state = IF @ = "stopped" THEN "running" ELSE @]
  /\ Step(p) /\ UNCHANGED row

\* selectFiles.
ChooseSelects(p) ==
  /\ At(p, "select") /\ Goto(p, "start")
  /\ torrent' = [torrent EXCEPT ![pass[p].at].chosen = Matches(pass[p].at)]
  /\ Step(p) /\ UNCHANGED row

\* start, and the row says what is fetched.
ChooseStarts(p) ==
  LET g == pass[p].at
  IN  /\ At(p, "start")
      /\ torrent' = [torrent EXCEPT ![g].state = IF @ = "stopped" THEN "running" ELSE @]
      /\ Saves(g, [Ent(p) EXCEPT !.state = "downloading", !.named = Matches(g)])
      /\ Turns(p, g)
      /\ Step(p)

-----------------------------------------------------------------------------
(* What has arrived is filed.                                              *)

\* The item a grab was made from.
ItemOf(g) == CHOOSE i \in Wanted[g] : TRUE

\* The bytes are all there, and _place files them, once at a time.  Files already
\* named are filed each, several that are not are named first, a single one goes
\* by the grab, and of what belongs to no media any more the largest file is filed.
PlaceBegins(p, g) ==
  LET e == [pass[p].ents[g] EXCEPT !.state = "fetched"]
      files == torrent[g].chosen \cap torrent[g].says
      begins(left, way, ent) ==
        /\ Saves(g, ent) /\ placing' = placing \cup {g}
        /\ pass' = [pass EXCEPT ![p] = [@ EXCEPT !.pc = "resolve", !.at = g, !.left = left, !.way = way,
                                                 !.ents = [pass[p].ents EXCEPT ![g] = ent]]]
  IN  /\ At(p, "loop") /\ g \in pass[p].todo
      /\ pass[p].seen[g].state = "complete" /\ ~AwaitsChoice(g, pass[p].ents[g])
      /\ IF g \in placing THEN Saves(g, e) /\ Turns(p, g) /\ UNCHANGED placing
         ELSE \/ g \notin known /\ \E i \in torrent[g].chosen : begins({i}, "orphan", e)
              \/ g \in known /\ e.named # {} /\ begins(e.named, "each", e)
              \/ g \in known /\ e.named = {} /\ Cardinality(files) > 1
                 /\ begins(files, "each", [e EXCEPT !.named = files])
              \/ g \in known /\ e.named = {} /\ Cardinality(files) <= 1 /\ begins({ItemOf(g)}, "one", e)
      /\ UNCHANGED <<landingVars, history, torrent, known, passing, suspend>>

\* The end of a filing, with what the row says of it.
PlaceReturns(p, e) ==
  LET g == pass[p].at
  IN  Saves(g, e) /\ Turns(p, g) /\ placing' = placing \ {g}

Fails(p) == PlaceReturns(p, [Ent(p) EXCEPT !.state = "failed"])

\* _occupied.
Occupied(path) == path \in DOMAIN lib

\* One of several whose file is not found, or whose episode is gone, is passed over.
PlaceSkips(p) ==
  /\ At(p, "resolve") /\ pass[p].way \in {"each", "some"}
  /\ \E i \in pass[p].left : pass' = [pass EXCEPT ![p].left = @ \ {i}]
  /\ UNCHANGED <<landingVars, history, row, torrent, known, passing, placing, suspend>>

\* resolve: the path of the next file, unless something is there.  The file of a media
\* that is gone keeps its name, where the grab was planned, and nothing is looked at.
PlaceResolves(p) ==
  /\ At(p, "resolve")
  /\ \E i \in pass[p].left :
       LET orphan == pass[p].way = "orphan"
           path == <<IF orphan THEN Home ELSE Ent(p).dest, i>>
       IN  \/ /\ orphan \/ ~Occupied(path)
              /\ pass' = [pass EXCEPT ![p] = [@ EXCEPT !.pc = "move", !.path = path]]
              /\ UNCHANGED <<row, placing>>
           \/ ~orphan /\ Occupied(path) /\ Fails(p)
  /\ UNCHANGED <<landingVars, history, torrent, known, passing, suspend>>

\* move: the copy is in its place, or failed.
PlaceMoves(p) ==
  /\ At(p, "move")
  /\ \/ Puts(pass[p].path, pass[p].at) /\ Goto(p, "save") /\ UNCHANGED <<row, placing>>
     \/ Fails(p) /\ UNCHANGED lib
  /\ UNCHANGED <<indexed, landing, shown, scan, arrived, asked, history, torrent, known, passing, suspend>>

\* The row says so: the whole grab is placed, or one file of it is.  Then
\* _announceLanding: the landing is recorded and its server asked to rescan, but for
\* a file that is of no media.
PlaceSaves(p) ==
  LET g == pass[p].at
      path == pass[p].path
      several == pass[p].way \in {"each", "some"}
      e == [Ent(p) EXCEPT !.filed = @ \cup {path}, !.state = IF several THEN @ ELSE "placed"]
  IN  /\ At(p, "save")
      /\ \/ /\ pass[p].way # "orphan" /\ Saves(g, e) /\ Records(path[2], path)
            /\ pass' = [pass EXCEPT ![p] = [@ EXCEPT !.pc = "rescan", !.way = IF several THEN "some" ELSE pass[p].way,
                                                     !.ents = [pass[p].ents EXCEPT ![g] = e]]]
            /\ UNCHANGED placing
         \/ pass[p].way = "orphan" /\ PlaceReturns(p, e) /\ UNCHANGED <<landing, shown>>
      /\ UNCHANGED <<lib, indexed, scan, arrived, asked, history, torrent, known, passing, suspend>>

PlaceAnnounces(p) ==
  /\ At(p, "rescan") /\ Announced(pass[p].path[2], pass[p].path)
  /\ pass' = [pass EXCEPT ![p] = [@ EXCEPT !.pc = "resolve", !.left = pass[p].left \ {pass[p].path[2]}, !.path = <<>>]]
  /\ UNCHANGED <<lib, indexed, shown, scan, arrived, asked, history, row, torrent, known, passing, placing, suspend>>

\* Every file is in place, or was passed over; none at all is a failure.
PlaceEnds(p) ==
  /\ At(p, "resolve") /\ pass[p].left = {}
  /\ \/ pass[p].way = "each" /\ Fails(p)
     \/ pass[p].way = "some" /\ PlaceReturns(p, [Ent(p) EXCEPT !.state = "placed"])
     \/ pass[p].way = "one" /\ PlaceReturns(p, row[pass[p].at])
  /\ UNCHANGED <<landingVars, history, torrent, known, passing, suspend>>

-----------------------------------------------------------------------------
PassStep ==
  \E p \in Pollers :
    \/ PollStarts(p) \/ PassAsks(p) \/ PassEnds(p)
    \/ \E g \in Grabs : PassTakes(p, g) \/ PlaceBegins(p, g)
    \/ ChooseReads(p) \/ ChooseSelects(p) \/ ChooseStarts(p)
    \/ PlaceSkips(p) \/ PlaceResolves(p) \/ PlaceMoves(p) \/ PlaceSaves(p)
    \/ PlaceAnnounces(p) \/ PlaceEnds(p)

\* What happens a bounded number of times and does happen.
AnswerStep ==
  \/ SuspendCalls \/ SuspendSaves \/ \E g \in Grabs : ClientStep(g)
  \/ ArrivalStep /\ UNCHANGED grabVars

PeopleStep ==
  \/ \E p \in Pollers : PassBreaks(p)
  \/ \E g \in Grabs : \/ Grab(g) \/ Retry(g) \/ Archive(g) \/ ClientLoses(g) \/ Forgets(g)
                      \/ \E root \in Roots : SetDestination(g, root)
                      \/ \E pausing \in BOOLEAN : SuspendReads(g, pausing)
  \/ \E i \in Items : Arrives(<<Home, i>>) /\ UNCHANGED grabVars
  \/ Crash

LandingStep == (ScanStep \/ Vanishes) /\ UNCHANGED grabVars

Next == PassStep \/ AnswerStep \/ PeopleStep \/ LandingStep

Spec == Init /\ [][Next]_vars
\* The poll and the refresh are timers; the client and the disk answer.
FairSpec ==
  /\ Spec
  /\ WF_vars(PassStep) /\ WF_vars(AnswerStep) /\ WF_vars(ScanStep /\ UNCHANGED grabVars)

-----------------------------------------------------------------------------
(* Properties.                                                             *)

\* Shape of the state; _placing holds the grabs being filed, and no others.
TypeOK ==
  /\ LandingTypeOK
  /\ \A g \in Grabs :
       /\ row[g].state \in States \cup {None} /\ row[g].named \subseteq Pack[g]
       /\ row[g].dest \in Roots /\ row[g].filed \subseteq Paths
       /\ torrent[g].state \in {None, "stopped", "running", "complete", "error", "gone"}
       /\ torrent[g].meta \in BOOLEAN /\ torrent[g].chosen \cup torrent[g].says \subseteq Pack[g]
  /\ known \cup again \cup misheard \subseteq Grabs /\ passing \in BOOLEAN
  /\ placing = {pass[p].at : p \in {q \in Pollers : pass[q].pc \in {"resolve", "move", "save", "rescan"}}}
  /\ \A p \in Pollers : pass[p].pc \in Phases /\ pass[p].at \in Grabs \cup {None}
  /\ suspend.pc \in {"idle", "call", "save"}

\* _freePath: whatever is grabbed twice, retried or filed after a crash, a file that
\* was filed is never replaced by a filing that has asked for a free path.  Those that
\* do not ask replace it: a transfer, and the file of a grab whose media is gone.
FiledIsNotReplaced ==
  [][\A path \in DOMAIN lib \cap DOMAIN lib' :
       lib[path] \in Grabs /\ lib'[path] # lib[path]
         => \/ lib'[path] = "others"
            \/ \E p \in Pollers : At(p, "move") /\ pass[p].way = "orphan" /\ pass[p].path = path]_vars

\* _passing: no pass takes back a grab that is placed, whatever it read before.
PlacedStaysPlaced ==
  [][\A g \in Grabs : row[g].state = "placed" /\ suspend' = suspend /\ asked' = asked
       => row'[g].state = "placed"]_vars

\* What was filed stays filed: the file, but for what comes unasked, and the row that
\* says so.
FilingIsFinal == FiledIsNotReplaced /\ PlacedStaysPlaced

\* "Before a byte of the others is paid for": a torrent added stopped is started by
\* the gateway with the wanted files only, unless somebody resumes it, or takes it away
\* and has it grabbed again while its files are chosen.
OnlyWantedIsFetched ==
  [][\A g \in Partial \ again :
       torrent[g].state = "stopped" /\ torrent'[g].state = "running" /\ suspend' = suspend
       => torrent'[g].chosen \subseteq Wanted[g]]_vars

\* A row reads cancelled only when the client really has lost its torrent, was given it
\* again behind the row's back, or has answered the pass with something that is no list.
OnlyLostIsCancelled ==
  \A g \in Grabs \ (again \cup misheard) : row[g].state = "cancelled" => Lost(torrent[g])

\* A grab that is neither paused nor lost by the client is settled: chosen,
\* fetched, and filed or failed, whatever pass broke off on the way.
GrabsSettle ==
  []<>(\A g \in Grabs : row[g].state \in Live => row[g].state = "paused" \/ Lost(torrent[g]))

-----------------------------------------------------------------------------
(* What comments promise and the code does not keep.                       *)

\* _pass: "The client has never heard of it": a row reads cancelled when the client has
\* lost its torrent.
CancelledIsGone == \A g \in Grabs : row[g].state = "cancelled" => Lost(torrent[g])

\* _freePath: "Nothing failed, nothing was logged, and the file was gone" was to be
\* over: a file that comes after the path was found free is replaced all the same.
NothingIsReplaced ==
  [][\A path \in DOMAIN lib \cap DOMAIN lib' : lib'[path] = lib[path]]_vars

\* setDestination: "The destination is read when the download finishes, so
\* changing it before then costs one row write".
DestinationHolds ==
  [][\A g \in Grabs : row[g] # NoRow /\ row'[g] # NoRow /\ asked' = asked => row'[g].dest = row[g].dest]_vars

\* archive: what is taken off the queue stays off it, until somebody grabs it again.
ArchivedStaysAway ==
  [][\A g \in Grabs : row[g] = NoRow /\ row'[g] # NoRow => row'[g] = [NoRow EXCEPT !.state = "sent"]]_vars

\* _placeEach: "Saved as each one lands, so a failure halfway leaves a row that says
\* which files are already in the library".
FiledIsOnTheRow ==
  \A path \in DOMAIN lib, g \in Grabs :
    lib[path] = g /\ row[g] # NoRow /\ g \notin placing => path \in row[g].filed

\* retry: "A torrent that finished while the row said `failed` is filed": a grab
\* whose own files are in its way is not a failure.
OwnFilesAreNoObstacle ==
  [][\A g \in Grabs, p \in Pollers :
       At(p, "resolve") /\ pass[p].left # {} /\ pass[p].at = g /\ row'[g].state = "failed"
       => \E i \in pass[p].left : Occupied(<<Ent(p).dest, i>>) /\ lib[<<Ent(p).dest, i>>] # g]_vars

\* grab: a release of which part is wanted is never fetched whole.
PartIsEnough ==
  \A g \in Partial : torrent[g].state = "running" => torrent[g].chosen \subseteq Wanted[g]
=============================================================================
