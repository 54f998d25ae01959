------------------------- MODULE ReleaseGrab_proofs -------------------------
(***************************************************************************)
(* Grabs, for any releases, libraries, callers of the poll and requests:   *)
(* what a pass that works from old rows and an old answer may still say    *)
(* and do.                                                                 *)
(***************************************************************************)
EXTENDS ReleaseGrab, TLAPS

Filing == {"resolve", "move", "save", "rescan"}
Row == [state : States \cup {None}, named : SUBSET Items, dest : Roots, filed : SUBSET Paths]
Torrent == [state : {None, "stopped", "running", "complete", "error", "gone"}, meta : BOOLEAN,
            chosen : SUBSET Items, says : SUBSET Items]
Entities == UNION {[G -> Row] : G \in SUBSET Grabs}
Pass == [pc : Phases, ents : Entities, seen : {<<>>} \cup [Grabs -> Torrent], todo : SUBSET Grabs,
         at : Grabs \cup {None}, left : SUBSET Items, way : Ways, path : Paths \cup {<<>>}]
Suspension == [pc : {"idle", "call", "save"}, at : Grabs \cup {None}, pausing : BOOLEAN, ent : Row]
Landings == [Items -> Landing \cup {NoLanding}]
Scan == [pc : {"idle", "look", "write"}, open : {<<>>} \cup Landings, look : SUBSET Items,
         was : {<<>>} \cup [Items -> Shown]]

LibType == DOMAIN lib \subseteq Paths /\ \A path \in DOMAIN lib : lib[path] \in Owners
LandingType ==
  /\ indexed \subseteq Paths /\ landing \in Landings /\ shown \in [Items -> Shown]
  /\ scan \in Scan /\ asked \in 0..MaxRequests /\ (scan.pc = "look" => scan.open \in Landings)
  /\ arrived \subseteq Paths \X {"placed", "recorded"}
RowsType == row \in [Grabs -> Row] /\ \A g \in Grabs : row[g].named \subseteq Pack[g]
ClientType ==
  torrent \in [Grabs -> Torrent] /\ \A g \in Grabs : torrent[g].chosen \cup torrent[g].says \subseteq Pack[g]
SuspendType ==
  /\ suspend \in Suspension
  /\ suspend.pc # "idle" => suspend.at \in Grabs /\ suspend.ent.named \subseteq Pack[suspend.at]
FlagType == known \cup again \cup misheard \subseteq Grabs /\ passing \in BOOLEAN

\* What a pass holds: it looks at rows it has read, which were live, and knows what the
\* client answered; a grab in hand is not looked at yet.
PassShape(q) ==
  /\ q \in Pass /\ (q.pc = "idle" => q = NoPass) /\ (q.pc = "ask" => q.todo = {})
  /\ q.todo \subseteq DOMAIN q.ents
  /\ q.pc \notin {"idle", "ask", "loop"} => q.at \in q.todo
  /\ q.pc \notin {"idle", "ask"} => q.seen \in [Grabs -> Torrent]
  /\ \A g \in DOMAIN q.ents : q.ents[g].named \subseteq Pack[g] /\ q.ents[g].state \in Live \cup {"placed"}

\* What the client answered is not undone: what it had lost is lost, but for what it was
\* given again or did not really say.  A torrent about to be started has only wanted
\* files chosen, unless it was added again.
PassHeard(q, t, a, m) ==
  /\ \A g \in DOMAIN q.ents : t[g].state # None
  /\ q.pc \notin {"idle", "ask"} => \A g \in q.todo : Lost(q.seen[g]) => g \in a \cup m \/ Lost(t[g])
  /\ q.pc = "start" => q.at \in a \/ t[q.at].chosen \subseteq Wanted[q.at]

\* The grabs a pass may still write of.
Pending(q) == IF q.pc = "ask" THEN DOMAIN q.ents ELSE q.todo

\* Of those only the one that is just being filed is placed.  The path of the next file
\* is free if it was asked about, but for what transfers put there meanwhile.
Several == {"each", "some"}
PassFiles(q, rows, files) ==
  /\ q.pc \in Filing =>
       /\ q.way \notin Several => \A i, j \in q.left : i = j
       /\ q.way \in Several => q.ents[q.at].state = "fetched"
  /\ q.pc \in {"move", "save", "rescan"} => q.path \in Paths /\ q.path[2] \in q.left
  /\ q.pc = "rescan" => q.way # "orphan"
  /\ q.pc = "move" /\ q.way # "orphan" /\ q.path \in DOMAIN files => files[q.path] = "others"
  /\ \A g \in Pending(q) : rows[g].state = "placed" =>
       /\ q.at = g /\ q.way \notin Several
       /\ q.pc = "rescan" \/ (q.pc = "resolve" /\ q.left = {})

\* _passing: one pass at a time.
OnePass ==
  /\ \A p \in Pollers : pass[p].pc # "idle" => passing
  /\ \A p, q \in Pollers : pass[p].pc # "idle" /\ pass[q].pc # "idle" => p = q
PlacingIsExact == placing = {pass[p].at : p \in {q \in Pollers : pass[q].pc \in Filing}}

\* A row has a torrent, until the client loses it, and says so only then.
RowsAreOfTorrents ==
  /\ \A g \in Grabs : row[g].state # None => torrent[g].state # None
  /\ suspend.pc # "idle" => torrent[suspend.at].state # None

TypeInv == LibType /\ LandingType /\ RowsType /\ ClientType /\ SuspendType /\ FlagType
GrabInv ==
  /\ TypeInv /\ pass \in [Pollers -> Pass]
  /\ \A p \in Pollers : PassShape(pass[p]) /\ PassHeard(pass[p], torrent, again, misheard) /\ PassFiles(pass[p], row, lib)
  /\ OnePass /\ PlacingIsExact /\ RowsAreOfTorrents /\ OnlyLostIsCancelled

-----------------------------------------------------------------------------
LEMMA EntitiesAre == \A x : x \in Entities <=> \E G \in SUBSET Grabs : x \in [G -> Row]
BY DEF Entities

LEMMA EntitiesHave ==
  \A x \in Entities : x = [g \in DOMAIN x |-> x[g]] /\ DOMAIN x \subseteq Grabs /\ \A g \in DOMAIN x : x[g] \in Row
BY EntitiesAre

LEMMA Literals ==
  /\ NoRow \in Row /\ NoRow.state = None /\ NoRow.named = {}
  /\ NoTorrent \in Torrent /\ NoTorrent.state = None /\ NoTorrent.chosen = {} /\ NoTorrent.says = {}
  /\ <<>> \in Entities /\ NoPass \in Pass /\ NoPass.pc = "idle" /\ NoPass.ents = <<>> /\ NoPass.todo = {}
  /\ Nobody \in Suspension /\ Nobody.pc = "idle"
  /\ NoScan \in Scan /\ NoScan.pc = "idle" /\ NoLanding.state = "none"
<1>1. NoRow \in Row /\ NoRow.state = None /\ NoRow.named = {}
  BY GrabConstants DEF NoRow, Row
<1>2. NoTorrent \in Torrent /\ NoTorrent.state = None /\ NoTorrent.chosen = {} /\ NoTorrent.says = {}
  BY DEF NoTorrent, Torrent
<1>3. <<>> \in Entities
  <2>1. <<>> \in [{} -> Row]
    OBVIOUS
  <2> QED
    BY <2>1, EntitiesAre
<1>4. NoPass \in Pass /\ NoPass.pc = "idle" /\ NoPass.ents = <<>> /\ NoPass.todo = {}
  BY <1>3 DEF NoPass, Pass, Phases, Ways
<1>5. Nobody \in Suspension /\ Nobody.pc = "idle"
  BY <1>1 DEF Nobody, Suspension
<1>6. NoScan \in Scan /\ NoScan.pc = "idle" /\ NoLanding.state = "none"
  BY DEF NoScan, Scan, NoLanding
<1> QED
  BY <1>1, <1>2, <1>3, <1>4, <1>5, <1>6

\* A poller without a pass has nothing to keep.
LEMMA IdleIsFine ==
  \A t, a, m, rows, files : PassShape(NoPass) /\ PassHeard(NoPass, t, a, m) /\ PassFiles(NoPass, rows, files)
<1>1. DOMAIN NoPass.ents = {}
  BY Literals
<1> QED
  BY <1>1, Literals DEF PassShape, PassHeard, PassFiles, Pending, Filing

LEMMA InitGrab == Init => GrabInv
<1> SUFFICES ASSUME Init PROVE GrabInv
  OBVIOUS
<1>1. pass = [p \in Pollers |-> NoPass] /\ \A p \in Pollers : pass[p] = NoPass
  BY DEF Init
<1>2. \A p \in Pollers : PassShape(pass[p]) /\ PassHeard(pass[p], torrent, again, misheard) /\ PassFiles(pass[p], row, lib)
  BY <1>1, IdleIsFine
<1>3. LibType
  BY DEF Init, LandingInit, LibType
<1>4. LandingType
  BY Literals, LandingConstants DEF Init, LandingInit, LandingType, Landings, Shown
<1>5. RowsType /\ ClientType /\ SuspendType /\ FlagType
  BY Literals DEF Init, RowsType, ClientType, SuspendType, FlagType
<1>6. OnePass /\ PlacingIsExact
  BY <1>1, Literals DEF Init, OnePass, PlacingIsExact, Filing
<1>7. RowsAreOfTorrents /\ OnlyLostIsCancelled
  BY Literals DEF Init, RowsAreOfTorrents, OnlyLostIsCancelled, Lost, None
<1> QED
  BY <1>1, <1>2, <1>3, <1>4, <1>5, <1>6, <1>7, Literals DEF GrabInv, TypeInv

-----------------------------------------------------------------------------
(* What a step leaves alone.                                               *)

\* Torrents keep the files that are chosen, and what is lost is lost, but for what is
\* added again; of the rows somebody works on, none is taken for another.
TorrentsGoOn ==
  \A g \in Grabs :
    /\ torrent[g].state # None => torrent'[g].state # None
    /\ ~Unread(g) =>
         /\ g \in again => g \in again'
         /\ g \in misheard => g \in misheard'
         /\ torrent'[g].chosen = torrent[g].chosen \/ g \in again'
         /\ Lost(torrent[g]) => Lost(torrent'[g]) \/ g \in again'
\* Only a pass places, and only a pass files what is not of others.
RowsGoOn == \A g \in Grabs : row'[g].state = "placed" => row[g].state = "placed"
FilesGoOn == \A path \in DOMAIN lib' : (path \in DOMAIN lib /\ lib'[path] = lib[path]) \/ lib'[path] = "others"

LEMMA PassesGoOn ==
  ASSUME NEW p \in Pollers, PassShape(pass[p]), PassHeard(pass[p], torrent, again, misheard),
         PassFiles(pass[p], row, lib), TorrentsGoOn, RowsGoOn, FilesGoOn
  PROVE  PassHeard(pass[p], torrent', again', misheard') /\ PassFiles(pass[p], row', lib')
<1> DEFINE q == pass[p]
<1>1. DOMAIN q.ents \subseteq Grabs /\ q.todo \subseteq DOMAIN q.ents
  BY EntitiesHave DEF PassShape, Pass
<1>2. \A g \in q.todo : g \in Grabs /\ ~Unread(g)
  BY <1>1 DEF Unread
<1>3. q.pc = "start" => q.at \in q.todo
  BY DEF PassShape
<1>4. PassHeard(q, torrent', again', misheard')
  BY <1>1, <1>2, <1>3 DEF PassHeard, TorrentsGoOn
<1>5. Pending(q) \subseteq Grabs
  BY <1>1 DEF Pending
<1>6. PassFiles(q, row', lib')
  BY <1>5 DEF PassFiles, RowsGoOn, FilesGoOn
<1> QED
  BY <1>4, <1>6

\* A step beside the passes.
LEMMA BesidePasses ==
  ASSUME GrabInv, UNCHANGED <<pass, passing, placing>>, TypeInv', TorrentsGoOn, RowsGoOn, FilesGoOn,
         RowsAreOfTorrents', OnlyLostIsCancelled'
  PROVE  GrabInv'
<1>1. \A p \in Pollers : PassShape(pass[p]) /\ PassHeard(pass[p], torrent', again', misheard') /\ PassFiles(pass[p], row', lib')
  BY PassesGoOn DEF GrabInv
<1>2. OnePass' /\ PlacingIsExact'
  BY DEF GrabInv, OnePass, PlacingIsExact
<1> QED
  BY <1>1, <1>2 DEF GrabInv

\* A step of the pass of one poller.
LEMMA OnePassMoves ==
  ASSUME GrabInv, NEW p \in Pollers, pass[p].pc # "idle", NEW q, pass' = [pass EXCEPT ![p] = q],
         PassShape(q), PassHeard(q, torrent', again', misheard'), PassFiles(q, row', lib'), q.pc # "idle" => passing'
  PROVE  /\ pass' \in [Pollers -> Pass]
         /\ \A r \in Pollers : PassShape(pass'[r]) /\ PassHeard(pass'[r], torrent', again', misheard') /\ PassFiles(pass'[r], row', lib')
         /\ OnePass' /\ \A r \in Pollers : r # p => pass[r].pc = "idle" /\ pass'[r].pc = "idle"
         /\ pass'[p] = q
<1>1. pass \in [Pollers -> Pass] /\ pass'[p] = q /\ q \in Pass
  BY DEF GrabInv, PassShape
<1>2. \A r \in Pollers : r # p => pass'[r] = pass[r] /\ pass[r].pc = "idle" /\ pass[r] = NoPass
  BY <1>1 DEF GrabInv, OnePass, PassShape
<1>3. \A r \in Pollers : PassShape(pass'[r]) /\ PassHeard(pass'[r], torrent', again', misheard') /\ PassFiles(pass'[r], row', lib')
  BY <1>1, <1>2, IdleIsFine
<1>4. OnePass'
  BY <1>1, <1>2 DEF OnePass
<1> QED
  BY <1>1, <1>2, <1>3, <1>4

\* Who is filed.
LEMMA WhoIsPlaced ==
  ASSUME NEW p \in Pollers, \A r \in Pollers : r # p => pass[r].pc = "idle" /\ pass'[r].pc = "idle", PlacingIsExact
  PROVE  /\ placing = IF pass[p].pc \in Filing THEN {pass[p].at} ELSE {}
         /\ placing' = (IF pass'[p].pc \in Filing THEN {pass'[p].at} ELSE {}) => PlacingIsExact'
<1>1. {r \in Pollers : pass[r].pc \in Filing} = IF pass[p].pc \in Filing THEN {p} ELSE {}
  BY DEF Filing
<1>2. {r \in Pollers : pass'[r].pc \in Filing} = IF pass'[p].pc \in Filing THEN {p} ELSE {}
  BY DEF Filing
<1> QED
  BY <1>1, <1>2 DEF PlacingIsExact

-----------------------------------------------------------------------------
(* Grabs, requests, the client and the media server.                       *)

\* A step of the media server or of somebody who deletes a file.
LEMMA LandingsKeep == ASSUME GrabInv, LandingStep PROVE GrabInv'
<1>0. /\ LibType /\ LandingType /\ TypeInv /\ UNCHANGED grabVars
  BY DEF GrabInv, TypeInv, LandingStep
<1>1. CASE ScanReads
  <2>1. LandingType' /\ UNCHANGED lib
    BY <1>0, <1>1 DEF ScanReads, LandingType, LibType, Scan, FindOpen
  <2> QED
    BY <2>1, <1>0, BesidePasses DEF GrabInv, grabVars, TypeInv, LibType, RowsType, ClientType, SuspendType, FlagType,
         TorrentsGoOn, RowsGoOn, FilesGoOn, RowsAreOfTorrents, OnlyLostIsCancelled, history
<1>2. CASE Reconciles
  <2>1. UNCHANGED <<lib, indexed, arrived, asked>> /\ scan.pc = "look" /\ scan.open \in Landings
    BY <1>0, <1>2 DEF Reconciles, LandingType
  <2>2. landing' \in Landings /\ shown' \in [Items -> Shown]
    <3> DEFINE over == {i \in scan.look : scan.open[i].path \in indexed \/ scan.open[i].path \notin DOMAIN lib}
               kept == scan.look \ over
    <3>1. PICK late \in SUBSET {i \in kept : scan.open[i].state = "waiting"} :
            LET saved == [i \in kept |-> IF i \in late THEN [scan.open[i] EXCEPT !.state = "stale"] ELSE scan.open[i]]
            IN  /\ landing' = [i \in Items |-> IF i \in over THEN NoLanding
                                               ELSE IF i \in late THEN saved[i] ELSE landing[i]]
                /\ shown' = [i \in Items |-> IF i \in kept THEN SyncStateOf(saved[i]) ELSE shown[i]]
      BY <1>2 DEF Reconciles
    <3>2. kept \subseteq Items
      BY <1>0 DEF LandingType, Scan
    <3>3. \A i \in late : [scan.open[i] EXCEPT !.state = "stale"] \in Landing
      BY <2>1, <3>2 DEF Landings, Landing, NoLanding
    <3>4. \A l : SyncStateOf(l) \in Shown
      BY DEF SyncStateOf, Shown
    <3> QED
      BY <1>0, <3>1, <3>2, <3>3, <3>4 DEF LandingType, Landings
  <2>3. LandingType'
    <3>1. scan' = [pc |-> "write", look |-> {}, open |-> landing', was |-> shown']
      BY <1>2 DEF Reconciles
    <3> QED
      BY <1>0, <2>1, <2>2, <3>1 DEF LandingType, Scan
  <2> QED
    BY <2>1, <2>3, <1>0, BesidePasses DEF GrabInv, grabVars, TypeInv, LibType, RowsType, ClientType, SuspendType, FlagType,
         TorrentsGoOn, RowsGoOn, FilesGoOn, RowsAreOfTorrents, OnlyLostIsCancelled, history
<1>3. CASE CorrelateWrites
  <2>1. LandingType' /\ UNCHANGED lib
    BY <1>0, <1>3, Literals DEF CorrelateWrites, LandingType, SyncStateOf, Shown
  <2> QED
    BY <2>1, <1>0, BesidePasses DEF GrabInv, grabVars, TypeInv, LibType, RowsType, ClientType, SuspendType, FlagType,
         TorrentsGoOn, RowsGoOn, FilesGoOn, RowsAreOfTorrents, OnlyLostIsCancelled, history
<1>4. CASE Vanishes
  <2>1. PICK path \in DOMAIN lib : lib' = [x \in DOMAIN lib \ {path} |-> lib[x]]
    BY <1>4 DEF Vanishes
  <2>2. LandingType' /\ LibType' /\ FilesGoOn
    BY <1>0, <1>4, <2>1, LandingConstants DEF Vanishes, Asked, LandingType, LibType, FilesGoOn, GrabInv
  <2> QED
    BY <2>2, <1>0, BesidePasses DEF GrabInv, grabVars, TypeInv, RowsType, ClientType, SuspendType, FlagType,
         TorrentsGoOn, RowsGoOn, RowsAreOfTorrents, OnlyLostIsCancelled, history
<1> QED
  BY <1>1, <1>2, <1>3, <1>4 DEF LandingStep, ScanStep

LEMMA AskedKeeps ==
  ASSUME LandingType, UNCHANGED <<indexed, landing, shown, scan, arrived>>, NEW op, Asked(op) \/ UNCHANGED asked
  PROVE  LandingType'
BY LandingConstants DEF LandingType, Asked

\* A row is written beside the passes.
LEMMA RowWritten ==
  ASSUME GrabInv, LandingType', UNCHANGED <<lib, torrent, known, pass, passing, placing, again, misheard>>, SuspendType',
         suspend'.pc # "idle" => torrent[suspend'.at].state # None,
         NEW g \in Grabs, NEW e \in Row, row' = [row EXCEPT ![g] = e], e.named \subseteq Pack[g],
         e.state # None => torrent[g].state # None,
         e.state \in {"placed", "cancelled"} => row[g].state = e.state
  PROVE  GrabInv'
<1>1. /\ row \in [Grabs -> Row] /\ row' \in [Grabs -> Row] /\ row'[g] = e
      /\ \A h \in Grabs : h # g => row'[h] = row[h]
  BY DEF GrabInv, TypeInv, RowsType
<1>2. RowsType'
  BY <1>1 DEF GrabInv, TypeInv, RowsType
<1>3. RowsAreOfTorrents' /\ OnlyLostIsCancelled'
  BY <1>1 DEF GrabInv, RowsAreOfTorrents, OnlyLostIsCancelled
<1>4. TorrentsGoOn /\ FilesGoOn /\ LibType' /\ ClientType' /\ FlagType'
  BY DEF TorrentsGoOn, FilesGoOn, GrabInv, TypeInv, LibType, ClientType, FlagType
<1>5. RowsGoOn
  BY <1>1 DEF RowsGoOn
<1> QED
  BY <1>2, <1>3, <1>4, <1>5, BesidePasses DEF TypeInv

LEMMA RequestsKeep ==
  ASSUME GrabInv, NEW g \in Grabs,
         \/ Retry(g) \/ Archive(g)
         \/ \E root \in Roots : SetDestination(g, root)
         \/ \E pausing \in BOOLEAN : SuspendReads(g, pausing)
         \/ SuspendSaves
  PROVE  GrabInv'
<1>0. /\ LandingType /\ SuspendType /\ RowsType /\ row[g] \in Row /\ row[g].named \subseteq Pack[g]
      /\ RowsAreOfTorrents /\ row \in [Grabs -> Row]
  BY DEF GrabInv, TypeInv, RowsType
<1>1. CASE Retry(g)
  <2> DEFINE e == [row[g] EXCEPT !.state = "downloading"]
  <2>1. /\ row' = [row EXCEPT ![g] = e] /\ UNCHANGED <<lib, torrent, known, pass, passing, placing, again, misheard, suspend>>
        /\ LandingType'
    BY <1>0, <1>1, AskedKeeps DEF Retry, Rewrites, history
  <2>2. e \in Row /\ e.named = row[g].named /\ e.state = "downloading" /\ row[g].state # None
    BY <1>0, <1>1 DEF Row, Retry, States, Live, None
  <2>3. SuspendType' /\ (suspend'.pc # "idle" => torrent[suspend'.at].state # None)
    BY <1>0, <2>1 DEF SuspendType, RowsAreOfTorrents
  <2> HIDE DEF e
  <2> QED
    BY <1>0, <2>1, <2>2, <2>3, RowWritten DEF RowsAreOfTorrents
<1>2. CASE Archive(g)
  <2>1. /\ row' = [row EXCEPT ![g] = NoRow] /\ UNCHANGED <<lib, torrent, known, pass, passing, placing, again, misheard, suspend>>
        /\ LandingType'
    BY <1>0, <1>2, AskedKeeps DEF Archive, Rewrites, history
  <2>2. SuspendType' /\ (suspend'.pc # "idle" => torrent[suspend'.at].state # None)
    BY <1>0, <2>1 DEF SuspendType, RowsAreOfTorrents
  <2> QED
    BY <2>1, <2>2, RowWritten, Literals DEF None
<1>3. ASSUME NEW root \in Roots, SetDestination(g, root) PROVE GrabInv'
  <2> DEFINE e == [row[g] EXCEPT !.dest = root]
  <2>1. /\ row' = [row EXCEPT ![g] = e] /\ UNCHANGED <<lib, torrent, known, pass, passing, placing, again, misheard, suspend>>
        /\ LandingType'
    BY <1>0, <1>3, AskedKeeps DEF SetDestination, Rewrites, history
  <2>2. e \in Row /\ e.named = row[g].named /\ e.state = row[g].state
    BY <1>0 DEF Row
  <2>3. SuspendType' /\ (suspend'.pc # "idle" => torrent[suspend'.at].state # None)
    BY <1>0, <2>1 DEF SuspendType, RowsAreOfTorrents
  <2> HIDE DEF e
  <2> QED
    BY <1>0, <2>1, <2>2, <2>3, RowWritten DEF RowsAreOfTorrents
<1>4. ASSUME NEW pausing \in BOOLEAN, SuspendReads(g, pausing) PROVE GrabInv'
  <2>1. /\ row' = [row EXCEPT ![g] = row[g]] /\ UNCHANGED <<lib, torrent, known, pass, passing, placing, again, misheard>>
        /\ LandingType' /\ suspend' = [pc |-> "call", at |-> g, pausing |-> pausing, ent |-> row[g]]
    BY <1>0, <1>4, AskedKeeps DEF SuspendReads, history
  <2>2. SuspendType'
    BY <1>0, <2>1 DEF SuspendType, Suspension
  <2>3. row[g].state # None /\ suspend'.at = g
    BY <1>4, <2>1 DEF SuspendReads, Live, None
  <2> QED
    BY <1>0, <2>1, <2>2, <2>3, RowWritten DEF RowsAreOfTorrents
<1>5. CASE SuspendSaves
  <2> DEFINE h == suspend.at
             e == [suspend.ent EXCEPT !.state = IF suspend.pausing THEN "paused" ELSE "downloading"]
  <2>1. /\ row' = [row EXCEPT ![h] = e] /\ UNCHANGED <<lib, torrent, known, pass, passing, placing, again, misheard>>
        /\ UNCHANGED <<indexed, landing, shown, scan, arrived, asked>> /\ suspend' = Nobody /\ suspend.pc = "save"
    BY <1>5 DEF SuspendSaves, landingVars, history
  <2>2. /\ h \in Grabs /\ e \in Row /\ e.named \subseteq Pack[h] /\ e.state \in {"paused", "downloading"}
        /\ torrent[h].state # None
    BY <1>0, <2>1 DEF SuspendType, Suspension, Row, States, Live, RowsAreOfTorrents
  <2>3. SuspendType' /\ suspend'.pc = "idle" /\ LandingType'
    BY <1>0, <2>1, Literals DEF SuspendType, LandingType
  <2> HIDE DEF e, h
  <2> QED
    BY <2>1, <2>2, <2>3, RowWritten
<1> QED
  BY <1>1, <1>2, <1>3, <1>4, <1>5

\* The client does something to a torrent, or is told to.
LEMMA TorrentChanged ==
  ASSUME GrabInv, LandingType', UNCHANGED <<lib, row, known, pass, passing, placing, again, misheard>>, SuspendType',
         suspend'.pc # "idle" => torrent[suspend'.at].state # None /\ suspend'.at \in Grabs,
         NEW g \in Grabs, NEW t \in Torrent, torrent' = [torrent EXCEPT ![g] = t], torrent[g].state # None,
         t.chosen = torrent[g].chosen, t.says = torrent[g].says, t.state # None,
         torrent[g].state = "gone" => t.state = "gone"
  PROVE  GrabInv'
<1>1. /\ torrent \in [Grabs -> Torrent] /\ torrent' \in [Grabs -> Torrent] /\ torrent'[g] = t
      /\ \A h \in Grabs : h # g => torrent'[h] = torrent[h]
  BY DEF GrabInv, TypeInv, ClientType
<1>2. ClientType'
  BY <1>1 DEF GrabInv, TypeInv, ClientType
<1>3. TorrentsGoOn
  BY <1>1 DEF TorrentsGoOn, Lost, None
<1>4. RowsAreOfTorrents' /\ OnlyLostIsCancelled'
  BY <1>1, <1>3 DEF GrabInv, RowsAreOfTorrents, OnlyLostIsCancelled, TorrentsGoOn, Lost, None
<1>5. RowsGoOn /\ FilesGoOn /\ LibType' /\ RowsType' /\ FlagType'
  BY DEF RowsGoOn, FilesGoOn, GrabInv, TypeInv, LibType, RowsType, FlagType
<1> QED
  BY <1>2, <1>3, <1>4, <1>5, BesidePasses DEF TypeInv

LEMMA ClientKeeps ==
  ASSUME GrabInv, (\E g \in Grabs : ClientStep(g) \/ ClientLoses(g)) \/ SuspendCalls
  PROVE  GrabInv'
<1>0. /\ LandingType /\ SuspendType /\ torrent \in [Grabs -> Torrent] /\ RowsAreOfTorrents
  BY DEF GrabInv, TypeInv, ClientType
<1>1. ASSUME NEW g \in Grabs, ClientStep(g) PROVE GrabInv'
  <2>1. /\ UNCHANGED <<lib, row, known, pass, passing, placing, again, misheard, suspend>> /\ LandingType'
        /\ SuspendType' /\ (suspend'.pc # "idle" => torrent[suspend'.at].state # None /\ suspend'.at \in Grabs)
    BY <1>0, <1>1 DEF ClientStep, landingVars, history, LandingType, SuspendType, RowsAreOfTorrents
  <2>2. PICK t \in {[torrent[g] EXCEPT !.meta = TRUE], [torrent[g] EXCEPT !.state = "complete"]} :
          torrent' = [torrent EXCEPT ![g] = t]
    BY <1>0, <1>1 DEF ClientStep
  <2>3. /\ t \in Torrent /\ t.chosen = torrent[g].chosen /\ t.says = torrent[g].says
        /\ torrent[g].state \in {"stopped", "running"} /\ t.state \in {"stopped", "running", "complete"}
    BY <1>0, <1>1, <2>2 DEF Torrent, ClientStep
  <2> QED
    BY <2>1, <2>2, <2>3, TorrentChanged DEF None
<1>2. ASSUME NEW g \in Grabs, ClientLoses(g) PROVE GrabInv'
  <2>1. /\ UNCHANGED <<lib, row, known, pass, passing, placing, again, misheard, suspend>> /\ LandingType'
        /\ SuspendType' /\ (suspend'.pc # "idle" => torrent[suspend'.at].state # None /\ suspend'.at \in Grabs)
    BY <1>0, <1>2, AskedKeeps DEF ClientLoses, SuspendType, RowsAreOfTorrents, history
  <2>2. PICK s \in {"error", "gone"} :
          /\ torrent' = [torrent EXCEPT ![g] = [torrent[g] EXCEPT !.state = s]]
          /\ torrent[g].state \notin {None, "gone"}
    BY <1>0, <1>2 DEF ClientLoses, None
  <2> DEFINE t == [torrent[g] EXCEPT !.state = s]
  <2>3. t \in Torrent /\ t.chosen = torrent[g].chosen /\ t.says = torrent[g].says /\ t.state = s
    BY <1>0, <2>2 DEF Torrent
  <2>4. torrent' = [torrent EXCEPT ![g] = t]
    BY <2>2
  <2> HIDE DEF t
  <2> QED
    BY <2>1, <2>2, <2>3, <2>4, TorrentChanged DEF None
<1>3. CASE SuspendCalls
  <2> DEFINE g == suspend.at
  <2>1. /\ UNCHANGED <<lib, row, known, pass, passing, placing, again, misheard>> /\ LandingType'
        /\ suspend.pc = "call" /\ suspend' = [suspend EXCEPT !.pc = "save"] /\ suspend \in Suspension
    BY <1>0, <1>3 DEF SuspendCalls, landingVars, history, LandingType, SuspendType
  <2>2. /\ SuspendType' /\ g \in Grabs /\ torrent[g].state # None /\ suspend'.at = g
        /\ (suspend'.pc # "idle" => torrent[suspend'.at].state # None /\ suspend'.at \in Grabs)
    BY <1>0, <2>1 DEF SuspendType, Suspension, RowsAreOfTorrents
  <2>3. PICK s \in {"stopped", "running", torrent[g].state} :
          /\ torrent' = [torrent EXCEPT ![g] = [torrent[g] EXCEPT !.state = s]]
          /\ torrent[g].state = "gone" => s = "gone"
    <3>1. CASE torrent[g].state \in {"stopped", "running", "error"}
      BY <1>0, <1>3, <2>2, <3>1 DEF SuspendCalls
    <3>2. CASE torrent[g].state \notin {"stopped", "running", "error"}
      <4>1. torrent' = torrent
        BY <1>3, <3>2 DEF SuspendCalls
      <4>2. [torrent[g] EXCEPT !.state = torrent[g].state] = torrent[g]
        BY <1>0, <2>2 DEF Torrent
      <4> QED
        BY <1>0, <2>2, <4>1, <4>2
    <3> QED
      BY <3>1, <3>2
  <2> DEFINE t == [torrent[g] EXCEPT !.state = s]
  <2>4. t \in Torrent /\ t.chosen = torrent[g].chosen /\ t.says = torrent[g].says /\ t.state = s
    BY <1>0, <2>2, <2>3 DEF Torrent
  <2>5. torrent' = [torrent EXCEPT ![g] = t]
    BY <2>3
  <2> HIDE DEF t, g
  <2> QED
    BY <2>1, <2>2, <2>3, <2>4, <2>5, TorrentChanged DEF None
<1> QED
  BY <1>1, <1>2, <1>3

\* What the client is given, or holds already.
LEMMA GrabAdds ==
  ASSUME GrabInv, NEW g \in Grabs, Grab(g)
  PROVE  /\ torrent' \in [Grabs -> Torrent] /\ torrent'[g].state # None /\ ClientType'
         /\ \A h \in Grabs : h # g => torrent'[h] = torrent[h]
         /\ ~Lost(torrent[g]) => torrent'[g] = torrent[g]
<1>0. torrent \in [Grabs -> Torrent] /\ ClientType
  BY DEF GrabInv, TypeInv, ClientType
<1>1. CASE ~Lost(torrent[g])
  <2>1. UNCHANGED torrent
    BY <1>1 DEF Grab
  <2> QED
    BY <1>0, <1>1, <2>1 DEF Lost, ClientType
<1>2. CASE Lost(torrent[g])
  <2>1. PICK says \in {Pack[g], {}} : torrent' = Added(g, says)
    BY <1>2 DEF Grab
  <2> DEFINE t == [state |-> IF g \in Partial THEN "stopped" ELSE "running", meta |-> g \notin Partial,
                   chosen |-> Pack[g], says |-> says]
  <2>2. t \in Torrent /\ t.chosen = Pack[g] /\ t.says = says /\ t.state # None
    BY GrabConstants DEF Torrent, None
  <2>3. torrent' = [torrent EXCEPT ![g] = t]
    BY <2>1 DEF Added
  <2> HIDE DEF t
  <2>4. torrent' \in [Grabs -> Torrent] /\ torrent'[g] = t /\ \A h \in Grabs : h # g => torrent'[h] = torrent[h]
    BY <1>0, <2>2, <2>3
  <2> QED
    BY <1>0, <1>2, <2>1, <2>2, <2>4 DEF ClientType
<1> QED
  BY <1>1, <1>2

\* What the queue keeps of it.
Renewed(g) ==
  \/ Unread(g) /\ row' = [row EXCEPT ![g] = [NoRow EXCEPT !.state = "sent"]]
     /\ again' = again \ {g} /\ misheard' = misheard \ {g}
  \/ UNCHANGED <<row, misheard>> /\ again' = again \cup {g}

LEMMA GrabKeeps == ASSUME GrabInv, NEW g \in Grabs, Grab(g) PROVE GrabInv'
<1>0. /\ LandingType /\ SuspendType /\ row \in [Grabs -> Row] /\ RowsType /\ RowsAreOfTorrents /\ FlagType
  BY DEF GrabInv, TypeInv, RowsType
<1>1. UNCHANGED <<lib, known, pass, passing, placing, suspend>> /\ LandingType'
  BY <1>0, AskedKeeps DEF Grab
<1>3. Renewed(g)
  BY DEF Renewed, Grab
<1>4. /\ torrent' \in [Grabs -> Torrent] /\ torrent'[g].state # None /\ ClientType'
      /\ \A h \in Grabs : h # g => torrent'[h] = torrent[h]
      /\ ~Lost(torrent[g]) => torrent'[g] = torrent[g]
  BY GrabAdds
<1>5. /\ row' \in [Grabs -> Row] /\ \A h \in Grabs : h # g => row'[h] = row[h]
      /\ row'[g] = row[g] \/ (row'[g].named = {} /\ row'[g].state = "sent")
  <2> DEFINE e == [NoRow EXCEPT !.state = "sent"]
  <2>1. e \in Row /\ e.named = {} /\ e.state = "sent"
    BY Literals DEF Row, States, Live
  <2> HIDE DEF e
  <2>2. CASE row' = [row EXCEPT ![g] = e]
    BY <1>0, <2>1, <2>2
  <2>3. CASE row' = row
    BY <1>0, <2>3
  <2> QED
    BY <1>3, <2>2, <2>3 DEF Renewed, e
<1>6. RowsType'
  BY <1>0, <1>5 DEF RowsType
<1>7. /\ \A h \in Grabs : h # g => (h \in again' <=> h \in again) /\ (h \in misheard' <=> h \in misheard)
      /\ FlagType'
  BY <1>0, <1>1, <1>3 DEF Renewed, FlagType
<1>8. ~Unread(g) => g \in again' /\ (g \in misheard => g \in misheard')
  BY <1>3 DEF Renewed
<1>9. TorrentsGoOn
  BY <1>4, <1>7, <1>8 DEF TorrentsGoOn
<1>10. RowsGoOn
  BY <1>5 DEF RowsGoOn
<1>11. RowsAreOfTorrents'
  BY <1>0, <1>1, <1>4, <1>5, <1>9 DEF RowsAreOfTorrents, TorrentsGoOn, SuspendType
<1>12. OnlyLostIsCancelled'
  <2> DEFINE e == [NoRow EXCEPT !.state = "sent"]
  <2>0. e.state = "sent"
    BY DEF NoRow
  <2> HIDE DEF e
  <2>1. g \in again' \/ row'[g].state # "cancelled"
    BY <1>3, <1>0, <2>0 DEF Renewed, e
  <2> QED
    BY <2>1, <1>4, <1>5, <1>7 DEF GrabInv, OnlyLostIsCancelled
<1>13. FilesGoOn /\ LibType' /\ SuspendType'
  BY <1>1 DEF FilesGoOn, GrabInv, TypeInv, LibType, SuspendType
<1> QED
  BY <1>1, <1>4, <1>6, <1>7, <1>9, <1>10, <1>11, <1>12, <1>13, BesidePasses DEF TypeInv

\* The catalogue forgets, others file, the process dies.
LEMMA WorldKeeps ==
  ASSUME GrabInv,
         \/ \E g \in Grabs : Forgets(g)
         \/ (\E i \in Items : Arrives(<<Home, i>>) /\ UNCHANGED grabVars) \/ (ArrivalStep /\ UNCHANGED grabVars)
         \/ Crash
  PROVE  GrabInv'
<1>0. LandingType /\ TypeInv
  BY DEF GrabInv, TypeInv
<1>1. ASSUME NEW g \in Grabs, Forgets(g) PROVE GrabInv'
  <2>1. /\ UNCHANGED <<lib, row, torrent, suspend, passing, placing, pass, again, misheard>> /\ known' = known \ {g}
        /\ LandingType'
    BY <1>0, <1>1, AskedKeeps DEF Forgets, history
  <2> QED
    BY <1>0, <2>1, BesidePasses DEF GrabInv, TypeInv, LibType, RowsType, ClientType, SuspendType, FlagType,
         TorrentsGoOn, RowsGoOn, FilesGoOn, RowsAreOfTorrents, OnlyLostIsCancelled
<1>2. ASSUME NEW i \in Items, Arrives(<<Home, i>>), UNCHANGED grabVars PROVE GrabInv'
  <2> DEFINE path == <<Home, i>>
  <2>1. path \in Paths /\ "others" \in Owners
    BY GrabConstants DEF Paths
  <2> HIDE DEF path
  <2>2. /\ lib' = [x \in DOMAIN lib \cup {path} |-> IF x = path THEN "others" ELSE lib[x]]
        /\ UNCHANGED <<indexed, landing, shown, scan>> /\ arrived' = arrived \cup {<<path, "placed">>}
        /\ Asked("arrival")
    BY <1>2 DEF Arrives, Puts, path
  <2>3. LandingType'
    BY <1>0, <2>1, <2>2, LandingConstants DEF LandingType, Asked
  <2>4. LibType' /\ FilesGoOn
    BY <1>0, <2>1, <2>2 DEF TypeInv, LibType, FilesGoOn
  <2> QED
    BY <1>0, <1>2, <2>3, <2>4, BesidePasses DEF GrabInv, TypeInv, RowsType, ClientType, SuspendType, FlagType,
         TorrentsGoOn, RowsGoOn, RowsAreOfTorrents, OnlyLostIsCancelled, grabVars, history
<1>3. CASE ArrivalStep /\ UNCHANGED grabVars
  <2>1. PICK path \in Paths : ArrivalRecords(path) \/ ArrivalAnnounces(path)
    BY <1>3 DEF ArrivalStep
  <2>2. [path |-> path, state |-> "waiting"] \in Landing /\ path[2] \in Items /\ "awaiting_index" \in Shown
    BY DEF Landing, Paths, Shown
  <2>3. LandingType' /\ UNCHANGED lib
    BY <1>0, <2>1, <2>2 DEF ArrivalRecords, ArrivalAnnounces, Records, Announced, LandingType, Landings
  <2> QED
    BY <1>0, <1>3, <2>3, BesidePasses DEF GrabInv, TypeInv, LibType, RowsType, ClientType, SuspendType, FlagType,
         TorrentsGoOn, RowsGoOn, FilesGoOn, RowsAreOfTorrents, OnlyLostIsCancelled, grabVars, history
<1>4. CASE Crash
  <2>1. /\ UNCHANGED <<lib, indexed, landing, shown, row, torrent, known, again, misheard>> /\ arrived' = {} /\ asked' \in 0..MaxRequests
        /\ passing' = FALSE /\ placing' = {} /\ suspend' = Nobody /\ scan' = NoScan
        /\ pass' = [p \in Pollers |-> NoPass]
    BY <1>0, <1>4, LandingConstants DEF Crash, Asked, LandingType, history
  <2>2. \A p \in Pollers : pass'[p] = NoPass
    BY <2>1
  <2>3. \A p \in Pollers : PassShape(pass'[p]) /\ PassHeard(pass'[p], torrent', again', misheard') /\ PassFiles(pass'[p], row', lib')
    BY <2>2, IdleIsFine
  <2>4. OnePass' /\ PlacingIsExact' /\ pass' \in [Pollers -> Pass]
    BY <2>1, <2>2, Literals DEF OnePass, PlacingIsExact, Filing
  <2>5. TypeInv'
    BY <1>0, <2>1, Literals DEF TypeInv, LibType, LandingType, RowsType, ClientType, SuspendType, FlagType
  <2>6. RowsAreOfTorrents' /\ OnlyLostIsCancelled'
    BY <2>1, Literals DEF GrabInv, RowsAreOfTorrents, OnlyLostIsCancelled
  <2> QED
    BY <2>3, <2>4, <2>5, <2>6 DEF GrabInv
<1> QED
  BY <1>1, <1>2, <1>3, <1>4

-----------------------------------------------------------------------------
(* The steps of a pass.                                                    *)

\* What the pass itself may do to torrents.
TorrentsStay ==
  /\ again' = again /\ misheard \subseteq misheard'
  /\ \A g \in Grabs : /\ torrent[g].state # None => torrent'[g].state # None
                      /\ torrent[g].state = "gone" => torrent'[g].state = "gone"

LEMMA PlacingNow ==
  ASSUME GrabInv, NEW p \in Pollers, pass[p].pc # "idle"
  PROVE  placing = IF pass[p].pc \in Filing THEN {pass[p].at} ELSE {}
<1>1. \A r \in Pollers : r # p => pass[r].pc = "idle"
  BY DEF GrabInv, OnePass
<1>2. {r \in Pollers : pass[r].pc \in Filing} = IF pass[p].pc \in Filing THEN {p} ELSE {}
  BY <1>1 DEF Filing
<1> QED
  BY <1>2 DEF GrabInv, PlacingIsExact

\* All that a step of a pass has to show.
LEMMA PassMoves ==
  ASSUME GrabInv, NEW p \in Pollers, pass[p].pc # "idle", NEW q, pass' = [pass EXCEPT ![p] = q],
         PassShape(q), PassHeard(q, torrent', again', misheard'), PassFiles(q, row', lib'),
         q.pc # "idle" => passing', passing' \in BOOLEAN,
         placing' = IF q.pc \in Filing THEN {q.at} ELSE {}, UNCHANGED <<known, suspend>>,
         LibType', LandingType', RowsType', ClientType', TorrentsStay,
         again' \cup misheard' \subseteq Grabs,
         \A g \in Grabs : row'[g].state # None => torrent'[g].state # None, OnlyLostIsCancelled'
  PROVE  GrabInv'
<1>1. /\ pass' \in [Pollers -> Pass] /\ OnePass' /\ pass'[p] = q
      /\ \A r \in Pollers : PassShape(pass'[r]) /\ PassHeard(pass'[r], torrent', again', misheard') /\ PassFiles(pass'[r], row', lib')
      /\ \A r \in Pollers : r # p => pass[r].pc = "idle" /\ pass'[r].pc = "idle"
  BY OnePassMoves
<1>2. PlacingIsExact'
  BY <1>1, WhoIsPlaced DEF GrabInv
<1>3. SuspendType' /\ FlagType' /\ RowsAreOfTorrents'
  BY DEF GrabInv, TypeInv, SuspendType, FlagType, RowsAreOfTorrents, TorrentsStay
<1> QED
  BY <1>1, <1>2, <1>3 DEF GrabInv, TypeInv

\* save, of a row somebody has read.
LEMMA SavesKeep ==
  ASSUME GrabInv, NEW g \in Grabs, NEW e \in Row, Saves(g, e), e.named \subseteq Pack[g], TorrentsStay,
         torrent[g].state # None, e.state = "cancelled" => Lost(torrent'[g]) \/ g \in again' \cup misheard'
  PROVE  /\ RowsType' /\ OnlyLostIsCancelled' /\ row'[g] = e /\ \A h \in Grabs : h # g => row'[h] = row[h]
         /\ \A h \in Grabs : row'[h].state # None => torrent'[h].state # None
<1>1. /\ row \in [Grabs -> Row] /\ row' \in [Grabs -> Row] /\ row'[g] = e
      /\ \A h \in Grabs : h # g => row'[h] = row[h]
  BY DEF GrabInv, TypeInv, RowsType, Saves
<1>2. RowsType'
  BY <1>1 DEF GrabInv, TypeInv, RowsType
<1>3. OnlyLostIsCancelled'
  BY <1>1 DEF GrabInv, OnlyLostIsCancelled, Lost, TorrentsStay, RowsAreOfTorrents, None
<1> QED
  BY <1>1, <1>2, <1>3 DEF GrabInv, RowsAreOfTorrents, TorrentsStay

LEMMA UnsavedKeep ==
  ASSUME GrabInv, UNCHANGED row, TorrentsStay
  PROVE  /\ RowsType' /\ OnlyLostIsCancelled' /\ \A h \in Grabs : row'[h].state # None => torrent'[h].state # None
BY DEF GrabInv, TypeInv, RowsType, OnlyLostIsCancelled, RowsAreOfTorrents, TorrentsStay, Lost, None

\* A grab is done with, and the pass turns to the next.
LEMMA TurnsKeep ==
  ASSUME GrabInv, NEW p \in Pollers, pass[p].pc \notin {"idle", "ask"}, NEW g \in pass[p].todo,
         pass[p].pc = "loop" \/ g = pass[p].at, Turns(p, g), UNCHANGED <<landingVars, again, misheard, known, passing, suspend>>,
         placing' = {}, ClientType', TorrentsStay,
         \/ UNCHANGED row
         \/ \E e \in Row : /\ Saves(g, e) /\ e.named \subseteq Pack[g]
                           /\ e.state = "cancelled" => Lost(torrent'[g]) \/ g \in again' \cup misheard'
  PROVE  GrabInv'
<1> DEFINE o == pass[p]
           q == [NoPass EXCEPT !.pc = "loop", !.ents = o.ents, !.seen = o.seen, !.todo = o.todo \ {g}]
<1>1. /\ PassShape(o) /\ PassHeard(o, torrent, again, misheard) /\ PassFiles(o, row, lib) /\ o \in Pass /\ o.todo \subseteq DOMAIN o.ents
      /\ DOMAIN o.ents \subseteq Grabs /\ g \in Grabs /\ torrent[g].state # None
  BY EntitiesHave DEF GrabInv, PassShape, Pass, PassHeard
<1>2. /\ RowsType' /\ OnlyLostIsCancelled' /\ \A h \in Grabs : row'[h].state # None => torrent'[h].state # None
      /\ \A h \in Grabs : h # g => row'[h] = row[h]
  BY <1>1, SavesKeep, UnsavedKeep
<1>3. q \in Pass /\ q.pc = "loop" /\ q.todo = o.todo \ {g} /\ q.ents = o.ents /\ q.seen = o.seen
  <2> DEFINE ents == o.ents
             seen == o.seen
             todo == o.todo \ {g}
  <2>1. ents \in Entities /\ seen \in {<<>>} \cup [Grabs -> Torrent] /\ todo \in SUBSET Grabs
    BY <1>1 DEF Pass
  <2>2. q = [NoPass EXCEPT !.pc = "loop", !.ents = ents, !.seen = seen, !.todo = todo]
    OBVIOUS
  <2> HIDE DEF ents, seen, todo, q
  <2>3. q = [pc |-> "loop", ents |-> ents, seen |-> seen, todo |-> todo, at |-> None,
             left |-> {}, way |-> "one", path |-> <<>>]
    BY <2>2 DEF NoPass
  <2>4. q \in Pass /\ q.pc = "loop" /\ q.todo = todo /\ q.ents = ents /\ q.seen = seen
    BY <2>1, <2>3 DEF Pass, Phases, Ways
  <2> QED
    BY <2>4 DEF ents, seen, todo
<1>4. pass' = [pass EXCEPT ![p] = q]
  <2>1. pass \in [Pollers -> Pass]
    BY DEF GrabInv
  <2> QED
    BY <2>1 DEF Turns
<1> HIDE DEF q
<1>5. PassShape(q)
  BY <1>1, <1>3 DEF PassShape
<1>6. PassHeard(q, torrent', again', misheard')
  BY <1>1, <1>3 DEF PassHeard, TorrentsStay, Lost
<1>7. PassFiles(q, row', lib')
  <2>1. \A h \in q.todo : row'[h].state # "placed"
    BY <1>1, <1>2, <1>3 DEF PassFiles, Pending
  <2> QED
    BY <2>1, <1>3 DEF PassFiles, Pending, Filing
<1>8. passing' /\ passing' \in BOOLEAN /\ q.pc \notin Filing
  BY <1>3 DEF GrabInv, OnePass, TypeInv, FlagType, Filing
<1>9. LibType' /\ LandingType' /\ again' \cup misheard' \subseteq Grabs
  BY DEF GrabInv, TypeInv, LibType, LandingType, FlagType, landingVars
<1> QED
  BY <1>2, <1>4, <1>5, <1>6, <1>7, <1>8, <1>9, PassMoves

\* What a pass is when it is at work.
LEMMA AtWork ==
  ASSUME GrabInv, NEW p \in Pollers, pass[p].pc # "idle"
  PROVE  LET o == pass[p]
         IN  /\ pass \in [Pollers -> Pass] /\ o \in Pass /\ PassShape(o) /\ PassHeard(o, torrent, again, misheard) /\ PassFiles(o, row, lib)
             /\ o.todo \subseteq DOMAIN o.ents /\ DOMAIN o.ents \subseteq Grabs /\ passing
             /\ \A g \in DOMAIN o.ents : /\ o.ents[g] \in Row /\ o.ents[g].named \subseteq Pack[g]
                                         /\ o.ents[g].state \in Live \cup {"placed"}
<1>1. pass \in [Pollers -> Pass] /\ pass[p] \in Pass /\ pass[p].ents \in Entities
  BY DEF GrabInv, Pass
<1> QED
  BY <1>1, EntitiesHave DEF GrabInv, OnePass, PassShape

\* A pass that breaks off or ends leaves everything as it is.
LEMMA EndsKeep == ASSUME GrabInv, NEW p \in Pollers, PassBreaks(p) \/ PassEnds(p) PROVE GrabInv'
<1>1. /\ pass[p].pc \in {"ask", "files", "select", "start", "loop"} /\ pass' = [pass EXCEPT ![p] = NoPass] /\ passing' = FALSE
      /\ UNCHANGED <<lib, row, torrent, again, misheard, known, placing, suspend>>
  BY DEF PassBreaks, PassEnds, At, landingVars, history
<1>2. LandingType'
  BY AskedKeeps DEF PassBreaks, PassEnds, landingVars, GrabInv, TypeInv
<1>3. PassShape(NoPass) /\ PassHeard(NoPass, torrent', again', misheard') /\ PassFiles(NoPass, row', lib') /\ NoPass.pc = "idle"
  BY IdleIsFine, Literals
<1>4. placing' = {} /\ "idle" \notin Filing
  BY <1>1, PlacingNow DEF Filing
<1>5. TorrentsStay
  BY <1>1 DEF TorrentsStay
<1>6. RowsType' /\ OnlyLostIsCancelled' /\ \A h \in Grabs : row'[h].state # None => torrent'[h].state # None
  BY <1>1, <1>5, UnsavedKeep
<1>7. LibType' /\ ClientType' /\ again' \cup misheard' \subseteq Grabs
  BY <1>1 DEF GrabInv, TypeInv, LibType, ClientType, FlagType
<1>8. pass[p].pc # "idle"
  BY <1>1
<1> QED
  BY <1>1, <1>2, <1>3, <1>4, <1>5, <1>6, <1>7, <1>8, PassMoves

LEMMA StartsKeep == ASSUME GrabInv, NEW p \in Pollers, PollStarts(p) PROVE GrabInv'
<1> DEFINE live == {g \in Grabs : row[g].state \in Live}
           q == [NoPass EXCEPT !.pc = "ask", !.ents = [g \in live |-> row[g]]]
<1>1. /\ ~passing /\ passing' = TRUE /\ pass' = [pass EXCEPT ![p] = q]
      /\ UNCHANGED <<landingVars, row, torrent, again, misheard, known, placing, suspend>>
  BY DEF PollStarts, history
<1>2. row \in [Grabs -> Row] /\ pass \in [Pollers -> Pass]
  BY DEF GrabInv, TypeInv, RowsType
<1>3. [g \in live |-> row[g]] \in Entities
  BY <1>2, EntitiesAre
<1>4. q \in Pass /\ q.pc = "ask" /\ q.todo = {} /\ q.ents = [g \in live |-> row[g]]
  BY <1>3, Literals DEF Pass, Phases
<1> HIDE DEF q
<1>5. PassShape(q)
  BY <1>4 DEF PassShape, GrabInv, TypeInv, RowsType
<1>6. PassHeard(q, torrent, again, misheard)
  BY <1>4 DEF PassHeard, GrabInv, RowsAreOfTorrents, Live, None
<1>7. PassFiles(q, row, lib)
  BY <1>4 DEF PassFiles, Filing, Pending, Live
<1>8. \A r \in Pollers : pass[r].pc = "idle"
  BY <1>1 DEF GrabInv, OnePass
<1>9. pass'[p] = q /\ pass' \in [Pollers -> Pass] /\ \A r \in Pollers : r # p => pass'[r] = pass[r]
  BY <1>1, <1>2, <1>4
<1>10. OnePass'
  BY <1>1, <1>8, <1>9 DEF OnePass
<1>11. PlacingIsExact'
  <2>1. {r \in Pollers : pass[r].pc \in Filing} = {} /\ {r \in Pollers : pass'[r].pc \in Filing} = {}
    BY <1>4, <1>8, <1>9 DEF Filing
  <2> QED
    BY <1>1, <2>1 DEF GrabInv, PlacingIsExact
<1>12. TypeInv' /\ RowsAreOfTorrents' /\ OnlyLostIsCancelled'
  BY <1>1 DEF GrabInv, TypeInv, LibType, LandingType, RowsType, ClientType, SuspendType, FlagType, RowsAreOfTorrents,
       OnlyLostIsCancelled, landingVars
<1>13. \A r \in Pollers : PassShape(pass'[r]) /\ PassHeard(pass'[r], torrent', again', misheard') /\ PassFiles(pass'[r], row', lib')
  BY <1>1, <1>5, <1>6, <1>7, <1>9 DEF GrabInv, landingVars
<1> QED
  BY <1>9, <1>10, <1>11, <1>12, <1>13 DEF GrabInv

\* A step of a pass that changes nothing but the pass.
LEMMA OnlyPassMoves ==
  ASSUME GrabInv, NEW p \in Pollers, pass[p].pc \notin {"idle"} \cup Filing, NEW q, pass' = [pass EXCEPT ![p] = q],
         UNCHANGED <<lib, row, torrent, again, known, passing, placing, suspend>>, LandingType',
         misheard \subseteq misheard', misheard' \subseteq Grabs,
         PassShape(q), PassHeard(q, torrent, again, misheard'), PassFiles(q, row, lib), q.pc \notin Filing
  PROVE  GrabInv'
<1>1. placing' = {} /\ passing' /\ passing' \in BOOLEAN /\ pass[p].pc # "idle"
  BY PlacingNow, AtWork DEF GrabInv, TypeInv, FlagType
<1>2. TorrentsStay
  BY DEF TorrentsStay
<1>3. RowsType' /\ OnlyLostIsCancelled' /\ \A h \in Grabs : row'[h].state # None => torrent'[h].state # None
  BY <1>2, UnsavedKeep
<1>4. LibType' /\ ClientType' /\ again' \cup misheard' \subseteq Grabs
  BY DEF GrabInv, TypeInv, LibType, ClientType, FlagType
<1>5. PassHeard(q, torrent', again', misheard') /\ PassFiles(q, row', lib')
  OBVIOUS
<1> QED
  BY <1>1, <1>2, <1>3, <1>4, <1>5, PassMoves

LEMMA AsksKeep == ASSUME GrabInv, NEW p \in Pollers, PassAsks(p) PROVE GrabInv'
<1> DEFINE o == pass[p]
<1>0. /\ o.pc = "ask" /\ o.pc \notin {"idle"} \cup Filing
      /\ UNCHANGED <<lib, indexed, landing, shown, scan, arrived, row, torrent, again, known, passing, placing, suspend>>
  BY DEF PassAsks, At, Filing
<1>1. /\ pass \in [Pollers -> Pass] /\ o \in Pass /\ PassShape(o) /\ PassHeard(o, torrent, again, misheard)
      /\ PassFiles(o, row, lib) /\ DOMAIN o.ents \subseteq Grabs /\ torrent \in [Grabs -> Torrent]
      /\ LandingType /\ misheard \subseteq Grabs
  BY <1>0, AtWork DEF GrabInv, TypeInv, ClientType, FlagType
<1>2. PICK seen \in [Grabs -> Torrent] :
        /\ Hears(p, seen) /\ misheard \subseteq misheard' /\ misheard' \subseteq Grabs
        /\ seen = torrent \/ DOMAIN o.ents \subseteq misheard'
        /\ UNCHANGED asked \/ Asked("garbled")
  <2>1. CASE Hears(p, torrent) /\ UNCHANGED <<asked, misheard>>
    BY <1>1, <2>1
  <2>2. CASE /\ Asked("garbled") /\ Hears(p, [g \in Grabs |-> NoTorrent])
             /\ misheard' = misheard \cup DOMAIN pass[p].ents
    <3>1. [g \in Grabs |-> NoTorrent] \in [Grabs -> Torrent]
      BY Literals
    <3> QED
      BY <1>1, <2>2, <3>1
  <2> QED
    BY <2>1, <2>2 DEF PassAsks
<1> DEFINE q == [o EXCEPT !.pc = "loop", !.seen = seen, !.todo = DOMAIN o.ents]
<1>3. pass' = [pass EXCEPT ![p] = q]
  BY <1>1, <1>2 DEF Hears
<1>4. q \in Pass /\ q.pc = "loop" /\ q.todo = DOMAIN o.ents /\ q.ents = o.ents /\ q.seen = seen
  BY <1>1 DEF Pass, Phases
<1> HIDE DEF q
<1>5. PassShape(q)
  BY <1>1, <1>4 DEF PassShape
<1>6. PassHeard(q, torrent, again, misheard')
  BY <1>1, <1>2, <1>4 DEF PassHeard
<1>7. PassFiles(q, row, lib) /\ q.pc \notin Filing
  BY <1>0, <1>1, <1>4 DEF PassFiles, Pending, Filing
<1>8. LandingType'
  BY <1>0, <1>1, <1>2, AskedKeeps
<1> QED
  BY <1>0, <1>2, <1>3, <1>5, <1>6, <1>7, <1>8, OnlyPassMoves

LEMMA TakesKeep == ASSUME GrabInv, NEW p \in Pollers, NEW g \in Grabs, PassTakes(p, g) PROVE GrabInv'
<1> DEFINE o == pass[p]
           e == o.ents[g]
<1>0. /\ o.pc = "loop" /\ g \in o.todo
      /\ UNCHANGED <<landingVars, again, misheard, torrent, known, passing, placing, suspend>>
  BY DEF PassTakes, At, history
<1>1. /\ pass \in [Pollers -> Pass] /\ o \in Pass /\ PassShape(o) /\ PassHeard(o, torrent, again, misheard) /\ PassFiles(o, row, lib)
      /\ o.todo \subseteq DOMAIN o.ents /\ e \in Row /\ e.named \subseteq Pack[g] /\ g \in DOMAIN o.ents
  BY <1>0, AtWork
<1>2. TorrentsStay /\ ClientType' /\ placing' = {}
  BY <1>0, PlacingNow DEF TorrentsStay, ClientType, GrabInv, TypeInv, Filing
<1>3. CASE Settles(p, g)
  <2>1. Turns(p, g)
    BY <1>3 DEF Settles
  <2>2. UNCHANGED row \/ \E x \in Row : /\ Saves(g, x) /\ x.named \subseteq Pack[g]
                                        /\ x.state = "cancelled" => Lost(torrent'[g]) \/ g \in again' \cup misheard'
    <3>1. /\ \/ Lost(o.seen[g]) /\ (Saves(g, [e EXCEPT !.state = "cancelled"]) \/ UNCHANGED row)
             \/ \E s \in {"failed", "paused", "downloading"} : Saves(g, [e EXCEPT !.state = s])
      BY <1>3 DEF Settles
    <3>2. Lost(o.seen[g]) => Lost(torrent'[g]) \/ g \in again' \cup misheard'
      BY <1>0, <1>1 DEF PassHeard
    <3>3. \A s \in {"cancelled", "failed", "paused", "downloading"} :
            LET x == [e EXCEPT !.state = s] IN x \in Row /\ x.named \subseteq Pack[g] /\ x.state = s
      BY <1>1 DEF Row, States, Live
    <3> QED
      BY <3>1, <3>2, <3>3
  <2> QED
    BY <1>0, <1>2, <2>1, <2>2, TurnsKeep
<1>4. CASE pass' = [pass EXCEPT ![p] = [@ EXCEPT !.pc = "files", !.at = g]] /\ UNCHANGED row
  <2> DEFINE q == [o EXCEPT !.pc = "files", !.at = g]
  <2>1. pass' = [pass EXCEPT ![p] = q]
    BY <1>1, <1>4
  <2>2. q \in Pass /\ q.pc = "files" /\ q.at = g /\ q.todo = o.todo /\ q.ents = o.ents /\ q.seen = o.seen
    BY <1>1 DEF Pass, Phases
  <2> HIDE DEF q
  <2>3. PassShape(q)
    BY <1>0, <1>1, <2>2 DEF PassShape
  <2>4. PassHeard(q, torrent, again, misheard)
    BY <1>0, <1>1, <2>2 DEF PassHeard
  <2>5. PassFiles(q, row, lib) /\ q.pc \notin Filing /\ o.pc \notin {"idle"} \cup Filing
    BY <1>0, <1>1, <2>2 DEF PassFiles, Pending, Filing
  <2>6. LandingType' /\ UNCHANGED lib /\ misheard' = misheard /\ misheard \subseteq Grabs
    BY <1>0 DEF GrabInv, TypeInv, LandingType, FlagType, landingVars
  <2> QED
    BY <1>0, <1>4, <2>1, <2>3, <2>4, <2>5, <2>6, OnlyPassMoves
<1> QED
  BY <1>3, <1>4 DEF PassTakes

LEMMA ChoosesKeep ==
  ASSUME GrabInv, NEW p \in Pollers, ChooseReads(p) \/ ChooseSelects(p) \/ ChooseStarts(p)
  PROVE  GrabInv'
<1> DEFINE o == pass[p]
           g == o.at
           e == o.ents[g]
<1>0. /\ o.pc \in {"files", "select", "start"}
      /\ UNCHANGED <<landingVars, again, misheard, known, passing, placing, suspend>>
  BY DEF ChooseReads, ChooseSelects, ChooseStarts, At, Step, history
<1>1. /\ pass \in [Pollers -> Pass] /\ o \in Pass /\ PassShape(o) /\ PassHeard(o, torrent, again, misheard) /\ PassFiles(o, row, lib)
      /\ o.todo \subseteq DOMAIN o.ents /\ g \in o.todo /\ g \in Grabs /\ e \in Row /\ e.named \subseteq Pack[g]
      /\ torrent \in [Grabs -> Torrent] /\ ClientType /\ torrent[g].state # None
  BY <1>0, AtWork DEF PassShape, PassHeard, GrabInv, TypeInv, ClientType
<1>2. /\ placing' = {} /\ o.pc \notin {"idle"} \cup Filing /\ o.pc \notin {"idle", "ask"} /\ passing' /\ passing' \in BOOLEAN
  BY <1>0, PlacingNow, AtWork DEF Filing, GrabInv, TypeInv, FlagType
<1>3. Matches(g) \in SUBSET Items /\ Matches(g) \subseteq Pack[g] /\ Matches(g) \subseteq Wanted[g]
  BY <1>1, GrabConstants DEF Matches, ClientType
<1>4. CASE ChooseReads(p)
  <2>1. UNCHANGED torrent /\ TorrentsStay /\ ClientType'
    BY <1>0, <1>1, <1>4 DEF ChooseReads, TorrentsStay, ClientType
  <2>2. CASE Turns(p, g) /\ (UNCHANGED row \/ Saves(g, [e EXCEPT !.state = "failed"]))
    <3>1. LET x == [e EXCEPT !.state = "failed"] IN x \in Row /\ x.named \subseteq Pack[g] /\ x.state = "failed"
      BY <1>1 DEF Row, States
    <3>2. UNCHANGED row \/ \E x \in Row : /\ Saves(g, x) /\ x.named \subseteq Pack[g]
                                          /\ x.state = "cancelled" => Lost(torrent'[g]) \/ g \in again' \cup misheard'
      BY <2>2, <3>1
    <3> QED
      BY <1>0, <1>1, <1>2, <2>1, <2>2, <3>2, TurnsKeep
  <2>3. CASE Goto(p, "select") /\ UNCHANGED row
    <3> DEFINE q == [o EXCEPT !.pc = "select"]
    <3>1. pass' = [pass EXCEPT ![p] = q]
      BY <1>1, <2>3 DEF Goto
    <3>2. q \in Pass /\ q.pc = "select" /\ q.at = g /\ q.todo = o.todo /\ q.ents = o.ents /\ q.seen = o.seen
      BY <1>1 DEF Pass, Phases
    <3>3. o.pc = "files"
      BY <1>4 DEF ChooseReads, At
    <3> HIDE DEF q
    <3>4. PassShape(q) /\ PassHeard(q, torrent, again, misheard)
      BY <1>1, <3>2, <3>3 DEF PassShape, PassHeard
    <3>5. PassFiles(q, row, lib) /\ q.pc \notin Filing
      BY <1>1, <3>2, <3>3 DEF PassFiles, Pending, Filing
    <3>6. LandingType' /\ UNCHANGED lib /\ misheard' = misheard /\ misheard \subseteq Grabs
      BY <1>0 DEF GrabInv, TypeInv, LandingType, FlagType, landingVars
    <3> QED
      BY <1>0, <1>2, <2>1, <2>3, <3>1, <3>4, <3>5, <3>6, OnlyPassMoves
  <2> QED
    BY <1>4, <2>2, <2>3 DEF ChooseReads, Ent
<1>5. CASE ChooseSelects(p)
  <2> DEFINE q == [o EXCEPT !.pc = "start"]
             t == [torrent[g] EXCEPT !.chosen = Matches(g)]
  <2>1. pass' = [pass EXCEPT ![p] = q] /\ torrent' = [torrent EXCEPT ![g] = t] /\ UNCHANGED row /\ o.pc = "select"
    BY <1>1, <1>5 DEF ChooseSelects, Goto, At
  <2>2. q \in Pass /\ q.pc = "start" /\ q.at = g /\ q.todo = o.todo /\ q.ents = o.ents /\ q.seen = o.seen
    BY <1>1 DEF Pass, Phases
  <2>3. t \in Torrent /\ t.state = torrent[g].state /\ t.chosen = Matches(g) /\ t.says = torrent[g].says
    BY <1>1, <1>3 DEF Torrent
  <2> HIDE DEF q, t
  <2>4. torrent' \in [Grabs -> Torrent] /\ torrent'[g] = t /\ \A h \in Grabs : h # g => torrent'[h] = torrent[h]
    BY <1>1, <2>1, <2>3
  <2>5. TorrentsStay /\ ClientType'
    BY <1>0, <1>1, <1>3, <2>3, <2>4 DEF TorrentsStay, ClientType
  <2>6. PassShape(q)
    BY <1>1, <2>1, <2>2 DEF PassShape
  <2>7. PassHeard(q, torrent', again', misheard')
    <3>1. DOMAIN o.ents \subseteq Grabs
      BY <1>0, AtWork
    <3> QED
      BY <1>0, <1>1, <1>3, <2>1, <2>2, <2>3, <2>4, <2>5, <3>1 DEF PassHeard, TorrentsStay, Lost
  <2>8. PassFiles(q, row', lib') /\ q.pc \notin Filing
    BY <1>0, <1>1, <2>1, <2>2 DEF PassFiles, Pending, Filing, landingVars
  <2>9. RowsType' /\ OnlyLostIsCancelled' /\ \A h \in Grabs : row'[h].state # None => torrent'[h].state # None
    BY <2>1, <2>5, UnsavedKeep
  <2>10. LibType' /\ LandingType' /\ UNCHANGED <<known, suspend>> /\ again' \cup misheard' \subseteq Grabs
    BY <1>0 DEF GrabInv, TypeInv, LibType, LandingType, FlagType, landingVars
  <2> QED
    BY <1>2, <2>1, <2>5, <2>6, <2>7, <2>8, <2>9, <2>10, PassMoves
<1>6. CASE ChooseStarts(p)
  <2>1. PICK s \in {"running", torrent[g].state} :
          /\ torrent' = [torrent EXCEPT ![g] = [torrent[g] EXCEPT !.state = s]]
          /\ torrent[g].state = "gone" => s = "gone"
    BY <1>1, <1>6 DEF ChooseStarts
  <2> DEFINE t == [torrent[g] EXCEPT !.state = s]
             x == [e EXCEPT !.state = "downloading", !.named = Matches(g)]
  <2>2. t \in Torrent /\ t.state = s /\ t.chosen = torrent[g].chosen /\ t.says = torrent[g].says
    BY <1>1, <2>1 DEF Torrent
  <2>3. x \in Row /\ x.named \subseteq Pack[g] /\ x.state = "downloading" /\ Saves(g, x) /\ Turns(p, g)
    BY <1>1, <1>3, <1>6 DEF Row, States, Live, ChooseStarts, Ent
  <2>4. torrent' = [torrent EXCEPT ![g] = t]
    BY <2>1
  <2> HIDE DEF t, x
  <2>5. torrent' \in [Grabs -> Torrent] /\ torrent'[g] = t /\ \A h \in Grabs : h # g => torrent'[h] = torrent[h]
    BY <1>1, <2>2, <2>4
  <2>6. TorrentsStay /\ ClientType'
    BY <1>0, <1>1, <2>1, <2>2, <2>5 DEF TorrentsStay, ClientType, None
  <2> QED
    BY <1>0, <1>1, <1>2, <2>3, <2>6, TurnsKeep
<1> QED
  BY <1>4, <1>5, <1>6

-----------------------------------------------------------------------------
(* Filing.                                                                 *)

\* The row of an entity with one more field written.
LEMMA EntityWritten ==
  ASSUME NEW x \in Entities, NEW g \in DOMAIN x, NEW e \in Row
  PROVE  LET y == [x EXCEPT ![g] = e]
         IN  y \in Entities /\ DOMAIN y = DOMAIN x /\ y[g] = e /\ \A h \in DOMAIN x : h # g => y[h] = x[h]
<1>1. PICK G \in SUBSET Grabs : x \in [G -> Row]
  BY EntitiesAre
<1>2. [x EXCEPT ![g] = e] \in [G -> Row]
  BY <1>1
<1> QED
  BY <1>1, <1>2, EntitiesAre

LEMMA BeginsKeep == ASSUME GrabInv, NEW p \in Pollers, NEW g \in Grabs, PlaceBegins(p, g) PROVE GrabInv'
<1> DEFINE o == pass[p]
           files == torrent[g].chosen \cap torrent[g].says
<1>0. /\ o.pc = "loop" /\ g \in o.todo /\ UNCHANGED <<landingVars, again, misheard, torrent, known, passing, suspend>>
  BY DEF PlaceBegins, At, history
<1>1. /\ pass \in [Pollers -> Pass] /\ o \in Pass /\ PassShape(o) /\ PassHeard(o, torrent, again, misheard) /\ PassFiles(o, row, lib)
      /\ o.todo \subseteq DOMAIN o.ents /\ DOMAIN o.ents \subseteq Grabs /\ g \in DOMAIN o.ents
      /\ o.ents[g] \in Row /\ o.ents[g].named \subseteq Pack[g] /\ passing /\ torrent[g].state # None
      /\ o.ents \in Entities /\ ClientType /\ Pack[g] \subseteq Items
  BY <1>0, AtWork, GrabConstants DEF PassHeard, GrabInv, TypeInv, Pass
<1>2. placing = {}
  BY <1>0, PlacingNow DEF Filing
<1> DEFINE Begun(left, way, ent) ==
             /\ Saves(g, ent) /\ placing' = placing \cup {g}
             /\ pass' = [pass EXCEPT ![p] = [o EXCEPT !.pc = "resolve", !.at = g, !.left = left, !.way = way,
                                                      !.ents = [o.ents EXCEPT ![g] = ent]]]
           Fetched(ent) == ent \in Row /\ ent.named \subseteq Pack[g] /\ ent.state = "fetched"
<1>3. ItemOf(g) \in Items
  BY GrabConstants DEF ItemOf
<1>4. PICK left \in SUBSET Items, way \in Ways, ent \in Row :
        /\ Begun(left, way, ent) /\ Fetched(ent)
        /\ way \notin Several => \A i, j \in left : i = j
  <2> DEFINE e == [o.ents[g] EXCEPT !.state = "fetched"]
             f == [e EXCEPT !.named = files]
  <2>1. files \subseteq Pack[g] /\ torrent[g].chosen \subseteq Items
    BY <1>1 DEF ClientType
  <2>2. Fetched(e) /\ Fetched(f)
    BY <1>1, <2>1 DEF Row, States, Live
  <2>3. \/ \E i \in torrent[g].chosen : Begun({i}, "orphan", e)
        \/ Begun(e.named, "each", e) \/ Begun(files, "each", f) \/ Begun({ItemOf(g)}, "one", e)
    BY <1>2 DEF PlaceBegins
  <2>4. e \in Row /\ f \in Row /\ e.named \subseteq Pack[g]
    BY <2>2
  <2>5. /\ {ItemOf(g)} \in SUBSET Items /\ files \in SUBSET Items /\ e.named \in SUBSET Items
        /\ {"each", "one", "orphan"} \subseteq Ways /\ "each" \in Several
    BY <1>1, <1>3, <2>1, <2>4 DEF Ways, Several
  <2> HIDE DEF e, f, files, Begun, Fetched
  <2>6. ASSUME NEW i \in torrent[g].chosen, Begun({i}, "orphan", e)
        PROVE  \E left \in SUBSET Items, way \in Ways, ent \in Row :
                 Begun(left, way, ent) /\ Fetched(ent) /\ (way \notin Several => \A x, y \in left : x = y)
    <3>1. {i} \in SUBSET Items
      BY <2>1
    <3> QED
      BY <2>2, <2>4, <2>5, <2>6, <3>1
  <2>7. CASE Begun(e.named, "each", e)
    BY <2>2, <2>4, <2>5, <2>7
  <2>8. CASE Begun(files, "each", f)
    BY <2>1, <2>2, <2>4, <2>5, <2>8
  <2>9. CASE Begun({ItemOf(g)}, "one", e)
    BY <2>2, <2>4, <2>5, <2>9
  <2> QED
    BY <2>3, <2>6, <2>7, <2>8, <2>9
<1> DEFINE ents == [o.ents EXCEPT ![g] = ent]
           q == [o EXCEPT !.pc = "resolve", !.at = g, !.left = left, !.way = way, !.ents = ents]
<1>5. Saves(g, ent) /\ placing' = {g} /\ pass' = [pass EXCEPT ![p] = q]
  BY <1>2, <1>4
<1>6. ent \in Row /\ ent.named \subseteq Pack[g] /\ ent.state = "fetched"
  BY <1>4
<1>7. /\ ents \in Entities /\ DOMAIN ents = DOMAIN o.ents /\ ents[g] = ent /\ \A h \in DOMAIN ents : h # g => ents[h] = o.ents[h]
  BY <1>1, <1>6, EntityWritten
<1> HIDE DEF ents
<1>8. /\ q.pc = "resolve" /\ q.at = g /\ q.left = left /\ q.way = way /\ q.ents = ents
      /\ q.todo = o.todo /\ q.seen = o.seen
  BY <1>1 DEF Pass
<1>9. q \in Pass
  <2> DEFINE r == [o EXCEPT !.pc = "resolve", !.at = g]
  <2>1. r \in Pass
    BY <1>1 DEF Pass, Phases
  <2>2. q = [r EXCEPT !.left = left, !.way = way, !.ents = ents]
    OBVIOUS
  <2> HIDE DEF r, q
  <2> QED
    BY <1>7, <2>1, <2>2 DEF Pass
<1> HIDE DEF q
<1>10. PassShape(q)
  BY <1>0, <1>1, <1>6, <1>7, <1>8, <1>9 DEF PassShape, Live
<1>11. PassHeard(q, torrent', again', misheard')
  BY <1>0, <1>1, <1>7, <1>8 DEF PassHeard
<1>12. /\ TorrentsStay /\ ClientType' /\ LibType' /\ LandingType' /\ UNCHANGED <<known, suspend>>
       /\ again' \cup misheard' \subseteq Grabs
  BY <1>0 DEF TorrentsStay, ClientType, LibType, LandingType, landingVars, GrabInv, TypeInv, FlagType
<1>13. /\ RowsType' /\ OnlyLostIsCancelled' /\ row'[g] = ent /\ \A h \in Grabs : h # g => row'[h] = row[h]
       /\ \A h \in Grabs : row'[h].state # None => torrent'[h].state # None
  BY <1>1, <1>5, <1>6, <1>12, SavesKeep
<1>14. PassFiles(q, row', lib')
  <2>1. \A h \in q.todo : row'[h].state # "placed"
    BY <1>0, <1>1, <1>6, <1>8, <1>13 DEF PassFiles, Pending
  <2>2. way \notin Several => \A i, j \in left : i = j
    BY <1>4
  <2> QED
    BY <2>1, <2>2, <1>6, <1>7, <1>8 DEF PassFiles, Pending, Filing
<1>15. placing' = (IF q.pc \in Filing THEN {q.at} ELSE {}) /\ passing' /\ passing' \in BOOLEAN /\ o.pc # "idle"
  BY <1>0, <1>1, <1>5, <1>8 DEF Filing, GrabInv, TypeInv, FlagType
<1> QED
  BY <1>5, <1>10, <1>11, <1>12, <1>13, <1>14, <1>15, PassMoves

\* A filing that is over, as it was meant or not.
LEMMA ReturnsKeep ==
  ASSUME GrabInv, NEW p \in Pollers, pass[p].pc \in Filing, UNCHANGED <<landingVars, again, misheard, torrent, known, passing, suspend>>,
         NEW e, PlaceReturns(p, e),
         e = row[pass[p].at] \/ (e \in Row /\ e.named \subseteq Pack[pass[p].at] /\ e.state # "cancelled")
  PROVE  GrabInv'
<1> DEFINE g == pass[p].at
<1>1. Saves(g, e) /\ Turns(p, g) /\ placing' = placing \ {g} /\ pass[p].pc \notin {"idle", "ask"}
  BY DEF PlaceReturns, Filing
<1>2. g \in pass[p].todo /\ g \in Grabs /\ row \in [Grabs -> Row]
  BY <1>1, AtWork DEF PassShape, Filing, GrabInv, TypeInv, RowsType
<1>3. placing' = {}
  BY <1>1, PlacingNow
<1>4. e = row[g] => UNCHANGED row
  BY <1>1, <1>2 DEF Saves
<1>5. TorrentsStay /\ ClientType'
  BY DEF TorrentsStay, ClientType, GrabInv, TypeInv
<1> QED
  BY <1>1, <1>2, <1>3, <1>4, <1>5, TurnsKeep

LEMMA FilesKeep ==
  ASSUME GrabInv, NEW p \in Pollers,
         PlaceSkips(p) \/ PlaceResolves(p) \/ PlaceMoves(p) \/ PlaceSaves(p) \/ PlaceAnnounces(p) \/ PlaceEnds(p)
  PROVE  GrabInv'
<1> DEFINE o == pass[p]
           g == o.at
           e == o.ents[g]
<1>0. o.pc \in Filing /\ UNCHANGED <<torrent, again, misheard, known, passing, suspend>>
  BY DEF PlaceSkips, PlaceResolves, PlaceMoves, PlaceSaves, PlaceAnnounces, PlaceEnds, At, Filing, history
<1>1. /\ pass \in [Pollers -> Pass] /\ o \in Pass /\ PassShape(o) /\ PassHeard(o, torrent, again, misheard) /\ PassFiles(o, row, lib)
      /\ o.todo \subseteq DOMAIN o.ents /\ g \in o.todo /\ g \in Grabs /\ e \in Row /\ e.named \subseteq Pack[g]
      /\ e.state \in Live \cup {"placed"} /\ DOMAIN o.ents \subseteq Grabs /\ o.pc # "idle" /\ o.ents \in Entities
      /\ torrent[g].state # None
  BY <1>0, AtWork DEF PassShape, PassHeard, Filing, Pass
<1>2. placing = {g} /\ passing' /\ passing' \in BOOLEAN
  BY <1>0, <1>1, PlacingNow, AtWork DEF GrabInv, TypeInv, FlagType
<1>3. LibType /\ LandingType /\ ClientType /\ ClientType' /\ TorrentsStay /\ again' \cup misheard' \subseteq Grabs
  BY <1>0 DEF GrabInv, TypeInv, ClientType, TorrentsStay, FlagType
<1>4. \A s \in {"failed", "placed"} :
        LET x == [e EXCEPT !.state = s] IN x \in Row /\ x.named \subseteq Pack[g] /\ x.state # "cancelled"
  BY <1>1 DEF Row, States
<1>10. CASE PlaceSkips(p)
  <2>1. PICK i \in o.left : pass' = [pass EXCEPT ![p].left = @ \ {i}]
    BY <1>10 DEF PlaceSkips
  <2> DEFINE q == [o EXCEPT !.left = o.left \ {i}]
  <2>2. /\ pass' = [pass EXCEPT ![p] = q] /\ UNCHANGED <<landingVars, row, placing>>
        /\ o.pc = "resolve" /\ o.way \in Several
    BY <1>1, <1>10, <2>1 DEF PlaceSkips, At, Several
  <2>3. /\ q \in Pass /\ q.pc = "resolve" /\ q.at = g /\ q.todo = o.todo /\ q.ents = o.ents
        /\ q.seen = o.seen /\ q.left = o.left \ {i} /\ q.way = o.way
    BY <1>1, <2>2 DEF Pass, Phases
  <2> HIDE DEF q
  <2>4. PassShape(q) /\ PassHeard(q, torrent', again', misheard')
    BY <1>0, <1>1, <2>2, <2>3 DEF PassShape, PassHeard
  <2>5. PassFiles(q, row', lib')
    BY <1>0, <1>1, <2>2, <2>3 DEF PassFiles, Pending, Filing
  <2>6. placing' = (IF q.pc \in Filing THEN {q.at} ELSE {})
    BY <1>2, <2>2, <2>3 DEF Filing
  <2>7. RowsType' /\ OnlyLostIsCancelled' /\ \A h \in Grabs : row'[h].state # None => torrent'[h].state # None
    BY <1>3, <2>2, UnsavedKeep
  <2>8. LibType' /\ LandingType' /\ UNCHANGED <<known, suspend>>
    BY <1>0, <1>3, <2>2 DEF LibType, LandingType, landingVars
  <2> QED
    BY <1>1, <1>2, <1>3, <2>2, <2>4, <2>5, <2>6, <2>7, <2>8, PassMoves
<1>5. CASE PlaceResolves(p)
  <2>1. UNCHANGED landingVars /\ o.pc = "resolve"
    BY <1>5 DEF PlaceResolves, At
  <2>2. CASE PlaceReturns(p, [Ent(p) EXCEPT !.state = "failed"])
    <3>1. PlaceReturns(p, [e EXCEPT !.state = "failed"])
      BY <2>2 DEF Ent
    <3> QED
      BY <1>0, <1>4, <2>1, <3>1, ReturnsKeep
  <2>3. ASSUME NEW i \in o.left, NEW path, path = <<IF o.way = "orphan" THEN Home ELSE e.dest, i>>,
               o.way = "orphan" \/ ~Occupied(path), UNCHANGED <<row, placing>>,
               pass' = [pass EXCEPT ![p] = [@ EXCEPT !.pc = "move", !.path = path]]
        PROVE  GrabInv'
    <3> DEFINE q == [o EXCEPT !.pc = "move", !.path = path]
    <3>1. path \in Paths /\ path[2] = i
      BY <1>1, <2>3, GrabConstants DEF Paths, Row, Pass
    <3>2. pass' = [pass EXCEPT ![p] = q]
      BY <1>1, <2>3
    <3>3. /\ q \in Pass /\ q.pc = "move" /\ q.path = path /\ q.at = g /\ q.todo = o.todo /\ q.ents = o.ents
          /\ q.seen = o.seen /\ q.left = o.left /\ q.way = o.way
      BY <1>1, <3>1 DEF Pass, Phases
    <3> HIDE DEF q
    <3>4. PassShape(q) /\ PassHeard(q, torrent', again', misheard')
      BY <1>0, <1>1, <2>1, <3>3 DEF PassShape, PassHeard
    <3>5. PassFiles(q, row', lib')
      <4>1. \A h \in q.todo : row'[h].state # "placed"
        BY <1>1, <2>1, <2>3, <3>3 DEF PassFiles, Pending
      <4> QED
        BY <4>1, <1>0, <1>1, <2>1, <2>3, <3>1, <3>3 DEF PassFiles, Pending, Filing, landingVars, Occupied
    <3>6. placing' = (IF q.pc \in Filing THEN {q.at} ELSE {})
      BY <1>2, <2>3, <3>3 DEF Filing
    <3>7. RowsType' /\ OnlyLostIsCancelled' /\ \A h \in Grabs : row'[h].state # None => torrent'[h].state # None
      BY <1>3, <2>3, UnsavedKeep
    <3>8. LibType' /\ LandingType' /\ UNCHANGED <<known, suspend>>
      BY <1>0, <1>3, <2>1 DEF LibType, LandingType, landingVars
    <3> QED
      BY <1>1, <1>2, <1>3, <3>2, <3>4, <3>5, <3>6, <3>7, <3>8, PassMoves
  <2> QED
    BY <1>5, <2>2, <2>3 DEF PlaceResolves, Ent, Fails
<1>6. CASE PlaceMoves(p)
  <2>1. UNCHANGED <<indexed, landing, shown, scan, arrived, asked>> /\ o.pc = "move" /\ o.path \in Paths /\ o.path[2] \in o.left
    BY <1>1, <1>6 DEF PlaceMoves, At, PassFiles
  <2>2. CASE PlaceReturns(p, [Ent(p) EXCEPT !.state = "failed"]) /\ UNCHANGED lib
    <3>1. PlaceReturns(p, [e EXCEPT !.state = "failed"]) /\ UNCHANGED landingVars
      BY <2>1, <2>2 DEF Ent, landingVars
    <3> QED
      BY <1>0, <1>4, <3>1, ReturnsKeep
  <2>3. CASE Puts(o.path, g) /\ Goto(p, "save") /\ UNCHANGED <<row, placing>>
    <3> DEFINE q == [o EXCEPT !.pc = "save"]
    <3>1. lib' = [x \in DOMAIN lib \cup {o.path} |-> IF x = o.path THEN g ELSE lib[x]] /\ pass' = [pass EXCEPT ![p] = q]
      BY <1>1, <2>3 DEF Puts, Goto
    <3>2. /\ q \in Pass /\ q.pc = "save" /\ q.path = o.path /\ q.at = g /\ q.todo = o.todo /\ q.ents = o.ents
          /\ q.seen = o.seen /\ q.left = o.left /\ q.way = o.way
      BY <1>1 DEF Pass, Phases
    <3> HIDE DEF q
    <3>3. PassShape(q) /\ PassHeard(q, torrent', again', misheard')
      BY <1>0, <1>1, <2>1, <3>2 DEF PassShape, PassHeard
    <3>4. PassFiles(q, row', lib')
      <4>1. \A h \in q.todo : row'[h].state # "placed"
        BY <1>1, <2>1, <2>3, <3>2 DEF PassFiles, Pending
      <4> QED
        BY <4>1, <1>0, <1>1, <2>1, <3>2 DEF PassFiles, Pending, Filing
    <3>5. placing' = (IF q.pc \in Filing THEN {q.at} ELSE {})
      BY <1>2, <2>3, <3>2 DEF Filing
    <3>6. RowsType' /\ OnlyLostIsCancelled' /\ \A h \in Grabs : row'[h].state # None => torrent'[h].state # None
      BY <1>3, <2>3, UnsavedKeep
    <3>7. LibType'
      <4>1. g \in Owners
        BY <1>1, GrabConstants
      <4> QED
        BY <1>3, <2>1, <3>1, <4>1 DEF LibType
    <3>8. LandingType' /\ UNCHANGED <<known, suspend>>
      BY <1>0, <1>3, <2>1 DEF LandingType
    <3> QED
      BY <1>1, <1>2, <1>3, <3>1, <3>3, <3>4, <3>5, <3>6, <3>7, <3>8, PassMoves
  <2> QED
    BY <1>6, <2>2, <2>3 DEF PlaceMoves, Fails
<1>7. CASE PlaceSaves(p)
  <2> DEFINE several == o.way \in {"each", "some"}
             x == [e EXCEPT !.filed = @ \cup {o.path}, !.state = IF several THEN @ ELSE "placed"]
             way == IF several THEN "some" ELSE o.way
             ents == [o.ents EXCEPT ![g] = x]
             q == [o EXCEPT !.pc = "rescan", !.way = way, !.ents = ents]
  <2>1. /\ UNCHANGED <<lib, indexed, scan, arrived, asked>> /\ o.pc = "save" /\ o.path \in Paths /\ o.path[2] \in o.left
        /\ several => e.state = "fetched"
    BY <1>0, <1>1, <1>7 DEF PlaceSaves, At, PassFiles, Several
  <2>2. /\ x \in Row /\ x.named \subseteq Pack[g] /\ x.state \in {"fetched", "placed"} /\ x.state # "cancelled"
        /\ several => x.state = "fetched"
    <3>1. CASE several
      BY <1>1, <2>1, <3>1 DEF Row, States, Live
    <3>2. CASE ~several
      BY <1>1, <2>1, <3>2 DEF Row, States
    <3> QED
      BY <3>1, <3>2
  <2>3. \/ PlaceReturns(p, x) /\ UNCHANGED <<landing, shown>>
        \/ /\ o.way # "orphan" /\ Saves(g, x) /\ Records(o.path[2], o.path) /\ UNCHANGED placing
           /\ pass' = [pass EXCEPT ![p] = q]
    BY <1>7 DEF PlaceSaves, Ent
  <2> HIDE DEF x, ents
  <2>4. CASE PlaceReturns(p, x) /\ UNCHANGED <<landing, shown>>
    <3>1. UNCHANGED landingVars
      BY <2>1, <2>4 DEF landingVars
    <3> QED
      BY <1>0, <2>2, <2>4, <3>1, ReturnsKeep
  <2>5. CASE /\ o.way # "orphan" /\ Saves(g, x) /\ Records(o.path[2], o.path) /\ UNCHANGED placing
             /\ pass' = [pass EXCEPT ![p] = q]
    <3>1. /\ ents \in Entities /\ DOMAIN ents = DOMAIN o.ents /\ ents[g] = x
          /\ \A h \in DOMAIN ents : h # g => ents[h] = o.ents[h]
      BY <1>1, <2>2, EntityWritten DEF ents
    <3>2. way \in Ways /\ (way \in Several <=> several) /\ way # "orphan"
      BY <1>1, <2>5 DEF Several, Ways, Pass
    <3> HIDE DEF several, way
    <3>3. /\ q \in Pass /\ q.pc = "rescan" /\ q.path = o.path /\ q.at = g /\ q.todo = o.todo /\ q.ents = ents
          /\ q.seen = o.seen /\ q.left = o.left /\ q.way = way
      BY <1>1, <3>1, <3>2 DEF Pass, Phases
    <3> HIDE DEF q
    <3>4. PassShape(q)
      BY <1>1, <2>1, <2>2, <3>1, <3>3 DEF PassShape, Live
    <3>5. PassHeard(q, torrent', again', misheard')
      BY <1>0, <1>1, <2>1, <3>1, <3>3 DEF PassHeard
    <3>6. /\ RowsType' /\ OnlyLostIsCancelled' /\ row'[g] = x /\ \A h \in Grabs : h # g => row'[h] = row[h]
          /\ \A h \in Grabs : row'[h].state # None => torrent'[h].state # None
      BY <1>1, <1>3, <2>2, <2>5, SavesKeep
    <3>7. PassFiles(q, row', lib')
      <4>1. \A h \in q.todo : row'[h].state = "placed" => h = g /\ q.way \notin Several
        BY <1>1, <2>1, <2>2, <3>2, <3>3, <3>6 DEF PassFiles, Pending
      <4> QED
        BY <4>1, <1>0, <1>1, <2>1, <2>2, <3>1, <3>2, <3>3 DEF PassFiles, Pending, Filing, several, Several
    <3>8. placing' = (IF q.pc \in Filing THEN {q.at} ELSE {})
      BY <1>2, <2>5, <3>3 DEF Filing
    <3>9. LibType' /\ UNCHANGED <<known, suspend>>
      BY <1>0, <1>3, <2>1 DEF LibType
    <3>10. LandingType'
      BY <1>3, <2>1, <2>5 DEF LandingType, Records, Landings, Landing, Shown
    <3> QED
      BY <1>1, <1>2, <1>3, <2>5, <3>4, <3>5, <3>6, <3>7, <3>8, <3>9, <3>10, PassMoves
  <2> QED
    BY <2>3, <2>4, <2>5
<1>8. CASE PlaceAnnounces(p)
  <2> DEFINE q == [o EXCEPT !.pc = "resolve", !.left = o.left \ {o.path[2]}, !.path = <<>>]
  <2>1. /\ UNCHANGED <<lib, indexed, shown, scan, arrived, asked, row, placing>> /\ o.pc = "rescan" /\ o.path \in Paths
        /\ Announced(o.path[2], o.path) /\ pass' = [pass EXCEPT ![p] = q] /\ o.path[2] \in o.left
    BY <1>1, <1>8 DEF PlaceAnnounces, At, PassFiles
  <2>2. /\ q \in Pass /\ q.pc = "resolve" /\ q.at = g /\ q.todo = o.todo /\ q.ents = o.ents
        /\ q.seen = o.seen /\ q.left = o.left \ {o.path[2]} /\ q.way = o.way
    BY <1>1 DEF Pass, Phases
  <2> HIDE DEF q
  <2>3. PassShape(q) /\ PassHeard(q, torrent', again', misheard')
    BY <1>0, <1>1, <2>1, <2>2 DEF PassShape, PassHeard
  <2>4. PassFiles(q, row', lib')
    <3>1. q.way \notin Several => q.left = {}
      BY <1>0, <1>1, <2>1, <2>2 DEF PassFiles
    <3> QED
      BY <3>1, <1>0, <1>1, <2>1, <2>2 DEF PassFiles, Pending, Filing
  <2>5. placing' = (IF q.pc \in Filing THEN {q.at} ELSE {})
    BY <1>2, <2>1, <2>2 DEF Filing
  <2>6. RowsType' /\ OnlyLostIsCancelled' /\ \A h \in Grabs : row'[h].state # None => torrent'[h].state # None
    BY <1>3, <2>1, UnsavedKeep
  <2>7. LibType' /\ UNCHANGED <<known, suspend>>
    BY <1>0, <1>3, <2>1 DEF LibType
  <2>8. LandingType'
    BY <1>3, <2>1 DEF LandingType, Announced, Landings, Landing
  <2> QED
    BY <1>1, <1>2, <1>3, <2>1, <2>3, <2>4, <2>5, <2>6, <2>7, <2>8, PassMoves
<1>9. CASE PlaceEnds(p)
  <2>1. UNCHANGED landingVars
    BY <1>9 DEF PlaceEnds
  <2>2. \/ PlaceReturns(p, [e EXCEPT !.state = "failed"]) \/ PlaceReturns(p, [e EXCEPT !.state = "placed"])
        \/ PlaceReturns(p, row[g])
    BY <1>9 DEF PlaceEnds, Ent, Fails
  <2> QED
    BY <1>0, <1>4, <2>1, <2>2, ReturnsKeep
<1> QED
  BY <1>5, <1>6, <1>7, <1>8, <1>9, <1>10

LEMMA NextGrab == ASSUME GrabInv, [Next]_vars PROVE GrabInv'
<1>1. CASE PassStep
  BY <1>1, StartsKeep, AsksKeep, EndsKeep, TakesKeep, BeginsKeep, ChoosesKeep, FilesKeep DEF PassStep
<1>2. CASE AnswerStep
  <2>1. CASE SuspendSaves
    <3>1. suspend.pc = "save" /\ suspend.at \in Grabs
      BY <2>1 DEF SuspendSaves, GrabInv, TypeInv, SuspendType
    <3> QED
      BY <2>1, <3>1, RequestsKeep
  <2> QED
    BY <1>2, <2>1, ClientKeeps, WorldKeeps DEF AnswerStep
<1>3. CASE PeopleStep
  BY <1>3, EndsKeep, GrabKeeps, RequestsKeep, ClientKeeps, WorldKeeps DEF PeopleStep
<1>4. CASE LandingStep
  BY <1>4, LandingsKeep
<1>5. CASE UNCHANGED vars
  <2>1. TypeInv' /\ RowsAreOfTorrents' /\ OnlyLostIsCancelled' /\ UNCHANGED <<pass, passing, placing>>
    BY <1>5 DEF GrabInv, TypeInv, LibType, LandingType, RowsType, ClientType, SuspendType, FlagType, RowsAreOfTorrents,
         OnlyLostIsCancelled, vars, landingVars, grabVars, history
  <2>2. TorrentsGoOn /\ RowsGoOn /\ FilesGoOn
    BY <1>5 DEF TorrentsGoOn, RowsGoOn, FilesGoOn, vars, landingVars, grabVars, history
  <2> QED
    BY <2>1, <2>2, BesidePasses
<1> QED
  BY <1>1, <1>2, <1>3, <1>4, <1>5 DEF Next

LEMMA GrabInvariance == Spec => []GrabInv
BY InitGrab, NextGrab, PTL DEF Spec

\* The state keeps its shape, and _placing holds exactly the grabs being filed.
THEOREM TypeCorrect == Spec => []TypeOK
<1>1. GrabInv => TypeOK
  <2> SUFFICES ASSUME GrabInv PROVE TypeOK
    OBVIOUS
  <2>1. LandingTypeOK
    BY DEF GrabInv, TypeInv, LibType, LandingType, LandingTypeOK, Scan, Landings
  <2>2. \A g \in Grabs : row[g] \in Row /\ torrent[g] \in Torrent
    BY DEF GrabInv, TypeInv, RowsType, ClientType
  <2>3. \A g \in Grabs :
          /\ row[g].state \in States \cup {None} /\ row[g].named \subseteq Pack[g]
          /\ row[g].dest \in Roots /\ row[g].filed \subseteq Paths
    BY <2>2 DEF GrabInv, TypeInv, RowsType, Row
  <2>4. \A g \in Grabs :
          /\ torrent[g].state \in {None, "stopped", "running", "complete", "error", "gone"}
          /\ torrent[g].meta \in BOOLEAN /\ torrent[g].chosen \cup torrent[g].says \subseteq Pack[g]
    BY <2>2 DEF GrabInv, TypeInv, ClientType, Torrent
  <2>5. known \cup again \cup misheard \subseteq Grabs /\ passing \in BOOLEAN /\ suspend.pc \in {"idle", "call", "save"}
    BY DEF GrabInv, TypeInv, FlagType, SuspendType, Suspension
  <2>6. \A p \in Pollers : pass[p].pc \in Phases /\ pass[p].at \in Grabs \cup {None}
    BY DEF GrabInv, Pass
  <2> QED
    BY <2>1, <2>3, <2>4, <2>5, <2>6 DEF TypeOK, GrabInv, PlacingIsExact, Filing
<1> QED
  BY <1>1, GrabInvariance, PTL

\* Whatever rows and answers a pass works from, and whatever it inserts or overwrites: a
\* row reads cancelled only when the client has lost its torrent, when the release was
\* grabbed again behind it, or when a pass over it got an answer that was no list.
THEOREM CancelledMeansLost == Spec => []OnlyLostIsCancelled
<1>1. GrabInv => OnlyLostIsCancelled
  BY DEF GrabInv
<1> QED
  BY <1>1, GrabInvariance, PTL

-----------------------------------------------------------------------------
(* What a step may never do.                                               *)

\* Only these steps touch the libraries, the rows or the torrents.
LEMMA WhoFiles ==
  ASSUME [Next]_vars
  PROVE  \/ UNCHANGED lib \/ Vanishes
         \/ \E i \in Items : Arrives(<<Home, i>>) /\ UNCHANGED pass
         \/ \E p \in Pollers : PlaceMoves(p)
<1>1. CASE PassStep
  <2> SUFFICES ASSUME NEW p \in Pollers,
                      \/ PollStarts(p) \/ PassAsks(p) \/ PassEnds(p)
                      \/ \E g \in Grabs : PassTakes(p, g) \/ PlaceBegins(p, g)
                      \/ ChooseReads(p) \/ ChooseSelects(p) \/ ChooseStarts(p)
                      \/ PlaceSkips(p) \/ PlaceResolves(p) \/ PlaceSaves(p) \/ PlaceAnnounces(p) \/ PlaceEnds(p)
               PROVE  UNCHANGED lib
    BY <1>1 DEF PassStep
  <2>1. CASE PollStarts(p) \/ PassAsks(p) \/ PassEnds(p)
    BY <2>1 DEF PollStarts, PassAsks, PassEnds, landingVars
  <2>2. ASSUME NEW g \in Grabs, PassTakes(p, g) \/ PlaceBegins(p, g) PROVE UNCHANGED lib
    BY <2>2 DEF PassTakes, PlaceBegins, landingVars
  <2>3. CASE ChooseReads(p) \/ ChooseSelects(p) \/ ChooseStarts(p)
    BY <2>3 DEF ChooseReads, ChooseSelects, ChooseStarts, Step, landingVars
  <2>4. CASE PlaceSkips(p) \/ PlaceResolves(p) \/ PlaceSaves(p) \/ PlaceAnnounces(p) \/ PlaceEnds(p)
    BY <2>4 DEF PlaceSkips, PlaceResolves, PlaceSaves, PlaceAnnounces, PlaceEnds, landingVars
  <2> QED
    BY <2>1, <2>2, <2>3, <2>4
<1>2. CASE AnswerStep
  BY <1>2 DEF AnswerStep, SuspendCalls, SuspendSaves, ClientStep, ArrivalStep, ArrivalRecords, ArrivalAnnounces, landingVars
<1>3. CASE PeopleStep
  BY <1>3 DEF grabVars, PeopleStep, PassBreaks, Grab, Retry, Archive, SetDestination, Rewrites, ClientLoses, Forgets, SuspendReads, Crash
<1>4. CASE LandingStep
  BY <1>4 DEF LandingStep, ScanStep, ScanReads, Reconciles, CorrelateWrites
<1>5. CASE UNCHANGED vars
  BY <1>5 DEF vars, landingVars
<1> QED
  BY <1>1, <1>2, <1>3, <1>4, <1>5 DEF Next

\* Beside the requests only a pass writes rows.
LEMMA WhoWrites ==
  ASSUME [Next]_vars, suspend' = suspend, asked' = asked, GrabInv
  PROVE  \/ UNCHANGED row
         \/ \E g \in Grabs : row[g].state \in {None, "cancelled"} /\ \E e : row' = [row EXCEPT ![g] = e]
         \/ \E p \in Pollers : \/ \E g \in Grabs : PassTakes(p, g) \/ PlaceBegins(p, g)
                               \/ ChooseReads(p) \/ ChooseStarts(p) \/ PlaceResolves(p) \/ PlaceMoves(p) \/ PlaceSaves(p)
                               \/ PlaceEnds(p)
<1>1. CASE PassStep
  BY <1>1 DEF PassStep, PollStarts, PassAsks, PassEnds, ChooseSelects, PlaceSkips, PlaceAnnounces
<1>2. CASE AnswerStep
  BY <1>2, Literals DEF AnswerStep, SuspendCalls, SuspendSaves, ClientStep, grabVars
<1>3. CASE PeopleStep
  <2>1. asked \in Nat
    BY LandingConstants DEF GrabInv, TypeInv, LandingType
  <2>2. \A op : ~Asked(op)
    BY <2>1 DEF Asked
  <2>3. ASSUME NEW g \in Grabs, Grab(g)
        PROVE  UNCHANGED row \/ (row[g].state \in {None, "cancelled"} /\ \E e : row' = [row EXCEPT ![g] = e])
    BY <2>2, <2>3 DEF Grab
  <2>4. \E g \in Grabs : Grab(g)
    BY <1>3, <2>2 DEF PeopleStep, PassBreaks, Retry, Archive, SetDestination, ClientLoses, Forgets, SuspendReads, Crash, Arrives
  <2> QED
    BY <2>3, <2>4
<1>4. CASE LandingStep
  BY <1>4 DEF LandingStep, grabVars
<1>5. CASE UNCHANGED vars
  BY <1>5 DEF vars, grabVars
<1> QED
  BY <1>1, <1>2, <1>3, <1>4, <1>5 DEF Next

\* Only the poll and people start or stop a torrent.
LEMMA WhoStarts ==
  ASSUME GrabInv, [Next]_vars, suspend' = suspend, NEW g \in Grabs,
         torrent[g].state = "stopped", torrent'[g].state = "running"
  PROVE  \E p \in Pollers : ChooseStarts(p)
<1>0. torrent \in [Grabs -> Torrent] /\ torrent' # torrent
  BY DEF GrabInv, TypeInv, ClientType
<1>1. CASE PassStep
  <2>1. \E p \in Pollers : ChooseSelects(p) \/ ChooseStarts(p)
    <3> SUFFICES ASSUME NEW p \in Pollers,
                        \/ PollStarts(p) \/ PassAsks(p) \/ PassEnds(p)
                        \/ \E h \in Grabs : PassTakes(p, h) \/ PlaceBegins(p, h)
                        \/ ChooseReads(p)
                        \/ PlaceSkips(p) \/ PlaceResolves(p) \/ PlaceMoves(p) \/ PlaceSaves(p) \/ PlaceAnnounces(p) \/ PlaceEnds(p)
                 PROVE  UNCHANGED torrent
      BY <1>0, <1>1 DEF PassStep
    <3>1. CASE PollStarts(p) \/ PassAsks(p) \/ PassEnds(p) \/ ChooseReads(p)
      BY <3>1 DEF PollStarts, PassAsks, PassEnds, ChooseReads
    <3>2. ASSUME NEW h \in Grabs, PassTakes(p, h) \/ PlaceBegins(p, h) PROVE UNCHANGED torrent
      BY <3>2 DEF PassTakes, PlaceBegins
    <3>3. CASE PlaceSkips(p) \/ PlaceResolves(p) \/ PlaceMoves(p) \/ PlaceSaves(p) \/ PlaceAnnounces(p) \/ PlaceEnds(p)
      BY <3>3 DEF PlaceSkips, PlaceResolves, PlaceMoves, PlaceSaves, PlaceAnnounces, PlaceEnds
    <3> QED
      BY <3>1, <3>2, <3>3
  <2>2. ASSUME NEW p \in Pollers, ChooseSelects(p) PROVE FALSE
    <3> DEFINE m == Matches(pass[p].at)
    <3>1. torrent' = [torrent EXCEPT ![pass[p].at].chosen = m]
      BY <2>2 DEF ChooseSelects
    <3> HIDE DEF m
    <3>2. torrent[g] \in Torrent
      BY <1>0
    <3>3. torrent'[g].state = torrent[g].state
      BY <1>0, <3>1, <3>2 DEF Torrent
    <3> QED
      BY <3>3
  <2> QED
    BY <2>1, <2>2
<1>2. CASE AnswerStep
  <2>1. ~SuspendCalls
    BY DEF SuspendCalls, GrabInv, TypeInv, SuspendType, Suspension
  <2>2. ASSUME NEW h \in Grabs, ClientStep(h) PROVE torrent'[g].state # "running"
    BY <1>0, <2>2 DEF ClientStep, Torrent
  <2> QED
    BY <1>0, <1>2, <2>1, <2>2 DEF AnswerStep, SuspendSaves, grabVars
<1>3. CASE PeopleStep
  <2>1. ASSUME NEW h \in Grabs, Grab(h) PROVE FALSE
    <3>1. torrent'[g] = torrent[g]
      BY <2>1, GrabAdds DEF Lost, None
    <3> QED
      BY <3>1
  <2>2. ASSUME NEW h \in Grabs, ClientLoses(h) PROVE FALSE
    BY <1>0, <2>2 DEF ClientLoses, Torrent
  <2> QED
    BY <1>0, <1>3, <2>1, <2>2 DEF PeopleStep, PassBreaks, Retry, Archive, SetDestination, Rewrites, Forgets, SuspendReads, Crash,
         Arrives, grabVars
<1>4. CASE LandingStep \/ UNCHANGED vars
  BY <1>0, <1>4 DEF LandingStep, grabVars, vars
<1> QED
  BY <1>1, <1>2, <1>3, <1>4 DEF Next

\* _choose: of a release of which part is wanted, a torrent that was added stopped is
\* started by the gateway with wanted files only, whatever else is grabbed, lost,
\* archived or crashes between the selection and the start, unless it was itself taken
\* away and grabbed again meanwhile.
THEOREM OnlyWantedFetched == Spec => OnlyWantedIsFetched
<1>1. GrabInv /\ [Next]_vars
        => [\A g \in Partial \ again : torrent[g].state = "stopped" /\ torrent'[g].state = "running" /\ suspend' = suspend
              => torrent'[g].chosen \subseteq Wanted[g]]_vars
  <2> SUFFICES ASSUME GrabInv, [Next]_vars, NEW g \in Partial \ again, torrent[g].state = "stopped",
                      torrent'[g].state = "running", suspend' = suspend
               PROVE  torrent'[g].chosen \subseteq Wanted[g]
    OBVIOUS
  <2>1. g \in Grabs /\ torrent \in [Grabs -> Torrent]
    BY GrabConstants DEF GrabInv, TypeInv, ClientType
  <2>2. PICK p \in Pollers : ChooseStarts(p)
    BY <2>1, WhoStarts
  <2>3. pass[p].pc = "start" /\ PassHeard(pass[p], torrent, again, misheard)
    BY <2>2 DEF ChooseStarts, At, GrabInv
  <2>4. torrent' = [torrent EXCEPT ![pass[p].at].state = IF @ = "stopped" THEN "running" ELSE @]
    BY <2>2 DEF ChooseStarts
  <2>5. pass[p].at = g
    BY <2>1, <2>4 DEF Torrent
  <2>6. torrent'[g].chosen = torrent[g].chosen
    BY <2>1, <2>4 DEF Torrent
  <2> QED
    BY <2>3, <2>5, <2>6 DEF PassHeard
<1> QED
  BY <1>1, GrabInvariance, PTL DEF Spec, OnlyWantedIsFetched

\* A move into a path that was asked about never replaces what a grab has filed.
LEMMA FiledStep ==
  ASSUME GrabInv, [Next]_vars, NEW path \in DOMAIN lib \cap DOMAIN lib', lib[path] \in Grabs
  PROVE  \/ lib'[path] = lib[path] \/ lib'[path] = "others"
         \/ \E p \in Pollers : At(p, "move") /\ pass[p].way = "orphan" /\ pass[p].path = path
<1>1. CASE UNCHANGED lib
  BY <1>1
<1>2. CASE Vanishes
  BY <1>2 DEF Vanishes
<1>3. ASSUME NEW i \in Items, Arrives(<<Home, i>>) PROVE lib'[path] = lib[path] \/ lib'[path] = "others"
  BY <1>3 DEF Arrives, Puts
<1>4. ASSUME NEW p \in Pollers, PlaceMoves(p)
      PROVE  lib'[path] = lib[path] \/ (At(p, "move") /\ pass[p].way = "orphan" /\ pass[p].path = path)
  <2> DEFINE o == pass[p]
  <2>1. o.pc = "move" /\ PassFiles(o, row, lib)
    BY <1>4 DEF PlaceMoves, At, GrabInv
  <2>2. UNCHANGED lib \/ lib' = [x \in DOMAIN lib \cup {o.path} |-> IF x = o.path THEN o.at ELSE lib[x]]
    BY <1>4 DEF PlaceMoves, Puts
  <2>3. CASE path = o.path
    <3>1. o.way # "orphan" => lib[path] = "others"
      BY <2>1, <2>3 DEF PassFiles
    <3>2. lib[path] # "others"
      BY GrabConstants
    <3> QED
      BY <2>1, <2>3, <3>1, <3>2 DEF At
  <2> QED
    BY <2>2, <2>3
<1> QED
  BY <1>1, <1>2, <1>3, <1>4, WhoFiles

\* Nor does a pass take back what is placed.
LEMMA PlacedStep ==
  ASSUME GrabInv, [Next]_vars, suspend' = suspend, asked' = asked, NEW g \in Grabs, row[g].state = "placed"
  PROVE  row'[g].state = "placed"
<1>0. row \in [Grabs -> Row]
  BY DEF GrabInv, TypeInv, RowsType
<1>1. CASE UNCHANGED row
  BY <1>1
<1>2. ASSUME NEW h \in Grabs, row[h].state \in {None, "cancelled"}, NEW e, row' = [row EXCEPT ![h] = e]
      PROVE  row'[g].state = "placed"
  <2>1. h # g
    BY <1>2 DEF None
  <2> QED
    BY <1>0, <1>2, <2>1
<1>3. ASSUME NEW p \in Pollers,
             \/ \E h \in Grabs : PassTakes(p, h) \/ PlaceBegins(p, h)
             \/ ChooseReads(p) \/ ChooseStarts(p) \/ PlaceResolves(p) \/ PlaceMoves(p) \/ PlaceSaves(p) \/ PlaceEnds(p)
      PROVE  row'[g].state = "placed"
  <2> DEFINE o == pass[p]
  <2>1. PassShape(o) /\ PassFiles(o, row, lib)
    BY DEF GrabInv
  <2>2. g \in o.todo /\ o.pc # "ask" => o.at = g /\ o.way \notin Several /\ (o.pc = "rescan" \/ (o.pc = "resolve" /\ o.left = {}))
    BY <2>1 DEF PassFiles, Pending
  <2>3. \A h, e : h # g /\ Saves(h, e) => row'[g] = row[g]
    BY <1>0 DEF Saves
  <2>4. ASSUME NEW h \in Grabs, PassTakes(p, h) \/ PlaceBegins(p, h) PROVE row'[g].state = "placed"
    <3>1. o.pc = "loop" /\ h \in o.todo
      BY <2>4 DEF PassTakes, PlaceBegins, At
    <3>2. h # g
      BY <2>2, <3>1
    <3>3. UNCHANGED row \/ \E e : Saves(h, e)
      <4>1. CASE PassTakes(p, h)
        BY <4>1 DEF PassTakes, Settles
      <4>2. CASE PlaceBegins(p, h)
        BY <4>2 DEF PlaceBegins
      <4> QED
        BY <2>4, <4>1, <4>2
    <3> QED
      BY <2>3, <3>2, <3>3
  <2>5. CASE ChooseReads(p) \/ ChooseStarts(p) \/ PlaceMoves(p)
    <3>1. o.pc \in {"files", "start", "move"} /\ o.at \in o.todo
      BY <2>1, <2>5 DEF ChooseReads, ChooseStarts, PlaceMoves, At, PassShape
    <3>2. o.at # g
      BY <2>2, <3>1
    <3>3. UNCHANGED row \/ \E e : Saves(o.at, e)
      BY <2>5 DEF ChooseReads, ChooseStarts, PlaceMoves, Fails, PlaceReturns
    <3> QED
      BY <2>3, <3>2, <3>3
  <2>6. CASE PlaceResolves(p)
    <3>1. o.pc = "resolve" /\ o.left # {} /\ o.at \in o.todo
      BY <2>1, <2>6 DEF PlaceResolves, At, PassShape
    <3>2. o.at # g
      BY <2>2, <3>1
    <3>3. UNCHANGED row \/ \E e : Saves(o.at, e)
      BY <2>6 DEF PlaceResolves, Fails, PlaceReturns
    <3> QED
      BY <2>3, <3>2, <3>3
  <2>7. CASE PlaceSaves(p)
    <3>1. o.pc = "save" /\ o.at \in o.todo
      BY <2>1, <2>7 DEF PlaceSaves, At, PassShape
    <3>2. o.at # g
      BY <2>2, <3>1
    <3>3. \E e : Saves(o.at, e)
      BY <2>7 DEF PlaceSaves, PlaceReturns
    <3> QED
      BY <2>3, <3>2, <3>3
  <2>8. CASE PlaceEnds(p)
    <3>1. o.at \in o.todo /\ o.pc = "resolve"
      BY <2>1, <2>8 DEF PlaceEnds, At, PassShape
    <3>2. CASE o.at = g
      <4>1. Saves(g, row[g])
        BY <2>2, <2>8, <3>1, <3>2 DEF PlaceEnds, PlaceReturns, Several
      <4> QED
        BY <1>0, <4>1 DEF Saves
    <3>3. CASE o.at # g
      BY <2>3, <2>8, <3>3 DEF PlaceEnds, Fails, PlaceReturns
    <3> QED
      BY <3>2, <3>3
  <2> QED
    BY <1>3, <2>4, <2>5, <2>6, <2>7, <2>8
<1> QED
  BY <1>1, <1>2, <1>3, WhoWrites

\* What was filed stays filed: however releases of one name overlap, are retried, grabbed
\* again or filed again after a crash, no file of a grab is replaced by a filing that has
\* asked for a free path (a transfer has not, nor the file of a grab whose media is gone),
\* and no pass, from whatever rows it works, takes back that a grab is placed.
THEOREM FilingStays == Spec => FilingIsFinal
<1>1. GrabInv /\ [Next]_vars
        => [\A path \in DOMAIN lib \cap DOMAIN lib' :
              lib[path] \in Grabs /\ lib'[path] # lib[path]
                => \/ lib'[path] = "others"
                   \/ \E p \in Pollers : At(p, "move") /\ pass[p].way = "orphan" /\ pass[p].path = path]_vars
  BY FiledStep
<1>2. GrabInv /\ [Next]_vars
        => [\A g \in Grabs : row[g].state = "placed" /\ suspend' = suspend /\ asked' = asked
              => row'[g].state = "placed"]_vars
  BY PlacedStep
<1> QED
  BY <1>1, <1>2, GrabInvariance, PTL DEF Spec, FilingIsFinal, FiledIsNotReplaced, PlacedStaysPlaced
=============================================================================
