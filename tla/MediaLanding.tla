---------------------------- MODULE MediaLanding ----------------------------
(***************************************************************************)
(* managers/landing.manager.ts: the record of a file between the moment it *)
(* is in a library and the moment its media server lists it, and the       *)
(* reconciliation that ends each indexing pass (managers/service.manager.ts*)
(* and services/correlation.service.ts).                                   *)
(*                                                                         *)
(* A path is a library and what the file is named for, which naming and a  *)
(* tracker may spell alike.  A row saved is the whole entity, inserted     *)
(* again if it is gone.  Grace periods are left out: a waiting landing may *)
(* have outlived its own at any time.                                      *)
(***************************************************************************)
EXTENDS Integers, Sequences, FiniteSets, TLC

CONSTANTS
  Items,        \* what files are filed for, known from somebody else's server
  Roots,        \* libraries
  Owners,       \* who files them
  Requests,     \* what people, the client and the process may do
  MaxRequests   \* bound on that

ASSUME LandingConstants == MaxRequests \in Nat

VARIABLES
  lib,       \* the files in the libraries: their owners by path
  indexed,   \* the paths our own index has from the media server
  landing,   \* the landing of each item, or NoLanding
  shown,     \* the state every screen shows of an item
  scan,      \* an indexing pass
  arrived,   \* transfers that are placed, whose landing is not all told
  asked      \* requests so far

landingVars == <<lib, indexed, landing, shown, scan, arrived, asked>>

Paths     == Roots \X Items
NoLanding == [path |-> <<>>, state |-> "none"]
Landing   == [path : Paths, state : {"waiting", "stale"}]
Shown     == {"missing", "awaiting_index", "not_indexed", "in_sync"}
NoScan    == [pc |-> "idle", open |-> <<>>, look |-> {}, was |-> <<>>]

LandingInit ==
  /\ lib = <<>> /\ indexed = {}
  /\ landing = [i \in Items |-> NoLanding]
  /\ shown = [i \in Items |-> "missing"]
  /\ scan = NoScan /\ arrived = {} /\ asked = 0

Asked(op) == op \in Requests /\ asked < MaxRequests /\ asked' = asked + 1

\* landingSyncState.
SyncStateOf(l) == IF l.state = "stale" THEN "not_indexed" ELSE "awaiting_index"

-----------------------------------------------------------------------------
(* A file lands.                                                           *)

\* A file comes under its name, in place of what was there.
Puts(path, owner) ==
  lib' = [x \in DOMAIN lib \cup {path} |-> IF x = path THEN owner ELSE lib[x]]

\* recordFile: one landing per item, whatever landed before, and its poster.
Records(i, path) ==
  /\ landing' = [landing EXCEPT ![i] = [path |-> path, state |-> "waiting"]]
  /\ shown' = [shown EXCEPT ![i] = "awaiting_index"]

\* _announce: the server has answered the request to rescan, and the landing is
\* saved again with the answer, if it is still there or not.
Announced(i, path) == landing' = [landing EXCEPT ![i] = [path |-> path, state |-> "waiting"]]

\* The transfer engine places a file: renamed over whatever has its name.
Arrives(path) ==
  /\ Asked("arrival") /\ Puts(path, "others")
  /\ arrived' = arrived \cup {<<path, "placed">>}
  /\ UNCHANGED <<indexed, landing, shown, scan>>

\* The listener of its state records the landing, and nobody waits for the rest.
ArrivalRecords(path) ==
  /\ <<path, "placed">> \in arrived /\ Records(path[2], path)
  /\ arrived' = (arrived \ {<<path, "placed">>}) \cup {<<path, "recorded">>}
  /\ UNCHANGED <<lib, indexed, scan, asked>>

ArrivalAnnounces(path) ==
  /\ <<path, "recorded">> \in arrived /\ Announced(path[2], path)
  /\ arrived' = arrived \ {<<path, "recorded">>}
  /\ UNCHANGED <<lib, indexed, shown, scan, asked>>

ArrivalStep == \E path \in Paths : ArrivalRecords(path) \/ ArrivalAnnounces(path)

\* Somebody deletes a file.
Vanishes ==
  /\ Asked("vanish")
  /\ \E path \in DOMAIN lib : lib' = [p \in DOMAIN lib \ {path} |-> lib[p]]
  /\ UNCHANGED <<indexed, landing, shown, scan, arrived>>

-----------------------------------------------------------------------------
(* An indexing pass.                                                       *)

\* Mutant: only landings that are still waited for.
FindOpen_Waiting == {i \in Items : landing[i].state = "waiting"}

\* findOpen: stale landings too.
FindOpen == {i \in Items : landing[i] # NoLanding}

\* _walk reads what the media server lists by now, and reconcile the landings that
\* are open.  What the server lists between the two is as if it listed it later.
ScanReads ==
  /\ scan.pc = "idle"
  /\ indexed' \in {S \in SUBSET DOMAIN lib : indexed \cap DOMAIN lib \subseteq S}
  /\ scan' = [scan EXCEPT !.pc = "look", !.open = landing, !.look = FindOpen]
  /\ UNCHANGED <<lib, landing, shown, arrived, asked>>

\* Each is looked for in the index and on the disk by what was read of it, and
\* closed when it is listed or gone.  What survives is stale once its grace is
\* over, and is shown as it was read.  Then correlate reads the catalogue and the
\* landings that are open by now.
Reconciles ==
  LET over == {i \in scan.look : scan.open[i].path \in indexed \/ scan.open[i].path \notin DOMAIN lib}
      kept == scan.look \ over
  IN  /\ scan.pc = "look"
      /\ \E late \in SUBSET {i \in kept : scan.open[i].state = "waiting"} :
           LET saved == [i \in kept |-> IF i \in late THEN [scan.open[i] EXCEPT !.state = "stale"]
                                        ELSE scan.open[i]]
           IN  /\ landing' = [i \in Items |-> IF i \in over THEN NoLanding
                                              ELSE IF i \in late THEN saved[i] ELSE landing[i]]
               /\ shown' = [i \in Items |-> IF i \in kept THEN SyncStateOf(saved[i]) ELSE shown[i]]
      /\ scan' = [pc |-> "write", look |-> {}, open |-> landing', was |-> shown']
      /\ UNCHANGED <<lib, indexed, arrived, asked>>

\* And writes the states that came out different.
CorrelateWrites ==
  LET held(i) == \E path \in indexed : path[2] = i
      computed(i) == IF held(i) THEN "in_sync"
                     ELSE IF scan.open[i] # NoLanding THEN SyncStateOf(scan.open[i]) ELSE "missing"
  IN  /\ scan.pc = "write"
      /\ shown' = [i \in Items |-> IF computed(i) # scan.was[i] THEN computed(i) ELSE shown[i]]
      /\ scan' = NoScan
      /\ UNCHANGED <<lib, indexed, landing, arrived, asked>>

ScanStep == ScanReads \/ Reconciles \/ CorrelateWrites

-----------------------------------------------------------------------------
(* Properties.                                                             *)

\* Shape of the state.
LandingTypeOK ==
  /\ DOMAIN lib \subseteq Paths /\ \A path \in DOMAIN lib : lib[path] \in Owners
  /\ indexed \subseteq Paths
  /\ landing \in [Items -> Landing \cup {NoLanding}] /\ shown \in [Items -> Shown]
  /\ scan.pc \in {"idle", "look", "write"} /\ arrived \subseteq Paths \X {"placed", "recorded"}
  /\ asked \in 0..MaxRequests

\* "There are exactly four exits and every row has to take one": a landing whose
\* file is listed or gone is closed and its item no longer reads as waiting,
\* however records, reconciliations and correlations overlap.
LandingsEnd ==
  []<>(\A i \in Items :
         /\ landing[i] # NoLanding => landing[i].path \in DOMAIN lib \ indexed
         /\ shown[i] = "awaiting_index" => landing[i] # NoLanding)

\* The same sentence, of the rows: a landing is closed only for one of its exits.
LandingsAreEarned ==
  [][\A i \in Items : landing[i] # NoLanding /\ landing'[i] = NoLanding
       => landing[i].path \in indexed \/ landing[i].path \notin DOMAIN lib]_landingVars
=============================================================================
