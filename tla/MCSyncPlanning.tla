---------------------------- MODULE MCSyncPlanning ----------------------------
(* A film here, once or for two media servers, and on two services, and an   *)
(* episode of its show on one.                                               *)
EXTENDS SyncPlanning

Row(service, work, version, cut, state, bytes, name) ==
  [service |-> service, work |-> work, version |-> version, cut |-> cut, state |-> state,
   show |-> "show", bytes |-> bytes, path |-> <<"shelf", name, 0>>]

MCCopies ==
  {<<Row("here", "w", ours, cut, "synced", 1, name), Row("near", "w", near, "long", s[1], 2, "w"),
     Row("far", "w", far, "long", s[2], 1, "w"), Row("far", "x", "v3", "", "missing", 1, "x")>>
     \o twin :
     ours \in {"v1", "v3", ""}, cut \in {"long", "short"}, name \in {"w", "y"},
     near \in {"v1", "v2", ""}, far \in {"v2", ""},
     s \in {<<"missing", "outdated">>, <<"outdated", "landed">>, <<"landed", "outdated">>},
     twin \in {<<>>, <<Row("here too", "w", "", "long", "synced", 1, "w")>>}}

\* Copies with one fingerprint have one length.
MCRows == {r \in MCCopies : r[1].version = "v1" /\ r[2].version = "v1" => r[1].cut = "long"}

MCMatches ==
  {{[ends |-> {1, 2}, conflict |-> c] : c \in a} \cup {[ends |-> {1, 3}, conflict |-> c] : c \in b} :
     a \in {{}, {TRUE}, {FALSE}}, b \in {{}, {TRUE}, {FALSE}}}
  \cup {{[ends |-> {1, 2}, conflict |-> FALSE], [ends |-> {3, 5}, conflict |-> FALSE]},
        {[ends |-> {1, 4}, conflict |-> TRUE]}}

MCRequests ==
  {[filter |-> {}, maxItems |-> 9, maxBytes |-> 9], [filter |-> {}, maxItems |-> 9, maxBytes |-> 1],
   [filter |-> {"includeHeld"}, maxItems |-> 2, maxBytes |-> 9],
   [filter |-> {"replaceOutdated"}, maxItems |-> 9, maxBytes |-> 3],
   [filter |-> {"replaceOutdated", "missingOnly"}, maxItems |-> 1, maxBytes |-> 9]}

Rank == [s \in {"here", "here too", "near", "far"} |-> CASE s = "near" -> 1 [] s = "far" -> 2 [] OTHER -> 3]

\* Everything is asked, whatever disks are full; or two services; or two rows.
MCAsked ==
  {[rank |-> Rank, scope |-> 1..5, full |-> d] : d \in {{}, {"shelf"}, {"shelf", "attic"}}}
  \cup {[rank |-> [s \in {"near", "far"} |-> Rank[s]], scope |-> 1..5, full |-> {}],
        [rank |-> Rank, scope |-> {2, 4}, full |-> {}]}

MCInputs ==
  {[rows |-> r, matches |-> m, filter |-> q.filter, maxItems |-> q.maxItems, maxBytes |-> q.maxBytes,
    rank |-> a.rank, scope |-> a.scope, ours |-> {"here", "here too"},
    roots |-> <<"attic", "shelf">>, files |-> {<<"attic", "w", 0>>}, full |-> a.full] :
     r \in MCRows, m \in MCMatches, q \in MCRequests, a \in MCAsked}
=============================================================================
