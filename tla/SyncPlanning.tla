---------------------------- MODULE SyncPlanning ----------------------------
(***************************************************************************)
(* What a run of a plan will do: `plan` of managers/sync.manager.ts, which *)
(* preview and run share, with the placement it asks for every item        *)
(* (services/placement.service.ts) and the ceilings that cut it            *)
(* (services/run-ceiling.ts).                                              *)
(*                                                                         *)
(* A row is one copy of a media on one service: the work it is, the        *)
(* fingerprint of its version ("" when nobody took one), its running time  *)
(* ("" when nobody measured it), what comparing it with ours said, and the *)
(* show it belongs to: the subtree the request named, or else its series.  *)
(* A path is a root, the name rendered for a work, and the number of the   *)
(* attempt at a name.  Which destinations the settings name, in which      *)
(* order, is the input `roots`; how names are rendered is left out.        *)
(***************************************************************************)
EXTENDS Integers, FiniteSets, SequencesExt

CONSTANTS
  Inputs,       \* catalogues, with the request and the disks
  MaxAttempts,  \* MAX_NAME_ATTEMPTS
  MaxPlanned    \* MAX_PLANNED_ITEMS

\* Rows are numbered from 1, the services asked are in some order, ceilings are numbers.
ASSUME SyncPlanningConstants ==
  /\ MaxAttempts \in Nat /\ MaxPlanned \in Nat
  /\ \A x \in Inputs :
       /\ DOMAIN x.rows \subseteq Nat \ {0} /\ IsFiniteSet(DOMAIN x.rows)
       /\ \A s \in DOMAIN x.rank : x.rank[s] \in Nat
       /\ x.maxItems \in Nat /\ x.maxBytes \in Nat

VARIABLES
  in,       \* the input
  pc,       \* where plan is
  wanted,   \* what _select found, in the order of the plan
  items,    \* what has been placed
  pins,     \* the root of each lot
  kept, dropped

vars == <<in, pc, wanted, items, pins, kept, dropped>>

Init ==
  /\ in \in Inputs /\ pc = "select" /\ wanted = <<>> /\ items = <<>>
  /\ pins = [l \in {} |-> ""] /\ kept = <<>> /\ dropped = <<>>

-----------------------------------------------------------------------------
(* _select.                                                                *)

Rows == DOMAIN in.rows
Local(r) == in.rows[r].service \in in.ours

\* _candidates: what the scope covers, on the services asked.
Candidates == {r \in Rows : in.rows[r].service \in DOMAIN in.rank /\ r \in in.scope}

\* _identity: the media and the version.
Identity(r) == <<in.rows[r].work, in.rows[r].version>>

\* isConflicting: two cuts of different length.
Conflicting(r, q) == in.rows[r].cut # in.rows[q].cut /\ "" \notin {in.rows[r].cut, in.rows[q].cut}

SameContent(r, q) == in.rows[r].version # "" /\ in.rows[r].version = in.rows[q].version

\* Mutant: whatever was correlated stands in for it.
Interchangeable_Always(m, r, q) == TRUE

\* _interchangeable.
Interchangeable(m, r, q) == ~m.conflict \/ SameContent(r, q)

\* _counterparts: the other ends of a candidate's matches, in the scope or not.
Counterparts(r) ==
  {q \in Rows \ {r} : \E m \in in.matches : m.ends = {r, q} /\ Interchangeable(m, r, q)}

Members(key) == {r \in Candidates : Identity(r) = key}

\* The first of the services in the order asked, and not one of ours.
Source(key) ==
  LET from == {r \in Members(key) : ~Local(r)}
  IN  IF from = {} THEN 0
      ELSE CHOOSE r \in from : \A q \in from : in.rank[in.rows[r].service] <= in.rank[in.rows[q].service]

\* Our own copy: one of the group that is not another cut, or correlated with the group.
Ours(key) ==
  LET same == {r \in Members(key) : Local(r) /\ ~Conflicting(r, Source(key))}
      other == {q \in Rows : Local(q) /\ \E r \in Members(key) : q \in Counterparts(r)}
  IN  IF same # {} THEN CHOOSE r \in same : TRUE
      ELSE IF other # {} THEN CHOOSE r \in other : TRUE
      ELSE 0

\* What landed says so on the row it came from; what has no copy of ours is missing; otherwise what comparing said.
StateOf(key) ==
  LET s == in.rows[Source(key)].state
  IN  IF s = "landed" THEN s ELSE IF Ours(key) = 0 THEN "missing" ELSE s

\* _keeps, without the filters on kind, year, size and title.
Keeps(key) ==
  /\ StateOf(key) # "landed"
  /\ Ours(key) # 0 => \/ "includeHeld" \in in.filter
                      \/ "replaceOutdated" \in in.filter /\ StateOf(key) = "outdated"
  /\ "missingOnly" \in in.filter => StateOf(key) = "missing"

\* What there is a source for and the filter keeps.
Wanted == {k \in {Identity(r) : r \in Candidates} : Source(k) # 0 /\ Keeps(k)}

First(S) == CHOOSE i \in S : \A j \in S : i <= j

\* Groups come in the order of their first row.
Select ==
  /\ pc = "select"
  /\ \E s \in [1..Cardinality(Wanted) -> Wanted] :
       /\ Range(s) = Wanted
       /\ \A n, k \in DOMAIN s : n < k => First(Members(s[n])) < First(Members(s[k]))
       /\ wanted' = s
  /\ pc' = "place" /\ UNCHANGED <<in, items, pins, kept, dropped>>

\* One plan carries no more than that.
Planned == IF Len(wanted) < MaxPlanned THEN Len(wanted) ELSE MaxPlanned

-----------------------------------------------------------------------------
(* Placement.                                                              *)

Files == {in.rows[r].path : r \in {q \in Rows : Local(q)}} \cup in.files
Claimed == {items[n].path : n \in DOMAIN items}

\* Mutant: what this plan has handed out already is free.
Occupied_Unclaimed(path, replaces) == path # replaces /\ path \in Files

\* _occupied.
Occupied(path, replaces) == path # replaces /\ (path \in Claimed \/ path \in Files)

\* _lotKeys: the show, which is a row of the service the file comes from.
Lot(r) == <<in.rows[r].service, in.rows[r].show>>

\* _candidates: where the lot went already; else beside our copy, then as configured.
\* A root is tried once.
Roots(lot, ours) ==
  IF lot \in DOMAIN pins THEN <<pins[lot]>>
  ELSE LET beside == IF ours # 0 THEN <<in.rows[ours].path[1]>> ELSE <<>>
       IN  beside \o SelectSeq(in.roots, LAMBDA r : r \notin Range(beside))

\* _probe: where one can write, of which the first is taken.
Writable(roots) == {i \in DOMAIN roots : roots[i] \notin in.full}

\* _freePath: the rendered name, or the first attempt nothing occupies.
FreePaths(root, work, replaces) ==
  {n \in 0..MaxAttempts : ~Occupied(<<root, work, n>>, replaces)}

\* Mutant: every item decides for itself.
Pinned_Never(lot, root) == pins

\* The first item of a lot decides for all of them.
Pinned(lot, root) ==
  IF lot \in DOMAIN pins THEN pins
  ELSE [l \in DOMAIN pins \cup {lot} |-> IF l = lot THEN root ELSE pins[l]]

\* One item: a destination is found, or the whole plan is refused.
PlaceNext ==
  LET key == wanted[Len(items) + 1]
      source == Source(key)
      ours == Ours(key)
      lot == Lot(source)
      roots == Roots(lot, ours)
      root == roots[First(Writable(roots))]
      replaces == IF ours = 0 THEN <<>> ELSE in.rows[ours].path
      free == FreePaths(root, key[1], replaces)
  IN  /\ pc = "place" /\ Len(items) < Planned
      /\ IF Writable(roots) = {} \/ free = {}
         THEN pc' = "refused" /\ UNCHANGED <<items, pins>>
         ELSE /\ items' = Append(items, [key |-> key, source |-> source, ours |-> ours, lot |-> lot,
                                         root |-> root, path |-> <<root, key[1], First(free)>>,
                                         bytes |-> in.rows[source].bytes])
              /\ pins' = Pinned(lot, root)
              /\ pc' = pc
      /\ UNCHANGED <<in, wanted, kept, dropped>>

-----------------------------------------------------------------------------
(* Ceilings.                                                               *)

Bytes(s) ==
  LET sum[n \in 0..Len(s)] == IF n = 0 THEN 0 ELSE sum[n - 1] + s[n].bytes
  IN  sum[Len(s)]

Fits(s) == Len(s) <= in.maxItems /\ Bytes(s) <= in.maxBytes

\* applyCeilings stops at the first item that does not fit.
ApplyCeilings ==
  LET n == CHOOSE k \in 0..Len(items) :
             /\ \A j \in 1..k : Fits(SubSeq(items, 1, j))
             /\ k < Len(items) => ~Fits(SubSeq(items, 1, k + 1))
  IN  SubSeq(items, 1, n)

Cut ==
  /\ pc = "place" /\ Len(items) = Planned
  /\ kept' = ApplyCeilings
  /\ dropped' = SubSeq(items, Len(ApplyCeilings) + 1, Len(items))
  /\ pc' = "planned" /\ UNCHANGED <<in, wanted, items, pins>>

Next == Select \/ PlaceNext \/ Cut

Spec == Init /\ [][Next]_vars

-----------------------------------------------------------------------------
(* Properties.                                                             *)

Default == in.filter \cap {"includeHeld", "replaceOutdated"} = {}

\* Shape of the state; each media and version is fetched once, from a service that is
\* not ours.
TypeOK ==
  /\ pc \in {"select", "place", "planned", "refused"}
  /\ Len(items) <= Len(wanted)
  /\ \A n \in DOMAIN items : ~Local(items[n].source)
  /\ \A n, k \in DOMAIN items : in.rows[items[n].source].version = in.rows[items[k].source].version
                                /\ in.rows[items[n].source].work = in.rows[items[k].source].work => n = k

\* A copy of ours stands for a row: it is the same media and version in the scope, and not
\* another cut, or it is correlated with one that is, and in conflict only over the label
\* of the same bytes.
StandsFor(q, s) ==
  \/ q \in Members(Identity(s)) /\ ~Conflicting(q, s)
  \/ \E m \in in.matches, r \in Members(Identity(s)) :
       r # q /\ m.ends = {r, q} /\ (m.conflict => SameContent(r, q))

\* Nothing is fetched from a row whose bytes have landed and wait to be indexed, and an
\* automatic run fetches nothing that a copy of ours stands for: also under another
\* episode's number, or outside the scope.
HeldIsNotFetched ==
  \A n \in DOMAIN items :
    LET s == items[n].source
    IN  /\ in.rows[s].state # "landed"
        /\ Default => ~\E q \in Rows : Local(q) /\ StandsFor(q, s)

\* Two cuts of one film are one work in conflict, and neither stands in for the other: a
\* version of which nobody here holds the bytes, correlated at most in conflict, is
\* planned, whatever else of the work is held.
EveryCutIsPlanned ==
  pc = "planned" /\ in.filter = {} /\ Len(wanted) <= MaxPlanned =>
    \A r \in Candidates :
      (/\ ~Local(r) /\ in.rows[r].version # "" /\ in.rows[Source(Identity(r))].state # "landed"
       /\ \A q \in Rows : Local(q) => in.rows[q].version # in.rows[r].version
       /\ \A m \in in.matches : m.ends \cap Members(Identity(r)) # {} => m.conflict)
      => \E n \in DOMAIN items : items[n].key = Identity(r)

\* No two items of a run are sent to one path, except onto one file of ours they both
\* replace, which two media servers may list.
TargetsAreDistinct ==
  \A n, k \in DOMAIN items :
    n # k /\ items[n].path = items[k].path
      => \A i \in {n, k} : items[i].ours # 0 /\ in.rows[items[i].ours].path = items[i].path

\* Nothing on the disk is written over but our own copy of what is fetched.
OnlyOursIsReplaced ==
  \A n \in DOMAIN items :
    items[n].path \in Files => items[n].ours # 0 /\ items[n].path = in.rows[items[n].ours].path

\* Nothing is sent where it would destroy something, planned or present.
TargetsAreFree == TargetsAreDistinct /\ OnlyOursIsReplaced

\* The files of one show that come from one service go under one root, though each is
\* placed on its own.
LotsStayTogether ==
  \A n, k \in DOMAIN items : items[n].lot = items[k].lot => items[n].root = items[k].root

\* A run takes the beginning of the plan, within its ceilings, and stops there.
CeilingsCutTheEnd ==
  pc = "planned" =>
    /\ items = kept \o dropped /\ Fits(kept)
    /\ dropped # <<>> => ~Fits(Append(kept, dropped[1]))

\* A run plans what is missing, all of it up to its ceilings, and nothing a copy of ours
\* stands for.
PlansWhatIsMissing == HeldIsNotFetched /\ EveryCutIsPlanned /\ CeilingsCutTheEnd

-----------------------------------------------------------------------------
(* What comments promise and the code does not keep.                       *)

\* plan: "two versions of one episode, which render the same name, would both be given
\* it.  The second transfer would then land on the first hours later".
PathsAreClaimed ==
  \A n, k \in DOMAIN items : items[n].path = items[k].path => n = k

\* _select: "a file already on our disk is not missing, whatever the absence of a local
\* row suggests".
LandedIsNotFetched ==
  \A n \in DOMAIN items : \A r \in Members(items[n].key) : in.rows[r].state # "landed"

\* _select: "what makes something missing is that nothing local holds it".
NothingHeldIsFetched ==
  \A n \in DOMAIN items : Default /\ items[n].key[2] # "" =>
    ~\E r \in Rows : Local(r) /\ Identity(r) = items[n].key

\* _lotKeys: an item "takes its own show as its lot", so that no season "could still land
\* in two libraries".
ShowsStayTogether ==
  \A n, k \in DOMAIN items :
    in.rows[items[n].source].show = in.rows[items[k].source].show => items[n].root = items[k].root

\* _keeps: "the new copy lands beside the old one, renamed by `disambiguate`".
HeldIsKept ==
  \A n \in DOMAIN items : "includeHeld" \in in.filter /\ "replaceOutdated" \notin in.filter
                            => items[n].path \notin Files
=============================================================================
