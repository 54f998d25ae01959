------------------------ MODULE SyncPlanning_proofs ------------------------
(***************************************************************************)
(* Where a plan sends what it fetches, for any catalogue, request, disks   *)
(* and destinations: one root for a lot, and no file destroyed.            *)
(***************************************************************************)
EXTENDS SyncPlanning, FiniteSetTheorems, SequenceTheorems, WellFoundedInduction, TLAPS

ItemsAreASequence == \E S : items \in Seq(S)

\* What was placed went to the root its lot is pinned to.
ItemsFollowPins ==
  \A n \in DOMAIN items : items[n].lot \in DOMAIN pins /\ items[n].root = pins[items[n].lot]

\* The copy an item would replace is a row of ours.
OursIsLocal == \A n \in DOMAIN items : items[n].ours # 0 => items[n].ours \in Rows /\ Local(items[n].ours)

PlanInv ==
  /\ in \in Inputs /\ ItemsAreASequence /\ ItemsFollowPins /\ OursIsLocal
  /\ TargetsAreDistinct /\ OnlyOursIsReplaced

-----------------------------------------------------------------------------
\* Some number of a set of them is the least, and First finds it.
LEMMA FirstIsIn ==
  ASSUME NEW S, S \subseteq Nat, S # {}
  PROVE  First(S) \in S /\ \A d \in S : First(S) <= d
<1> DEFINE R == {p \in Nat \X Nat : p[1] < p[2]}
<1>1. IsWellFoundedOn(R, Nat)
  BY NatLessThanWellFounded DEF OpToRel
<1>2. PICK c \in S : \A d \in S : ~(<<d, c>> \in R)
  BY <1>1, WFMin
<1>3. ASSUME NEW d \in S PROVE c <= d
  <2>1. c \in Nat /\ d \in Nat /\ <<d, c>> \notin R
    BY <1>2
  <2>2. ~(d < c)
    BY <2>1
  <2> QED
    BY <2>1, <2>2
<1> QED
  BY <1>3 DEF First

\* What stands in for an item here is a row of ours, or nothing.
LEMMA OursIsOurs == \A key : Ours(key) # 0 => Ours(key) \in Rows /\ Local(Ours(key))
<1> TAKE key
<1> DEFINE same == {r \in Members(key) : Local(r) /\ ~Conflicting(r, Source(key))}
           other == {q \in Rows : Local(q) /\ \E r \in Members(key) : q \in Counterparts(r)}
<1>1. \A r \in same : r \in Rows /\ Local(r)
  BY DEF Members, Candidates
<1>2. \A r \in other : r \in Rows /\ Local(r)
  OBVIOUS
<1>3. Ours(key) = IF same # {} THEN CHOOSE r \in same : TRUE
                  ELSE IF other # {} THEN CHOOSE r \in other : TRUE ELSE 0
  BY DEF Ours
<1> HIDE DEF same, other
<1>4. CASE same # {}
  BY <1>1, <1>3, <1>4
<1>5. CASE same = {} /\ other # {}
  BY <1>2, <1>3, <1>5
<1> QED
  BY <1>3, <1>4, <1>5

\* The root of a lot that has one is that root.
LEMMA PinnedRoot ==
  ASSUME NEW lot \in DOMAIN pins, NEW ours, Writable(Roots(lot, ours)) # {}
  PROVE  Roots(lot, ours)[First(Writable(Roots(lot, ours)))] = pins[lot]
<1>1. Roots(lot, ours) = <<pins[lot]>>
  BY DEF Roots
<1>2. Writable(<<pins[lot]>>) \subseteq {1}
  BY DEF Writable
<1>3. First(Writable(<<pins[lot]>>)) = 1
  BY <1>1, <1>2, FirstIsIn
<1> QED
  BY <1>1, <1>3

\* An item that is added comes last, and the others stay.
LEMMA Appended ==
  ASSUME ItemsAreASequence, NEW x, items' = Append(items, x)
  PROVE  /\ ItemsAreASequence' /\ DOMAIN items' = DOMAIN items \cup {Len(items) + 1}
         /\ Len(items) + 1 \notin DOMAIN items /\ items'[Len(items) + 1] = x
         /\ \A n \in DOMAIN items : items'[n] = items[n]
<1>1. PICK S : items \in Seq(S)
  BY DEF ItemsAreASequence
<1> DEFINE T == S \cup {x}
<1>2. items \in Seq(T) /\ x \in T
  BY <1>1, SeqMonotonic
<1> HIDE DEF T
<1>3. items' \in Seq(T) /\ Len(items') = Len(items) + 1 /\ items'[Len(items) + 1] = x
      /\ \A n \in 1..Len(items) : items'[n] = items[n]
  BY <1>2, AppendProperties
<1>4. DOMAIN items = 1..Len(items) /\ DOMAIN items' = 1..(Len(items) + 1) /\ Len(items) \in Nat
  BY <1>2, <1>3, LenProperties
<1>5. DOMAIN items' = DOMAIN items \cup {Len(items) + 1} /\ Len(items) + 1 \notin DOMAIN items
  BY <1>4
<1> QED
  BY <1>3, <1>4, <1>5 DEF ItemsAreASequence

\* A step that places nothing.
LEMMA NothingPlaced ==
  ASSUME PlanInv, UNCHANGED <<in, items, pins>> PROVE PlanInv'
BY DEF PlanInv, ItemsAreASequence, ItemsFollowPins, OursIsLocal, TargetsAreDistinct, OnlyOursIsReplaced,
       Files, Rows, Local

LEMMA PlaceKeepsPlan ==
  ASSUME PlanInv, PlaceNext PROVE PlanInv'
<1> DEFINE key == wanted[Len(items) + 1]
           source == Source(key)
           ours == Ours(key)
           lot == Lot(source)
           roots == Roots(lot, ours)
           root == roots[First(Writable(roots))]
           replaces == IF ours = 0 THEN <<>> ELSE in.rows[ours].path
           free == FreePaths(root, key[1], replaces)
           path == <<root, key[1], First(free)>>
           x == [key |-> key, source |-> source, ours |-> ours, lot |-> lot, root |-> root, path |-> path,
                 bytes |-> in.rows[source].bytes]
<1>0. in' = in
  BY DEF PlaceNext
<1>1. CASE Writable(roots) = {} \/ free = {}
  BY <1>0, <1>1, NothingPlaced DEF PlaceNext
<1>2. CASE ~(Writable(roots) = {} \/ free = {})
  <2>1. items' = Append(items, x) /\ pins' = Pinned(lot, root)
    BY <1>2 DEF PlaceNext
  <2>2. First(free) \in free
    <3>1. free \subseteq Nat
      BY SyncPlanningConstants DEF FreePaths
    <3> QED
      BY <1>2, <3>1, FirstIsIn
  <2>3. ~Occupied(path, replaces)
    BY <2>2 DEF FreePaths
  <2>4. ours # 0 => ours \in Rows /\ Local(ours)
    BY OursIsOurs
  <2>5. lot \in DOMAIN pins => root = pins[lot]
    BY <1>2, PinnedRoot
  <2>6. path # <<>> /\ x.ours = ours /\ x.path = path /\ x.root = root /\ x.lot = lot
    OBVIOUS
  <2>7. path = replaces => ours # 0 /\ in.rows[ours].path = path
    BY <2>6
  <2> HIDE DEF key, source, ours, lot, roots, root, free, path, x
  <2> DEFINE m == Len(items) + 1
  <2>8. /\ ItemsAreASequence' /\ DOMAIN items' = DOMAIN items \cup {m} /\ m \notin DOMAIN items
        /\ items'[m] = x /\ \A n \in DOMAIN items : items'[n] = items[n]
    BY <2>1, Appended DEF PlanInv
  <2> HIDE DEF m
  <2>9. path \in Claimed \/ path \in Files => path = replaces
    BY <2>3 DEF Occupied
  <2> HIDE DEF replaces
  <2>10. Files' = Files /\ Rows' = Rows /\ \A r : Local(r)' = Local(r)
    BY <1>0 DEF Files, Rows, Local
  <2>11. ItemsFollowPins'
    <3>1. lot \in DOMAIN pins' /\ pins'[lot] = root /\ \A l \in DOMAIN pins : l \in DOMAIN pins' /\ pins'[l] = pins[l]
      BY <2>1, <2>5 DEF Pinned
    <3> QED
      BY <2>6, <2>8, <3>1 DEF ItemsFollowPins, PlanInv
  <2>12. OursIsLocal'
    BY <2>4, <2>6, <2>8, <2>10 DEF OursIsLocal, PlanInv
  <2>13. OnlyOursIsReplaced'
    BY <1>0, <2>6, <2>7, <2>8, <2>9, <2>10 DEF OnlyOursIsReplaced, PlanInv
  <2>14. ASSUME NEW k \in DOMAIN items, items[k].path = path
         PROVE  /\ ours # 0 /\ in.rows[ours].path = path
                /\ items[k].ours # 0 /\ in.rows[items[k].ours].path = path
    <3>1. path \in Claimed
      BY <2>14 DEF Claimed
    <3>2. ours # 0 /\ in.rows[ours].path = path
      BY <2>7, <2>9, <3>1
    <3>3. path \in Files
      BY <2>4, <3>2 DEF Files
    <3> QED
      BY <2>14, <3>2, <3>3 DEF PlanInv, OnlyOursIsReplaced
  <2>15. TargetsAreDistinct'
    <3> SUFFICES ASSUME NEW n \in DOMAIN items', NEW k \in DOMAIN items', n # k, items'[n].path = items'[k].path
                 PROVE  /\ items'[n].ours # 0 /\ in.rows[items'[n].ours].path = items'[n].path
                        /\ items'[k].ours # 0 /\ in.rows[items'[k].ours].path = items'[k].path
      BY <1>0 DEF TargetsAreDistinct
    <3>1. CASE n \in DOMAIN items /\ k \in DOMAIN items
      BY <2>8, <3>1 DEF PlanInv, TargetsAreDistinct
    <3>2. CASE n = m /\ k \in DOMAIN items
      BY <2>6, <2>8, <2>14, <3>2
    <3>3. CASE k = m /\ n \in DOMAIN items
      BY <2>6, <2>8, <2>14, <3>3
    <3> QED
      BY <2>8, <3>1, <3>2, <3>3
  <2> QED
    BY <1>0, <2>8, <2>11, <2>12, <2>13, <2>15 DEF PlanInv
<1> QED
  BY <1>1, <1>2

LEMMA PlanInvariance == Spec => []PlanInv
<1>1. Init => PlanInv
  <2> SUFFICES ASSUME Init PROVE PlanInv
    OBVIOUS
  <2>1. items \in Seq({}) /\ DOMAIN items = {}
    BY DEF Init
  <2> QED
    BY <2>1 DEF Init, PlanInv, ItemsAreASequence, ItemsFollowPins, OursIsLocal, TargetsAreDistinct, OnlyOursIsReplaced
<1>2. PlanInv /\ [Next]_vars => PlanInv'
  <2> SUFFICES ASSUME PlanInv, [Next]_vars PROVE PlanInv'
    OBVIOUS
  <2>1. CASE Select
    BY <2>1, NothingPlaced DEF Select
  <2>2. CASE PlaceNext
    BY <2>2, PlaceKeepsPlan
  <2>3. CASE Cut
    BY <2>3, NothingPlaced DEF Cut
  <2>4. CASE UNCHANGED vars
    BY <2>4, NothingPlaced DEF vars
  <2> QED
    BY <2>1, <2>2, <2>3, <2>4 DEF Next
<1> QED
  BY <1>1, <1>2, PTL DEF Spec

-----------------------------------------------------------------------------
\* The files of one lot go under one root, whatever disks are full and wherever copies of
\* some of them are: the first placed decides, and a plan whose pinned root cannot be
\* written is refused rather than scattered.
THEOREM LotsTogether == Spec => []LotsStayTogether
<1>1. PlanInv => LotsStayTogether
  BY DEF PlanInv, ItemsFollowPins, LotsStayTogether
<1> QED
  BY <1>1, PlanInvariance, PTL

\* No file is written over but our own copy of what is fetched, and two items of a plan have
\* one path only when both replace the file that is there: for any catalogue, whatever
\* services list one file, and any disks.
THEOREM TargetsFree == Spec => []TargetsAreFree
<1>1. PlanInv => TargetsAreFree
  BY DEF PlanInv, TargetsAreFree
<1> QED
  BY <1>1, PlanInvariance, PTL

-----------------------------------------------------------------------------
(* What is planned.                                                        *)

\* Every wanted media and version once, in some order.
WantedIsListed ==
  pc # "select" =>
    /\ wanted \in Seq(Wanted) /\ \A k \in Wanted : \E n \in 1..Len(wanted) : wanted[n] = k
    /\ \A n, k \in 1..Len(wanted) : wanted[n] = wanted[k] => n = k

\* Items are placed in that order.
ItemsAreWanted ==
  /\ pc = "select" => items = <<>> /\ wanted = <<>>
  /\ pc # "select" => Len(items) <= Planned
  /\ pc = "planned" => Len(items) = Planned
  /\ \A n \in DOMAIN items : items[n].key = wanted[n] /\ items[n].source = Source(wanted[n])

Phases == pc \in {"select", "place", "planned", "refused"}
SelectInv == in \in Inputs /\ ItemsAreASequence /\ Phases /\ WantedIsListed /\ ItemsAreWanted /\ CeilingsCutTheEnd

\* A media some service has comes from one of those that have it.
LEMMA SourceIsMember ==
  ASSUME in \in Inputs, NEW key, \E r \in Members(key) : ~Local(r)
  PROVE  Source(key) \in Members(key) /\ ~Local(Source(key)) /\ Source(key) # 0
<1> DEFINE from == {r \in Members(key) : ~Local(r)}
           rank(r) == in.rank[in.rows[r].service]
           R == {rank(r) : r \in from}
<1>1. from # {} /\ from \subseteq Candidates
  BY DEF Members
<1>2. \A r \in Candidates : rank(r) \in Nat /\ r # 0
  BY SyncPlanningConstants DEF Rows, Candidates
<1>3. R \subseteq Nat /\ R # {}
  BY <1>1, <1>2
<1>4. First(R) \in R /\ \A n \in R : First(R) <= n
  BY <1>3, FirstIsIn
<1>5. PICK r \in from : \A q \in from : rank(r) <= rank(q)
  BY <1>4
<1>6. Source(key) = CHOOSE s \in from : \A q \in from : rank(s) <= rank(q)
  BY <1>1 DEF Source
<1> HIDE DEF rank
<1>7. Source(key) \in from
  BY <1>5, <1>6
<1> QED
  BY <1>1, <1>2, <1>7

\* What has a source has one that has it.
LEMMA SourceOf ==
  ASSUME in \in Inputs, NEW key, Source(key) # 0
  PROVE  Source(key) \in Rows /\ Identity(Source(key)) = key /\ ~Local(Source(key))
<1>1. \E r \in Members(key) : ~Local(r)
  BY DEF Source
<1> QED
  BY <1>1, SourceIsMember DEF Members, Candidates

LEMMA WantedIsFinite ==
  ASSUME in \in Inputs PROVE IsFiniteSet(Wanted) /\ Cardinality(Wanted) \in Nat
<1> DEFINE all == {Identity(r) : r \in Candidates}
           f == [r \in Candidates |-> Identity(r)]
<1>1. IsFiniteSet(Candidates)
  <2>1. IsFiniteSet(Rows) /\ Candidates \subseteq Rows
    BY SyncPlanningConstants DEF Rows, Candidates
  <2> QED
    BY <2>1, FS_Subset
<1>2. f \in Surjection(Candidates, all)
  BY DEF Surjection
<1>3. IsFiniteSet(all)
  BY <1>1, <1>2, FS_Surjection
<1>4. Wanted \subseteq all
  BY DEF Wanted
<1> QED
  BY <1>3, <1>4, FS_Subset, FS_CardinalityType

\* What is wanted depends on the input only.
LEMMA InputDecides ==
  ASSUME in' = in
  PROVE  Wanted' = Wanted /\ \A k : Source(k)' = Source(k)
<1>1. /\ Rows' = Rows /\ (\A r : Local(r)' = Local(r)) /\ (\A r : Identity(r)' = Identity(r))
      /\ Candidates' = Candidates
  BY DEF Rows, Local, Identity, Candidates
<1>2. \A k : Source(k)' = Source(k) /\ Members(k)' = Members(k)
  BY DEF Source, Members, Local, Rows, Identity, Candidates
<1>3. \A k : Ours(k)' = Ours(k)
  BY DEF Ours, Conflicting, Source, Members, Candidates, Local, Rows, Identity, Counterparts, Interchangeable, SameContent
<1>4. \A k : Keeps(k)' = Keeps(k)
  BY <1>2, <1>3 DEF Keeps, StateOf
<1>5. Wanted' = Wanted
  BY <1>1, <1>2, <1>4 DEF Wanted
<1> QED
  BY <1>2, <1>5

\* An empty run fits.
LEMMA NothingFits ==
  ASSUME in \in Inputs PROVE Fits(<<>>)
<1>1. Bytes(<<>>) = 0
  <2> DEFINE F(g) == [n \in 0..Len(<<>>) |-> IF n = 0 THEN 0 ELSE g[n - 1] + <<>>[n].bytes]
  <2>1. Len(<<>>) = 0 /\ 0..0 = {0}
    OBVIOUS
  <2>2. \A g : F(g) = [n \in {0} |-> 0]
    BY <2>1
  <2>3. (CHOOSE g : g = F(g)) = [n \in {0} |-> 0]
    BY <2>2
  <2> QED
    BY <2>1, <2>3 DEF Bytes
<1> QED
  BY <1>1, SyncPlanningConstants DEF Fits

LEMMA SelectKeepsSelect ==
  ASSUME SelectInv, Select PROVE SelectInv'
<1>1. PICK s \in [1..Cardinality(Wanted) -> Wanted] :
        /\ Range(s) = Wanted
        /\ \A n, k \in DOMAIN s : n < k => First(Members(s[n])) < First(Members(s[k]))
        /\ wanted' = s
  BY DEF Select
<1>2. pc = "select" /\ pc' = "place" /\ UNCHANGED <<in, items>> /\ items = <<>>
  BY SyncPlanningConstants DEF Select, SelectInv, ItemsAreWanted, Planned
<1>3. Cardinality(Wanted) \in Nat
  BY WantedIsFinite DEF SelectInv
<1>4. s \in Seq(Wanted) /\ Len(s) = Cardinality(Wanted)
  BY <1>3
<1>5. \A k \in Wanted : First(Members(k)) \in Nat
  <2>1. \A k \in Wanted : Members(k) # {} /\ Members(k) \subseteq Nat
    BY SyncPlanningConstants DEF Wanted, Members, SelectInv, Rows, Candidates
  <2> QED
    BY <2>1, FirstIsIn
<1>6. \A n, k \in 1..Len(s) : s[n] = s[k] => n = k
  <2> SUFFICES ASSUME NEW n \in 1..Len(s), NEW k \in 1..Len(s), s[n] = s[k], n # k PROVE FALSE
    OBVIOUS
  <2>1. s[n] \in Wanted
    BY <1>4
  <2>2. First(Members(s[n])) < First(Members(s[n]))
    BY <1>1, <1>3, <1>4
  <2> QED
    BY <1>5, <2>1, <2>2
<1>7. \A k \in Wanted : \E n \in 1..Len(s) : s[n] = k
  BY <1>1, <1>4 DEF Range
<1>8. Wanted' = Wanted
  BY <1>2, InputDecides
<1>9. WantedIsListed'
  BY <1>1, <1>4, <1>6, <1>7, <1>8 DEF WantedIsListed
<1>10. ItemsAreWanted'
  <2>1. Len(items') = 0 /\ DOMAIN items' = {}
    BY <1>2
  <2> QED
    BY <1>1, <1>2, <1>3, <1>4, <2>1, SyncPlanningConstants DEF ItemsAreWanted, Planned
<1> QED
  BY <1>2, <1>9, <1>10 DEF SelectInv, ItemsAreASequence, Phases, CeilingsCutTheEnd

LEMMA PlaceKeepsSelect ==
  ASSUME SelectInv, PlaceNext PROVE SelectInv'
<1>0. in' = in /\ wanted' = wanted /\ pc = "place" /\ Len(items) < Planned
  BY DEF PlaceNext
<1>1. Wanted' = Wanted /\ \A k : Source(k)' = Source(k)
  BY <1>0, InputDecides
<1>2. CASE pc' = "refused" /\ UNCHANGED items
  BY <1>0, <1>1, <1>2, SyncPlanningConstants DEF SelectInv, Phases, WantedIsListed, ItemsAreWanted, Planned, ItemsAreASequence, CeilingsCutTheEnd
<1>3. CASE pc' = pc /\ \E x : items' = Append(items, x) /\ x.key = wanted[Len(items) + 1] /\ x.source = Source(x.key)
  <2>1. PICK x : items' = Append(items, x) /\ x.key = wanted[Len(items) + 1] /\ x.source = Source(x.key)
    BY <1>3
  <2> DEFINE m == Len(items) + 1
  <2>2. /\ ItemsAreASequence' /\ DOMAIN items' = DOMAIN items \cup {m}
        /\ items'[m] = x /\ \A n \in DOMAIN items : items'[n] = items[n]
    BY <2>1, Appended DEF SelectInv
  <2>3. Len(items') = m
    BY <2>1, Appended DEF SelectInv, ItemsAreASequence
  <2>4. Len(wanted) \in Nat /\ Len(items) \in Nat
    BY <1>0 DEF SelectInv, WantedIsListed, ItemsAreASequence
  <2>5. ItemsAreWanted'
    BY <1>0, <1>1, <1>3, <2>1, <2>2, <2>3, <2>4, SyncPlanningConstants DEF SelectInv, ItemsAreWanted, Planned
  <2> QED
    BY <1>0, <1>1, <1>3, <2>2, <2>5 DEF SelectInv, Phases, WantedIsListed, CeilingsCutTheEnd
<1>4. \/ pc' = "refused" /\ UNCHANGED items
      \/ pc' = pc /\ \E x : items' = Append(items, x) /\ x.key = wanted[Len(items) + 1] /\ x.source = Source(x.key)
  <2> DEFINE key == wanted[Len(items) + 1]
             x(source, ours, lot, root, path, bytes) ==
               [key |-> key, source |-> source, ours |-> ours, lot |-> lot, root |-> root, path |-> path, bytes |-> bytes]
  <2>1. \/ pc' = "refused" /\ UNCHANGED items
        \/ pc' = pc /\ \E ours, lot, root, path, bytes : items' = Append(items, x(Source(key), ours, lot, root, path, bytes))
    BY DEF PlaceNext
  <2>2. \A ours, lot, root, path, bytes :
          x(Source(key), ours, lot, root, path, bytes).key = key /\ x(Source(key), ours, lot, root, path, bytes).source = Source(key)
    OBVIOUS
  <2> QED
    BY <2>1, <2>2
<1> QED
  BY <1>2, <1>3, <1>4

\* There is a longest beginning of the plan that fits with all before it.
LEMMA CeilingsCut ==
  ASSUME in \in Inputs, ItemsAreASequence
  PROVE  \E n \in 0..Len(items) :
           /\ ApplyCeilings = SubSeq(items, 1, n) /\ Fits(SubSeq(items, 1, n))
           /\ n < Len(items) => ~Fits(SubSeq(items, 1, n + 1))
<1>0. Len(items) \in Nat
  BY DEF ItemsAreASequence
<1> DEFINE P(k) == /\ \A j \in 1..k : Fits(SubSeq(items, 1, j))
                   /\ k < Len(items) => ~Fits(SubSeq(items, 1, k + 1))
           S == {k \in 0..Len(items) : k < Len(items) => ~Fits(SubSeq(items, 1, k + 1))}
           n == First(S)
<1>1. S \subseteq Nat /\ Len(items) \in S
  BY <1>0
<1>2. n \in S /\ \A d \in S : n <= d
  BY <1>1, FirstIsIn
<1> HIDE DEF n
<1>3. ASSUME NEW j \in 1..n PROVE Fits(SubSeq(items, 1, j))
  <2>1. n \in Nat /\ n <= Len(items) /\ j - 1 \in 0..Len(items) /\ j - 1 < n
    BY <1>0, <1>2
  <2>2. j - 1 \notin S
    <3>1. j - 1 \in S => n <= j - 1
      BY <1>2
    <3> QED
      BY <2>1, <3>1
  <2>3. Fits(SubSeq(items, 1, (j - 1) + 1))
    BY <2>1, <2>2
  <2>4. (j - 1) + 1 = j
    BY <2>1
  <2> QED
    BY <2>3, <2>4
<1>4. n \in 0..Len(items) /\ P(n)
  BY <1>2, <1>3
<1> DEFINE c == CHOOSE k \in 0..Len(items) : P(k)
<1>5. c \in 0..Len(items) /\ P(c)
  BY <1>4
<1>6. ApplyCeilings = SubSeq(items, 1, c)
  BY DEF ApplyCeilings
<1> HIDE DEF c
<1>7. Fits(SubSeq(items, 1, c))
  <2>1. CASE c = 0
    <3>1. SubSeq(items, 1, 0) = <<>>
      BY SubSeqEmpty
    <3> QED
      BY <2>1, <3>1, NothingFits
  <2>2. CASE c # 0
    <3>1. c \in 1..c
      BY <1>0, <1>5, <2>2
    <3> QED
      BY <1>5, <3>1
  <2> QED
    BY <2>1, <2>2
<1> QED
  BY <1>5, <1>6, <1>7

LEMMA CutKeepsSelect ==
  ASSUME SelectInv, Cut PROVE SelectInv'
<1>0. /\ UNCHANGED <<in, wanted, items>> /\ pc = "place" /\ pc' = "planned" /\ Len(items) = Planned
      /\ kept' = ApplyCeilings /\ dropped' = SubSeq(items, Len(ApplyCeilings) + 1, Len(items))
  BY DEF Cut
<1>1. Wanted' = Wanted /\ \A k : Source(k)' = Source(k)
  BY <1>0, InputDecides
<1>2. PICK n \in 0..Len(items) :
        /\ ApplyCeilings = SubSeq(items, 1, n) /\ Fits(SubSeq(items, 1, n))
        /\ n < Len(items) => ~Fits(SubSeq(items, 1, n + 1))
  BY CeilingsCut DEF SelectInv
<1>3. PICK S : items \in Seq(S)
  BY DEF SelectInv, ItemsAreASequence
<1>4. Len(items) \in Nat /\ \A i \in 1..Len(items) : items[i] \in S
  BY <1>3
<1>5. kept' \in Seq(S) /\ Len(kept') = n
  BY <1>0, <1>2, <1>3, <1>4, SubSeqProperties
<1>6. dropped' = SubSeq(items, n + 1, Len(items))
  BY <1>0, <1>5
<1>7. items = kept' \o dropped'
  <2>0. 1 \in 1..(Len(items) + 1) /\ n \in (1 - 1)..Len(items) /\ Len(items) \in n..Len(items)
    BY <1>4
  <2>1. SubSeq(items, 1, n) \o SubSeq(items, n + 1, Len(items)) = SubSeq(items, 1, Len(items))
    BY <1>3, <2>0, ConcatAdjacentSubSeq
  <2> QED
    BY <1>0, <1>2, <1>3, <1>6, <2>1, SubSeqFull
<1>8. dropped' # <<>> => ~Fits(Append(kept', dropped'[1]))
  <2> SUFFICES ASSUME dropped' # <<>> PROVE ~Fits(Append(kept', dropped'[1]))
    OBVIOUS
  <2>1. n < Len(items)
    <3>1. ~(Len(items) < n + 1)
      BY <1>4, <1>6, SubSeqEmpty
    <3> QED
      BY <1>4, <3>1
  <2>2. dropped'[1] = items[n + 1]
    BY <1>3, <1>4, <1>6, <2>1, SubSeqProperties
  <2>3. SubSeq(items, 1, n + 1) = SubSeq(items, 1, (n + 1) - 1) \o <<items[n + 1]>>
    BY <1>3, <1>4, <2>1, SubSeqRecursiveSecond
  <2>4. (n + 1) - 1 = n
    OBVIOUS
  <2>5. Append(kept', items[n + 1]) = kept' \o <<items[n + 1]>>
    BY <1>4, <1>5, <2>1, AppendIsConcat
  <2> QED
    BY <1>0, <1>2, <2>1, <2>2, <2>3, <2>4, <2>5
<1>9. \A s : Fits(s)' = Fits(s)
  BY <1>0 DEF Fits, Bytes
<1>10. CeilingsCutTheEnd'
  BY <1>0, <1>2, <1>7, <1>8, <1>9 DEF CeilingsCutTheEnd
<1> QED
  BY <1>0, <1>1, <1>4, <1>10, SyncPlanningConstants DEF SelectInv, Phases, WantedIsListed, ItemsAreWanted, Planned, ItemsAreASequence

LEMMA SelectInvariance == Spec => []SelectInv
<1>1. Init => SelectInv
  <2> SUFFICES ASSUME Init PROVE SelectInv
    OBVIOUS
  <2>1. items \in Seq({}) /\ DOMAIN items = {} /\ items = <<>>
    BY DEF Init
  <2> QED
    BY <2>1, SyncPlanningConstants DEF Init, SelectInv, Phases, ItemsAreASequence, WantedIsListed, ItemsAreWanted, Planned, CeilingsCutTheEnd
<1>2. SelectInv /\ [Next]_vars => SelectInv'
  <2> SUFFICES ASSUME SelectInv, [Next]_vars PROVE SelectInv'
    OBVIOUS
  <2>1. CASE UNCHANGED vars
    <3>1. Wanted' = Wanted /\ (\A k : Source(k)' = Source(k)) /\ (\A s : Fits(s)' = Fits(s))
      BY <2>1, InputDecides DEF vars, Fits, Bytes
    <3> QED
      BY <2>1, <3>1, SyncPlanningConstants DEF vars, SelectInv, Phases, ItemsAreASequence, WantedIsListed, ItemsAreWanted, Planned, CeilingsCutTheEnd
  <2> QED
    BY <2>1, SelectKeepsSelect, PlaceKeepsSelect, CutKeepsSelect DEF Next
<1> QED
  BY <1>1, <1>2, PTL DEF Spec

-----------------------------------------------------------------------------
\* An item stands for a wanted media and version, which its source has.
LEMMA ItemsSource ==
  ASSUME SelectInv, NEW n \in DOMAIN items
  PROVE  /\ n \in 1..Len(wanted) /\ wanted[n] \in Wanted /\ items[n].source = Source(wanted[n])
         /\ items[n].source \in Rows /\ Identity(items[n].source) = wanted[n] /\ ~Local(items[n].source)
<1>1. pc # "select"
  BY SyncPlanningConstants DEF SelectInv, ItemsAreWanted, Planned
<1>2. DOMAIN items = 1..Len(items) /\ Len(items) \in Nat /\ Len(wanted) \in Nat /\ Len(items) <= Len(wanted)
  BY <1>1, SyncPlanningConstants DEF SelectInv, ItemsAreASequence, ItemsAreWanted, Planned, WantedIsListed
<1>3. n \in 1..Len(wanted)
  BY <1>2
<1>4. wanted[n] \in Wanted
  BY <1>1, <1>3 DEF SelectInv, WantedIsListed
<1>5. Source(wanted[n]) # 0 /\ items[n].source = Source(wanted[n])
  BY <1>4, SyncPlanningConstants DEF Wanted, SelectInv, ItemsAreWanted, Planned
<1> QED
  BY <1>3, <1>4, <1>5, SourceOf DEF SelectInv

\* Each media and version is fetched once, from a service that is not ours, for any
\* catalogue: however many services have it.
THEOREM FetchedOnce == Spec => []TypeOK
<1>1. SelectInv => TypeOK
  <2> SUFFICES ASSUME SelectInv PROVE TypeOK
    OBVIOUS
  <2>1. pc \in {"select", "place", "planned", "refused"}
    BY DEF SelectInv, Phases
  <2>2. Len(items) <= Len(wanted)
    <3>1. CASE pc = "select"
      <4>1. wanted = <<>> /\ Len(items) = 0
        BY <3>1, SyncPlanningConstants DEF SelectInv, ItemsAreWanted, Planned, WantedIsListed
      <4> QED
        BY <4>1
    <3>2. CASE pc # "select"
      BY <3>2, SyncPlanningConstants DEF SelectInv, ItemsAreWanted, Planned
    <3> QED
      BY <3>1, <3>2
  <2>3. \A n \in DOMAIN items : ~Local(items[n].source)
    BY ItemsSource
  <2>4. ASSUME NEW n \in DOMAIN items, NEW k \in DOMAIN items,
               in.rows[items[n].source].version = in.rows[items[k].source].version,
               in.rows[items[n].source].work = in.rows[items[k].source].work
        PROVE  n = k
    <3>1. wanted[n] = wanted[k]
      BY <2>4, ItemsSource DEF Identity
    <3>2. n \in 1..Len(wanted) /\ k \in 1..Len(wanted) /\ pc # "select"
      BY ItemsSource, SyncPlanningConstants DEF SelectInv, ItemsAreWanted, Planned
    <3> QED
      BY <3>1, <3>2 DEF SelectInv, WantedIsListed
  <2> QED
    BY <2>1, <2>2, <2>3, <2>4 DEF TypeOK
<1> QED
  BY <1>1, SelectInvariance, PTL

LEMMA HeldStays ==
  ASSUME SelectInv PROVE HeldIsNotFetched
<1> SUFFICES ASSUME NEW n \in DOMAIN items
             PROVE  /\ in.rows[items[n].source].state # "landed"
                    /\ Default => ~\E q \in Rows : Local(q) /\ StandsFor(q, items[n].source)
  BY DEF HeldIsNotFetched
<1> DEFINE s == items[n].source
           key == wanted[n]
           same == {q \in Members(key) : Local(q) /\ ~Conflicting(q, Source(key))}
           other == {q \in Rows : Local(q) /\ \E r \in Members(key) : q \in Counterparts(r)}
<1>1. key \in Wanted /\ s = Source(key) /\ Identity(s) = key
  BY ItemsSource
<1>2. Keeps(key)
  BY <1>1 DEF Wanted
<1>3. in.rows[s].state # "landed"
  BY <1>1, <1>2 DEF Keeps, StateOf
<1>4. same \subseteq Rows /\ other \subseteq Rows /\ 0 \notin Rows
  BY SyncPlanningConstants DEF Members, Candidates, Rows, SelectInv
<1>5. Ours(key) = IF same # {} THEN CHOOSE r \in same : TRUE
                  ELSE IF other # {} THEN CHOOSE r \in other : TRUE ELSE 0
  BY DEF Ours
<1>6. ASSUME NEW q \in Rows, Local(q), StandsFor(q, s) PROVE q \in same \/ q \in other
  <2>1. CASE q \in Members(Identity(s)) /\ ~Conflicting(q, s)
    BY <1>1, <1>6, <2>1
  <2>2. CASE \E m \in in.matches, r \in Members(Identity(s)) :
               r # q /\ m.ends = {r, q} /\ (m.conflict => SameContent(r, q))
    <3>1. PICK m \in in.matches, r \in Members(key) : r # q /\ m.ends = {r, q} /\ (m.conflict => SameContent(r, q))
      BY <1>1, <2>2
    <3>2. q \in Counterparts(r)
      BY <1>6, <3>1 DEF Counterparts, Interchangeable
    <3> QED
      BY <1>6, <3>1, <3>2
  <2> QED
    BY <1>6, <2>1, <2>2 DEF StandsFor
<1> HIDE DEF same, other
<1>7. ASSUME Default, NEW q \in Rows, Local(q), StandsFor(q, s) PROVE FALSE
  <2>1. same # {} \/ other # {}
    BY <1>6, <1>7
  <2>2. Ours(key) \in Rows
    <3>1. CASE same # {}
      BY <1>4, <1>5, <3>1
    <3>2. CASE same = {} /\ other # {}
      BY <1>4, <1>5, <3>2
    <3> QED
      BY <2>1, <3>1, <3>2
  <2>3. Ours(key) # 0
    BY <1>4, <2>2
  <2> QED
    BY <1>2, <1>7, <2>3 DEF Keeps, Default
<1> QED
  BY <1>3, <1>7

LEMMA ItemsDomain == ItemsAreASequence => DOMAIN items = 1..Len(items)
BY DEF ItemsAreASequence

\* All that is wanted is planned, unless it is more than a plan carries.
LEMMA AllPlanned ==
  ASSUME SelectInv, pc = "planned", Len(wanted) <= MaxPlanned
  PROVE  Len(items) = Len(wanted)
<1>1. Len(items) = Planned
  BY DEF SelectInv, ItemsAreWanted
<1>2. wanted \in Seq(Wanted)
  BY DEF SelectInv, WantedIsListed
<1>3. Len(wanted) \in Nat
  BY <1>2, LenProperties
<1> QED
  BY <1>1, <1>3, SyncPlanningConstants DEF Planned

LEMMA CutsArePlanned ==
  ASSUME SelectInv PROVE EveryCutIsPlanned
<1> SUFFICES ASSUME pc = "planned", in.filter = {}, Len(wanted) <= MaxPlanned,
                    NEW r \in Candidates, ~Local(r), in.rows[r].version # "",
                    in.rows[Source(Identity(r))].state # "landed",
                    \A q \in Rows : Local(q) => in.rows[q].version # in.rows[r].version,
                    \A m \in in.matches : m.ends \cap Members(Identity(r)) # {} => m.conflict
             PROVE  \E n \in DOMAIN items : items[n].key = Identity(r)
  BY DEF EveryCutIsPlanned
<1> DEFINE key == Identity(r)
<1>1. r \in Members(key) /\ \A q \in Members(key) : q \in Rows /\ in.rows[q].version = in.rows[r].version
  BY DEF Members, Candidates, Identity
<1>2. Source(key) \in Members(key) /\ Source(key) # 0
  BY <1>1, SourceIsMember DEF SelectInv
<1>3. Ours(key) = 0
  <2>1. {q \in Members(key) : Local(q) /\ ~Conflicting(q, Source(key))} = {}
    BY <1>1
  <2>2. ASSUME NEW q \in Rows, Local(q), NEW p \in Members(key), q \in Counterparts(p) PROVE FALSE
    <3>1. PICK m \in in.matches : m.ends = {p, q} /\ Interchangeable(m, p, q)
      BY <2>2 DEF Counterparts
    <3>2. m.conflict
      BY <3>1
    <3>3. in.rows[p].version = in.rows[q].version
      BY <3>1, <3>2 DEF Interchangeable, SameContent
    <3> QED
      BY <1>1, <2>2, <3>3
  <2>3. {q \in Rows : Local(q) /\ \E p \in Members(key) : q \in Counterparts(p)} = {}
    BY <2>2
  <2> QED
    BY <2>1, <2>3 DEF Ours
<1>4. StateOf(key) = "missing"
  BY <1>2, <1>3 DEF StateOf
<1>5. Keeps(key)
  BY <1>3, <1>4 DEF Keeps
<1>6. key \in Wanted
  BY <1>2, <1>5 DEF Wanted
<1>7. PICK n \in 1..Len(wanted) : wanted[n] = key
  BY <1>6 DEF SelectInv, WantedIsListed
<1>8. n \in DOMAIN items
  <2>1. DOMAIN items = 1..Len(items)
    BY ItemsDomain DEF SelectInv
  <2>2. Len(items) = Len(wanted)
    BY AllPlanned
  <2> QED
    BY <1>7, <2>1, <2>2
<1> QED
  BY <1>7, <1>8, SyncPlanningConstants DEF SelectInv, ItemsAreWanted, Planned

\* An automatic run fetches nothing that a copy of ours stands for, nothing from a row that
\* has landed and waits to be indexed, leaves out no version of which nobody here holds the
\* bytes, and takes of that the longest beginning its ceilings allow: for any catalogue,
\* scope, services and correlations.
THEOREM PlansTheMissing == Spec => []PlansWhatIsMissing
<1>1. SelectInv => PlansWhatIsMissing
  BY HeldStays, CutsArePlanned DEF PlansWhatIsMissing, SelectInv
<1> QED
  BY <1>1, SelectInvariance, PTL
=============================================================================
