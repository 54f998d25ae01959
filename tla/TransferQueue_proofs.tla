------------------------ MODULE TransferQueue_proofs ------------------------
(***************************************************************************)
(* The pool of the transfer engine, for any number of transfers, callers,  *)
(* requests, crashes and slots: it is never exceeded, no transfer is       *)
(* carried by two runs, and none both waits and runs.  Then the plan such  *)
(* a run is given, for any sizes, settings and batches: it tiles the file, *)
(* and taking it up again moves and trusts nothing.                        *)
(***************************************************************************)
EXTENDS TransferQueue, ChunkPlan, FiniteSetTheorems, WellFoundedInduction, TLAPS

Injective(q) == \A i, j \in 1..Len(q) : q[i] = q[j] => i = j

\* The part of the inductive invariant that speaks of _queue, _starting,
\* _running and the runs, as a predicate of their values.
Pool(q, s, rn, rs) ==
  /\ \A r \in Runs : rs[r].pc = "idle" => rs[r] = NoRun
  /\ \A t \in Transfers : rn[t] # NoLane => rs[<<t, rn[t]>>].pc # "idle"
  /\ \A t \in Transfers : \A l, m \in Lanes :
       rs[<<t, l>>].pc # "idle" /\ rs[<<t, m>>].pc # "idle" => l = m
  /\ Injective(q)
  /\ \A i \in 1..Len(q) : q[i] \notin s
  /\ s = {t \in Transfers : \E l \in Lanes : rs[<<t, l>>].pc # "idle"}
  /\ Cardinality(s) <= MaxParallel

PoolType(q, s, rn, rs) ==
  /\ q \in Seq(Transfers) /\ s \subseteq Transfers
  /\ rn \in [Transfers -> Lanes \cup {NoLane}]
  /\ rs \in [Runs -> Run]

\* A redirection acts on a row it has read, and a process that is down has
\* nothing in memory.
Inv ==
  /\ TypeOK
  /\ Pool(queue, starting, running, run)
  /\ ~up => queue = <<>> /\ starting = {}
  /\ \A c \in Callers : caller[c].op = "redirect" => caller[c].seen \in Row

-----------------------------------------------------------------------------
(* Lemmas about the operators of the pool.                                 *)

\* _removeFromQueue keeps the queue free of duplicates and adds nothing to it.
LEMMA WithoutShrinks ==
  ASSUME NEW q \in Seq(Transfers), Injective(q), NEW t
  PROVE  /\ Without(q, t) \in Seq(Transfers)
         /\ Injective(Without(q, t))
         /\ \A i \in 1..Len(Without(q, t)) : \E j \in 1..Len(q) : Without(q, t)[i] = q[j]
<1>1. CASE \E i \in 1..Len(q) : q[i] = t
  <2>1. PICK k \in 1..Len(q) : q[k] = t
    BY <1>1
  <2>2. k = CHOOSE i \in 1..Len(q) : q[i] = t /\ \A j \in 1..(i - 1) : q[j] # t
    BY <2>1 DEF Injective
  <2> DEFINE w == [i \in 1..(Len(q) - 1) |-> IF i < k THEN q[i] ELSE q[i + 1]]
  <2>3. Without(q, t) = w
    BY <1>1, <2>2 DEF Without
  <2>4. /\ w \in Seq(Transfers)
        /\ Len(w) = Len(q) - 1
        /\ \A i \in 1..Len(w) : w[i] = IF i < k THEN q[i] ELSE q[i + 1]
    OBVIOUS
  <2> HIDE DEF w
  <2>5. Injective(w)
    BY <2>4 DEF Injective
  <2> QED
    BY <2>3, <2>4, <2>5
<1>2. CASE ~ \E i \in 1..Len(q) : q[i] = t
  BY <1>2 DEF Without
<1> QED
  BY <1>1, <1>2

\* Taking transfers off the queue within the loop condition of _pump keeps the
\* pool within its bound, and every run it begins is the only one of its transfer.
LEMMA TakeKeepsPool ==
  ASSUME NEW q, NEW s, NEW rn, NEW rs, PoolType(q, s, rn, rs), Pool(q, s, rn, rs),
         NEW n \in 0..Len(q), \A i \in 0..(n - 1) : Free(q, s, rn, i),
         Take(n, q, s, rn, rs)
  PROVE  PoolType(queue', starting', running', run') /\ Pool(queue', starting', running', run')
<1> DEFINE ids   == {q[i] : i \in 1..n}
           fresh == [NoRun EXCEPT !.pc = "load"]
<1> USE DEF PoolType
<1>1. /\ queue' = SubSeq(q, n + 1, Len(q)) /\ starting' = s \cup ids /\ running' = rn
      /\ run' = [r \in Runs |-> IF r[1] \in ids /\ r[2] = FreeLane(rs, r[1])
                                THEN fresh ELSE rs[r]]
  BY DEF Take
<1>2. /\ queue' \in Seq(Transfers) /\ Len(queue') = Len(q) - n
      /\ \A i \in 1..Len(queue') : queue'[i] = q[i + n] /\ i + n \in 1..Len(q)
  BY <1>1
<1>3. ids \subseteq Transfers /\ \A t \in ids : \E i \in 1..n : i \in 1..Len(q) /\ t = q[i]
  OBVIOUS
<1>4. \A t \in ids : t \notin s
  BY <1>3 DEF Pool
<1>5. fresh \in Run /\ fresh.pc # "idle" /\ NoRun.pc = "idle"
  BY DEF NoRun, Run, Steps, Kinds
<1>6. \A t \in Transfers, l \in Lanes : <<t, l>> \in Runs
  BY DEF Runs
<1>13. Cardinality(starting') <= MaxParallel
  <2>1. CASE n = 0
    <3>1. ids = {}
      BY <2>1
    <3> QED
      BY <1>1, <3>1 DEF Pool
  <2>2. CASE n # 0
    <3> DEFINE most == s \cup {q[j] : j \in 1..(n - 1)}
    <3>1. n - 1 \in 0..(n - 1) /\ Free(q, s, rn, n - 1)
      BY <2>2
    <3>2. most \subseteq Transfers
      BY <2>2
    <3>3. starting' = most \cup {q[n]}
      <4>1. 1..n = (1..(n - 1)) \cup {n}
        BY <2>2
      <4> QED
        BY <1>1, <4>1
    <3>4. Cardinality(Registered(rn)) + Cardinality(most) < MaxParallel
      BY <3>1 DEF Free
    <3> HIDE DEF most
    <3>5. IsFiniteSet(most) /\ Cardinality(most) \in Nat
      BY <3>2, FS_Subset, FS_CardinalityType, QueueConstants
    <3>6. Cardinality(Registered(rn)) \in Nat
      <4>1. Registered(rn) \in SUBSET Transfers
        BY DEF Registered
      <4> QED
        BY <4>1, FS_Subset, FS_CardinalityType, QueueConstants
    <3>7. Cardinality(starting') \in {Cardinality(most), Cardinality(most) + 1}
      <4>1. Cardinality(most \cup {q[n]}) =
              IF q[n] \in most THEN Cardinality(most) ELSE Cardinality(most) + 1
        BY <3>5, FS_AddElement
      <4> QED
        BY <3>3, <4>1
    <3> QED
      BY <3>4, <3>5, <3>6, <3>7, QueueConstants
  <2> QED
    BY <2>1, <2>2
<1>11. Injective(queue') /\ \A i \in 1..Len(queue') : queue'[i] \notin starting'
  <2>1. Injective(queue')
    BY <1>2 DEF Pool, Injective
  <2>2. ASSUME NEW i \in 1..Len(queue') PROVE queue'[i] \notin ids
    BY <1>2, <1>3 DEF Pool, Injective
  <2> QED
    BY <1>1, <1>2, <2>1, <2>2 DEF Pool
<1> HIDE DEF ids, fresh
<1>7. \A t \in ids : FreeLane(rs, t) \in Lanes /\ \A l \in Lanes : rs[<<t, l>>] = NoRun
  <2> SUFFICES ASSUME NEW t \in ids
               PROVE  FreeLane(rs, t) \in Lanes /\ \A l \in Lanes : rs[<<t, l>>] = NoRun
    OBVIOUS
  <2>1. \A l \in Lanes : rs[<<t, l>>] = NoRun
    BY <1>3, <1>4, <1>6 DEF Pool
  <2> QED
    BY <2>1, QueueConstants DEF FreeLane
<1>8. run' \in [Runs -> Run]
  BY <1>1, <1>5
<1>9. \A t \in Transfers, l \in Lanes :
        run'[<<t, l>>] = IF t \in ids /\ l = FreeLane(rs, t) THEN fresh ELSE rs[<<t, l>>]
  BY <1>1, <1>6
<1>10. /\ \A r \in Runs : run'[r].pc = "idle" => run'[r] = NoRun
       /\ \A t \in Transfers : rn[t] # NoLane => run'[<<t, rn[t]>>].pc # "idle"
       /\ \A t \in Transfers : \A l, m \in Lanes :
            run'[<<t, l>>].pc # "idle" /\ run'[<<t, m>>].pc # "idle" => l = m
  <2>1. \A r \in Runs : run'[r].pc = "idle" => run'[r] = NoRun
    BY <1>1, <1>5 DEF Pool
  <2>2. ASSUME NEW t \in Transfers, rn[t] # NoLane PROVE run'[<<t, rn[t]>>].pc # "idle"
    BY <2>2, <1>5, <1>9 DEF Pool
  <2>3. ASSUME NEW t \in Transfers, NEW l \in Lanes, NEW m \in Lanes,
               run'[<<t, l>>].pc # "idle", run'[<<t, m>>].pc # "idle"
        PROVE  l = m
    BY <2>3, <1>5, <1>7, <1>9 DEF Pool
  <2> QED
    BY <2>1, <2>2, <2>3
<1>12. starting' = {t \in Transfers : \E l \in Lanes : run'[<<t, l>>].pc # "idle"}
  <2>1. ASSUME NEW t \in Transfers
        PROVE  t \in starting' <=> \E l \in Lanes : run'[<<t, l>>].pc # "idle"
    <3>1. CASE t \in ids
      <4>1. run'[<<t, FreeLane(rs, t)>>].pc # "idle"
        BY <3>1, <1>5, <1>7, <1>9
      <4> QED
        BY <3>1, <4>1, <1>1, <1>7
    <3>2. CASE t \notin ids
      <4>1. \A l \in Lanes : run'[<<t, l>>] = rs[<<t, l>>]
        BY <3>2, <1>9
      <4>2. t \in s <=> \E l \in Lanes : rs[<<t, l>>].pc # "idle"
        BY DEF Pool
      <4> QED
        BY <3>2, <4>1, <4>2, <1>1
    <3> QED
      BY <3>1, <3>2
  <2>2. starting' \subseteq Transfers
    BY <1>1, <1>3
  <2> QED
    BY <2>1, <2>2
<1>14. PoolType(queue', starting', running', run')
  BY <1>1, <1>2, <1>3, <1>8
<1>15. Pool(queue', starting', rn, run')
  BY <1>10, <1>11, <1>12, <1>13 DEF Pool
<1> QED
  BY <1>1, <1>14, <1>15

\* _pump, whatever made it run.
LEMMA PumpKeepsPool ==
  ASSUME NEW q, NEW s, NEW rn, NEW rs, PoolType(q, s, rn, rs), Pool(q, s, rn, rs),
         Pump(q, s, rn, rs)
  PROVE  PoolType(queue', starting', running', run') /\ Pool(queue', starting', running', run')
<1>1. PICK n \in 0..Len(q) : /\ IF draining \/ queuePaused THEN n = 0 ELSE Admits(q, s, rn, n)
                             /\ Take(n, q, s, rn, rs)
  BY DEF Pump
<1>2. \A i \in 0..(n - 1) : Free(q, s, rn, i)
  BY <1>1 DEF Admits
<1> QED
  BY <1>1, <1>2, TakeKeepsPool

\* A step that changes one live run into another live run, may shorten the
\* queue, and registers at most the run it changes.
LEMMA LiveRunKeepsPool ==
  ASSUME NEW q, NEW s, NEW rn, NEW rs, PoolType(q, s, rn, rs), Pool(q, s, rn, rs),
         NEW r \in Runs, rs[r].pc # "idle", NEW x \in Run, x.pc # "idle",
         NEW rn2, rn2 \in {rn, [rn EXCEPT ![r[1]] = NoLane], [rn EXCEPT ![r[1]] = r[2]]},
         NEW q2, q2 \in {q, Without(q, r[1])}
  PROVE  /\ PoolType(q2, s, rn2, [rs EXCEPT ![r] = x])
         /\ Pool(q2, s, rn2, [rs EXCEPT ![r] = x])
<1> DEFINE rs2 == [rs EXCEPT ![r] = x]
<1> USE DEF PoolType
<1>1. /\ q2 \in Seq(Transfers) /\ Injective(q2) /\ \A i \in 1..Len(q2) : q2[i] \notin s
  BY WithoutShrinks DEF Pool
<1>2. r[1] \in Transfers /\ r[2] \in Lanes /\ r = <<r[1], r[2]>>
  BY DEF Runs
<1>3. rs2 \in [Runs -> Run] /\ rn2 \in [Transfers -> Lanes \cup {NoLane}]
  BY <1>2
<1>4. \A a \in Runs : rs2[a].pc # "idle" <=> rs[a].pc # "idle"
  OBVIOUS
<1>5. \A t \in Transfers : rn2[t] # NoLane => rs2[<<t, rn2[t]>>].pc # "idle"
  <2> SUFFICES ASSUME NEW t \in Transfers, rn2[t] # NoLane
               PROVE  rs2[<<t, rn2[t]>>].pc # "idle"
    OBVIOUS
  <2>1. rn2[t] \in Lanes /\ <<t, rn2[t]>> \in Runs
    BY <1>3 DEF Runs
  <2>2. rs[<<t, rn2[t]>>].pc # "idle"
    BY <1>2 DEF Pool
  <2> QED
    BY <1>4, <2>1, <2>2
<1>6. \A a \in Runs : rs2[a].pc = "idle" => rs2[a] = NoRun
  BY DEF Pool
<1>7. \A t \in Transfers, l \in Lanes : <<t, l>> \in Runs
  BY DEF Runs
<1>8. \A t \in Transfers : \A l, m \in Lanes :
        rs2[<<t, l>>].pc # "idle" /\ rs2[<<t, m>>].pc # "idle" => l = m
  BY <1>4, <1>7 DEF Pool
<1>9. s = {t \in Transfers : \E l \in Lanes : rs2[<<t, l>>].pc # "idle"}
  BY <1>4, <1>7 DEF Pool
<1> HIDE DEF rs2
<1> QED
  BY <1>1, <1>3, <1>5, <1>6, <1>8, <1>9 DEF Pool, rs2

\* The finally of _pump: the run is over and its slot is given back.
LEMMA EndKeepsPool ==
  ASSUME NEW q, NEW s, NEW rn, NEW rs, PoolType(q, s, rn, rs), Pool(q, s, rn, rs),
         NEW r \in Runs, rs[r].pc # "idle"
  PROVE  /\ PoolType(q, s \ {r[1]}, [rn EXCEPT ![r[1]] = NoLane], [rs EXCEPT ![r] = NoRun])
         /\ Pool(q, s \ {r[1]}, [rn EXCEPT ![r[1]] = NoLane], [rs EXCEPT ![r] = NoRun])
<1> DEFINE rs2 == [rs EXCEPT ![r] = NoRun]
           rn2 == [rn EXCEPT ![r[1]] = NoLane]
           s2  == s \ {r[1]}
<1> USE DEF PoolType
<1>1. r[1] \in Transfers /\ r[2] \in Lanes /\ r = <<r[1], r[2]>>
  BY DEF Runs
<1>2. NoRun \in Run /\ NoRun.pc = "idle"
  BY DEF NoRun, Run, Steps, Kinds
<1>3. /\ rs2 \in [Runs -> Run] /\ rn2 \in [Transfers -> Lanes \cup {NoLane}]
      /\ s2 \subseteq Transfers
  BY <1>1, <1>2
<1>4. \A t \in Transfers, l \in Lanes : <<t, l>> \in Runs
  BY DEF Runs
<1>5. \A t \in Transfers : \A l \in Lanes :
        rs2[<<t, l>>].pc # "idle" <=> t # r[1] /\ rs[<<t, l>>].pc # "idle"
  <2> SUFFICES ASSUME NEW t \in Transfers, NEW l \in Lanes
               PROVE  rs2[<<t, l>>].pc # "idle" <=> t # r[1] /\ rs[<<t, l>>].pc # "idle"
    OBVIOUS
  <2>1. CASE t # r[1]
    <3>1. <<t, l>> # r /\ <<t, l>> \in Runs
      BY <2>1, <1>1, <1>4
    <3> QED
      BY <2>1, <3>1
  <2>2. CASE t = r[1] /\ l = r[2]
    BY <2>2, <1>1, <1>2
  <2>3. CASE t = r[1] /\ l # r[2]
    <3>1. <<t, l>> # r /\ <<t, l>> \in Runs
      BY <2>3, <1>1, <1>4
    <3>2. rs[<<t, l>>].pc = "idle"
      BY <2>3, <1>1 DEF Pool
    <3> QED
      BY <2>3, <3>1, <3>2
  <2> QED
    BY <2>1, <2>2, <2>3
<1>6. \A a \in Runs : rs2[a].pc = "idle" => rs2[a] = NoRun
  BY DEF Pool
<1>7. \A t \in Transfers : rn2[t] # NoLane => rs2[<<t, rn2[t]>>].pc # "idle"
  <2> SUFFICES ASSUME NEW t \in Transfers, rn2[t] # NoLane
               PROVE  rs2[<<t, rn2[t]>>].pc # "idle"
    OBVIOUS
  <2>1. t # r[1] /\ rn2[t] = rn[t] /\ rn[t] \in Lanes
    BY <1>1, <1>3
  <2>2. rs[<<t, rn[t]>>].pc # "idle"
    BY <2>1 DEF Pool
  <2> QED
    BY <2>1, <2>2, <1>5
<1>8. Cardinality(s2) <= MaxParallel
  <2>1. IsFiniteSet(s)
    BY FS_Subset, QueueConstants
  <2>2. Cardinality(s2) <= Cardinality(s) /\ Cardinality(s2) \in Nat /\ Cardinality(s) \in Nat
    BY <2>1, FS_Subset, FS_CardinalityType
  <2> QED
    BY <2>2, QueueConstants DEF Pool
<1> HIDE DEF rs2, rn2
<1>9. \A t \in Transfers : \A l, m \in Lanes :
        rs2[<<t, l>>].pc # "idle" /\ rs2[<<t, m>>].pc # "idle" => l = m
  BY <1>5 DEF Pool
<1>10. s2 = {t \in Transfers : \E l \in Lanes : rs2[<<t, l>>].pc # "idle"}
  BY <1>5 DEF Pool
<1>11. Injective(q) /\ \A i \in 1..Len(q) : q[i] \notin s2
  BY DEF Pool
<1> HIDE DEF s2
<1>12. PoolType(q, s2, rn2, rs2) /\ Pool(q, s2, rn2, rs2)
  BY <1>3, <1>6, <1>7, <1>8, <1>9, <1>10, <1>11 DEF Pool
<1> QED
  BY <1>12 DEF s2, rn2, rs2

-----------------------------------------------------------------------------
(* The invariant, step by step.                                            *)

\* What the invariant says besides the pool.
Store ==
  /\ row \in [Transfers -> Row \cup {NoRow}]
  /\ work \subseteq Transfers /\ placed \in [Transfers -> SUBSET Folders]
  /\ queuePaused \in BOOLEAN /\ up \in BOOLEAN /\ draining \in BOOLEAN
  /\ caller \in [Callers -> Caller]
  /\ asked \in Nat /\ stops \in Nat
  /\ \A c \in Callers : caller[c].op = "redirect" => caller[c].seen \in Row

Empty(u, q, s) == u \/ (q = <<>> /\ s = {})

\* The invariant taken apart.
LEMMA InvOpens ==
  ASSUME Inv
  PROVE  /\ Store /\ PoolType(queue, starting, running, run)
         /\ Pool(queue, starting, running, run) /\ Empty(up, queue, starting)
  BY Zenon DEF Inv, TypeOK, Store, PoolType, Empty

\* And put together again after a step.
LEMMA InvCloses ==
  ASSUME Store', PoolType(queue', starting', running', run'),
         Pool(queue', starting', running', run'), Empty(up', queue', starting')
  PROVE  Inv'
<1>1. TypeOK'
  BY Zenon DEF TypeOK, Store, PoolType
<1>2. Pool(queue, starting, running, run)'
  BY Zenon DEF Pool, Injective
<1>3. (~up => queue = <<>> /\ starting = {})'
  BY Zenon DEF Empty
<1>4. (\A c \in Callers : caller[c].op = "redirect" => caller[c].seen \in Row)'
  BY Zenon DEF Store
<1> QED
  BY Zenon, <1>1, <1>2, <1>3, <1>4 DEF Inv

\* A run that goes from one of its awaits to the next.
LEMMA GotoKeepsPool ==
  ASSUME Inv, NEW r \in Runs, run[r].pc # "idle", NEW p \in Steps \ {"idle"}, Goto(r, p),
         starting' = starting, queue' \in {queue, Without(queue, r[1])},
         running' \in {running, [running EXCEPT ![r[1]] = NoLane],
                       [running EXCEPT ![r[1]] = r[2]]}
  PROVE  PoolType(queue', starting', running', run') /\ Pool(queue', starting', running', run')
<1> DEFINE x == [run[r] EXCEPT !.pc = p]
<1>1. PoolType(queue, starting, running, run) /\ Pool(queue, starting, running, run)
  BY InvOpens
<1>2. run[r] \in Run
  BY <1>1 DEF PoolType
<1>3. x \in Run /\ x.pc # "idle"
  BY <1>2 DEF Run
<1>4. run' = [run EXCEPT ![r] = x]
  BY <1>1 DEF Goto, PoolType
<1> HIDE DEF x
<1>5. /\ PoolType(queue', starting, running', [run EXCEPT ![r] = x])
      /\ Pool(queue', starting, running', [run EXCEPT ![r] = x])
  BY <1>1, <1>3, LiveRunKeepsPool
<1> QED
  BY <1>4, <1>5

\* A row with another state, or another state and another reason, is a row.
LEMMA RowWrites ==
  ASSUME Store, NEW t \in Transfers, NEW state \in States, NEW kind \in Kinds,
         NEW e \in Row \cup {NoRow}
  PROVE  /\ [row EXCEPT ![t].state = state, ![t].kind = kind] \in [Transfers -> Row \cup {NoRow}]
         /\ [row EXCEPT ![t].state = state] \in [Transfers -> Row \cup {NoRow}]
         /\ [row EXCEPT ![t] = [e EXCEPT !.state = state, !.kind = kind]]
              \in [Transfers -> Row \cup {NoRow}]
         /\ [row EXCEPT ![t] = [e EXCEPT !.state = state]] \in [Transfers -> Row \cup {NoRow}]
<1>1. row \in [Transfers -> Row \cup {NoRow}]
  BY DEF Store
<1>2. ASSUME NEW f \in Row \cup {NoRow}
      PROVE  /\ [f EXCEPT !.state = state, !.kind = kind] \in Row
             /\ [f EXCEPT !.state = state] \in Row
  <2>1. f \in [state : States \cup {"none"}, target : Folders, kind : Kinds]
    BY QueueConstants DEF Row, NoRow, Kinds
  <2> QED
    BY <2>1 DEF Row
<1>3. row[t] \in Row \cup {NoRow}
  BY <1>1
<1>4. /\ [row EXCEPT ![t].state = state, ![t].kind = kind]
           = [row EXCEPT ![t] = [row[t] EXCEPT !.state = state, !.kind = kind]]
      /\ [row EXCEPT ![t].state = state] = [row EXCEPT ![t] = [row[t] EXCEPT !.state = state]]
  BY <1>1
<1> QED
  BY <1>1, <1>2, <1>3, <1>4

Rows == [Transfers -> Row \cup {NoRow}]

\* A step of a run: it leaves the process, the requests and the setting alone.
LEMMA QuietKeepsInv ==
  ASSUME Inv, up, Quiet, row' \in Rows, work' \subseteq Transfers,
         placed' \in [Transfers -> SUBSET Folders],
         PoolType(queue', starting', running', run'), Pool(queue', starting', running', run')
  PROVE  Inv'
<1>1. Store'
  <2>1. Store
    BY InvOpens
  <2>2. UNCHANGED <<up, draining, caller, asked, stops, queuePaused>>
    BY DEF Quiet, bounds
  <2> QED
    BY Zenon, <2>1, <2>2 DEF Store, Rows
<1>2. Empty(up', queue', starting')
  BY Zenon DEF Empty, Quiet
<1> QED
  BY <1>1, <1>2, InvCloses

\* _setState writes a row, or finds none and ends the run.
LEMMA SetsStateWrites ==
  ASSUME Inv, NEW r \in Runs, NEW state \in States, NEW p, RunSetsState(r, state, p)
  PROVE  row' \in Rows /\ (Goto(r, p) \/ Goto(r, "close"))
<1>1. r[1] \in Transfers
  BY DEF Runs
<1>2. Store /\ row \in Rows
  BY InvOpens DEF Store, Rows
<1>3. [row EXCEPT ![r[1]].state = state] \in Rows
  <2>1. "none" \in Kinds /\ NoRow \in Row \cup {NoRow}
    BY DEF Kinds
  <2> QED
    BY <1>1, <1>2, <2>1, RowWrites DEF Rows
<1> QED
  BY <1>2, <1>3 DEF RunSetsState

\* A whole-entity save writes a row.
LEMMA SavesWrites ==
  ASSUME Inv, NEW r \in Runs, NEW state \in States, NEW kind \in Kinds, RunSaves(r, state, kind)
  PROVE  row' \in Rows
<1>1. r[1] \in Transfers
  BY DEF Runs
<1>2. Store /\ run[r].seen \in Row \cup {NoRow}
  BY InvOpens DEF PoolType, Run
<1> QED
  BY <1>1, <1>2, RowWrites DEF Rows, RunSaves

\* Saving the entity as it was loaded writes that entity back.
LEMMA StaleSaveWrites ==
  ASSUME Inv, NEW r \in Runs, RunSaves(r, run[r].seen.state, run[r].seen.kind)
  PROVE  row' \in Rows
<1>1. r[1] \in Transfers
  BY DEF Runs
<1>2. row \in Rows /\ run[r].seen \in Row \cup {NoRow}
  BY InvOpens DEF PoolType, Run, Store, Rows
<1>3. ASSUME NEW e \in Row \cup {NoRow}
      PROVE  [e EXCEPT !.state = e.state, !.kind = e.kind] = e
  BY DEF Row, NoRow
<1>4. row' = [row EXCEPT ![r[1]] = run[r].seen]
  BY <1>2, <1>3 DEF RunSaves
<1> QED
  BY <1>1, <1>2, <1>4 DEF Rows

\* Marking a transfer that is not running cancelled.
LEMMA DiscardWrites ==
  ASSUME Inv, NEW t \in Transfers, NEW kind \in Kinds, Discard(t, kind)
  PROVE  row' \in Rows /\ work' \subseteq Transfers /\ queue' = Without(queue, t)
<1>1. Store /\ row \in Rows /\ work \subseteq Transfers
  BY InvOpens DEF Store, Rows
<1>2. [row EXCEPT ![t].state = "cancelled", ![t].kind = kind] \in Rows
  BY <1>1, RowWrites DEF Rows, States, Finished
<1> QED
  BY <1>1, <1>2 DEF Discard

\* What a step of a run leaves to be shown, when it only moves that run on.
LEMMA MovesOn ==
  ASSUME Inv, up, Quiet, NEW r \in Runs, run[r].pc # "idle", NEW p \in Steps \ {"idle"},
         Goto(r, p), row' \in Rows, work' \subseteq Transfers,
         placed' \in [Transfers -> SUBSET Folders],
         starting' = starting, queue' \in {queue, Without(queue, r[1])},
         running' \in {running, [running EXCEPT ![r[1]] = NoLane],
                       [running EXCEPT ![r[1]] = r[2]]}
  PROVE  Inv'
  BY GotoKeepsPool, QuietKeepsInv

\* A run that leaves _running and cancels its transfer.
LEMMA CancelsKeepsInv ==
  ASSUME Inv, up, Quiet, NEW r \in Runs, run[r].pc # "idle", NEW kind \in Kinds,
         RunCancels(r, kind)
  PROVE  Inv'
<1>1. r[1] \in Transfers
  BY DEF Runs
<1>2. row' \in Rows /\ work' \subseteq Transfers /\ queue' = Without(queue, r[1])
  BY <1>1, DiscardWrites DEF RunCancels
<1>3. placed' \in [Transfers -> SUBSET Folders]
  BY InvOpens DEF RunCancels, Store
<1> QED
  BY <1>2, <1>3, MovesOn DEF RunCancels, Steps

\* A run that writes a state to its row and moves on, touching nothing else.
LEMMA SetsStateKeepsInv ==
  ASSUME Inv, up, Quiet, NEW r \in Runs, run[r].pc # "idle", NEW state \in States,
         NEW p \in Steps \ {"idle"}, RunSetsState(r, state, p),
         UNCHANGED <<work, placed, queue, starting, running>>
  PROVE  Inv'
<1>1. row' \in Rows /\ (Goto(r, p) \/ Goto(r, "close"))
  BY SetsStateWrites
<1>2. work' \subseteq Transfers /\ placed' \in [Transfers -> SUBSET Folders]
  BY InvOpens DEF Store
<1>3. "close" \in Steps \ {"idle"}
  BY DEF Steps
<1> QED
  BY <1>1, <1>2, <1>3, MovesOn

\* A move that was stopped ends as a cancellation or as a pause.
LEMMA MoveStoppedKeepsInv ==
  ASSUME Inv, up, Quiet, NEW r \in Runs, run[r].pc # "idle", RunMoveStopped(r)
  PROVE  Inv'
<1>1. CASE RunCancels(r, "cancelled")
  BY <1>1, CancelsKeepsInv DEF Kinds
<1>2. CASE /\ RunSetsState(r, "paused", "close")
           /\ UNCHANGED <<work, placed, queue, starting, running>>
  BY <1>2, SetsStateKeepsInv DEF States, Steps
<1> QED
  BY <1>1, <1>2 DEF RunMoveStopped

\* Every step of a run.
LEMMA RunKeepsInv ==
  ASSUME Inv, NEW r \in Runs, RunStep(r) \/ RunProgress(r)
  PROVE  Inv'
<1> USE DEF At
<1>t. r[1] \in Transfers /\ r[2] \in Lanes
  BY DEF Runs
<1>s. /\ row \in Rows /\ work \subseteq Transfers /\ placed \in [Transfers -> SUBSET Folders]
      /\ run \in [Runs -> Run] /\ row[r[1]] \in Row \cup {NoRow}
  BY <1>t, InvOpens DEF Store, Rows, PoolType
<1>p. /\ Steps \ {"idle"} = {"load", "connect", "prepare", "persist", "open", "announce",
          "download", "verify", "place", "move", "settle", "close"}
      /\ {"connecting", "downloading", "verifying", "placing", "paused", "failed", "done"} \subseteq States
      /\ {"none", "failed"} \subseteq Kinds
  BY DEF Steps, States, Live, Finished, Kinds
<1>1. CASE RunLoad(r)
  <2>1. up /\ Quiet /\ run[r].pc # "idle"
    BY <1>1 DEF RunLoad
  <2>2. UNCHANGED <<row, work, placed, queue, starting, running>>
    BY <1>1 DEF RunLoad, store
  <2>3. CASE Goto(r, "close")
    BY <2>1, <2>2, <2>3, <1>s, <1>p, MovesOn
  <2>4. CASE run' = [run EXCEPT ![r].pc = "connect", ![r].seen = row[r[1]]]
    <3> DEFINE x == [run[r] EXCEPT !.pc = "connect", !.seen = row[r[1]]]
    <3>1. x \in Run /\ x.pc # "idle" /\ run' = [run EXCEPT ![r] = x]
      BY <2>4, <1>s DEF Run, Steps
    <3> HIDE DEF x
    <3>2. /\ PoolType(queue, starting, running, [run EXCEPT ![r] = x])
          /\ Pool(queue, starting, running, [run EXCEPT ![r] = x])
      BY <2>1, <3>1, InvOpens, LiveRunKeepsPool
    <3> QED
      BY <2>1, <2>2, <3>1, <3>2, <1>s, QuietKeepsInv
  <2> QED
    BY <1>1, <2>3, <2>4 DEF RunLoad
<1>2. CASE RunConnect(r)
  BY <1>2, <1>p, SetsStateKeepsInv DEF RunConnect
<1>3. CASE RunPrepare(r)
  <2>1. row' \in Rows /\ (Goto(r, "persist") \/ Goto(r, "close"))
    BY <1>3, <1>p, <1>s, SavesWrites DEF RunPrepare
  <2> QED
    BY <1>3, <2>1, <1>p, <1>s, MovesOn DEF RunPrepare
<1>4. CASE RunPersist(r)
  <2>1. row' \in Rows /\ Goto(r, "open")
    BY <1>4, StaleSaveWrites DEF RunPersist
  <2> QED
    BY <1>4, <2>1, <1>p, <1>s, MovesOn DEF RunPersist
<1>5. CASE RunOpen(r)
  <2>1. work' \subseteq Transfers /\ Goto(r, "announce")
    BY <1>5, <1>t, <1>s DEF RunOpen
  <2> QED
    BY <1>5, <2>1, <1>p, <1>s, MovesOn DEF RunOpen
<1>6. CASE RunAnnounce(r)
  BY <1>6, <1>p, SetsStateKeepsInv DEF RunAnnounce
<1>7. CASE RunProgress(r)
  <2>1. row' \in Rows
    BY <1>7, StaleSaveWrites DEF RunProgress
  <2>2. UNCHANGED <<work, placed, queue, starting, running, run>>
    BY <1>7 DEF RunProgress, memory
  <2> QED
    BY <1>7, <2>1, <2>2, <1>s, InvOpens, QuietKeepsInv DEF RunProgress
<1>8. CASE RunDownloaded(r)
  <2>1. up /\ Quiet /\ run[r].pc # "idle"
    BY <1>8 DEF RunDownloaded
  <2>2. CASE RunCancels(r, run[r].kind)
    <3>1. run[r].kind \in Kinds
      BY <1>s DEF Run
    <3> QED
      BY <2>1, <2>2, <3>1, CancelsKeepsInv
  <2>3. CASE /\ RunSetsState(r, "paused", "close") \/ RunSetsState(r, "verifying", "verify")
             /\ UNCHANGED <<work, placed, queue, starting, running>>
    BY <2>1, <2>3, <1>p, SetsStateKeepsInv
  <2> QED
    BY <1>8, <2>2, <2>3 DEF RunDownloaded
<1>9. CASE RunVerify(r)
  <2>1. CASE RunSetsState(r, "placing", "place")
    BY <1>9, <2>1, <1>p, SetsStateKeepsInv DEF RunVerify
  <2>2. CASE RunSaves(r, "failed", "failed") /\ Goto(r, "close")
    <3>1. row' \in Rows
      BY <2>2, <1>p, SavesWrites
    <3> QED
      BY <1>9, <2>2, <3>1, <1>p, <1>s, MovesOn DEF RunVerify
  <2> QED
    BY <1>9, <2>1, <2>2 DEF RunVerify
<1>10. CASE RunPlace(r)
  <2>1. CASE Goto(r, "move") /\ UNCHANGED <<row, work, placed, queue, starting, running>>
    BY <1>10, <2>1, <1>p, <1>s, MovesOn DEF RunPlace
  <2>2. CASE RunMoveStopped(r)
    BY <1>10, <2>2, MoveStoppedKeepsInv DEF RunPlace
  <2> QED
    BY <1>10, <2>1, <2>2 DEF RunPlace
<1>11. CASE RunMove(r)
  <2>1. CASE /\ placed' = [placed EXCEPT ![r[1]] = @ \cup {run[r].seen.target}]
             /\ work' = work \ {r[1]}
             /\ Goto(r, "settle")
             /\ UNCHANGED <<row, queue, starting, running>>
    <3>1. run[r].seen.target \in Folders
      BY <1>s, QueueConstants DEF Run, Row, NoRow
    <3>2. placed' \in [Transfers -> SUBSET Folders]
      BY <2>1, <3>1, <1>s
    <3> QED
      BY <1>11, <2>1, <3>2, <1>p, <1>s, MovesOn DEF RunMove
  <2>2. CASE RunMoveStopped(r)
    BY <1>11, <2>2, MoveStoppedKeepsInv DEF RunMove
  <2> QED
    BY <1>11, <2>1, <2>2 DEF RunMove
<1>12. CASE RunSettle(r)
  <2>1. row' \in Rows
    BY <1>12, <1>p, SavesWrites DEF RunSettle
  <2> QED
    BY <1>12, <2>1, <1>p, <1>s, MovesOn DEF RunSettle
<1>13. CASE RunError(r)
  <2>1. row' \in Rows
    <3>1. [row EXCEPT ![r[1]].state = "failed", ![r[1]].kind = "failed"] \in Rows
      BY <1>t, <1>s, <1>p, InvOpens, RowWrites DEF Rows
    <3> QED
      BY <1>13, <3>1, <1>s DEF RunError, RunThrows
  <2>2. run[r].pc # "idle"
    BY <1>13 DEF RunError
  <2> QED
    BY <1>13, <2>1, <2>2, <1>p, <1>s, MovesOn DEF RunError, RunThrows
<1>14. CASE RunEnds(r)
  <2>1. /\ PoolType(queue, starting \ {r[1]}, [running EXCEPT ![r[1]] = NoLane],
                    [run EXCEPT ![r] = NoRun])
        /\ Pool(queue, starting \ {r[1]}, [running EXCEPT ![r[1]] = NoLane],
                [run EXCEPT ![r] = NoRun])
    BY <1>14, InvOpens, EndKeepsPool DEF RunEnds
  <2>2. PoolType(queue', starting', running', run') /\ Pool(queue', starting', running', run')
    BY <1>14, <2>1, PumpKeepsPool DEF RunEnds
  <2> QED
    BY <1>14, <2>2, <1>s, QuietKeepsInv DEF RunEnds, store
<1> QED
  BY <1>1, <1>2, <1>3, <1>4, <1>5, <1>6, <1>7, <1>8, <1>9, <1>10, <1>11, <1>12, <1>13, <1>14
     DEF RunStep

-----------------------------------------------------------------------------
(* Requests.                                                               *)

\* What a caller may hold.
Calls(cl) ==
  /\ cl \in [Callers -> Caller]
  /\ \A c \in Callers : cl[c].op = "redirect" => cl[c].seen \in Row

\* Taking a transfer out of the queue disturbs nothing else.
LEMMA ShorterQueueKeepsPool ==
  ASSUME NEW q, NEW s, NEW rn, NEW rs, PoolType(q, s, rn, rs), Pool(q, s, rn, rs), NEW t
  PROVE  PoolType(Without(q, t), s, rn, rs) /\ Pool(Without(q, t), s, rn, rs)
<1>1. q \in Seq(Transfers) /\ Injective(q) /\ \A i \in 1..Len(q) : q[i] \notin s
  BY DEF PoolType, Pool
<1> DEFINE w == Without(q, t)
<1>2. /\ w \in Seq(Transfers) /\ Injective(w)
      /\ \A i \in 1..Len(w) : \E j \in 1..Len(q) : w[i] = q[j]
  BY <1>1, WithoutShrinks
<1> HIDE DEF w
<1>3. PoolType(w, s, rn, rs) /\ Pool(w, s, rn, rs)
  BY <1>1, <1>2 DEF PoolType, Pool
<1> QED
  BY <1>3 DEF w

\* A request that is over, or that goes on to its second half.
LEMMA CallsGoOn ==
  ASSUME Inv, NEW c \in Callers, caller[c].todo # <<>>, Finish(c) \/ Halfway(c)
  PROVE  Calls(caller')
<1>1. caller \in [Callers -> Caller] /\ caller[c] \in Caller
      /\ \A d \in Callers : caller[d].op = "redirect" => caller[d].seen \in Row
  BY InvOpens DEF Store
<1>2. NoCall \in Caller /\ NoCall.op # "redirect"
  BY DEF NoCall, Caller
<1>3. CASE Halfway(c)
  <2> DEFINE x == [caller[c] EXCEPT !.step = 2]
  <2>1. x \in Caller /\ x.op = caller[c].op /\ x.seen = caller[c].seen
    BY <1>1 DEF Caller
  <2>2. caller' = [caller EXCEPT ![c] = x]
    BY <1>1, <1>3 DEF Halfway
  <2> HIDE DEF x
  <2> QED
    BY <1>1, <2>1, <2>2 DEF Calls
<1>4. CASE Finish(c)
  <2>1. /\ Walked(caller[c]) \in Caller
        /\ Walked(caller[c]).op = "redirect" => caller[c].op = "redirect"
                                                /\ Walked(caller[c]).seen = caller[c].seen
    <3>1. CASE Len(caller[c].todo) = 1
      BY <3>1, <1>2 DEF Walked
    <3>2. CASE Len(caller[c].todo) # 1
      <4>1. Tail(caller[c].todo) \in Seq(Transfers)
        BY <1>1 DEF Caller
      <4> QED
        BY <1>1, <3>2, <4>1 DEF Walked, Caller
    <3> QED
      BY <3>1, <3>2
  <2> QED
    BY <1>1, <1>4, <2>1 DEF Calls, Finish
<1> QED
  BY <1>3, <1>4

\* What a step of a request leaves to be shown.
LEMMA CallKeepsInv ==
  ASSUME Inv, up, UNCHANGED <<up, draining, bounds, queuePaused, placed>>,
         row' \in Rows, work' \subseteq Transfers, Calls(caller'),
         PoolType(queue', starting', running', run'), Pool(queue', starting', running', run')
  PROVE  Inv'
<1>1. Store'
  <2>1. Store
    BY InvOpens
  <2>2. UNCHANGED <<up, draining, asked, stops, queuePaused, placed>>
    BY DEF bounds
  <2> QED
    BY Zenon, <2>1, <2>2 DEF Store, Rows, Calls
<1>2. Empty(up', queue', starting')
  BY Zenon DEF Empty
<1> QED
  BY <1>1, <1>2, InvCloses

\* The subject of a request is a transfer.
LEMMA SubjectIsTransfer ==
  ASSUME Inv, NEW c \in Callers, caller[c].todo # <<>>
  PROVE  Subject(c) \in Transfers
  BY InvOpens DEF Store, Caller, Subject

\* The registered run of a transfer is alive.
LEMMA RegisteredIsAlive ==
  ASSUME Inv, NEW t \in Transfers, running[t] # NoLane
  PROVE  <<t, running[t]>> \in Runs /\ run[<<t, running[t]>>].pc # "idle"
  BY InvOpens DEF PoolType, Pool, Runs

\* pause, on a running transfer and on one that waits.
LEMMA EnginePauseKeepsPool ==
  ASSUME Inv, NEW t \in Transfers, EnginePause(t)
  PROVE  /\ row' \in Rows
         /\ PoolType(queue', starting', running', run')
         /\ Pool(queue', starting', running', run')
<1>1. /\ Store /\ row \in Rows /\ PoolType(queue, starting, running, run)
      /\ Pool(queue, starting, running, run) /\ run \in [Runs -> Run]
  BY InvOpens DEF Store, Rows, PoolType
<1>2. CASE running[t] # NoLane
  <2> DEFINE r == <<t, running[t]>>
             x == [run[r] EXCEPT !.pausing = TRUE, !.reason = Aborted(run[r], "pause")]
  <2>1. r \in Runs /\ run[r].pc # "idle"
    BY <1>2, RegisteredIsAlive
  <2>2. run' = [run EXCEPT ![r].pausing = TRUE, ![r].reason = Aborted(run[r], "pause")]
        /\ UNCHANGED <<row, queue, starting, running>>
    BY <1>2 DEF EnginePause
  <2> HIDE DEF r
  <2>3. x \in Run /\ x.pc # "idle" /\ run' = [run EXCEPT ![r] = x]
    BY <1>1, <2>1, <2>2 DEF Run, Aborted
  <2> HIDE DEF x
  <2>4. /\ PoolType(queue, starting, running, [run EXCEPT ![r] = x])
        /\ Pool(queue, starting, running, [run EXCEPT ![r] = x])
    BY <1>1, <2>1, <2>3, LiveRunKeepsPool
  <2> QED
    BY <1>1, <2>2, <2>3, <2>4
<1>3. CASE running[t] = NoLane
  <2>1. [row EXCEPT ![t].state = "paused"] \in Rows
    BY <1>1, RowWrites DEF Rows, States, Kinds
  <2>2. row' \in Rows /\ queue' = Without(queue, t) /\ UNCHANGED <<run, starting, running>>
    BY <1>1, <1>3, <2>1 DEF EnginePause
  <2> QED
    BY <1>1, <2>2, ShorterQueueKeepsPool
<1> QED
  BY <1>2, <1>3

\* cancel, on a running transfer and on one that waits.
LEMMA EngineCancelKeepsPool ==
  ASSUME Inv, NEW t \in Transfers, NEW kind \in Kinds, EngineCancel(t, kind)
  PROVE  /\ row' \in Rows /\ work' \subseteq Transfers
         /\ PoolType(queue', starting', running', run')
         /\ Pool(queue', starting', running', run')
<1>1. /\ Store /\ row \in Rows /\ PoolType(queue, starting, running, run)
      /\ Pool(queue, starting, running, run) /\ run \in [Runs -> Run] /\ work \subseteq Transfers
  BY InvOpens DEF Store, Rows, PoolType
<1>2. CASE running[t] # NoLane
  <2> DEFINE r == <<t, running[t]>>
             x == [run[r] EXCEPT !.cancelling = TRUE, !.kind = kind,
                                 !.reason = Aborted(run[r], "cancel")]
  <2>1. r \in Runs /\ run[r].pc # "idle"
    BY <1>2, RegisteredIsAlive
  <2>2. run' = [run EXCEPT ![r].cancelling = TRUE, ![r].kind = kind,
                           ![r].reason = Aborted(run[r], "cancel")]
        /\ UNCHANGED <<row, work, queue, starting, running>>
    BY <1>2 DEF EngineCancel
  <2> HIDE DEF r
  <2>3. x \in Run /\ x.pc # "idle" /\ run' = [run EXCEPT ![r] = x]
    BY <1>1, <2>1, <2>2 DEF Run, Aborted
  <2> HIDE DEF x
  <2>4. /\ PoolType(queue, starting, running, [run EXCEPT ![r] = x])
        /\ Pool(queue, starting, running, [run EXCEPT ![r] = x])
    BY <1>1, <2>1, <2>3, LiveRunKeepsPool
  <2> QED
    BY <1>1, <2>2, <2>3, <2>4
<1>3. CASE running[t] = NoLane
  <2>1. Discard(t, kind) /\ UNCHANGED <<run, starting, running>>
    BY <1>3 DEF EngineCancel
  <2>2. row' \in Rows /\ work' \subseteq Transfers /\ queue' = Without(queue, t)
    BY <2>1, DiscardWrites
  <2> QED
    BY <1>1, <2>1, <2>2, ShorterQueueKeepsPool
<1> QED
  BY <1>2, <1>3

\* Appending a transfer that neither waits nor runs.
LEMMA LongerQueueKeepsPool ==
  ASSUME NEW q, NEW s, NEW rn, NEW rs, PoolType(q, s, rn, rs), Pool(q, s, rn, rs),
         NEW t \in Transfers, t \notin s, \A i \in 1..Len(q) : q[i] # t
  PROVE  PoolType(Append(q, t), s, rn, rs) /\ Pool(Append(q, t), s, rn, rs)
<1>1. q \in Seq(Transfers) /\ Injective(q) /\ \A i \in 1..Len(q) : q[i] \notin s
  BY DEF PoolType, Pool
<1> DEFINE w == Append(q, t)
<1>2. /\ w \in Seq(Transfers) /\ Len(w) = Len(q) + 1 /\ w[Len(q) + 1] = t
      /\ \A i \in 1..Len(q) : w[i] = q[i]
  BY <1>1
<1> HIDE DEF w
<1>3. Injective(w) /\ \A i \in 1..Len(w) : w[i] \notin s
  <2>1. \A i \in 1..Len(w) : (i \in 1..Len(q) /\ w[i] = q[i]) \/ (i = Len(q) + 1 /\ w[i] = t)
    BY <1>1, <1>2
  <2> QED
    BY <1>1, <2>1 DEF Injective
<1>4. PoolType(w, s, rn, rs) /\ Pool(w, s, rn, rs)
  BY <1>2, <1>3 DEF PoolType, Pool
<1> QED
  BY <1>4 DEF w

\* enqueue, whatever it decides.
LEMMA EnqueueKeepsPool ==
  ASSUME Inv, NEW t \in Transfers, Enqueue(t)
  PROVE  /\ row' \in Rows
         /\ PoolType(queue', starting', running', run')
         /\ Pool(queue', starting', running', run')
<1>1. /\ Store /\ row \in Rows /\ PoolType(queue, starting, running, run)
      /\ Pool(queue, starting, running, run)
  BY InvOpens DEF Store, Rows
<1>2. CASE UNCHANGED <<row, memory>>
  BY <1>1, <1>2 DEF memory
<1>3. CASE /\ row' = IF row[t] = NoRow THEN row ELSE [row EXCEPT ![t].state = "paused"]
           /\ UNCHANGED memory
  <2>1. [row EXCEPT ![t].state = "paused"] \in Rows
    BY <1>1, RowWrites DEF Rows, States, Kinds
  <2> QED
    BY <1>1, <1>3, <2>1 DEF memory
<1>4. CASE /\ ~(running[t] # NoLane \/ t \in starting \/ InQueue(t))
           /\ Pump(Append(queue, t), starting, running, run) /\ UNCHANGED row
  <2>1. t \notin starting /\ \A i \in 1..Len(queue) : queue[i] # t
    BY <1>4 DEF InQueue
  <2>2. /\ PoolType(Append(queue, t), starting, running, run)
        /\ Pool(Append(queue, t), starting, running, run)
    BY <1>1, <2>1, LongerQueueKeepsPool
  <2> QED
    BY <1>1, <1>4, <2>2, PumpKeepsPool
<1> QED
  BY <1>2, <1>3, <1>4 DEF Enqueue

\* Every step of a request.
LEMMA CallStepKeepsInv ==
  ASSUME Inv, NEW c \in Callers, CallStep(c)
  PROVE  Inv'
<1> DEFINE t == Subject(c)
<1>s. /\ Store /\ row \in Rows /\ work \subseteq Transfers
      /\ PoolType(queue, starting, running, run) /\ Pool(queue, starting, running, run)
      /\ caller[c] \in Caller
  BY InvOpens DEF Store, Rows
<1>a. ASSUME NEW ops, NEW step, Acting(c, ops, step)
      PROVE  /\ up /\ UNCHANGED <<up, draining, bounds, queuePaused, placed>>
             /\ caller[c].todo # <<>> /\ t \in Transfers
             /\ caller[c].op \in ops
  BY <1>a, SubjectIsTransfer DEF Acting
<1> HIDE DEF t
<1>1. CASE ActPause(c)
  <2>1. Acting(c, {"pause", "pauseAll"}, 1) /\ EnginePause(t) /\ Finish(c) /\ UNCHANGED work
    BY <1>1 DEF ActPause, t
  <2> QED
    BY <2>1, <1>s, <1>a, EnginePauseKeepsPool, CallsGoOn, CallKeepsInv
<1>2. CASE ActCancel(c)
  <2>1. PICK kind \in Kinds : Acting(c, {"cancel", "remove"}, 1) /\ EngineCancel(t, kind) /\ Finish(c)
    BY <1>2 DEF ActCancel, t, Kinds
  <2> QED
    BY <2>1, <1>s, <1>a, EngineCancelKeepsPool, CallsGoOn, CallKeepsInv
<1>3. CASE ActResume(c)
  <2>1. /\ Acting(c, {"resume", "resumeAll"}, 1) /\ UNCHANGED <<work, memory>>
        /\ Finish(c) \/ Halfway(c)
        /\ row' \in {row, [row EXCEPT ![t].state = "queued"]}
    BY <1>3 DEF ActResume, t
  <2>2. row' \in Rows
    <3>1. [row EXCEPT ![t].state = "queued"] \in Rows
      BY <1>s, <1>a, <2>1, RowWrites DEF Rows, States, Live, Kinds
    <3> QED
      BY <1>s, <2>1, <3>1
  <2>3. UNCHANGED <<queue, starting, running, run>>
    BY <2>1 DEF memory
  <2> QED
    BY <2>1, <2>2, <2>3, <1>s, <1>a, CallsGoOn, CallKeepsInv
<1>4. CASE ActRequeue(c)
  <2>1. /\ Acting(c, {"retry", "repair"}, 1) /\ UNCHANGED <<work, memory>> /\ Halfway(c)
        /\ row' \in {[row EXCEPT ![t] = [caller[c].seen EXCEPT !.state = "queued", !.kind = "none"]],
                     [row EXCEPT ![t] = [caller[c].seen EXCEPT !.state = "repairing"]]}
    BY <1>4 DEF ActRequeue, t
  <2>2. caller[c].seen \in Row \cup {NoRow}
    BY <1>s DEF Caller
  <2>3. row' \in Rows
    <3>1. {"queued", "repairing"} \subseteq States /\ "none" \in Kinds
      BY DEF States, Live, Kinds
    <3>2. t \in Transfers
      BY <1>a, <2>1
    <3>3. [row EXCEPT ![t] = [caller[c].seen EXCEPT !.state = "queued", !.kind = "none"]] \in Rows
      BY <1>s, <2>2, <3>1, <3>2, RowWrites DEF Rows
    <3>4. [row EXCEPT ![t] = [caller[c].seen EXCEPT !.state = "repairing"]] \in Rows
      BY <1>s, <2>2, <3>1, <3>2, RowWrites DEF Rows
    <3> QED
      BY <2>1, <3>3, <3>4
  <2>4. UNCHANGED <<queue, starting, running, run>>
    BY <2>1 DEF memory
  <2> QED
    BY <2>1, <2>3, <2>4, <1>s, <1>a, CallsGoOn, CallKeepsInv
<1>5. CASE ActEnqueue(c)
  <2>1. /\ Acting(c, {"resume", "resumeAll", "retry", "repair"}, 2) /\ Enqueue(t)
        /\ Finish(c) /\ UNCHANGED work
    BY <1>5 DEF ActEnqueue, t
  <2> QED
    BY <2>1, <1>s, <1>a, EnqueueKeepsPool, CallsGoOn, CallKeepsInv
<1>6. CASE ActArchive(c)
  <2>1. /\ Acting(c, {"archive"}, 1) /\ Halfway(c)
        /\ UNCHANGED <<row, work, memory>> \/ EngineCancel(t, "cancelled")
    BY <1>6 DEF ActArchive, t
  <2>2. CASE UNCHANGED <<row, work, memory>>
    BY <2>1, <2>2, <1>s, <1>a, CallsGoOn, CallKeepsInv DEF memory
  <2>3. CASE EngineCancel(t, "cancelled")
    BY <2>1, <2>3, <1>s, <1>a, EngineCancelKeepsPool, CallsGoOn, CallKeepsInv DEF Kinds
  <2> QED
    BY <2>1, <2>2, <2>3
<1>7. CASE ActDelete(c)
  <2>1. /\ Acting(c, {"archive"}, 2) /\ Finish(c) /\ UNCHANGED <<work, memory>>
        /\ row' = [row EXCEPT ![t] = NoRow]
    BY <1>7 DEF ActDelete, t
  <2>2. row' \in Rows
    BY <2>1, <1>s DEF Rows
  <2>3. UNCHANGED <<queue, starting, running, run>>
    BY <2>1 DEF memory
  <2> QED
    BY <2>1, <2>2, <2>3, <1>s, <1>a, CallsGoOn, CallKeepsInv
<1>8. CASE ActRedirect(c)
  <2>1. PICK f \in Folders :
          /\ Acting(c, {"redirect"}, 1) /\ Finish(c) /\ UNCHANGED <<work, memory>>
          /\ row' = [row EXCEPT ![t] = [caller[c].seen EXCEPT !.target = f]]
    BY <1>8 DEF ActRedirect, t
  <2>2. caller[c].seen \in Row
    BY <2>1, <1>s, <1>a DEF Store
  <2>3. [caller[c].seen EXCEPT !.target = f] \in Row
    BY <2>2 DEF Row
  <2>4. row' \in Rows
    BY <2>1, <2>3, <1>s DEF Rows
  <2>5. UNCHANGED <<queue, starting, running, run>>
    BY <2>1 DEF memory
  <2> QED
    BY <2>1, <2>4, <2>5, <1>s, <1>a, CallsGoOn, CallKeepsInv
<1>9. CASE ActNothing(c)
  <2>1. up /\ UNCHANGED <<row, work, placed, queuePaused, up, draining, bounds, queue, starting, running, run>>
    BY <1>9 DEF ActNothing, store, memory
  <2>2. Calls(caller')
    <3>1. NoCall \in Caller /\ NoCall.op # "redirect"
      BY DEF NoCall, Caller
    <3> QED
      BY <1>9, <1>s, <3>1 DEF ActNothing, Store, Calls
  <2> QED
    BY <2>1, <2>2, <1>s, CallKeepsInv
<1> QED
  BY <1>1, <1>2, <1>3, <1>4, <1>5, <1>6, <1>7, <1>8, <1>9 DEF CallStep

-----------------------------------------------------------------------------
(* Requests that begin, and the process.                                   *)

\* A list of rows in the order they were created names each of them once.
LEMMA InOrderIsInjective ==
  ASSUME NEW S, S \subseteq Transfers, NEW q \in InOrder(S)
  PROVE  q \in Seq(Transfers) /\ Injective(q)
<1>1. IsFiniteSet(S) /\ Cardinality(S) \in Nat
  BY FS_Subset, FS_CardinalityType, QueueConstants
<1> DEFINE n == Cardinality(S)
<1>2. q \in [1..n -> S] /\ \A i, j \in 1..n : i < j => q[i] < q[j]
  BY DEF InOrder
<1>3. n \in Nat
  BY <1>1
<1> HIDE DEF n
<1>4. q \in Seq(Transfers) /\ Len(q) = n
  BY <1>2, <1>3
<1>5. \A i \in 1..n : q[i] \in Nat
  BY <1>2, QueueConstants
<1>6. Injective(q)
  <2> SUFFICES ASSUME NEW i \in 1..n, NEW j \in 1..n, q[i] = q[j] PROVE i = j
    BY <1>4 DEF Injective
  <2>1. ~(i < j) /\ ~(j < i)
    BY <1>2, <1>5
  <2> QED
    BY <2>1, <1>3
<1> QED
  BY <1>4, <1>6

\* The first half of a request: what it read is remembered, nothing else moves.
LEMMA BeginKeepsInv ==
  ASSUME Inv, NEW c \in Callers, NEW op, NEW call \in Caller,
         call.op = "redirect" => call.seen \in Row, Begin(c, op, call),
         queuePaused' \in BOOLEAN, UNCHANGED <<row, work, placed>>
  PROVE  Inv'
<1>1. /\ up /\ UNCHANGED <<up, draining, stops, queue, starting, running, run>>
      /\ caller' = [caller EXCEPT ![c] = call] /\ asked' = asked + 1
  BY DEF Begin, memory
<1>2. /\ Store /\ PoolType(queue, starting, running, run) /\ Pool(queue, starting, running, run)
  BY InvOpens
<1>3. Calls(caller')
  BY <1>1, <1>2 DEF Store, Calls
<1>4. asked' \in Nat
  BY <1>1, <1>2 DEF Store
<1>5. Store'
  BY Zenon, <1>1, <1>2, <1>3, <1>4 DEF Store, Calls
<1>6. Empty(up', queue', starting')
  BY Zenon, <1>1 DEF Empty
<1> QED
  BY <1>1, <1>2, <1>5, <1>6, InvCloses

\* A request about one transfer.
LEMMA AskKeepsInv ==
  ASSUME Inv, NEW c \in Callers, NEW op \in Operations, NEW t \in Transfers, Ask(c, op, t)
  PROVE  Inv'
<1> DEFINE call == [op |-> op, step |-> 1, todo |-> <<t>>, seen |-> row[t]]
<1>1. row[t] \in Row
  BY InvOpens DEF Ask, Store
<1>2. <<t>> \in Seq(Transfers)
  OBVIOUS
<1>3. call \in Caller /\ call.seen \in Row
  BY <1>1, <1>2 DEF Caller
<1>4. Begin(c, op, call) /\ UNCHANGED <<row, work, placed, queuePaused>>
  BY DEF Ask, store
<1>5. queuePaused' \in BOOLEAN
  BY Zenon, <1>4, InvOpens DEF Store
<1> HIDE DEF call
<1> QED
  BY <1>3, <1>4, <1>5, BeginKeepsInv

\* pauseAll and resumeAll.
LEMMA AskAllKeepsInv ==
  ASSUME Inv, NEW c \in Callers, NEW op \in {"pauseAll", "resumeAll"}, AskAll(c, op)
  PROVE  Inv'
<1>1. PICK S \in SUBSET Transfers : \E q \in InOrder(S) :
        Begin(c, op, [op |-> op, step |-> 1, todo |-> q, seen |-> NoRow])
  <2>1. /\ {t \in Transfers : row[t].state \in Live} \in SUBSET Transfers
        /\ {t \in Transfers : row[t].state = "paused"} \in SUBSET Transfers
    OBVIOUS
  <2> QED
    BY <2>1, Zenon DEF AskAll
<1>2. PICK q \in InOrder(S) :
        Begin(c, op, [op |-> op, step |-> 1, todo |-> q, seen |-> NoRow])
  BY <1>1
<1> DEFINE call == [op |-> op, step |-> 1, todo |-> q, seen |-> NoRow]
<1>3. q \in Seq(Transfers)
  BY <1>2, InOrderIsInjective
<1>4. call \in Caller /\ call.op # "redirect"
  BY <1>3 DEF Caller, Operations
<1>5. queuePaused' \in BOOLEAN /\ UNCHANGED <<row, work, placed>>
  BY DEF AskAll
<1>6. Begin(c, op, call)
  BY <1>2
<1> HIDE DEF call
<1> QED
  BY <1>4, <1>5, <1>6, BeginKeepsInv

\* onApplicationBootstrap.
LEMMA BootKeepsInv ==
  ASSUME Inv, Boot
  PROVE  Inv'
<1> DEFINE S == {t \in Transfers : row[t].state \in Live}
<1>1. /\ Store /\ PoolType(queue, starting, running, run) /\ Pool(queue, starting, running, run)
      /\ row \in Rows
  BY InvOpens DEF Store, Rows
<1>2. starting = {}
  BY Zenon, InvOpens DEF Boot, Empty
<1>3. /\ up' = TRUE /\ UNCHANGED <<work, placed, queuePaused, draining, caller, asked, stops>>
  BY DEF Boot, bounds
<1>4. /\ row' \in Rows
      /\ PoolType(queue', starting', running', run')
      /\ Pool(queue', starting', running', run')
  <2>1. CASE /\ row' = [t \in Transfers |-> IF t \in S THEN [row[t] EXCEPT !.state = "paused"]
                                                       ELSE row[t]]
             /\ UNCHANGED memory
    <3>1. \A t \in S : [row[t] EXCEPT !.state = "paused"] \in Row
      <4> SUFFICES ASSUME NEW t \in S PROVE [row[t] EXCEPT !.state = "paused"] \in Row
        OBVIOUS
      <4>1. row[t] \in Row
        BY <1>1 DEF Rows, NoRow, Live
      <4> QED
        BY <4>1 DEF Row, States
    <3>2. row' \in Rows
      BY <2>1, <3>1, <1>1 DEF Rows
    <3> QED
      BY <1>1, <2>1, <3>2 DEF memory
  <2>2. CASE (\E q \in InOrder(S) : Pump(q, starting, running, run)) /\ UNCHANGED row
    <3>1. PICK q \in InOrder(S) : Pump(q, starting, running, run)
      BY <2>2
    <3>2. q \in Seq(Transfers) /\ Injective(q)
      BY <3>1, InOrderIsInjective
    <3>3. PoolType(q, starting, running, run) /\ Pool(q, starting, running, run)
      BY <1>1, <1>2, <3>2 DEF PoolType, Pool
    <3> QED
      BY <1>1, <2>2, <3>1, <3>3, PumpKeepsPool
  <2> QED
    BY <2>1, <2>2 DEF Boot
<1>5. Store'
  BY Zenon, <1>1, <1>3, <1>4 DEF Store, Rows
<1>6. Empty(up', queue', starting')
  BY Zenon, <1>3 DEF Empty
<1> QED
  BY <1>4, <1>5, <1>6, InvCloses

\* onModuleDestroy.
LEMMA ShutdownKeepsInv ==
  ASSUME Inv, Shutdown
  PROVE  Inv'
<1>1. /\ Store /\ PoolType(queue, starting, running, run) /\ Pool(queue, starting, running, run)
  BY InvOpens
<1>2. /\ up /\ draining' = TRUE
      /\ UNCHANGED <<row, work, placed, queuePaused, up, queue, starting, running, caller, asked, stops>>
  BY DEF Shutdown, store, bounds
<1>3. run' = [r \in Runs |-> IF running[r[1]] = r[2]
                             THEN [run[r] EXCEPT !.pausing = TRUE, !.reason = Aborted(run[r], "pause")]
                             ELSE run[r]]
  BY DEF Shutdown
<1>4. run \in [Runs -> Run]
  BY <1>1 DEF PoolType
<1>5. \A r \in Runs : run'[r] \in Run /\ run'[r].pc = run[r].pc
                      /\ (run[r].pc = "idle" => run'[r] = run[r])
  <2> SUFFICES ASSUME NEW r \in Runs
               PROVE  /\ run'[r] \in Run /\ run'[r].pc = run[r].pc
                      /\ (run[r].pc = "idle" => run'[r] = run[r])
    OBVIOUS
  <2>1. CASE running[r[1]] = r[2]
    <3>1. r[1] \in Transfers /\ r[2] \in Lanes /\ r = <<r[1], r[2]>> /\ r[2] # NoLane
      BY QueueConstants DEF Runs, NoLane
    <3>2. run[r].pc # "idle"
      BY <2>1, <3>1, RegisteredIsAlive
    <3>3. run'[r] = [run[r] EXCEPT !.pausing = TRUE, !.reason = Aborted(run[r], "pause")]
      BY <1>3, <2>1
    <3> QED
      BY <3>2, <3>3, <1>4 DEF Run, Aborted
  <2>2. CASE running[r[1]] # r[2]
    BY <1>3, <1>4, <2>2
  <2> QED
    BY <2>1, <2>2
<1>6. run' \in [Runs -> Run]
  BY <1>3, <1>5
<1>7. \A t \in Transfers, l \in Lanes : <<t, l>> \in Runs
  BY DEF Runs
<1>8. PoolType(queue', starting', running', run')
  BY <1>1, <1>2, <1>6 DEF PoolType
<1>9. Pool(queue', starting', running', run')
  <2>1. \A r \in Runs : run'[r].pc = "idle" => run'[r] = NoRun
    BY <1>1, <1>5 DEF Pool
  <2>2. ASSUME NEW t \in Transfers, running[t] # NoLane
        PROVE  run'[<<t, running[t]>>].pc # "idle"
    <3>1. <<t, running[t]>> \in Runs /\ run[<<t, running[t]>>].pc # "idle"
      BY <2>2, RegisteredIsAlive
    <3> QED
      BY Zenon, <3>1, <1>5
  <2>3. \A t \in Transfers : \A l, m \in Lanes :
          run'[<<t, l>>].pc # "idle" /\ run'[<<t, m>>].pc # "idle" => l = m
    BY <1>1, <1>5, <1>7 DEF Pool
  <2>4. starting = {t \in Transfers : \E l \in Lanes : run'[<<t, l>>].pc # "idle"}
    <3>1. \A t \in Transfers, l \in Lanes : run'[<<t, l>>].pc = run[<<t, l>>].pc
      BY <1>5, <1>7
    <3>2. starting = {t \in Transfers : \E l \in Lanes : run[<<t, l>>].pc # "idle"}
      BY <1>1 DEF Pool
    <3> QED
      BY <3>1, <3>2
  <2>5. /\ Injective(queue) /\ \A i \in 1..Len(queue) : queue[i] \notin starting
        /\ Cardinality(starting) <= MaxParallel
    BY <1>1 DEF Pool
  <2>6. Pool(queue, starting, running, run')
    BY <2>1, <2>2, <2>3, <2>4, <2>5 DEF Pool
  <2> QED
    BY <1>2, <2>6
<1>10. Store'
  BY Zenon, <1>1, <1>2 DEF Store
<1>11. Empty(up', queue', starting')
  BY Zenon, <1>2 DEF Empty
<1> QED
  BY <1>8, <1>9, <1>10, <1>11, InvCloses

\* Memory that holds nothing satisfies the pool's half of the invariant.
LEMMA EmptyPool ==
  ASSUME NEW rn, NEW rs, rn = [t \in Transfers |-> NoLane], rs = [r \in Runs |-> NoRun]
  PROVE  PoolType(<<>>, {}, rn, rs) /\ Pool(<<>>, {}, rn, rs)
<1>1. NoRun \in Run /\ NoRun.pc = "idle"
  BY DEF NoRun, Run, Steps, Kinds
<1>2. \A t \in Transfers, l \in Lanes : <<t, l>> \in Runs
  BY DEF Runs
<1>3. PoolType(<<>>, {}, rn, rs)
  BY <1>1 DEF PoolType
<1>4. Cardinality({}) <= MaxParallel
  BY FS_EmptySet, QueueConstants
<1>5. Pool(<<>>, {}, rn, rs)
  <2>1. \A t \in Transfers, l \in Lanes : rs[<<t, l>>].pc = "idle"
    BY <1>1, <1>2
  <2>2. \A t \in Transfers : rn[t] = NoLane
    OBVIOUS
  <2>3. \A r \in Runs : rs[r] = NoRun
    OBVIOUS
  <2>4. {} = {t \in Transfers : \E l \in Lanes : rs[<<t, l>>].pc # "idle"}
    BY <2>1
  <2>5. Injective(<<>>) /\ \A i \in 1..Len(<<>>) : <<>>[i] \notin {}
    BY DEF Injective
  <2> QED
    BY Zenon, <1>4, <2>1, <2>2, <2>3, <2>4, <2>5 DEF Pool
<1> QED
  BY <1>3, <1>5

\* The process is gone, and memory with it.
LEMMA DieKeepsInv ==
  ASSUME Inv, Die
  PROVE  Inv'
<1>1. /\ up' = FALSE /\ draining' = FALSE /\ stops' = stops + 1 /\ queue' = <<>> /\ starting' = {}
      /\ running' = [t \in Transfers |-> NoLane] /\ run' = [r \in Runs |-> NoRun]
      /\ caller' = [c \in Callers |-> NoCall]
      /\ UNCHANGED <<row, work, placed, queuePaused, asked>>
  BY DEF Die, store
<1>2. PoolType(queue', starting', running', run') /\ Pool(queue', starting', running', run')
  BY <1>1, EmptyPool
<1>3. Store
  BY InvOpens
<1>4. Calls(caller')
  BY <1>1 DEF Calls, NoCall, Caller
<1>5. stops' \in Nat
  BY <1>1, <1>3 DEF Store
<1>6. Store'
  BY Zenon, <1>1, <1>3, <1>4, <1>5 DEF Store, Calls
<1>7. Empty(up', queue', starting')
  BY Zenon, <1>1 DEF Empty
<1> QED
  BY <1>2, <1>6, <1>7, InvCloses

\* The first boot of a fresh process.
LEMMA InitInv == Init => Inv
<1> SUFFICES ASSUME Init PROVE Inv
  OBVIOUS
<1>1. PoolType(queue, starting, running, run) /\ Pool(queue, starting, running, run)
  BY EmptyPool DEF Init
<1>2. row \in Rows
  BY QueueConstants DEF Init, Rows, Row, States, Live, Kinds
<1>3. Calls(caller)
  BY DEF Init, Calls, NoCall, Caller
<1>4. /\ work \subseteq Transfers /\ placed \in [Transfers -> SUBSET Folders]
      /\ asked \in Nat /\ stops \in Nat
  BY DEF Init
<1>5. queuePaused \in BOOLEAN /\ up \in BOOLEAN /\ draining \in BOOLEAN
  BY Zenon DEF Init
<1>6. TypeOK
  BY Zenon, <1>1, <1>2, <1>3, <1>4, <1>5 DEF TypeOK, PoolType, Rows, Calls
<1> QED
  BY Zenon, <1>1, <1>3, <1>6 DEF Inv, Init, Calls

\* Every step keeps the invariant.
LEMMA NextInv == Inv /\ [Next]_vars => Inv'
<1> SUFFICES ASSUME Inv, [Next]_vars PROVE Inv'
  OBVIOUS
<1>1. ASSUME NEW r \in Runs, RunStep(r) \/ RunProgress(r) PROVE Inv'
  BY <1>1, RunKeepsInv
<1>2. ASSUME NEW c \in Callers, NEW op \in Operations, NEW t \in Transfers, Ask(c, op, t) PROVE Inv'
  BY <1>2, AskKeepsInv
<1>3. ASSUME NEW c \in Callers, NEW op \in {"pauseAll", "resumeAll"}, AskAll(c, op) PROVE Inv'
  BY <1>3, AskAllKeepsInv
<1>4. ASSUME NEW c \in Callers, CallStep(c) PROVE Inv'
  BY <1>4, CallStepKeepsInv
<1>5. CASE Boot
  BY <1>5, BootKeepsInv
<1>6. CASE Shutdown
  BY <1>6, ShutdownKeepsInv
<1>7. CASE Die
  BY <1>7, DieKeepsInv
<1>8. CASE UNCHANGED vars
  <2>1. UNCHANGED <<row, work, placed, queuePaused, up, draining, queue, starting, running, run,
                    caller, asked, stops>>
    BY <1>8 DEF vars, store, memory, bounds
  <2>2. /\ Store /\ PoolType(queue, starting, running, run)
        /\ Pool(queue, starting, running, run) /\ Empty(up, queue, starting)
    BY InvOpens
  <2>3. Store'
    BY Zenon, <2>1, <2>2 DEF Store
  <2> QED
    BY <2>1, <2>2, <2>3, InvCloses
<1> QED
  BY <1>1, <1>2, <1>3, <1>4, <1>5, <1>6, <1>7, <1>8 DEF Next

-----------------------------------------------------------------------------
(* The theorems.                                                           *)

\* The inductive invariant holds in every reachable state.
THEOREM Invariance == Spec => []Inv
  BY InitInv, NextInv, PTL DEF Spec

\* The state keeps its shape: no save, however stale, writes a row that is no row.
THEOREM TypeCorrect == Spec => []TypeOK
<1>1. Inv => TypeOK
  BY DEF Inv
<1> QED
  BY <1>1, Invariance, PTL

\* maxParallelTransfers is never exceeded, whatever requests, crashes and
\* restarts do, and however many transfers there are.
THEOREM PoolIsBounded == Spec => []PoolBound
<1>1. Inv => PoolBound
  BY DEF Inv, Pool, PoolBound, Alive
<1> QED
  BY <1>1, Invariance, PTL

\* No transfer is ever carried by two runs.
THEOREM OneRunEach == Spec => []NoRivals
<1>1. Inv => NoRivals
  BY DEF Inv, Pool, NoRivals, Alive
<1> QED
  BY <1>1, Invariance, PTL

\* A transfer waits once or runs, never both, and slots are neither lost nor leaked.
THEOREM HandsAreExclusive == Spec => []InHandOnce
<1>1. Inv => InHandOnce
  BY DEF Inv, Pool, Injective, InHandOnce, Alive
<1> QED
  BY <1>1, Invariance, PTL

-----------------------------------------------------------------------------
(* What is said to be done is where it is said to be, and stops are heard. *)

\* Nothing in hand was read from a row that said done, but to repair or archive it, and
\* a run that will say so has moved its file where its own copy of the row says.
SeenIsOpen ==
  /\ \A r \in Runs : run[r].seen.state # "done"
  /\ \A c \in Callers : caller[c].op = "redirect" => caller[c].seen.state # "done"
SettlesWherePlaced == \A r \in Runs : run[r].pc = "settle" => run[r].seen.target \in placed[r[1]]

PlacedInv == Inv /\ SeenIsOpen /\ SettlesWherePlaced /\ DoneIsPlaced

\* What a step may do to a run, and to a row.
RunGoesOn(x) ==
  /\ run'[x].seen.state = "done" => run[x].seen.state = "done"
  /\ run'[x].pc = "settle" => /\ run'[x].seen = run[x].seen
                              /\ run[x].pc = "settle" \/ run[x].seen.target \in placed'[x[1]]
  /\ run'[x].pc = "move" => run[x].pc = "move" \/ run[x].reason = "none"
RowGoesOn(t) == row'[t].state = "done" => row'[t] = row[t] \/ row'[t].target \in placed'[t]
Goes ==
  /\ \A x \in Runs : RunGoesOn(x)
  /\ \A t \in Transfers : RowGoesOn(t) /\ placed[t] \subseteq placed'[t]

LEMMA RowFields ==
  ASSUME NEW e \in Row \cup {NoRow}, NEW state, NEW kind, NEW target
  PROVE  /\ [e EXCEPT !.state = state, !.kind = kind].state = state
         /\ [e EXCEPT !.state = state, !.kind = kind].target = e.target
         /\ [e EXCEPT !.state = state].state = state
         /\ [e EXCEPT !.target = target].state = e.state
BY DEF Row, NoRow

\* A row is written: it says done only where the file is.
LEMMA WriteGoesOn ==
  ASSUME row \in Rows, NEW t \in Transfers, NEW e, row' = [row EXCEPT ![t] = e],
         e.state = "done" => e.target \in placed'[t]
  PROVE  \A u \in Transfers : RowGoesOn(u)
BY DEF Rows, RowGoesOn

LEMMA StateGoesOn ==
  ASSUME row \in Rows, NEW t \in Transfers, NEW state, NEW kind, state # "done",
         \/ row' = row \/ row' = [row EXCEPT ![t].state = state]
         \/ row' = [row EXCEPT ![t].state = state, ![t].kind = kind]
  PROVE  \A u \in Transfers : RowGoesOn(u)
<1>1. row[t] \in Row \cup {NoRow}
  BY DEF Rows
<1>2. CASE row' = row
  BY <1>2 DEF RowGoesOn
<1>3. CASE row' = [row EXCEPT ![t].state = state]
  <2> DEFINE e == [row[t] EXCEPT !.state = state]
  <2>1. row' = [row EXCEPT ![t] = e] /\ e.state = state
    BY <1>1, <1>3, RowFields
  <2> HIDE DEF e
  <2> QED
    BY <2>1, WriteGoesOn
<1>4. CASE row' = [row EXCEPT ![t].state = state, ![t].kind = kind]
  <2> DEFINE e == [row[t] EXCEPT !.state = state, !.kind = kind]
  <2>1. row' = [row EXCEPT ![t] = e]
    BY <1>4 DEF Rows
  <2>2. e.state = state
    BY <1>1, RowFields
  <2> HIDE DEF e
  <2> QED
    BY <2>1, <2>2, WriteGoesOn
<1> QED
  BY <1>2, <1>3, <1>4

\* A stale entity is saved.
LEMMA SavesGoOn ==
  ASSUME PlacedInv, NEW r \in Runs, NEW state, NEW kind, RunSaves(r, state, kind),
         state = "done" => run[r].seen.target \in placed'[r[1]]
  PROVE  \A u \in Transfers : RowGoesOn(u)
<1>1. run[r].seen \in Row \cup {NoRow} /\ row \in Rows /\ r[1] \in Transfers
  BY InvOpens DEF PlacedInv, PoolType, Run, Store, Rows, Runs
<1> DEFINE e == [run[r].seen EXCEPT !.state = state, !.kind = kind]
<1>2. row' = [row EXCEPT ![r[1]] = e]
  BY DEF RunSaves
<1>3. e.state = state /\ e.target = run[r].seen.target
  BY <1>1, RowFields
<1> HIDE DEF e
<1> QED
  BY <1>1, <1>2, <1>3, WriteGoesOn

LEMMA GotoGoesOn ==
  ASSUME PlacedInv, NEW r \in Runs, NEW p, Goto(r, p),
         p = "settle" => run[r].seen.target \in placed'[r[1]], p = "move" => run[r].reason = "none"
  PROVE  \A x \in Runs : RunGoesOn(x)
<1>1. run \in [Runs -> Run]
  BY InvOpens DEF PlacedInv, PoolType
<1> DEFINE e == [run[r] EXCEPT !.pc = p]
<1>2. run' = [run EXCEPT ![r] = e] /\ e.pc = p /\ e.seen = run[r].seen
  BY <1>1 DEF Goto, Run
<1> HIDE DEF e
<1> QED
  BY <1>1, <1>2 DEF RunGoesOn

LEMMA PumpGoesOn ==
  ASSUME NEW q, NEW s, NEW rn, NEW rs, Pump(q, s, rn, rs), \A x \in Runs : rs[x] \in {run[x], NoRun}
  PROVE  \A x \in Runs : RunGoesOn(x)
<1> DEFINE fresh == [NoRun EXCEPT !.pc = "load"]
<1>1. \A x \in Runs : run'[x] \in {fresh, rs[x]}
  BY DEF Pump, Take
<1>2. fresh.pc = "load" /\ fresh.seen.state = "none" /\ NoRun.pc = "idle" /\ NoRun.seen.state = "none"
  BY DEF NoRun, NoRow
<1> HIDE DEF fresh
<1> QED
  BY <1>1, <1>2 DEF RunGoesOn

LEMMA SetsStateGoesOn ==
  ASSUME PlacedInv, NEW r \in Runs, NEW state, NEW p, RunSetsState(r, state, p), UNCHANGED placed,
         state # "done", p \notin {"settle", "move"}
  PROVE  Goes
<1>1. row \in Rows /\ r[1] \in Transfers
  BY InvOpens DEF PlacedInv, Store, Rows, Runs
<1>2. /\ Goto(r, "close") \/ Goto(r, p)
      /\ row' = row \/ row' = [row EXCEPT ![r[1]].state = state]
  BY DEF RunSetsState
<1>3. \A x \in Runs : RunGoesOn(x)
  BY <1>2, GotoGoesOn
<1>4. \A u \in Transfers : RowGoesOn(u)
  BY <1>1, <1>2, StateGoesOn
<1> QED
  BY <1>3, <1>4 DEF Goes

LEMMA CancelsGoesOn ==
  ASSUME PlacedInv, NEW r \in Runs, NEW kind, RunCancels(r, kind)
  PROVE  Goes
<1>1. row \in Rows /\ r[1] \in Transfers
  BY InvOpens DEF PlacedInv, Store, Rows, Runs
<1>2. /\ Goto(r, "close") /\ UNCHANGED placed
      /\ row' = row \/ row' = [row EXCEPT ![r[1]].state = "cancelled", ![r[1]].kind = kind]
  BY DEF RunCancels, Discard
<1>3. \A x \in Runs : RunGoesOn(x)
  BY <1>2, GotoGoesOn
<1>4. \A u \in Transfers : RowGoesOn(u)
  BY <1>1, <1>2, StateGoesOn
<1> QED
  BY <1>2, <1>3, <1>4 DEF Goes

LEMMA MoveStoppedGoesOn ==
  ASSUME PlacedInv, NEW r \in Runs, RunMoveStopped(r)
  PROVE  Goes
<1>1. CASE RunCancels(r, "cancelled")
  BY <1>1, CancelsGoesOn
<1>2. CASE RunSetsState(r, "paused", "close") /\ UNCHANGED placed
  BY <1>2, SetsStateGoesOn
<1> QED
  BY <1>1, <1>2 DEF RunMoveStopped

LEMMA RunGoes ==
  ASSUME PlacedInv, NEW r \in Runs, RunStep(r) \/ RunProgress(r)
  PROVE  Goes /\ UNCHANGED caller
<1>0. /\ row \in Rows /\ r[1] \in Transfers /\ run \in [Runs -> Run] /\ placed \in [Transfers -> SUBSET Folders]
      /\ run[r].seen.state # "done"
  BY InvOpens DEF PlacedInv, Store, Rows, Runs, PoolType, SeenIsOpen
<1>c. UNCHANGED caller
  BY DEF RunStep, RunProgress, RunLoad, RunConnect, RunPrepare, RunPersist, RunOpen, RunAnnounce, RunDownloaded,
         RunVerify, RunPlace, RunMove, RunSettle, RunError, RunEnds, Quiet
<1>1. CASE RunLoad(r)
  <2>1. UNCHANGED <<row, placed>>
    BY <1>1 DEF RunLoad, store
  <2>2. CASE Goto(r, "close")
    BY <1>c, <2>1, <2>2, GotoGoesOn DEF Goes, RowGoesOn
  <2>3. CASE /\ row[r[1]].state # "done"
             /\ run' = [run EXCEPT ![r].pc = "connect", ![r].seen = row[r[1]]]
    <3> DEFINE e == [run[r] EXCEPT !.pc = "connect", !.seen = row[r[1]]]
    <3>1. e.pc = "connect" /\ e.seen = row[r[1]] /\ run' = [run EXCEPT ![r] = e]
      BY <1>0, <2>3 DEF Run
    <3> HIDE DEF e
    <3>2. \A x \in Runs : RunGoesOn(x)
      BY <1>0, <2>3, <3>1 DEF RunGoesOn
    <3> QED
      BY <1>c, <2>1, <3>2 DEF Goes, RowGoesOn
  <2> QED
    BY <1>1, <2>2, <2>3 DEF RunLoad
<1>2. CASE RunConnect(r)
  BY <1>2, <1>c, SetsStateGoesOn DEF RunConnect
<1>3. CASE RunPrepare(r)
  <2>1. UNCHANGED placed /\ (Goto(r, "persist") \/ Goto(r, "close"))
    BY <1>3 DEF RunPrepare
  <2>2. \A u \in Transfers : RowGoesOn(u)
    <3>1. CASE UNCHANGED row
      BY <3>1 DEF RowGoesOn
    <3>2. CASE RunSaves(r, "failed", "failed")
      BY <3>2, SavesGoOn
    <3> QED
      BY <1>3, <3>1, <3>2 DEF RunPrepare
  <2> QED
    BY <1>c, <2>1, <2>2, GotoGoesOn DEF Goes
<1>4. CASE RunPersist(r)
  <2>1. UNCHANGED placed /\ Goto(r, "open") /\ RunSaves(r, run[r].seen.state, run[r].seen.kind)
    BY <1>4 DEF RunPersist
  <2> QED
    BY <1>0, <1>c, <2>1, GotoGoesOn, SavesGoOn DEF Goes
<1>5. CASE RunOpen(r)
  <2>1. UNCHANGED <<placed, row>> /\ Goto(r, "announce")
    BY <1>5 DEF RunOpen
  <2> QED
    BY <1>c, <2>1, GotoGoesOn DEF Goes, RowGoesOn
<1>6. CASE RunAnnounce(r)
  BY <1>6, <1>c, SetsStateGoesOn DEF RunAnnounce
<1>7. CASE RunDownloaded(r)
  <2>1. CASE RunCancels(r, run[r].kind)
    BY <1>c, <2>1, CancelsGoesOn
  <2>2. CASE (RunSetsState(r, "paused", "close") \/ RunSetsState(r, "verifying", "verify")) /\ UNCHANGED placed
    BY <1>c, <2>2, SetsStateGoesOn
  <2> QED
    BY <1>7, <2>1, <2>2 DEF RunDownloaded
<1>8. CASE RunVerify(r)
  <2>1. UNCHANGED placed
    BY <1>8 DEF RunVerify
  <2>2. CASE RunSetsState(r, "placing", "place")
    BY <1>c, <2>1, <2>2, SetsStateGoesOn
  <2>3. CASE RunSaves(r, "failed", "failed") /\ Goto(r, "close")
    BY <1>c, <2>1, <2>3, GotoGoesOn, SavesGoOn DEF Goes
  <2> QED
    BY <1>8, <2>2, <2>3 DEF RunVerify
<1>9. CASE RunPlace(r)
  <2>1. CASE run[r].reason = "none" /\ Goto(r, "move") /\ UNCHANGED <<row, placed>>
    BY <1>c, <2>1, GotoGoesOn DEF Goes, RowGoesOn
  <2>2. CASE RunMoveStopped(r)
    BY <1>c, <2>2, MoveStoppedGoesOn
  <2> QED
    BY <1>9, <2>1, <2>2 DEF RunPlace
<1>10. CASE RunMove(r)
  <2>1. CASE /\ placed' = [placed EXCEPT ![r[1]] = @ \cup {run[r].seen.target}]
             /\ Goto(r, "settle") /\ UNCHANGED row
    <3>1. run[r].seen.target \in placed'[r[1]] /\ \A u \in Transfers : placed[u] \subseteq placed'[u]
      BY <1>0, <2>1
    <3> QED
      BY <1>c, <2>1, <3>1, GotoGoesOn DEF Goes, RowGoesOn
  <2>2. CASE RunMoveStopped(r)
    BY <1>c, <2>2, MoveStoppedGoesOn
  <2> QED
    BY <1>10, <2>1, <2>2 DEF RunMove
<1>11. CASE RunSettle(r)
  <2>1. UNCHANGED placed /\ Goto(r, "close") /\ RunSaves(r, "done", "none") /\ run[r].pc = "settle"
    BY <1>11 DEF RunSettle, At
  <2>2. run[r].seen.target \in placed'[r[1]]
    BY <2>1 DEF PlacedInv, SettlesWherePlaced
  <2> QED
    BY <1>c, <2>1, <2>2, GotoGoesOn, SavesGoOn DEF Goes
<1>12. CASE RunError(r)
  <2>1. /\ UNCHANGED placed /\ Goto(r, "close")
        /\ row' = row \/ row' = [row EXCEPT ![r[1]].state = "failed", ![r[1]].kind = "failed"]
    BY <1>12 DEF RunError, RunThrows
  <2>2. \A u \in Transfers : RowGoesOn(u)
    <3>t. PICK t \in Transfers : t = r[1]
      BY <1>0
    <3>1. CASE row' = row
      BY <3>1 DEF RowGoesOn
    <3>2. CASE row' = [row EXCEPT ![t].state = "failed", ![t].kind = "failed"]
      <4>1. row \in Rows /\ "failed" # "done"
        BY <1>0
      <4> QED
        BY <3>2, <4>1, StateGoesOn
    <3> QED
      BY <2>1, <3>t, <3>1, <3>2
  <2> QED
    BY <1>c, <2>1, <2>2, GotoGoesOn DEF Goes
<1>13. CASE RunEnds(r)
  <2>1. /\ UNCHANGED <<row, placed>>
        /\ Pump(queue, starting \ {r[1]}, [running EXCEPT ![r[1]] = NoLane], [run EXCEPT ![r] = NoRun])
    BY <1>13 DEF RunEnds, store
  <2>2. \A x \in Runs : [run EXCEPT ![r] = NoRun][x] \in {run[x], NoRun}
    BY <1>0
  <2>3. \A x \in Runs : RunGoesOn(x)
    BY <2>1, <2>2, PumpGoesOn
  <2> QED
    BY <1>c, <2>1, <2>3 DEF Goes, RowGoesOn
<1>14. CASE RunProgress(r)
  <2>1. UNCHANGED <<placed, run>> /\ RunSaves(r, run[r].seen.state, run[r].seen.kind)
    BY <1>14 DEF RunProgress, memory
  <2>2. \A u \in Transfers : RowGoesOn(u)
    BY <1>0, <2>1, SavesGoOn
  <2> QED
    BY <1>c, <2>1, <2>2 DEF Goes, RunGoesOn
<1> QED
  BY <1>1, <1>2, <1>3, <1>4, <1>5, <1>6, <1>7, <1>8, <1>9, <1>10, <1>11, <1>12, <1>13, <1>14 DEF RunStep

\* pause and cancel leave a run where it is.
LEMMA AbortGoesOn ==
  ASSUME PlacedInv, NEW t \in Transfers, UNCHANGED placed,
         EnginePause(t) \/ \E kind \in Kinds : EngineCancel(t, kind)
  PROVE  Goes
<1>0. row \in Rows /\ run \in [Runs -> Run]
  BY InvOpens DEF PlacedInv, Store, Rows, PoolType
<1>1. CASE running[t] # NoLane
  <2> DEFINE r == <<t, running[t]>>
  <2>1. r \in Runs
    BY <1>1, RegisteredIsAlive DEF PlacedInv
  <2>2. /\ UNCHANGED row
        /\ \/ run' = [run EXCEPT ![r].pausing = TRUE, ![r].reason = Aborted(run[r], "pause")]
           \/ \E kind \in Kinds : run' = [run EXCEPT ![r].cancelling = TRUE, ![r].kind = kind,
                                                     ![r].reason = Aborted(run[r], "cancel")]
    BY <1>1 DEF EnginePause, EngineCancel
  <2> HIDE DEF r
  <2>3. \A x \in Runs : run'[x].pc = run[x].pc /\ run'[x].seen = run[x].seen
    <3>1. CASE run' = [run EXCEPT ![r].pausing = TRUE, ![r].reason = Aborted(run[r], "pause")]
      <4> DEFINE e == [run[r] EXCEPT !.pausing = TRUE, !.reason = Aborted(run[r], "pause")]
      <4>1. run' = [run EXCEPT ![r] = e]
        BY <1>0, <2>1, <3>1
      <4>2. e.pc = run[r].pc /\ e.seen = run[r].seen
        BY <1>0, <2>1 DEF Run
      <4> HIDE DEF e
      <4> QED
        BY <1>0, <2>1, <4>1, <4>2
    <3>2. ASSUME NEW kind \in Kinds, run' = [run EXCEPT ![r].cancelling = TRUE, ![r].kind = kind,
                                                        ![r].reason = Aborted(run[r], "cancel")]
          PROVE  \A x \in Runs : run'[x].pc = run[x].pc /\ run'[x].seen = run[x].seen
      <4> DEFINE e == [run[r] EXCEPT !.cancelling = TRUE, !.kind = kind, !.reason = Aborted(run[r], "cancel")]
      <4>1. run' = [run EXCEPT ![r] = e]
        BY <1>0, <2>1, <3>2
      <4>2. e.pc = run[r].pc /\ e.seen = run[r].seen
        BY <1>0, <2>1 DEF Run
      <4> HIDE DEF e
      <4> QED
        BY <1>0, <2>1, <4>1, <4>2
    <3> QED
      BY <2>2, <3>1, <3>2
  <2> QED
    BY <2>2, <2>3 DEF Goes, RunGoesOn, RowGoesOn
<1>2. CASE running[t] = NoLane
  <2>1. /\ UNCHANGED run
        /\ \/ row' = row \/ row' = [row EXCEPT ![t].state = "paused"]
           \/ \E kind \in Kinds : row' = [row EXCEPT ![t].state = "cancelled", ![t].kind = kind]
    BY <1>2 DEF EnginePause, EngineCancel, Discard
  <2>2. \A u \in Transfers : RowGoesOn(u)
    <3>0. CASE row' = row
      BY <3>0 DEF RowGoesOn
    <3>1. CASE row' = [row EXCEPT ![t].state = "paused"]
      BY <1>0, <3>1, StateGoesOn
    <3>2. CASE \E kind \in Kinds : row' = [row EXCEPT ![t].state = "cancelled", ![t].kind = kind]
      <4>1. PICK kind \in Kinds : row' = [row EXCEPT ![t].state = "cancelled", ![t].kind = kind]
        BY <3>2
      <4> QED
        BY <1>0, <4>1, StateGoesOn
    <3> QED
      BY <2>1, <3>0, <3>1, <3>2
  <2> QED
    BY <2>1, <2>2 DEF Goes, RunGoesOn
<1> QED
  BY <1>1, <1>2

\* No request makes a row say done that did not.
LEMMA CallGoes ==
  ASSUME PlacedInv, NEW c \in Callers, CallStep(c)
  PROVE  Goes
<1> DEFINE t == Subject(c)
<1>0. /\ row \in Rows /\ run \in [Runs -> Run] /\ caller[c].seen \in Row \cup {NoRow}
      /\ caller[c].op = "redirect" => caller[c].seen.state # "done"
  BY InvOpens DEF PlacedInv, Store, Rows, PoolType, Caller, SeenIsOpen
<1>a. ASSUME NEW ops, NEW step, Acting(c, ops, step)
      PROVE  UNCHANGED placed /\ t \in Transfers /\ caller[c].op \in ops
  BY <1>a, SubjectIsTransfer DEF Acting, PlacedInv
<1> HIDE DEF t
<1>1. CASE ActPause(c)
  <2>1. Acting(c, {"pause", "pauseAll"}, 1) /\ EnginePause(t)
    BY <1>1 DEF ActPause, t
  <2> QED
    BY <1>a, <2>1, AbortGoesOn
<1>2. CASE ActCancel(c)
  <2>1. PICK kind \in Kinds : Acting(c, {"cancel", "remove"}, 1) /\ EngineCancel(t, kind)
    BY <1>2 DEF ActCancel, t, Kinds
  <2> QED
    BY <1>a, <2>1, AbortGoesOn
<1>3. CASE ActResume(c)
  <2>1. Acting(c, {"resume", "resumeAll"}, 1) /\ UNCHANGED run /\ row' \in {row, [row EXCEPT ![t].state = "queued"]}
    BY <1>3 DEF ActResume, t, memory
  <2>2. \A u \in Transfers : RowGoesOn(u)
    BY <1>0, <1>a, <2>1, StateGoesOn
  <2> QED
    BY <1>a, <2>1, <2>2 DEF Goes, RunGoesOn
<1>4. CASE ActRequeue(c)
  <2>1. /\ Acting(c, {"retry", "repair"}, 1) /\ UNCHANGED run
        /\ row' \in {[row EXCEPT ![t] = [caller[c].seen EXCEPT !.state = "queued", !.kind = "none"]],
                     [row EXCEPT ![t] = [caller[c].seen EXCEPT !.state = "repairing"]]}
    BY <1>4 DEF ActRequeue, t, memory
  <2>2. PICK e : row' = [row EXCEPT ![t] = e] /\ e.state # "done"
    <3> DEFINE e == [caller[c].seen EXCEPT !.state = "queued", !.kind = "none"]
               f == [caller[c].seen EXCEPT !.state = "repairing"]
    <3>1. e.state = "queued"
      BY <1>0, RowFields
    <3>2. f.state = "repairing"
      BY <1>0, RowFields
    <3>3. row' = [row EXCEPT ![t] = e] \/ row' = [row EXCEPT ![t] = f]
      BY <2>1
    <3> HIDE DEF e, f
    <3> QED
      BY <3>1, <3>2, <3>3
  <2>3. \A u \in Transfers : RowGoesOn(u)
    BY <1>0, <1>a, <2>1, <2>2, WriteGoesOn
  <2> QED
    BY <1>a, <2>1, <2>3 DEF Goes, RunGoesOn
<1>5. CASE ActEnqueue(c)
  <2>1. Acting(c, {"resume", "resumeAll", "retry", "repair"}, 2) /\ Enqueue(t)
    BY <1>5 DEF ActEnqueue, t
  <2>2. \/ UNCHANGED <<row, run>>
        \/ UNCHANGED run /\ row' \in {row, [row EXCEPT ![t].state = "paused"]}
        \/ Pump(Append(queue, t), starting, running, run) /\ UNCHANGED row
    BY <2>1 DEF Enqueue, memory
  <2>3. \A x \in Runs : RunGoesOn(x)
    <3>1. CASE UNCHANGED run
      BY <3>1 DEF RunGoesOn
    <3>2. CASE Pump(Append(queue, t), starting, running, run)
      BY <3>2, PumpGoesOn
    <3> QED
      BY <2>2, <3>1, <3>2
  <2>4. \A u \in Transfers : RowGoesOn(u)
    BY <1>0, <1>a, <2>1, <2>2, StateGoesOn
  <2> QED
    BY <1>a, <2>1, <2>3, <2>4 DEF Goes
<1>6. CASE ActArchive(c)
  <2>1. Acting(c, {"archive"}, 1) /\ (UNCHANGED <<row, work, memory>> \/ EngineCancel(t, "cancelled"))
    BY <1>6 DEF ActArchive, t
  <2>2. CASE UNCHANGED <<row, work, memory>>
    BY <1>a, <2>1, <2>2 DEF Goes, RowGoesOn, RunGoesOn, memory
  <2>3. CASE EngineCancel(t, "cancelled")
    BY <1>a, <2>1, <2>3, AbortGoesOn DEF Kinds
  <2> QED
    BY <2>1, <2>2, <2>3
<1>7. CASE ActDelete(c)
  <2>1. Acting(c, {"archive"}, 2) /\ UNCHANGED run /\ row' = [row EXCEPT ![t] = NoRow]
    BY <1>7 DEF ActDelete, t, memory
  <2>2. NoRow.state # "done"
    BY DEF NoRow
  <2>3. \A u \in Transfers : RowGoesOn(u)
    BY <1>0, <1>a, <2>1, <2>2, WriteGoesOn
  <2> QED
    BY <1>a, <2>1, <2>3 DEF Goes, RunGoesOn
<1>8. CASE ActRedirect(c)
  <2>1. PICK f \in Folders : /\ Acting(c, {"redirect"}, 1) /\ UNCHANGED run
                             /\ row' = [row EXCEPT ![t] = [caller[c].seen EXCEPT !.target = f]]
    BY <1>8 DEF ActRedirect, t, memory
  <2> DEFINE e == [caller[c].seen EXCEPT !.target = f]
  <2>2. e.state = caller[c].seen.state /\ caller[c].op = "redirect"
    BY <1>0, <1>a, <2>1, RowFields
  <2>3. row' = [row EXCEPT ![t] = e]
    BY <2>1
  <2> HIDE DEF e
  <2>4. \A u \in Transfers : RowGoesOn(u)
    BY <1>0, <1>a, <2>1, <2>2, <2>3, WriteGoesOn
  <2> QED
    BY <1>a, <2>1, <2>4 DEF Goes, RunGoesOn
<1>9. CASE ActNothing(c)
  BY <1>9 DEF ActNothing, store, memory, Goes, RowGoesOn, RunGoesOn
<1> QED
  BY <1>1, <1>2, <1>3, <1>4, <1>5, <1>6, <1>7, <1>8, <1>9 DEF CallStep

\* The process starts, stops and dies.
LEMMA ProcessGoes ==
  ASSUME PlacedInv, Boot \/ Shutdown \/ Die
  PROVE  Goes
<1>0. row \in Rows /\ run \in [Runs -> Run]
  BY InvOpens DEF PlacedInv, Store, Rows, PoolType
<1>1. UNCHANGED placed
  BY DEF Boot, Shutdown, Die, store
<1>2. CASE Boot
  <2> DEFINE S == {t \in Transfers : row[t].state \in Live}
  <2>1. CASE /\ UNCHANGED run
             /\ row' = [t \in Transfers |-> IF t \in S THEN [row[t] EXCEPT !.state = "paused"] ELSE row[t]]
    <3>1. ASSUME NEW t \in Transfers PROVE RowGoesOn(t)
      <4>1. [row[t] EXCEPT !.state = "paused"].state = "paused"
        BY <1>0, RowFields DEF Rows
      <4>2. row'[t] \in {row[t], [row[t] EXCEPT !.state = "paused"]}
        BY <2>1
      <4> QED
        BY <4>1, <4>2 DEF RowGoesOn
    <3> QED
      BY <1>1, <2>1, <3>1 DEF Goes, RunGoesOn
  <2>2. CASE (\E q : Pump(q, starting, running, run)) /\ UNCHANGED row
    <3>1. \A x \in Runs : RunGoesOn(x)
      BY <2>2, PumpGoesOn
    <3> QED
      BY <1>1, <2>2, <3>1 DEF Goes, RowGoesOn
  <2> QED
    BY <1>2, <2>1, <2>2 DEF Boot, memory
<1>3. CASE Shutdown
  <2>1. \A x \in Runs : run'[x] \in {run[x], [run[x] EXCEPT !.pausing = TRUE, !.reason = Aborted(run[x], "pause")]}
    BY <1>3 DEF Shutdown
  <2>2. \A x \in Runs : run'[x].pc = run[x].pc /\ run'[x].seen = run[x].seen
    <3> SUFFICES ASSUME NEW x \in Runs PROVE run'[x].pc = run[x].pc /\ run'[x].seen = run[x].seen
      OBVIOUS
    <3>1. run[x] \in Run
      BY <1>0
    <3> QED
      BY <2>1, <3>1 DEF Run
  <2>3. UNCHANGED row
    BY <1>3 DEF Shutdown, store
  <2> QED
    BY <1>1, <2>2, <2>3 DEF Goes, RunGoesOn, RowGoesOn
<1>4. CASE Die
  <2>1. UNCHANGED row /\ \A x \in Runs : run'[x] = NoRun
    BY <1>4 DEF Die, store
  <2>2. NoRun.pc = "idle" /\ NoRun.seen.state = "none"
    BY DEF NoRun, NoRow
  <2> QED
    BY <1>1, <2>1, <2>2 DEF Goes, RunGoesOn, RowGoesOn
<1> QED
  BY <1>2, <1>3, <1>4

LEMMA NextGoes == ASSUME PlacedInv, [Next]_vars PROVE Goes
<1>1. CASE \E r \in Runs : RunStep(r) \/ RunProgress(r)
  BY <1>1, RunGoes
<1>2. CASE \/ \E c \in Callers, op \in Operations \ {"pauseAll", "resumeAll"}, t \in Transfers : Ask(c, op, t)
           \/ \E c \in Callers, op \in {"pauseAll", "resumeAll"} : AskAll(c, op)
           \/ UNCHANGED vars
  <2>1. UNCHANGED <<row, placed, run>>
    BY <1>2 DEF Ask, AskAll, Begin, vars, store, memory
  <2> QED
    BY <2>1 DEF Goes, RowGoesOn, RunGoesOn
<1>3. CASE \E c \in Callers : CallStep(c)
  BY <1>3, CallGoes
<1>4. CASE Boot \/ Shutdown \/ Die
  BY <1>4, ProcessGoes
<1> QED
  BY <1>1, <1>2, <1>3, <1>4 DEF Next

\* A redirection is not asked of a row that says done.
LEMMA CallsStayOpen ==
  ASSUME PlacedInv, [Next]_vars, NEW c \in Callers, caller'[c].op = "redirect"
  PROVE  caller'[c].seen.state # "done"
<1>0. caller \in [Callers -> Caller] /\ (caller[c].op = "redirect" => caller[c].seen.state # "done")
  BY InvOpens DEF PlacedInv, Store, SeenIsOpen
<1>1. CASE UNCHANGED caller
  BY <1>0, <1>1
<1>2. CASE \E d \in Callers, op \in Operations \ {"pauseAll", "resumeAll"}, t \in Transfers : Ask(d, op, t)
  <2>1. PICK d \in Callers, op \in Operations \ {"pauseAll", "resumeAll"}, t \in Transfers : Ask(d, op, t)
    BY <1>2
  <2> DEFINE call == [op |-> op, step |-> 1, todo |-> <<t>>, seen |-> row[t]]
  <2>2. caller' = [caller EXCEPT ![d] = call] /\ Allowed(op, row[t].state)
    BY <2>1 DEF Ask, Begin
  <2>3. call.op = op /\ call.seen = row[t]
    OBVIOUS
  <2>4. op = "redirect" => row[t].state # "done"
    BY <2>2 DEF Allowed
  <2> HIDE DEF call
  <2> QED
    BY <1>0, <2>2, <2>3, <2>4
<1>3. CASE \E d \in Callers, op \in {"pauseAll", "resumeAll"} : AskAll(d, op)
  <2>1. PICK d \in Callers, op \in {"pauseAll", "resumeAll"} : AskAll(d, op)
    BY <1>3
  <2>2. PICK q : caller' = [caller EXCEPT ![d] = [op |-> op, step |-> 1, todo |-> q, seen |-> NoRow]]
    BY <2>1 DEF AskAll, Begin
  <2> QED
    BY <1>0, <2>2
<1>4. CASE \E d \in Callers : CallStep(d)
  <2>1. PICK d \in Callers : CallStep(d)
    BY <1>4
  <2>2. caller[d] \in Caller
    BY <1>0
  <2>3. PICK e : /\ caller' = [caller EXCEPT ![d] = e]
                 /\ e = NoCall \/ (e.op = caller[d].op /\ e.seen = caller[d].seen)
    <3>1. \/ Finish(d) \/ Halfway(d) \/ caller' = [caller EXCEPT ![d] = NoCall]
      BY <2>1 DEF CallStep, ActPause, ActCancel, ActResume, ActRequeue, ActEnqueue, ActArchive, ActDelete,
                  ActRedirect, ActNothing
    <3>2. CASE Finish(d)
      <4> DEFINE e == Walked(caller[d])
      <4>1. caller' = [caller EXCEPT ![d] = e]
        BY <3>2 DEF Finish
      <4>2. e = NoCall \/ (e.op = caller[d].op /\ e.seen = caller[d].seen)
        BY DEF Walked
      <4> HIDE DEF e
      <4> QED
        BY <4>1, <4>2
    <3>3. CASE Halfway(d)
      <4> DEFINE e == [caller[d] EXCEPT !.step = 2]
      <4>1. caller' = [caller EXCEPT ![d] = e]
        BY <1>0, <3>3 DEF Halfway
      <4>2. e.op = caller[d].op /\ e.seen = caller[d].seen
        BY <2>2 DEF Caller
      <4> QED
        BY <4>1, <4>2
    <3> QED
      BY <3>1, <3>2, <3>3
  <2>4. NoCall.op # "redirect"
    BY DEF NoCall
  <2> QED
    BY <1>0, <2>3, <2>4 DEF PlacedInv, SeenIsOpen
<1>5. CASE Die
  BY <1>5 DEF Die, NoCall
<1>6. CASE Boot \/ Shutdown \/ UNCHANGED vars
  BY <1>1, <1>6 DEF Boot, Shutdown, vars
<1>7. CASE \E r \in Runs : RunStep(r) \/ RunProgress(r)
  BY <1>1, <1>7, RunGoes
<1> QED
  BY <1>2, <1>3, <1>4, <1>5, <1>6, <1>7 DEF Next

LEMMA PlacedStep == PlacedInv /\ [Next]_vars => PlacedInv'
<1> SUFFICES ASSUME PlacedInv, [Next]_vars PROVE PlacedInv'
  OBVIOUS
<1>1. Inv'
  BY NextInv DEF PlacedInv
<1>2. Goes
  BY NextGoes
<1>3. \A x \in Runs : x[1] \in Transfers
  BY DEF Runs
<1>4. SeenIsOpen'
  BY <1>2, CallsStayOpen DEF SeenIsOpen, PlacedInv, Goes, RunGoesOn
<1>5. SettlesWherePlaced'
  BY <1>2, <1>3 DEF SettlesWherePlaced, PlacedInv, Goes, RunGoesOn
<1>6. DoneIsPlaced'
  BY <1>2 DEF DoneIsPlaced, PlacedInv, Goes, RowGoesOn
<1> QED
  BY <1>1, <1>4, <1>5, <1>6 DEF PlacedInv

LEMMA InitPlaced == Init => PlacedInv
<1> SUFFICES ASSUME Init PROVE PlacedInv
  OBVIOUS
<1>1. Inv
  BY InitInv
<1>2. /\ \A r \in Runs : run[r].pc = "idle" /\ run[r].seen.state = "none"
      /\ \A c \in Callers : caller[c].op = "none" /\ \A t \in Transfers : row[t].state = "queued"
  BY DEF Init, NoRun, NoRow, NoCall
<1>3. DoneIsPlaced
  BY DEF Init, DoneIsPlaced
<1> QED
  BY <1>1, <1>2, <1>3 DEF PlacedInv, SeenIsOpen, SettlesWherePlaced

\* A row that says done names a place its file was moved to, however stale the entity
\* that was saved and whatever was redirected, repaired or archived meanwhile.
THEOREM DoneStaysPlaced == Spec => []DoneIsPlaced
<1>1. PlacedInv => DoneIsPlaced
  BY DEF PlacedInv
<1> QED
  BY <1>1, InitPlaced, PlacedStep, PTL DEF Spec

\* Behind a paused queue the pump takes nothing, whoever calls it.
LEMMA PausedPump ==
  ASSUME NEW q, NEW s, NEW rn, NEW rs, Pump(q, s, rn, rs), queuePaused
  PROVE  starting' = s
<1>1. Take(0, q, s, rn, rs)
  BY DEF Pump
<1>2. 1..0 = {}
  OBVIOUS
<1> QED
  BY <1>1, <1>2 DEF Take

\* While the queue stays paused nothing new starts, whether a request, the end of a run
\* or a restart calls the pump.
THEOREM PausedStartsNothing == Spec => PausedQueueStartsNothing
<1>1. [Next]_vars => [queuePaused /\ queuePaused' => starting' \subseteq starting]_vars
  <2> SUFFICES ASSUME [Next]_vars, queuePaused PROVE starting' \subseteq starting
    OBVIOUS
  <2>1. CASE \E r \in Runs : RunStep(r) \/ RunProgress(r)
    <3>1. PICK r \in Runs : RunStep(r) \/ RunProgress(r)
      BY <2>1
    <3>2. CASE RunEnds(r)
      BY <3>2, PausedPump DEF RunEnds
    <3>3. CASE ~RunEnds(r)
      BY <3>1, <3>3 DEF RunStep, RunProgress, RunLoad, RunConnect, RunPrepare, RunPersist, RunOpen, RunAnnounce,
                        RunDownloaded, RunVerify, RunPlace, RunMove, RunSettle, RunError, RunMoveStopped, RunCancels,
                        RunThrows, memory
    <3> QED
      BY <3>2, <3>3
  <2>2. CASE \/ \E c \in Callers, op \in Operations \ {"pauseAll", "resumeAll"}, t \in Transfers : Ask(c, op, t)
             \/ \E c \in Callers, op \in {"pauseAll", "resumeAll"} : AskAll(c, op)
             \/ UNCHANGED vars
    BY <2>2 DEF Ask, AskAll, Begin, vars, memory
  <2>3. CASE \E c \in Callers : CallStep(c)
    <3>1. PICK c \in Callers : CallStep(c)
      BY <2>3
    <3>2. CASE ActEnqueue(c)
      BY <3>2 DEF ActEnqueue, Enqueue, memory
    <3>3. CASE ~ActEnqueue(c)
      BY <3>1, <3>3 DEF CallStep, ActPause, ActCancel, ActResume, ActRequeue, ActArchive, ActDelete, ActRedirect,
                        ActNothing, EnginePause, EngineCancel, memory
    <3> QED
      BY <3>2, <3>3
  <2>4. CASE Boot \/ Shutdown \/ Die
    BY <2>4 DEF Boot, Shutdown, Die, memory
  <2> QED
    BY <2>1, <2>2, <2>3, <2>4 DEF Next
<1> QED
  BY <1>1, PTL DEF Spec, PausedQueueStartsNothing
-----------------------------------------------------------------------------
(* The plan a run is given: ChunkPlan, a specification of its own, for any *)
(* sizes, settings, limits and batches that PlanConstants allows.          *)

\* Of two places in the file, the one with more pieces before it is the later one.
LEMMA Monotone ==
  ASSUME NEW i \in Int, NEW j \in Int, NEW z \in Nat \ {0}
  PROVE  i <= j <=> i * z <= j * z
<1>1. ASSUME NEW k \in Int, NEW l \in Int, k <= l PROVE k * z <= l * z
  <2>1. l * z - k * z = (l - k) * z
    OBVIOUS
  <2>2. (l - k) * z >= 0
    BY <1>1
  <2> QED
    BY <2>1, <2>2
<1>2. j < i => j * z < i * z
  <2> SUFFICES ASSUME j < i PROVE j * z < i * z
    OBVIOUS
  <2>1. (j + 1) * z <= i * z
    BY <1>1
  <2>2. (j + 1) * z = j * z + z
    OBVIOUS
  <2> QED
    BY <2>1, <2>2
<1> QED
  BY <1>1, <1>2

\* CeilDiv(a, b) is the least number of pieces of length b that hold a.
LEMMA CeilIs ==
  ASSUME NEW a \in Nat, NEW b \in Nat \ {0}
  PROVE  LET q == CeilDiv(a, b)
         IN  /\ q \in Nat /\ a <= q * b /\ (q - 1) * b < a
             /\ \A m \in Nat : a <= m * b => q <= m
<1>q. PICK q : q = CeilDiv(a, b)
  OBVIOUS
<1>1. q = (a + b - 1) \div b
  BY <1>q DEF CeilDiv
<1>2. q \in Int /\ b * q <= a + b - 1 /\ a + b - 1 < b * q + b
  BY <1>1
<1>3. b * q = q * b /\ (q - 1) * b = q * b - b
  BY <1>2
<1>4. a <= q * b /\ (q - 1) * b < a
  BY <1>2, <1>3
<1>5. ASSUME NEW m \in Nat, a <= m * b PROVE q <= m
  <2>1. (q - 1) * b < m * b
    BY <1>2, <1>4, <1>5
  <2>2. ~(m <= q - 1)
    BY <1>2, <2>1, Monotone
  <2> QED
    BY <1>2, <2>2
<1>6. q \in Nat
  <2>1. ~(q <= -1)
    <3> SUFFICES ASSUME q <= -1 PROVE FALSE
      OBVIOUS
    <3>1. q * b <= (-1) * b
      BY <1>2, Monotone
    <3> QED
      BY <1>2, <1>4, <3>1
  <2> QED
    BY <1>2, <2>1
<1> QED
  BY <1>q, <1>4, <1>5, <1>6

\* resolveChunkSize keeps its two promises: a piece has a size, and there are at most
\* MAX_CHUNKS.
LEMMA ResolvedSize ==
  ASSUME NEW total \in Nat, NEW c \in Configured
  PROVE  LET z == ResolveChunkSize(total, c)
         IN  z \in Nat \ {0} /\ CeilDiv(total, z) <= MaxChunks
<1>0. c \in Nat /\ MaxChunks \in Nat \ {0} /\ MinChunkSize \in Nat \ {0} /\ SizeUnit \in Nat \ {0}
  BY PlanConstants DEF PlanConstants
<1>r. PICK r \in Nat \ {0} : r = Larger(MinChunkSize, c)
  BY <1>0 DEF Larger
<1>1. CASE total <= r \/ CeilDiv(total, r) <= MaxChunks
  <2>1. ResolveChunkSize(total, c) = r
    BY <1>r, <1>1 DEF ResolveChunkSize
  <2>2. total <= r => CeilDiv(total, r) <= MaxChunks
    <3>1. r = 1 * r
      OBVIOUS
    <3>2. total <= r => CeilDiv(total, r) <= 1
      BY <3>1, CeilIs
    <3>3. CeilDiv(total, r) \in Nat
      BY CeilIs
    <3> QED
      BY <1>0, <3>2, <3>3
  <2> QED
    BY <1>1, <2>1, <2>2
<1>2. CASE ~(total <= r \/ CeilDiv(total, r) <= MaxChunks)
  <2>e. PICK e \in Nat : e = CeilDiv(total, MaxChunks)
    BY <1>0, CeilIs
  <2>1. total <= e * MaxChunks /\ e > 0
    <3>1. total <= e * MaxChunks
      BY <1>0, <2>e, CeilIs
    <3>2. total > 0
      BY <1>2
    <3>3. e # 0
      BY <1>0, <3>1, <3>2
    <3> QED
      BY <3>1, <3>3
  <2>u. PICK u \in Nat : u = CeilDiv(e, SizeUnit)
    BY <1>0, CeilIs
  <2>2. e <= u * SizeUnit
    BY <1>0, <2>u, CeilIs
  <2>z. PICK z : z = u * SizeUnit
    OBVIOUS
  <2>3. z \in Nat \ {0} /\ e <= z
    BY <1>0, <2>1, <2>2, <2>z
  <2>4. ResolveChunkSize(total, c) = z
    BY <1>r, <1>2, <2>e, <2>u, <2>z DEF ResolveChunkSize
  <2>5. total <= MaxChunks * z
    <3>1. e * MaxChunks <= z * MaxChunks
      BY <1>0, <2>3, Monotone
    <3>2. z * MaxChunks = MaxChunks * z
      BY <1>0, <2>3
    <3> QED
      BY <1>0, <2>1, <2>3, <3>1, <3>2
  <2>6. CeilDiv(total, z) <= MaxChunks
    BY <1>0, <2>3, <2>5, CeilIs
  <2> QED
    BY <2>3, <2>4, <2>6
<1> QED
  BY <1>1, <1>2

\* The i-th piece of the file, cut into pieces of z bytes; x holds k of them, from the one
\* after the first f.
Piece == [index : Nat, start : Nat, end : Int, state : {"pending", "done", "failed", "corrupt"}]
IsPiece(z, i, c) ==
  c \in Piece /\ c.index = i - 1 /\ c.start = (i - 1) * z /\ c.end = Smaller(i * z, size) - 1
Pieces(z, x, f, k) == x \in Seq(Piece) /\ Len(x) = k /\ \A i \in 1..k : IsPiece(z, f + i, x[i])
Cuts(z) == CeilDiv(size, z)

\* The pieces from a to b are in the database, once each.
Stored(R, z, a, b) ==
  /\ \A r \in R : a <= r.index /\ r.index < b /\ IsPiece(z, r.index + 1, r)
  /\ \A k \in a..b - 1 : \E r \in R : r.index = k
  /\ \A r, s \in R : r.index = s.index => r = s

\* Where the pieces begin and end, by what came while they were being written.
Begins(w, f) == f = 0 \/ "retry" \in w
Reaches(w, z, e) == e = Cuts(z) \/ "stop" \in w
Torn(R, u, w, z, a, b) == Begins(w, a) /\ (Reaches(w, z, b) \/ u # <<>> \/ R = {})

\* What a process holds is a plan of the file from one piece to another, or a new plan of
\* which the rest is to be written.
PlanRecord(x) == x = [resumed |-> x.resumed, chunks |-> x.chunks, bytesDone |-> x.bytesDone]
Ends(w, z, f, k) == Begins(w, f) /\ Reaches(w, z, f + k) /\ (k > 0 \/ Cuts(z) = 0)
Span(x, w, z, f, k) == Pieces(z, x, f, k) /\ f + k <= Cuts(z) /\ Ends(w, z, f, k)
Spans(x, w, z) == \E f \in Nat, k \in Nat : Span(x, w, z, f, k)
Half(x, u, z, b) == Pieces(z, x, 0, Cuts(z)) /\ b < Cuts(z) /\ u = SubSeq(x, b + 1, Cuts(z))
Planned(p, u, w, z, b) ==
  /\ PlanRecord(p)
  /\ \/ u = <<>> /\ (p = NoPlan \/ Spans(p.chunks, w, z))
     \/ Half(p.chunks, u, z, b)

\* The inductive invariant: one chunk size explains the rows and the plan, whatever the setting
\* has become since.
Explains(R, p, u, w, z, a, b) ==
  /\ Cuts(z) <= MaxChunks /\ a <= b /\ b <= Cuts(z)
  /\ Stored(R, z, a, b) /\ Torn(R, u, w, z, a, b) /\ Planned(p, u, w, z, b)
PlanInv ==
  /\ size \in Nat /\ size \in Sizes /\ setting \in Configured /\ cut \subseteq {"stop", "retry"}
  /\ \E z \in Nat \ {0}, a \in Nat, b \in Nat : Explains(rows, plan, unwritten, cut, z, a, b)

\* Byte a is in piece i.
LEMMA InPiece ==
  ASSUME size \in Nat, NEW z \in Nat \ {0}, NEW i \in Nat \ {0}, NEW c, IsPiece(z, i, c), NEW a \in Nat
  PROVE  Covers(c, a) <=> (i - 1) * z <= a /\ a < i * z /\ a < size
<1>1. i * z \in Int
  OBVIOUS
<1> QED
  BY <1>1 DEF Covers, IsPiece, Smaller

\* The pieces of a plan that was not torn by the end of the file begin in the file.
LEMMA PieceBegins ==
  ASSUME size \in Nat, NEW z \in Nat \ {0}, NEW i \in 1..Cuts(z)
  PROVE  (i - 1) * z < size /\ (i - 1) * z < i * z /\ (i - 1) * z \in Nat
<1>0. Cuts(z) \in Nat /\ (Cuts(z) - 1) * z < size
  BY CeilIs DEF Cuts
<1>1. (i - 1) * z <= (Cuts(z) - 1) * z
  BY <1>0, Monotone
<1>2. (i - 1) * z \in Nat /\ (Cuts(z) - 1) * z \in Int
  BY <1>0
<1>3. i * z = (i - 1) * z + z
  BY <1>0
<1> QED
  BY <1>0, <1>1, <1>2, <1>3

\* The pieces from f to f + k hold the bytes between f * z and (f + k) * z, each in one piece.
LEMMA Tiles ==
  ASSUME size \in Nat, NEW z \in Nat \ {0}, NEW f \in Nat, NEW k \in Nat, NEW x,
         Pieces(z, x, f, k), f + k <= Cuts(z)
  PROVE  /\ \A i \in DOMAIN x : x[i].start <= x[i].end /\ x[i].index = f + i - 1
         /\ \A b \in Nat : (\E i \in DOMAIN x : Covers(x[i], b)) <=> b < size /\ f * z <= b /\ b < (f + k) * z
         /\ \A b \in Nat, i, j \in DOMAIN x : Covers(x[i], b) /\ Covers(x[j], b) => i = j
<1>0. Cuts(z) \in Nat /\ DOMAIN x = 1..k /\ \A i \in 1..k : IsPiece(z, f + i, x[i]) /\ f + i \in 1..Cuts(z) /\ f + i \in Nat \ {0}
  <2>1. Cuts(z) \in Nat
    BY CeilIs DEF Cuts
  <2> QED
    BY <2>1 DEF Pieces
<1>1. ASSUME NEW i \in 1..k PROVE x[i].start <= x[i].end /\ x[i].index = f + i - 1
  <2>n. PICK n \in 1..Cuts(z) : n = f + i
    BY <1>0
  <2>1. (n - 1) * z < size /\ (n - 1) * z < n * z /\ (n - 1) * z \in Nat
    BY <1>0, PieceBegins
  <2>2. n * z \in Int
    BY <1>0
  <2>c. PICK c : c = x[i]
    OBVIOUS
  <2>3. c.start = (n - 1) * z /\ c.end = Smaller(n * z, size) - 1 /\ c.index = n - 1
    BY <1>0, <2>c, <2>n DEF IsPiece
  <2>4. PICK s \in Int, e \in Int : s = (n - 1) * z /\ e = n * z
    BY <2>1, <2>2
  <2>5. c.start <= c.end
    <3>1. s < size /\ s < e
      BY <2>1, <2>4
    <3>2. Smaller(e, size) \in {e, size}
      BY DEF Smaller
    <3>3. c.start = s /\ c.end = Smaller(e, size) - 1
      BY <2>3, <2>4
    <3> QED
      BY <3>1, <3>2, <3>3
  <2> QED
    BY <2>3, <2>5, <2>c, <2>n
<1>2. ASSUME NEW b \in Nat, NEW i \in 1..k, Covers(x[i], b) PROVE b < size /\ f * z <= b /\ b < (f + k) * z
  <2>1. (f + i - 1) * z <= b /\ b < (f + i) * z /\ b < size
    BY <1>0, <1>2, InPiece
  <2>2. (f + i) * z <= (f + k) * z /\ (f + i) * z \in Int /\ (f + k) * z \in Int
    BY Monotone
  <2>3. f * z <= (f + i - 1) * z /\ f * z \in Int /\ (f + i - 1) * z \in Int
    BY Monotone
  <2> QED
    BY <2>1, <2>2, <2>3
<1>3. ASSUME NEW b \in Nat, b < size, f * z <= b, b < (f + k) * z PROVE \E i \in 1..k : Covers(x[i], b)
  <2>q. PICK q \in Nat : q * z <= b /\ b < q * z + z
    <3>1. b \div z \in Nat /\ z * (b \div z) <= b /\ b < z * (b \div z) + z
      OBVIOUS
    <3>2. z * (b \div z) = (b \div z) * z
      BY <3>1
    <3> QED
      BY <3>1, <3>2
  <2>1. (q + 1) * z = q * z + z /\ (q + 1) - 1 = q
    OBVIOUS
  <2>2. ~(f + k <= q)
    <3> SUFFICES ASSUME f + k <= q PROVE FALSE
      OBVIOUS
    <3>1. (f + k) * z <= q * z /\ (f + k) * z \in Int /\ q * z \in Int
      BY Monotone
    <3> QED
      BY <1>3, <2>q, <3>1
  <2>3. ~(q + 1 <= f)
    <3> SUFFICES ASSUME q + 1 <= f PROVE FALSE
      OBVIOUS
    <3>1. (q + 1) * z <= f * z /\ (q + 1) * z \in Int /\ f * z \in Int
      BY Monotone
    <3> QED
      BY <1>3, <2>q, <2>1, <3>1
  <2>i. PICK i \in 1..k : f + i = q + 1
    BY <2>2, <2>3
  <2>4. IsPiece(z, q + 1, x[i]) /\ q + 1 \in Nat \ {0}
    BY <1>0, <2>i
  <2>5. Covers(x[i], b)
    BY <1>3, <2>q, <2>1, <2>4, InPiece
  <2> QED
    BY <2>5
<1>4. ASSUME NEW b \in Nat, NEW i \in 1..k, NEW j \in 1..k, Covers(x[i], b), Covers(x[j], b)
      PROVE  i <= j
  <2>1. (f + i - 1) * z <= b /\ b < (f + j) * z
    BY <1>0, <1>4, InPiece
  <2>2. ~(f + j <= f + i - 1)
    <3> SUFFICES ASSUME f + j <= f + i - 1 PROVE FALSE
      OBVIOUS
    <3>1. (f + j) * z <= (f + i - 1) * z /\ (f + j) * z \in Int /\ (f + i - 1) * z \in Int
      BY Monotone
    <3> QED
      BY <2>1, <3>1
  <2> QED
    BY <2>2
<1>5. ASSUME NEW b \in Nat, NEW i \in 1..k, NEW j \in 1..k, Covers(x[i], b), Covers(x[j], b)
      PROVE  i = j
  <2>1. i <= j /\ j <= i
    BY <1>4, <1>5
  <2> QED
    BY <2>1
<1> QED
  BY <1>0, <1>1, <1>2, <1>3, <1>5

\* A slice of a sequence.
LEMMA Slice ==
  ASSUME NEW x \in Seq(Piece), NEW a \in Nat, NEW b \in Nat, a <= b, b <= Len(x)
  PROVE  LET y == SubSeq(x, a + 1, b)
         IN  y \in Seq(Piece) /\ Len(y) = b - a /\ DOMAIN y = 1..(b - a) /\ \A i \in 1..(b - a) : y[i] = x[a + i]
  OBVIOUS

\* Of a plan that is half written, the rest is to come.
LEMMA HalfRest ==
  ASSUME NEW z, Cuts(z) \in Nat, NEW b \in Nat, NEW x, NEW u, Half(x, u, z, b)
  PROVE  x \in Seq(Piece) /\ Len(x) = Cuts(z) /\ Len(u) = Cuts(z) - b /\ u # <<>>
<1>1. x \in Seq(Piece) /\ Len(x) = Cuts(z) /\ b < Cuts(z) /\ u = SubSeq(x, b + 1, Cuts(z))
  BY DEF Half, Pieces
<1>2. Len(u) = Cuts(z) - b
  BY <1>1, Slice
<1> QED
  BY <1>1, <1>2

\* Without a plan nothing is half written.
LEMMA NothingHalf ==
  ASSUME size \in Nat, NEW z \in Nat \ {0}, NEW b \in Nat, plan = NoPlan, NEW w,
         Planned(plan, unwritten, w, z, b)
  PROVE  unwritten = <<>>
<1>1. Cuts(z) \in Nat
  BY CeilIs DEF Cuts
<1>2. ASSUME Half(plan.chunks, unwritten, z, b) PROVE FALSE
  <2>1. Len(plan.chunks) = Cuts(z) /\ b < Cuts(z)
    BY <1>2 DEF Half, Pieces
  <2>2. plan.chunks = <<>>
    BY DEF NoPlan
  <2> QED
    BY <1>1, <2>1, <2>2
<1> QED
  BY <1>2 DEF Planned

\* A plan that is held is of the file from one piece to another.
LEMMA Held ==
  ASSUME PlanInv
  PROVE  \E z \in Nat \ {0}, f \in Nat, k \in Nat :
           /\ Cuts(z) \in Nat /\ Cuts(z) <= MaxChunks /\ f + k <= Cuts(z) /\ Pieces(z, plan.chunks, f, k)
           /\ plan # NoPlan /\ unwritten = <<>> => Ends(cut, z, f, k)
<1>1. PICK z \in Nat \ {0}, a \in Nat, b \in Nat : Explains(rows, plan, unwritten, cut, z, a, b)
  BY DEF PlanInv
<1>2. size \in Nat /\ Cuts(z) \in Nat
  BY CeilIs DEF PlanInv, Cuts
<1>3. Cuts(z) <= MaxChunks /\ Planned(plan, unwritten, cut, z, b)
  BY <1>1 DEF Explains
<1>x. PICK x : x = plan.chunks
  OBVIOUS
<1>4. CASE plan = NoPlan
  <2>1. x = <<>>
    BY <1>x, <1>4 DEF NoPlan
  <2>2. Pieces(z, x, 0, 0) /\ 0 + 0 <= Cuts(z)
    BY <1>2, <2>1 DEF Pieces
  <2> QED
    BY <1>2, <1>3, <1>x, <1>4, <2>2
<1>5. CASE plan # NoPlan /\ Spans(x, cut, z)
  <2>1. PICK f \in Nat, k \in Nat : Span(x, cut, z, f, k)
    BY <1>5 DEF Spans
  <2> QED
    BY <1>2, <1>3, <1>x, <2>1 DEF Span
<1>6. CASE Half(x, unwritten, z, b)
  <2>1. unwritten # <<>>
    BY <1>2, <1>6, HalfRest
  <2>2. Pieces(z, x, 0, Cuts(z)) /\ 0 + Cuts(z) <= Cuts(z)
    BY <1>2, <1>6 DEF Half
  <2> QED
    BY <1>2, <1>3, <1>x, <2>1, <2>2
<1> QED
  BY <1>3, <1>4, <1>5, <1>6, <1>x DEF Planned

\* What holds of a plan by its invariant.
LEMMA InvTiles ==
  ASSUME PlanInv
  PROVE  PiecesTile /\ OnlyACutTears
<1>1. PICK z \in Nat \ {0}, f \in Nat, k \in Nat :
        /\ Cuts(z) \in Nat /\ Cuts(z) <= MaxChunks /\ f + k <= Cuts(z) /\ Pieces(z, plan.chunks, f, k)
        /\ plan # NoPlan /\ unwritten = <<>> => Ends(cut, z, f, k)
  BY Held
<1>2. size \in Nat /\ MaxChunks \in Nat
  BY PlanConstants DEF PlanInv, PlanConstants
<1>x. PICK x : x = plan.chunks
  OBVIOUS
<1>4. DOMAIN x = 1..k /\ Len(x) = k /\ \A i \in 1..k : x[i] \in Piece
  BY <1>1, <1>x DEF Pieces
<1>5. /\ \A i \in DOMAIN x : x[i].start <= x[i].end /\ x[i].index = f + i - 1
      /\ \A b \in Nat : (\E i \in DOMAIN x : Covers(x[i], b)) <=> b < size /\ f * z <= b /\ b < (f + k) * z
      /\ \A b \in Nat, i, j \in DOMAIN x : Covers(x[i], b) /\ Covers(x[j], b) => i = j
  BY <1>1, <1>2, <1>x, Tiles
<1>6. ASSUME NEW a \in 0..size, NEW b \in 0..size, NEW c \in a..b,
             \E i \in DOMAIN x : Covers(x[i], a), \E i \in DOMAIN x : Covers(x[i], b)
      PROVE  b < size /\ Cardinality({l \in DOMAIN x : Covers(x[l], c)}) = 1
  <2>1. b < size /\ b < (f + k) * z /\ f * z <= a /\ a \in Nat /\ b \in Nat /\ c \in Nat /\ a <= c /\ c <= b
    BY <1>2, <1>5, <1>6
  <2>2. (f + k) * z \in Int /\ f * z \in Int
    BY <1>1
  <2>3. c < size /\ c < (f + k) * z /\ f * z <= c
    BY <1>2, <2>1, <2>2
  <2>4. PICK j \in DOMAIN x : Covers(x[j], c)
    BY <1>5, <2>1, <2>3
  <2>5. {l \in DOMAIN x : Covers(x[l], c)} = {j}
    BY <1>5, <2>1, <2>4
  <2> QED
    BY <2>1, <2>5, FS_Singleton
<1>7. PiecesTile
  <2>1. Len(x) <= MaxChunks
    BY <1>1, <1>2, <1>4
  <2>c. PICK C : C = {v \in 0..size : \E i \in DOMAIN x : Covers(x[i], v)}
    OBVIOUS
  <2>2. ASSUME NEW a \in C, NEW b \in C
        PROVE  b < size /\ \A c \in a..b : Cardinality({i \in DOMAIN x : Covers(x[i], c)}) = 1
    <3>1. /\ a \in 0..size /\ b \in 0..size
          /\ \E i \in DOMAIN x : Covers(x[i], a)
          /\ \E i \in DOMAIN x : Covers(x[i], b)
      BY <2>c, <2>2
    <3>2. b < size
      BY <1>5, <3>1
    <3> QED
      BY <1>6, <3>1, <3>2
  <2>3. \A i \in DOMAIN x : x[i].start <= x[i].end /\ x[i].index = x[1].index + i - 1
    <3>1. ASSUME NEW i \in DOMAIN x PROVE x[i].index = x[1].index + i - 1
      <4>1. 1 \in DOMAIN x /\ i \in Int
        BY <1>4
      <4>2. x[1].index = f + 1 - 1 /\ x[i].index = f + i - 1
        BY <1>5, <4>1
      <4> QED
        BY <4>1, <4>2
    <3> QED
      BY <1>5, <3>1
  <2>4. \A a \in C, b \in C : b < size /\ \A c \in a..b : Cardinality({i \in DOMAIN x : Covers(x[i], c)}) = 1
    BY <2>2
  <2> HIDE DEF Covers
  <2> QED
    BY <1>x, <2>c, <2>1, <2>3, <2>4 DEF PiecesTile
<1>8. OnlyACutTears
  <2> SUFFICES ASSUME plan # NoPlan, unwritten = <<>>, size > 0
               PROVE  /\ "retry" \in cut \/ \E i \in DOMAIN x : Covers(x[i], 0)
                      /\ "stop" \in cut \/ \E i \in DOMAIN x : Covers(x[i], size - 1)
    BY <1>x DEF OnlyACutTears
  <2>1. Begins(cut, f) /\ Reaches(cut, z, f + k) /\ (k > 0 \/ Cuts(z) = 0)
    BY <1>1 DEF Ends
  <2>2. size <= Cuts(z) * z /\ Cuts(z) * z \in Int /\ 0 * z = 0
    BY <1>1, <1>2, CeilIs DEF Cuts
  <2>3. k > 0
    <3>1. Cuts(z) # 0
      BY <1>2, <2>2
    <3> QED
      BY <2>1, <3>1
  <2>4. f + 1 \in 1..Cuts(z) /\ (f + 1) - 1 = f
    BY <1>1, <2>3
  <2>5. f * z < size /\ f * z \in Int
    BY <1>2, <2>4, PieceBegins
  <2>6. 0 < (f + k) * z /\ (f + k) * z \in Int
    <3>1. 1 * z <= (f + k) * z /\ 1 * z = z
      BY <2>3, Monotone
    <3> QED
      BY <3>1
  <2>7. ASSUME "retry" \notin cut PROVE \E i \in DOMAIN x : Covers(x[i], 0)
    <3>1. f = 0
      BY <2>1, <2>7 DEF Begins
    <3>2. 0 \in Nat /\ 0 < size /\ f * z <= 0 /\ 0 < (f + k) * z
      BY <2>2, <2>6, <3>1
    <3> HIDE DEF Covers
    <3> QED
      BY <1>5, <3>2
  <2>8. ASSUME "stop" \notin cut PROVE \E i \in DOMAIN x : Covers(x[i], size - 1)
    <3>1. f + k = Cuts(z)
      BY <2>1, <2>8 DEF Reaches
    <3>2. size - 1 \in Nat /\ size - 1 < size /\ f * z <= size - 1 /\ size - 1 < (f + k) * z
      BY <1>2, <2>2, <2>5, <3>1
    <3> HIDE DEF Covers
    <3> QED
      BY <1>5, <3>2
  <2> HIDE DEF Covers
  <2> QED
    BY <2>7, <2>8
<1> QED
  BY <1>7, <1>8

\* Of the stored pieces, n - a come before the one of index n.
LEMMA CountBelow ==
  ASSUME NEW z \in Nat \ {0}, NEW a \in Nat, NEW b \in Nat, a <= b, Stored(rows, z, a, b), NEW n \in a..b
  PROVE  LET T == {s \in rows : s.index < n} IN IsFiniteSet(T) /\ Cardinality(T) = n - a
<1> DEFINE T == {s \in rows : s.index < n}
           f == [i \in a..(n - 1) |-> CHOOSE r \in rows : r.index = i]
<1>1. \A r \in rows : r.index \in Nat /\ a <= r.index
  BY DEF Stored, IsPiece, Piece
<1>2. ASSUME NEW i \in a..(n - 1) PROVE f[i] \in T /\ f[i].index = i
  <2>1. i \in a..b - 1 /\ i < n
    OBVIOUS
  <2>2. \E r \in rows : r.index = i
    BY <2>1 DEF Stored
  <2> QED
    BY <2>1, <2>2
<1>3. f \in [a..(n - 1) -> T]
  BY <1>2
<1>4. \A i, j \in a..(n - 1) : f[i] = f[j] => i = j
  BY <1>2
<1>5. ASSUME NEW s \in T PROVE \E i \in a..(n - 1) : f[i] = s
  <2>1. s \in rows /\ s.index \in a..(n - 1)
    BY <1>1
  <2>2. f[s.index] \in rows /\ f[s.index].index = s.index
    BY <1>2, <2>1
  <2> QED
    BY <2>1, <2>2 DEF Stored
<1>6. ExistsBijection(a..(n - 1), T)
  <2> HIDE DEF f, T
  <2>1. f \in Bijection(a..(n - 1), T)
    BY <1>3, <1>4, <1>5 DEF Bijection, Injection, Surjection, IsInjective
  <2> QED
    BY <2>1 DEF ExistsBijection
<1>7. IsFiniteSet(a..(n - 1)) /\ Cardinality(a..(n - 1)) = n - a
  <2>1. a \in Int /\ n - 1 \in Int /\ a <= n /\ (a > n - 1 => n - a = 0) /\ (n - 1) - a + 1 = n - a
    OBVIOUS
  <2>2. IsFiniteSet(a..(n - 1)) /\ Cardinality(a..(n - 1)) = IF a > n - 1 THEN 0 ELSE (n - 1) - a + 1
    BY <2>1, FS_Interval
  <2> QED
    BY <2>1, <2>2
<1> QED
  BY <1>6, <1>7, FS_Bijection

\* ByIndex gives the stored pieces, the i-th at place i.
LEMMA ByIndexIs ==
  ASSUME NEW z \in Nat \ {0}, NEW a \in Nat, NEW b \in Nat, a <= b, Stored(rows, z, a, b)
  PROVE  LET x == ByIndex(rows)
         IN  Pieces(z, x, a, b - a) /\ \A i \in 1..(b - a) : x[i] \in rows /\ x[i].index = a + i - 1
<1>1. \A r \in rows : r.index \in Nat /\ a <= r.index /\ r.index < b /\ IsPiece(z, r.index + 1, r)
  BY DEF Stored, IsPiece, Piece
<1>m. PICK m \in Nat : m = b - a
  OBVIOUS
<1>2. ASSUME NEW r \in rows PROVE Place(r, rows) = r.index - a + 1
  <2>1. r.index \in a..b
    BY <1>1
  <2>2. Cardinality({s \in rows : s.index < r.index}) = r.index - a
    BY <2>1, CountBelow
  <2> QED
    BY <2>2 DEF Place
<1>3. Cardinality(rows) = m
  <2>1. rows = {s \in rows : s.index < b}
    BY <1>1
  <2>2. Cardinality({s \in rows : s.index < b}) = b - a
    <3>1. b \in a..b
      OBVIOUS
    <3> QED
      BY <3>1, CountBelow
  <2> QED
    BY <1>m, <2>1, <2>2
<1>x. PICK x : x = ByIndex(rows)
  OBVIOUS
<1>4. x = [i \in 1..m |-> CHOOSE r \in rows : Place(r, rows) = i]
  BY <1>x, <1>3 DEF ByIndex
<1>5. ASSUME NEW i \in 1..m PROVE x[i] \in rows /\ x[i].index = a + i - 1 /\ IsPiece(z, a + i, x[i])
  <2>1. a + i - 1 \in a..b - 1
    BY <1>m
  <2>2. PICK s \in rows : s.index = a + i - 1
    BY <2>1 DEF Stored
  <2>3. Place(s, rows) = i
    <3>1. Place(s, rows) = (a + i - 1) - a + 1
      BY <1>2, <2>2
    <3> QED
      BY <3>1
  <2>4. x[i] = CHOOSE r \in rows : Place(r, rows) = i
    BY <1>4
  <2>5. x[i] \in rows /\ Place(x[i], rows) = i
    BY <2>3, <2>4
  <2>6. x[i].index \in Nat /\ x[i].index - a + 1 = i
    BY <1>1, <1>2, <2>5
  <2>7. x[i].index = a + i - 1 /\ x[i].index + 1 = a + i
    BY <2>6
  <2>8. IsPiece(z, x[i].index + 1, x[i])
    BY <1>1, <2>5
  <2> QED
    BY <2>5, <2>7, <2>8
<1>6. DOMAIN x = 1..m /\ \A i \in 1..m : x[i] \in Piece
  BY <1>4, <1>5 DEF IsPiece
<1>7. x \in Seq(Piece) /\ Len(x) = m
  BY <1>4, <1>6
<1>8. Pieces(z, x, a, m)
  BY <1>5, <1>7 DEF Pieces
<1> QED
  BY <1>5, <1>8, <1>m, <1>x

\* A plan taken up again has the stored pieces, in order.
LEMMA ResumedPieces ==
  ASSUME NEW z \in Nat \ {0}, NEW a \in Nat, NEW b \in Nat, a <= b, Stored(rows, z, a, b)
  PROVE  LET p == ResumePlan(rows) IN PlanRecord(p) /\ p.resumed = TRUE /\ Pieces(z, p.chunks, a, b - a)
<1>m. PICK m \in Nat : m = b - a
  OBVIOUS
<1>x. PICK x : x = ByIndex(rows)
  OBVIOUS
<1>1. x \in Seq(Piece) /\ Len(x) = m /\ \A i \in 1..m : IsPiece(z, a + i, x[i])
  BY <1>m, <1>x, ByIndexIs DEF Pieces
<1>c. PICK c : c = [i \in DOMAIN x |-> [x[i] EXCEPT !.state = IF @ = "done" THEN "done" ELSE "pending"]]
  OBVIOUS
<1>2. ResumePlan(rows) = [resumed |-> TRUE, chunks |-> c, bytesDone |-> BytesDone(c)]
  BY <1>x, <1>c DEF ResumePlan
<1>3. ASSUME NEW i \in 1..m PROVE c[i] \in Piece /\ IsPiece(z, a + i, c[i])
  <2>1. i \in DOMAIN x /\ x[i] \in Piece /\ IsPiece(z, a + i, x[i])
    BY <1>1
  <2>2. c[i] = [x[i] EXCEPT !.state = IF @ = "done" THEN "done" ELSE "pending"]
    BY <1>c, <2>1
  <2>3. c[i] \in Piece /\ c[i].index = x[i].index /\ c[i].start = x[i].start /\ c[i].end = x[i].end
    BY <2>1, <2>2 DEF Piece
  <2> QED
    BY <2>1, <2>3 DEF IsPiece
<1>4. DOMAIN c = 1..m
  BY <1>1, <1>c
<1>5. c = [i \in 1..m |-> c[i]]
  BY <1>1, <1>c
<1>6. c \in Seq(Piece) /\ Len(c) = m
  BY <1>3, <1>5
<1> QED
  BY <1>2, <1>3, <1>6, <1>m DEF Pieces, PlanRecord

\* A new plan has every piece.
LEMMA LaidOut ==
  ASSUME size \in Nat, NEW z \in Nat \ {0}
  PROVE  Pieces(z, LayOut(size, z), 0, Cuts(z))
<1>x. PICK x : x = LayOut(size, z)
  OBVIOUS
<1>k. PICK k \in Nat : k = Cuts(z)
  BY CeilIs DEF Cuts
<1>1. x = [i \in 1..k |-> [index |-> i - 1, start |-> (i - 1) * z,
                           end |-> Smaller(i * z, size) - 1, state |-> "pending"]]
  BY <1>x, <1>k DEF LayOut, Cuts
<1>2. ASSUME NEW i \in 1..k PROVE x[i] \in Piece /\ IsPiece(z, i, x[i])
  <2>1. (i - 1) * z \in Nat /\ i * z \in Nat /\ i - 1 \in Nat
    <3>1. i - 1 \in Nat /\ i \in Nat
      OBVIOUS
    <3> QED
      BY <3>1
  <2>2. Smaller(i * z, size) - 1 \in Int
    BY <2>1 DEF Smaller
  <2>3. x[i] = [index |-> i - 1, start |-> (i - 1) * z,
                end |-> Smaller(i * z, size) - 1, state |-> "pending"]
    BY <1>1
  <2>4. x[i] \in Piece
    BY <2>1, <2>2, <2>3 DEF Piece
  <2> QED
    BY <2>3, <2>4 DEF IsPiece
<1>3. DOMAIN x = 1..k /\ x = [i \in 1..k |-> x[i]]
  BY <1>1
<1>4. x \in Seq(Piece) /\ Len(x) = k
  BY <1>2, <1>3
<1>5. \A i \in 1..k : IsPiece(z, 0 + i, x[i])
  BY <1>2
<1> QED
  BY <1>4, <1>5, <1>x, <1>k DEF Pieces

\* Before the first run nothing is planned or stored.
LEMMA InitPlans == PlannerInit => PlanInv
<1> SUFFICES ASSUME PlannerInit PROVE PlanInv
  OBVIOUS
<1>1. /\ size \in Sizes /\ size \in Nat /\ setting \in Configured /\ rows = {} /\ plan = NoPlan
      /\ unwritten = <<>> /\ cut = {}
  BY PlanConstants DEF PlannerInit, PlanConstants
<1>2. PICK z \in Nat \ {0} : CeilDiv(size, z) <= MaxChunks
  BY <1>1, ResolvedSize
<1>3. Cuts(z) \in Nat /\ 0 <= Cuts(z) /\ Cuts(z) <= MaxChunks
  BY <1>1, <1>2, CeilIs DEF Cuts
<1>4. Stored(rows, z, 0, 0)
  BY <1>1 DEF Stored
<1>5. Planned(plan, unwritten, cut, z, 0)
  BY <1>1 DEF Planned, PlanRecord, NoPlan
<1>6. Torn(rows, unwritten, cut, z, 0, 0)
  BY <1>1 DEF Torn, Begins
<1>7. Explains(rows, plan, unwritten, cut, z, 0, 0)
  BY <1>3, <1>4, <1>5, <1>6 DEF Explains
<1> QED
  BY <1>1, <1>7 DEF PlanInv

\* The file does not change under its transfer.
LEMMA KeepsInv ==
  ASSUME PlanInv, size' = size, setting' \in Configured, cut' \subseteq {"stop", "retry"},
         NEW z \in Nat \ {0}, NEW a \in Nat, NEW b \in Nat, Explains(rows', plan', unwritten', cut', z, a, b)
  PROVE  PlanInv'
<1>0. Cuts(z) <= MaxChunks /\ a <= b /\ b <= Cuts(z) /\ Stored(rows', z, a, b)
      /\ Torn(rows', unwritten', cut', z, a, b) /\ Planned(plan', unwritten', cut', z, b)
  BY DEF Explains
<1>1. Cuts(z)' = Cuts(z)
  BY DEF Cuts
<1>2. Stored(rows, z, a, b)'
  BY <1>0 DEF Stored, IsPiece
<1>3. Planned(plan, unwritten, cut, z, b)'
  <2>x. PICK x : x = plan'.chunks
    OBVIOUS
  <2>1. ASSUME NEW f, NEW k, Pieces(z, x, f, k) PROVE Pieces(z, plan.chunks, f, k)'
    BY <2>1, <2>x DEF Pieces, IsPiece
  <2>2. ASSUME Spans(x, cut', z) PROVE Spans(plan.chunks, cut, z)'
    <3>1. PICK f \in Nat, k \in Nat : Span(x, cut', z, f, k)
      BY <2>2 DEF Spans
    <3>2. Pieces(z, x, f, k) /\ f + k <= Cuts(z) /\ Ends(cut', z, f, k)
      BY <3>1 DEF Span
    <3>3. Ends(cut, z, f, k)'
      BY <1>1, <3>2 DEF Ends, Begins, Reaches
    <3>4. Pieces(z, plan.chunks, f, k)'
      BY <2>1, <3>2
    <3>5. Span(plan.chunks, cut, z, f, k)'
      BY <1>1, <3>2, <3>3, <3>4 DEF Span
    <3> QED
      BY <3>5 DEF Spans
  <2>3. ASSUME Half(x, unwritten', z, b) PROVE Half(plan.chunks, unwritten, z, b)'
    <3>1. Pieces(z, x, 0, Cuts(z)) /\ b < Cuts(z) /\ unwritten' = SubSeq(x, b + 1, Cuts(z))
      BY <2>3 DEF Half
    <3>2. Pieces(z, plan.chunks, 0, Cuts(z))'
      <4>1. PICK n : n = Cuts(z)
        OBVIOUS
      <4>2. Pieces(z, plan.chunks, 0, n)'
        BY <2>1, <3>1, <4>1
      <4>3. Cuts(z)' = n
        BY <1>1, <4>1
      <4> QED
        BY <4>2, <4>3 DEF Pieces
    <3> QED
      BY <1>1, <2>x, <3>1, <3>2 DEF Half
  <2>4. PlanRecord(plan') /\ ((unwritten' = <<>> /\ (plan' = NoPlan \/ Spans(x, cut', z))) \/ Half(x, unwritten', z, b))
    BY <1>0, <2>x DEF Planned
  <2>5. PlanRecord(plan)' /\ NoPlan' = NoPlan
    BY <2>4 DEF PlanRecord, NoPlan
  <2> QED
    BY <2>2, <2>3, <2>4, <2>5 DEF Planned
<1>4. (size \in Nat /\ size \in Sizes)'
  BY DEF PlanInv
<1>5. Torn(rows, unwritten, cut, z, a, b)'
  BY <1>0, <1>1 DEF Torn, Begins, Reaches
<1>6. Explains(rows, plan, unwritten, cut, z, a, b)'
  BY <1>0, <1>1, <1>2, <1>3, <1>5 DEF Explains
<1>7. (cut \subseteq {"stop", "retry"})'
  OBVIOUS
<1> QED
  BY <1>4, <1>6, <1>7 DEF PlanInv

\* planChunks and resumePlan: a plan is cut anew when nothing is stored, and taken up otherwise.
LEMMA PlanStep ==
  ASSUME PlanInv, Plan
  PROVE  PlanInv'
<1>1. size \in Sizes /\ size \in Nat /\ setting \in Configured /\ cut \subseteq {"stop", "retry"}
  BY DEF PlanInv
<1>2. plan' = PlanChunks(size, setting, rows) /\ size' = size /\ setting' = setting /\ rows' = rows
      /\ unwritten' = (IF plan'.resumed THEN <<>> ELSE plan'.chunks)
      /\ cut' = (IF plan'.resumed THEN cut ELSE {}) /\ plan = NoPlan
  BY DEF Plan, Idle
<1>3. CASE rows # {}
  <2>1. PICK z \in Nat \ {0}, a \in Nat, b \in Nat : Explains(rows, plan, unwritten, cut, z, a, b)
    BY DEF PlanInv
  <2>2. Cuts(z) <= MaxChunks /\ a <= b /\ b <= Cuts(z) /\ Stored(rows, z, a, b)
        /\ Torn(rows, unwritten, cut, z, a, b) /\ Planned(plan, unwritten, cut, z, b)
    BY <2>1 DEF Explains
  <2>k. PICK k \in Nat : k = b - a
    BY <2>2
  <2>p. PICK p : p = ResumePlan(rows)
    OBVIOUS
  <2>3. PlanRecord(p) /\ p.resumed = TRUE /\ Pieces(z, p.chunks, a, k)
    BY <2>2, <2>k, <2>p, ResumedPieces
  <2>4. plan' = p /\ unwritten' = <<>> /\ cut' = cut
    BY <1>2, <1>3, <2>3, <2>p DEF PlanChunks
  <2>5. unwritten = <<>>
    BY <1>1, <1>2, <2>2, NothingHalf
  <2>6. k > 0 /\ a + k = b
    <3>1. PICK r \in rows : a <= r.index /\ r.index < b /\ r.index \in Nat
      BY <1>3, <2>2 DEF Stored, IsPiece, Piece
    <3> QED
      BY <2>k, <3>1
  <2>7. Ends(cut, z, a, k)
    BY <1>3, <2>2, <2>5, <2>6 DEF Ends, Torn
  <2>8. Spans(p.chunks, cut, z)
    <3>1. Span(p.chunks, cut, z, a, k)
      BY <2>2, <2>3, <2>6, <2>7 DEF Span
    <3> QED
      BY <3>1 DEF Spans
  <2>9. Planned(plan', unwritten', cut', z, b)
    BY <2>3, <2>4, <2>8 DEF Planned
  <2>10. Torn(rows', unwritten', cut', z, a, b)
    BY <1>2, <2>2, <2>4, <2>5 DEF Torn
  <2>11. Explains(rows', plan', unwritten', cut', z, a, b)
    BY <1>2, <2>2, <2>9, <2>10 DEF Explains
  <2> QED
    BY <1>1, <1>2, <2>4, <2>11, KeepsInv
<1>4. CASE rows = {}
  <2>z. PICK z \in Nat \ {0} : z = ResolveChunkSize(size, setting) /\ Cuts(z) <= MaxChunks
    BY <1>1, ResolvedSize DEF Cuts
  <2>x. PICK x : x = LayOut(size, z)
    OBVIOUS
  <2>1. plan' = [resumed |-> FALSE, chunks |-> x, bytesDone |-> 0]
    BY <1>2, <1>4, <2>z, <2>x DEF PlanChunks
  <2>2. PICK n \in Nat : n = Cuts(z)
    BY <1>1, CeilIs DEF Cuts
  <2>3. Pieces(z, x, 0, n)
    BY <1>1, <2>2, <2>x, LaidOut
  <2>4. unwritten' = x /\ plan'.chunks = x /\ PlanRecord(plan') /\ cut' = {}
    BY <1>2, <2>1 DEF PlanRecord
  <2>5. Stored(rows', z, 0, 0)
    BY <1>2, <1>4 DEF Stored
  <2>6. Planned(plan', unwritten', cut', z, 0)
    <3>1. CASE n = 0
      <4>1. x = <<>>
        BY <2>3, <3>1 DEF Pieces
      <4>2. Ends(cut', z, 0, 0)
        BY <2>2, <3>1 DEF Ends, Begins, Reaches
      <4>3. Span(x, cut', z, 0, 0)
        BY <2>2, <2>3, <3>1, <4>2 DEF Span
      <4>4. Spans(x, cut', z)
        BY <4>3 DEF Spans
      <4> QED
        BY <2>4, <4>1, <4>4 DEF Planned
    <3>2. CASE n > 0
      <4>1. x = SubSeq(x, 0 + 1, n)
        BY <2>2, <2>3 DEF Pieces
      <4>2. Half(x, unwritten', z, 0)
        BY <2>2, <2>3, <2>4, <3>2, <4>1 DEF Half
      <4> QED
        BY <2>4, <4>2 DEF Planned
    <3> QED
      BY <2>2, <3>1, <3>2
  <2>7. Torn(rows', unwritten', cut', z, 0, 0)
    BY <1>2, <1>4 DEF Torn, Begins
  <2>8. Explains(rows', plan', unwritten', cut', z, 0, 0)
    BY <2>z, <2>2, <2>5, <2>6, <2>7 DEF Explains
  <2> QED
    BY <1>1, <1>2, <2>4, <2>8, KeepsInv
<1> QED
  BY <1>3, <1>4

\* A slice of a slice.
LEMMA SliceSlice ==
  ASSUME NEW x \in Seq(Piece), NEW a \in Nat, NEW b \in Nat, NEW c \in Nat, b <= c, a + c <= Len(x)
  PROVE  SubSeq(SubSeq(x, a + 1, a + c), b + 1, c) = SubSeq(x, (a + b) + 1, a + c)
<1>y. PICK y : y = SubSeq(x, a + 1, a + c)
  OBVIOUS
<1>1. y \in Seq(Piece) /\ Len(y) = c /\ \A i \in 1..c : y[i] = x[a + i]
  <2>e. PICK e \in Nat : e = a + c
    OBVIOUS
  <2>1. a <= e /\ e <= Len(x) /\ e - a = c
    BY <2>e
  <2>2. y \in Seq(Piece) /\ Len(y) = e - a /\ \A i \in 1..(e - a) : y[i] = x[a + i]
    BY <1>y, <2>e, <2>1, Slice
  <2> QED
    BY <2>1, <2>2
<1>u. PICK u : u = SubSeq(y, b + 1, c)
  OBVIOUS
<1>2. u \in Seq(Piece) /\ Len(u) = c - b /\ \A i \in 1..(c - b) : u[i] = y[b + i]
  BY <1>1, <1>u, Slice
<1>v. PICK v : v = SubSeq(x, (a + b) + 1, a + c)
  OBVIOUS
<1>3. v \in Seq(Piece) /\ Len(v) = c - b /\ \A i \in 1..(c - b) : v[i] = x[(a + b) + i]
  <2>1. PICK d \in Nat, e \in Nat : d = a + b /\ e = a + c
    OBVIOUS
  <2>2. d <= e /\ e <= Len(x) /\ e - d = c - b
    BY <2>1
  <2>3. v \in Seq(Piece) /\ Len(v) = e - d /\ \A i \in 1..(e - d) : v[i] = x[d + i]
    BY <1>v, <2>1, <2>2, Slice
  <2> QED
    BY <2>1, <2>2, <2>3
<1>4. ASSUME NEW i \in 1..(c - b) PROVE u[i] = v[i]
  <2>1. b + i \in 1..c /\ a + (b + i) = (a + b) + i
    OBVIOUS
  <2> QED
    BY <1>1, <1>2, <1>3, <2>1
<1>5. u = v
  BY <1>2, <1>3, <1>4
<1> QED
  BY <1>5, <1>u, <1>v, <1>y

\* insertPlan: a batch adds the pieces that follow the stored ones.
LEMMA WriteStep ==
  ASSUME PlanInv, WriteBatch
  PROVE  PlanInv'
<1>1. size \in Nat /\ setting \in Configured /\ cut \subseteq {"stop", "retry"} /\ InsertBatch \in Nat \ {0}
  BY PlanConstants DEF PlanInv, PlanConstants
<1>a. PICK z \in Nat \ {0}, a \in Nat, m \in Nat : Explains(rows, plan, unwritten, cut, z, a, m)
  BY DEF PlanInv
<1>2. Cuts(z) <= MaxChunks /\ a <= m /\ m <= Cuts(z) /\ Stored(rows, z, a, m)
      /\ Torn(rows, unwritten, cut, z, a, m) /\ Planned(plan, unwritten, cut, z, m)
  BY <1>a DEF Explains
<1>k. PICK k \in Nat : k = Cuts(z)
  BY <1>1, CeilIs DEF Cuts
<1>x. PICK x : x = plan.chunks
  OBVIOUS
<1>3. unwritten # <<>> /\ PlanRecord(plan) /\ Pieces(z, x, 0, k) /\ m < k /\ unwritten = SubSeq(x, m + 1, k)
  <2>1. unwritten # <<>>
    BY DEF WriteBatch
  <2>2. PlanRecord(plan) /\ Half(x, unwritten, z, m)
    BY <1>2, <1>x, <2>1 DEF Planned
  <2> QED
    BY <1>k, <2>1, <2>2 DEF Half
<1>4. x \in Seq(Piece) /\ Len(x) = k /\ \A i \in 1..k : IsPiece(z, i, x[i])
  <2>1. x \in Seq(Piece) /\ Len(x) = k /\ \A i \in 1..k : IsPiece(z, 0 + i, x[i])
    BY <1>3 DEF Pieces
  <2> QED
    BY <2>1
<1>5. unwritten \in Seq(Piece) /\ Len(unwritten) = k - m /\ \A i \in 1..(k - m) : unwritten[i] = x[m + i]
  BY <1>3, <1>4
<1>l. PICK l \in Nat \ {0} : l = k - m
  BY <1>3
<1>n. PICK n \in Nat \ {0} : n <= l /\ n = Smaller(InsertBatch, l)
  BY <1>1 DEF Smaller
<1>6. /\ rows' = rows \cup ToSet(SubSeq(unwritten, 1, n))
      /\ unwritten' = SubSeq(unwritten, n + 1, Len(unwritten))
      /\ size' = size /\ setting' = setting /\ plan' = plan /\ cut' = cut
  BY <1>n, <1>l, <1>5 DEF WriteBatch
<1>7. ToSet(SubSeq(unwritten, 1, n)) = {x[i] : i \in (m + 1)..(m + n)}
  <2>s. PICK s : s = SubSeq(unwritten, 1, n)
    OBVIOUS
  <2>1. Len(s) = n /\ DOMAIN s = 1..n /\ \A i \in 1..n : s[i] = unwritten[0 + i]
    <3>1. 0 \in Nat /\ 0 <= n /\ n <= Len(unwritten) /\ n - 0 = n /\ 0 + 1 = 1
      BY <1>n, <1>l, <1>5
    <3>2. s = SubSeq(unwritten, 0 + 1, n)
      BY <2>s
    <3> QED
      BY <1>5, <3>1, <3>2, Slice
  <2>2. \A i \in 1..n : s[i] = x[m + i]
    BY <1>n, <1>l, <1>5, <2>1
  <2>3. ASSUME NEW i \in 1..n PROVE s[i] \in {x[j] : j \in (m + 1)..(m + n)}
    <3>1. m + i \in (m + 1)..(m + n)
      OBVIOUS
    <3> QED
      BY <2>2, <3>1
  <2>4. ASSUME NEW j \in (m + 1)..(m + n) PROVE x[j] \in {s[i] : i \in 1..n}
    <3>1. j - m \in 1..n /\ m + (j - m) = j
      OBVIOUS
    <3>2. s[j - m] = x[j]
      BY <2>2, <3>1
    <3> QED
      BY <3>1, <3>2
  <2>5. DOMAIN s = 1..n
    BY <2>1
  <2>6. ToSet(s) = {s[i] : i \in 1..n}
    BY <2>5 DEF ToSet
  <2>7. {s[i] : i \in 1..n} = {x[j] : j \in (m + 1)..(m + n)}
    BY <2>3, <2>4
  <2> QED
    BY <2>6, <2>7, <2>s
<1>8. \A i \in (m + 1)..(m + n) : i \in 1..k /\ IsPiece(z, i, x[i]) /\ x[i].index = i - 1
  <2> SUFFICES ASSUME NEW i \in (m + 1)..(m + n) PROVE i \in 1..k /\ IsPiece(z, i, x[i]) /\ x[i].index = i - 1
    OBVIOUS
  <2>1. i \in 1..k
    BY <1>n, <1>l
  <2> QED
    BY <1>4, <2>1 DEF IsPiece
<1>9. \A r \in rows : r.index \in Nat /\ a <= r.index /\ r.index < m /\ IsPiece(z, r.index + 1, r)
  BY <1>2 DEF Stored, IsPiece, Piece
<1>10. Stored(rows', z, a, m + n)
  <2>1. ASSUME NEW r \in rows' PROVE a <= r.index /\ r.index < m + n /\ IsPiece(z, r.index + 1, r)
    <3>1. CASE r \in rows
      BY <1>9, <3>1
    <3>2. CASE r \notin rows
      <4>1. PICK i \in (m + 1)..(m + n) : r = x[i]
        BY <1>6, <1>7, <3>2
      <4>2. r.index = i - 1 /\ IsPiece(z, i, r) /\ (i - 1) + 1 = i /\ i - 1 < m + n /\ a <= i - 1
        BY <1>2, <1>8, <4>1
      <4> QED
        BY <4>2
    <3> QED
      BY <3>1, <3>2
  <2>2. ASSUME NEW h \in a..m + n - 1 PROVE \E r \in rows' : r.index = h
    <3>1. CASE h < m
      <4>1. h \in a..m - 1
        BY <3>1
      <4> QED
        BY <1>2, <1>6, <4>1 DEF Stored
    <3>2. CASE ~(h < m)
      <4>1. h + 1 \in (m + 1)..(m + n) /\ (h + 1) - 1 = h
        BY <3>2
      <4>2. x[h + 1] \in rows' /\ x[h + 1].index = h
        BY <1>6, <1>7, <1>8, <4>1
      <4> QED
        BY <4>2
    <3> QED
      BY <3>1, <3>2
  <2>3. ASSUME NEW r \in rows', NEW s \in rows', r.index = s.index PROVE r = s
    <3>1. \A q \in rows' : (q \in rows /\ q.index < m) \/ \E i \in (m + 1)..(m + n) : q = x[i] /\ q.index = i - 1
      BY <1>6, <1>7, <1>8, <1>9
    <3>2. CASE r \in rows /\ r.index < m
      <4>1. s \in rows
        BY <2>3, <3>1, <3>2
      <4> QED
        BY <1>2, <2>3, <3>2, <4>1 DEF Stored
    <3>3. CASE ~(r \in rows /\ r.index < m)
      <4>1. PICK i \in (m + 1)..(m + n) : r = x[i] /\ r.index = i - 1
        BY <3>1, <3>3
      <4>2. PICK j \in (m + 1)..(m + n) : s = x[j] /\ s.index = j - 1
        <5>1. ~(s.index < m)
          BY <2>3, <4>1
        <5> QED
          BY <3>1, <5>1
      <4>3. i = j
        BY <2>3, <4>1, <4>2
      <4> QED
        BY <4>1, <4>2, <4>3
    <3> QED
      BY <3>2, <3>3
  <2> QED
    BY <2>1, <2>2, <2>3 DEF Stored
<1>11. Planned(plan', unwritten', cut', z, m + n)
  <2>1. unwritten' = SubSeq(x, m + n + 1, k)
    <3>1. SubSeq(SubSeq(x, m + 1, m + l), n + 1, l) = SubSeq(x, m + n + 1, m + l)
      <4>1. m + l <= Len(x)
        BY <1>4, <1>l
      <4>2. x \in Seq(Piece) /\ m \in Nat /\ n \in Nat /\ l \in Nat /\ n <= l
        BY <1>4, <1>n
      <4> QED
        BY <4>1, <4>2, SliceSlice
    <3>2. m + l = k
      BY <1>l
    <3> QED
      BY <1>3, <1>5, <1>6, <1>l, <3>1, <3>2
  <2>2. CASE m + n = k
    <3>1. unwritten' = <<>>
      BY <1>4, <2>1, <2>2
    <3>2. Ends(cut', z, 0, k)
      BY <1>3, <1>k DEF Ends, Begins, Reaches
    <3>3. Span(x, cut', z, 0, k)
      BY <1>3, <1>k, <3>2 DEF Span
    <3>4. Spans(x, cut', z)
      BY <3>3 DEF Spans
    <3> QED
      BY <1>3, <1>6, <1>x, <3>1, <3>4 DEF Planned
  <2>3. CASE m + n < k
    <3>1. Half(x, unwritten', z, m + n)
      BY <1>3, <1>k, <2>1, <2>3 DEF Half
    <3> QED
      BY <1>3, <1>6, <1>x, <3>1 DEF Planned
  <2> QED
    BY <1>n, <1>l, <2>2, <2>3
<1>12. m + n \in Nat /\ a <= m + n /\ m + n <= Cuts(z)
  BY <1>2, <1>k, <1>n, <1>l
<1>13. Torn(rows', unwritten', cut', z, a, m + n)
  <2>1. m + n < k => unwritten' # <<>>
    <3> SUFFICES ASSUME m + n < k PROVE unwritten' # <<>>
      OBVIOUS
    <3>1. unwritten' \in Seq(Piece) /\ Len(unwritten') = (k - m) - n
      <4>1. n <= k - m /\ k - m \in Nat /\ unwritten' = SubSeq(unwritten, n + 1, k - m)
        BY <1>5, <1>6, <1>l, <1>n
      <4> QED
        BY <1>5, <4>1, Slice
    <3> QED
      BY <3>1
  <2> QED
    BY <1>2, <1>6, <1>12, <1>k, <2>1 DEF Torn, Reaches
<1>14. Explains(rows', plan', unwritten', cut', z, a, m + n)
  BY <1>2, <1>10, <1>11, <1>12, <1>13 DEF Explains
<1> QED
  BY <1>1, <1>6, <1>12, <1>14, KeepsInv

\* updateState: the fate of a piece leaves its range alone.
LEMMA SettleStep ==
  ASSUME PlanInv, NEW i \in DOMAIN plan.chunks, NEW v \in {"done", "failed", "corrupt"},
         SettleChunk(i, v)
  PROVE  PlanInv'
<1>1. size \in Nat /\ setting \in Configured /\ cut \subseteq {"stop", "retry"}
  BY DEF PlanInv
<1>a. PICK z \in Nat \ {0}, a \in Nat, b \in Nat : Explains(rows, plan, unwritten, cut, z, a, b)
  BY DEF PlanInv
<1>2. Cuts(z) <= MaxChunks /\ a <= b /\ b <= Cuts(z) /\ Stored(rows, z, a, b)
      /\ Torn(rows, unwritten, cut, z, a, b) /\ Planned(plan, unwritten, cut, z, b)
  BY <1>a DEF Explains
<1>x. PICK x : x = plan.chunks
  OBVIOUS
<1>3. /\ plan # NoPlan /\ unwritten = <<>>
      /\ plan' = [plan EXCEPT !.chunks[i].state = v]
      /\ rows' = {IF r.index = x[i].index THEN [r EXCEPT !.state = v] ELSE r : r \in rows}
      /\ size' = size /\ setting' = setting /\ unwritten' = unwritten /\ cut' = cut
  BY <1>x DEF SettleChunk, Idle
<1>f. PICK f \in Nat, m \in Nat : Span(x, cut, z, f, m)
  <2>1. Cuts(z) \in Nat
    BY <1>1, CeilIs DEF Cuts
  <2>2. ~Half(x, unwritten, z, b)
    BY <1>3, <2>1, HalfRest
  <2>3. Spans(x, cut, z)
    BY <1>2, <1>3, <1>x, <2>2 DEF Planned
  <2> QED
    BY <2>3 DEF Spans
<1>4. PlanRecord(plan) /\ Pieces(z, x, f, m)
  BY <1>2, <1>f DEF Planned, Span
<1>5. x \in Seq(Piece) /\ Len(x) = m /\ i \in 1..m /\ \A j \in 1..m : x[j] \in Piece /\ IsPiece(z, f + j, x[j])
  BY <1>4, <1>x DEF Pieces
<1>y. PICK y : y = [x EXCEPT ![i].state = v]
  OBVIOUS
<1>6. plan' = [resumed |-> plan.resumed, chunks |-> y, bytesDone |-> plan.bytesDone]
  BY <1>3, <1>4, <1>x, <1>y DEF PlanRecord
<1>7. \A c \in Piece : [c EXCEPT !.state = v] \in Piece /\ [c EXCEPT !.state = v].index = c.index
                       /\ [c EXCEPT !.state = v].start = c.start /\ [c EXCEPT !.state = v].end = c.end
  BY DEF Piece
<1>8. ASSUME NEW j \in Int, NEW c, IsPiece(z, j, c) PROVE IsPiece(z, j, [c EXCEPT !.state = v])
  BY <1>7, <1>8 DEF IsPiece
<1>9. Pieces(z, y, f, m)
  <2>1. y = [j \in 1..m |-> IF j = i THEN [x[j] EXCEPT !.state = v] ELSE x[j]]
    <3>1. DOMAIN x = 1..m /\ x = [j \in 1..m |-> x[j]]
      BY <1>5
    <3> QED
      BY <1>y, <3>1
  <2>2. ASSUME NEW j \in 1..m PROVE y[j] \in Piece /\ IsPiece(z, f + j, y[j])
    <3>1. IsPiece(z, f + j, x[j]) /\ x[j] \in Piece /\ f + j \in Int
      BY <1>5
    <3>2. IsPiece(z, f + j, [x[j] EXCEPT !.state = v]) /\ [x[j] EXCEPT !.state = v] \in Piece
      BY <1>7, <1>8, <3>1
    <3> QED
      BY <2>1, <3>1, <3>2
  <2>3. y \in Seq(Piece) /\ Len(y) = m
    <3>1. y = [j \in 1..m |-> y[j]]
      BY <2>1
    <3> QED
      BY <2>2, <3>1
  <2> QED
    BY <2>2, <2>3 DEF Pieces
<1>10. \A r \in rows : r \in Piece /\ r.index \in Nat /\ a <= r.index /\ r.index < b /\ IsPiece(z, r.index + 1, r)
  BY <1>2 DEF Stored, IsPiece, Piece
<1> DEFINE S(r) == IF r.index = x[i].index THEN [r EXCEPT !.state = v] ELSE r
<1>11. \A r \in rows : S(r).index = r.index /\ IsPiece(z, r.index + 1, S(r))
  <2> SUFFICES ASSUME NEW r \in rows PROVE S(r).index = r.index /\ IsPiece(z, r.index + 1, S(r))
    OBVIOUS
  <2>1. r \in Piece /\ r.index + 1 \in Int /\ IsPiece(z, r.index + 1, r)
    BY <1>10
  <2>2. IsPiece(z, r.index + 1, [r EXCEPT !.state = v]) /\ [r EXCEPT !.state = v].index = r.index
    BY <1>7, <1>8, <2>1
  <2> QED
    BY <2>1, <2>2
<1>12. rows' = {S(r) : r \in rows}
  BY <1>3
<1>13. Stored(rows', z, a, b)
  <2> HIDE DEF S
  <2>1. ASSUME NEW r \in rows' PROVE a <= r.index /\ r.index < b /\ IsPiece(z, r.index + 1, r)
    BY <1>10, <1>11, <1>12
  <2>2. ASSUME NEW l \in a..b - 1 PROVE \E r \in rows' : r.index = l
    <3>1. PICK r \in rows : r.index = l
      BY <1>2 DEF Stored
    <3> QED
      BY <1>11, <1>12, <3>1
  <2>3. ASSUME NEW r \in rows', NEW s \in rows', r.index = s.index PROVE r = s
    <3>1. PICK q \in rows, t \in rows : r = S(q) /\ s = S(t)
      BY <1>12
    <3>2. q.index = t.index
      BY <1>11, <2>3, <3>1
    <3>3. q = t
      BY <1>2, <3>2 DEF Stored
    <3> QED
      BY <3>1, <3>3
  <2> QED
    BY <2>1, <2>2, <2>3 DEF Stored
<1>14. Planned(plan', unwritten', cut', z, b)
  <2>1. plan'.chunks = y /\ PlanRecord(plan')
    BY <1>6 DEF PlanRecord
  <2>2. Span(y, cut, z, f, m)
    BY <1>9, <1>f DEF Span
  <2>3. Spans(y, cut, z)
    BY <2>2 DEF Spans
  <2> QED
    BY <1>3, <2>1, <2>3 DEF Planned
<1>15. Torn(rows', unwritten', cut', z, a, b)
  <2>1. rows = {} => rows' = {}
    BY <1>3
  <2> QED
    BY <1>2, <1>3, <2>1 DEF Torn
<1>16. Explains(rows', plan', unwritten', cut', z, a, b)
  BY <1>2, <1>13, <1>14, <1>15 DEF Explains
<1> QED
  BY <1>1, <1>3, <1>16, KeepsInv

\* TransferManager.retry: what is deleted under the writing of a plan is its beginning.
LEMMA RetryStep ==
  ASSUME PlanInv, Retry
  PROVE  PlanInv'
<1>1. size \in Nat /\ setting \in Configured /\ cut \subseteq {"stop", "retry"}
  BY DEF PlanInv
<1>2. PICK z \in Nat \ {0}, a \in Nat, b \in Nat : Explains(rows, plan, unwritten, cut, z, a, b)
  BY DEF PlanInv
<1>3. Cuts(z) <= MaxChunks /\ a <= b /\ b <= Cuts(z) /\ Planned(plan, unwritten, cut, z, b)
  BY <1>2 DEF Explains
<1>4. /\ rows' = {} /\ size' = size /\ setting' = setting /\ plan' = plan /\ unwritten' = unwritten
      /\ cut' = (IF unwritten = <<>> THEN cut ELSE cut \cup {"retry"})
  BY DEF Retry
<1>5. Cuts(z) \in Nat
  BY <1>1, CeilIs DEF Cuts
<1>6. \A l \in Nat : Stored(rows', z, l, l)
  BY <1>4 DEF Stored
<1>7. CASE unwritten = <<>>
  <2>1. ~Half(plan.chunks, unwritten, z, b)
    BY <1>5, <1>7, HalfRest
  <2>2. Planned(plan', unwritten', cut', z, 0)
    BY <1>3, <1>4, <1>7, <2>1 DEF Planned
  <2>3. Torn(rows', unwritten', cut', z, 0, 0)
    BY <1>4 DEF Torn, Begins
  <2>4. Explains(rows', plan', unwritten', cut', z, 0, 0)
    BY <1>3, <1>5, <1>6, <2>2, <2>3 DEF Explains
  <2> QED
    BY <1>1, <1>4, <1>7, <2>4, KeepsInv
<1>8. CASE unwritten # <<>>
  <2>1. PlanRecord(plan) /\ Half(plan.chunks, unwritten, z, b)
    BY <1>3, <1>8 DEF Planned
  <2>2. Planned(plan', unwritten', cut', z, b)
    BY <1>4, <2>1 DEF Planned
  <2>3. Torn(rows', unwritten', cut', z, b, b)
    BY <1>4, <1>8 DEF Torn, Begins
  <2>4. Explains(rows', plan', unwritten', cut', z, b, b)
    BY <1>3, <1>6, <2>2, <2>3 DEF Explains
  <2>5. cut' \subseteq {"stop", "retry"}
    BY <1>1, <1>4
  <2> QED
    BY <1>1, <1>4, <2>4, <2>5, KeepsInv
<1> QED
  BY <1>7, <1>8

\* The end of a run, or of the process: what was not written yet is missing at the end.
LEMMA StopStep ==
  ASSUME PlanInv, Stop
  PROVE  PlanInv'
<1>1. size \in Nat /\ setting \in Configured /\ cut \subseteq {"stop", "retry"}
  BY DEF PlanInv
<1>2. PICK z \in Nat \ {0}, a \in Nat, b \in Nat : Explains(rows, plan, unwritten, cut, z, a, b)
  BY DEF PlanInv
<1>3. Cuts(z) <= MaxChunks /\ a <= b /\ b <= Cuts(z) /\ Stored(rows, z, a, b) /\ Torn(rows, unwritten, cut, z, a, b)
  BY <1>2 DEF Explains
<1>4. /\ rows' = rows /\ size' = size /\ setting' = setting /\ plan' = NoPlan /\ unwritten' = <<>>
      /\ cut' = (IF unwritten = <<>> THEN cut ELSE cut \cup {"stop"})
  BY DEF Stop
<1>5. Planned(plan', unwritten', cut', z, b)
  BY <1>4 DEF Planned, PlanRecord, NoPlan
<1>6. Torn(rows', unwritten', cut', z, a, b)
  BY <1>3, <1>4 DEF Torn, Begins, Reaches
<1>7. Explains(rows', plan', unwritten', cut', z, a, b)
  BY <1>3, <1>4, <1>5, <1>6 DEF Explains
<1>8. cut' \subseteq {"stop", "retry"}
  BY <1>1, <1>4
<1> QED
  BY <1>1, <1>4, <1>7, <1>8, KeepsInv

\* The steps that change only the setting.
LEMMA OtherSteps ==
  ASSUME PlanInv, (\E c \in Configured : Configure(c)) \/ UNCHANGED plannerVars
  PROVE  PlanInv'
<1>1. size \in Nat /\ setting \in Configured /\ cut \subseteq {"stop", "retry"}
  BY DEF PlanInv
<1>2. PICK z \in Nat \ {0}, a \in Nat, b \in Nat : Explains(rows, plan, unwritten, cut, z, a, b)
  BY DEF PlanInv
<1>3. setting' \in Configured /\ size' = size /\ rows' = rows /\ plan' = plan /\ unwritten' = unwritten /\ cut' = cut
  BY <1>1 DEF Configure, plannerVars
<1>4. Explains(rows', plan', unwritten', cut', z, a, b)
  BY <1>2, <1>3
<1> QED
  BY <1>1, <1>3, <1>4, KeepsInv

\* Every plan, stored or held, is of one cut of the file.
LEMMA PlanInvHolds == PlannerSpec => []PlanInv
<1>1. PlannerInit => PlanInv
  BY InitPlans
<1>2. PlanInv /\ [PlannerNext]_(plannerVars) => PlanInv'
  BY PlanStep, WriteStep, SettleStep, RetryStep, StopStep, OtherSteps DEF PlannerNext
<1> QED
  BY <1>1, <1>2, PTL DEF PlannerSpec

\* chunk-planner.ts (resolveChunkSize, planChunks, resumePlan) and insertPlan: whatever the
\* size of the file, the chunk size configured at each start, the point where the writing of
\* a plan was cut off, the rows a retry deleted under it and the fate of each piece, the
\* pieces of the plan a run holds follow one another without overlap or gap, no more of them
\* than MAX_CHUNKS.
THEOREM PlansTile == PlannerSpec => []PiecesTile
<1>1. PlanInv => PiecesTile
  BY InvTiles
<1> QED
  BY <1>1, PlanInvHolds, PTL

\* insertPlan, _run and TransferManager.retry: a plan that bytes are fetched under lacks the
\* end of the file only after a run was stopped between two batches of its rows, and the
\* beginning only after a retry deleted rows between two; for every size, chunk size and batch.
THEOREM TornByACut == PlannerSpec => []OnlyACutTears
<1>1. PlanInv => OnlyACutTears
  BY InvTiles
<1> QED
  BY <1>1, PlanInvHolds, PTL
-----------------------------------------------------------------------------
(* The bytes of a plan: sums over finite sets, which the folds of          *)
(* ChunkPlan compute.                                                      *)

Picked(s) == CHOOSE x \in s : TRUE

\* A set of naturals that holds something has a least member.
LEMMA LeastNat ==
  ASSUME NEW T \in SUBSET Nat, T # {}
  PROVE  \E n \in T : \A k \in 0..(n - 1) : k \notin T
<1> DEFINE R == {p \in Nat \X Nat : p[1] < p[2]}
<1>1. IsWellFoundedOn(R, Nat)
  BY NatLessThanWellFounded DEF OpToRel
<1>2. PICK n \in T : \A k \in T : ~(<<k, n>> \in R)
  BY <1>1, WFMin
<1>3. ASSUME NEW k \in 0..(n - 1) PROVE k \notin T
  <2>1. k \in Nat /\ n \in Nat /\ k < n
    OBVIOUS
  <2> QED
    BY <1>2, <2>1
<1> QED
  BY <1>3

\* What leaves a finite set makes it smaller.
LEMMA TakeOne ==
  ASSUME NEW s, IsFiniteSet(s), NEW x \in s
  PROVE  /\ IsFiniteSet(s \ {x}) /\ Cardinality(s) \in Nat \ {0}
         /\ Cardinality(s \ {x}) = Cardinality(s) - 1
<1>1. IsFiniteSet(s \ {x}) /\ Cardinality(s \ {x}) = Cardinality(s) - 1
  BY FS_RemoveElement
<1>2. Cardinality(s) \in Nat /\ Cardinality(s \ {x}) \in Nat
  BY <1>1, FS_CardinalityType
<1> QED
  BY <1>1, <1>2

\* g takes the members of the subsets of S in the order of CHOOSE, one step of e each.
FoldOf(g, e, S) ==
  /\ g \in [SUBSET S -> Int]
  /\ \A s \in SUBSET S : g[s] = IF s = {} THEN 0 ELSE e[Picked(s)][g[s \ {Picked(s)}]]

\* A fold that takes the members of a finite set in the order of CHOOSE exists.
LEMMA FoldExists ==
  ASSUME NEW S, IsFiniteSet(S), NEW e \in [S -> [Int -> Int]]
  PROVE  \E g : FoldOf(g, e, S)
<1> DEFINE Unfold(g) == [s \in SUBSET S |-> IF s = {} THEN 0 ELSE e[Picked(s)][g[s \ {Picked(s)}]]]
           Upto(n, g) == \A s \in SUBSET S : Cardinality(s) <= n => g[s] = Unfold(g)[s]
           T == {n \in Nat : ~\E g \in [SUBSET S -> Int] : Upto(n, g)}
<1>1. ASSUME NEW s \in SUBSET S, s # {}
      PROVE  /\ Picked(s) \in s /\ Picked(s) \in S /\ s \ {Picked(s)} \in SUBSET S
             /\ Cardinality(s) \in Nat \ {0} /\ Cardinality(s \ {Picked(s)}) = Cardinality(s) - 1
  <2>1. Picked(s) \in s
    BY <1>1 DEF Picked
  <2>2. IsFiniteSet(s)
    BY FS_Subset
  <2> QED
    BY <2>1, <2>2, TakeOne
<1>2. ASSUME NEW g \in [SUBSET S -> Int] PROVE Unfold(g) \in [SUBSET S -> Int]
  <2>1. ASSUME NEW s \in SUBSET S, s # {} PROVE e[Picked(s)][g[s \ {Picked(s)}]] \in Int
    <3>1. Picked(s) \in S /\ s \ {Picked(s)} \in SUBSET S
      BY <1>1, <2>1
    <3>2. e[Picked(s)] \in [Int -> Int] /\ g[s \ {Picked(s)}] \in Int
      BY <3>1
    <3> QED
      BY <3>2
  <2> QED
    BY <2>1
<1>3. \A s \in SUBSET S : Cardinality(s) \in Nat
  BY FS_Subset, FS_CardinalityType
<1>4. T = {}
  <2> SUFFICES ASSUME T # {} PROVE FALSE
    OBVIOUS
  <2>1. PICK n \in T : \A k \in 0..(n - 1) : k \notin T
    <3> HIDE DEF T
    <3>1. T \in SUBSET Nat
      BY DEF T
    <3> QED
      BY <3>1, LeastNat
  <2>2. n \in Nat /\ ~\E g \in [SUBSET S -> Int] : Upto(n, g)
    OBVIOUS
  <2>3. CASE n = 0
    <3> DEFINE g0 == [s \in SUBSET S |-> 0]
    <3>1. g0 \in [SUBSET S -> Int]
      OBVIOUS
    <3>2. Upto(0, g0)
      <4> SUFFICES ASSUME NEW s \in SUBSET S, Cardinality(s) <= 0 PROVE g0[s] = Unfold(g0)[s]
        OBVIOUS
      <4>1. s = {}
        <5>1. s # {} => Cardinality(s) \in Nat \ {0}
          BY <1>1
        <5> QED
          BY <5>1
      <4> QED
        BY <4>1
    <3> QED
      BY <2>2, <2>3, <3>1, <3>2
  <2>4. CASE n # 0
    <3>1. n - 1 \in 0..(n - 1) /\ n - 1 \in Nat
      BY <2>2, <2>4
    <3>2. PICK g \in [SUBSET S -> Int] : Upto(n - 1, g)
      BY <2>1, <3>1
    <3>3. Upto(n, Unfold(g))
      <4> SUFFICES ASSUME NEW s \in SUBSET S, Cardinality(s) <= n PROVE Unfold(g)[s] = Unfold(Unfold(g))[s]
        OBVIOUS
      <4>1. CASE s = {}
        BY <4>1
      <4>2. CASE s # {}
        <5>1. PICK y : y = s \ {Picked(s)}
          OBVIOUS
        <5>2. y \in SUBSET S /\ Cardinality(y) <= n - 1
          BY <1>1, <2>2, <4>2, <5>1
        <5>3. g[y] = Unfold(g)[y]
          BY <3>2, <5>2
        <5> HIDE DEF Upto
        <5>4. Unfold(g)[s] = e[Picked(s)][g[y]]
          BY <4>2, <5>1
        <5>5. Unfold(Unfold(g))[s] = e[Picked(s)][Unfold(g)[y]]
          BY <4>2, <5>1
        <5> QED
          BY <5>3, <5>4, <5>5
      <4> QED
        BY <4>1, <4>2
    <3>4. Unfold(g) \in [SUBSET S -> Int]
      BY <1>2
    <3> HIDE DEF Upto, Unfold
    <3> QED
      BY <2>2, <3>3, <3>4
  <2> QED
    BY <2>3, <2>4
<1>5. Cardinality(S) \in Nat
  BY FS_CardinalityType
<1>6. PICK g \in [SUBSET S -> Int] : Upto(Cardinality(S), g)
  BY <1>4, <1>5
<1>7. ASSUME NEW s \in SUBSET S PROVE g[s] = Unfold(g)[s]
  <2>1. Cardinality(s) <= Cardinality(S)
    BY FS_Subset
  <2> QED
    BY <1>6, <2>1
<1> QED
  BY <1>7 DEF FoldOf

\* A fold whose steps keep to the integers is one of integers.
LEMMA FoldTyped ==
  ASSUME NEW S, IsFiniteSet(S), NEW g, g[{}] \in Int,
         \A s \in SUBSET S : s # {} /\ g[s \ {Picked(s)}] \in Int => g[s] \in Int
  PROVE  \A s \in SUBSET S : g[s] \in Int
<1> DEFINE T == {n \in Nat : \E s \in SUBSET S : Cardinality(s) = n /\ g[s] \notin Int}
<1>0. \A s \in SUBSET S : IsFiniteSet(s) /\ Cardinality(s) \in Nat
  BY FS_Subset, FS_CardinalityType
<1>1. ASSUME T # {} PROVE FALSE
  <2>1. PICK n \in T : \A k \in 0..(n - 1) : k \notin T
    <3> HIDE DEF T
    <3>1. T \in SUBSET Nat
      BY DEF T
    <3> QED
      BY <1>1, <3>1, LeastNat
  <2>2. PICK s \in SUBSET S : n \in Nat /\ Cardinality(s) = n /\ g[s] \notin Int
    OBVIOUS
  <2>3. s # {}
    BY <2>2
  <2>y. PICK y \in s : y = Picked(s)
    BY <2>3 DEF Picked
  <2>4. s \ {y} \in SUBSET S /\ Cardinality(s \ {y}) = n - 1 /\ n \in Nat \ {0}
    BY <1>0, <2>2, TakeOne
  <2>5. n - 1 \notin T /\ n - 1 \in Nat
    BY <2>1, <2>4
  <2>6. g[s \ {y}] \in Int
    BY <2>4, <2>5
  <2> QED
    BY <2>2, <2>3, <2>y, <2>6
<1> QED
  BY <1>0, <1>1

\* g sums W over the members of s, taken in the order of CHOOSE.
SumsUp(g, W, S) ==
  /\ DOMAIN g = SUBSET S
  /\ \A s \in SUBSET S : g[s] = IF s = {} THEN 0 ELSE W[Picked(s)] + g[s \ {Picked(s)}]

\* A sum may be taken from any member on.
AnyFirst(g, W, S) == \A s \in SUBSET S : g[s] \in Int /\ \A x \in s : g[s] = W[x] + g[s \ {x}]

\* A sum does not depend on the order.
LEMMA AnyOrder ==
  ASSUME NEW S, IsFiniteSet(S), NEW W \in [S -> Int], NEW g, SumsUp(g, W, S)
  PROVE  AnyFirst(g, W, S)
<1> DEFINE Fine(s) == g[s] \in Int /\ \A x \in s : g[s] = W[x] + g[s \ {x}]
           T == {n \in Nat : \E s \in SUBSET S : Cardinality(s) = n /\ ~Fine(s)}
<1>0. \A s \in SUBSET S : IsFiniteSet(s) /\ Cardinality(s) \in Nat
  BY FS_Subset, FS_CardinalityType
<1>1. T = {}
  <2> SUFFICES ASSUME T # {} PROVE FALSE
    OBVIOUS
  <2>1. PICK n \in T : \A k \in 0..(n - 1) : k \notin T
    <3> HIDE DEF T
    <3>1. T \in SUBSET Nat
      BY DEF T
    <3> QED
      BY <3>1, LeastNat
  <2>2. PICK s \in SUBSET S : n \in Nat /\ Cardinality(s) = n /\ ~Fine(s)
    OBVIOUS
  <2>3. ASSUME NEW t \in SUBSET S, Cardinality(t) < n PROVE Fine(t)
    <3>1. Cardinality(t) \in 0..(n - 1) /\ Cardinality(t) \in Nat
      BY <1>0, <2>2, <2>3
    <3>2. Cardinality(t) \notin T
      BY <2>1, <3>1
    <3> QED
      BY <3>1, <3>2
  <2>4. ASSUME NEW t \in SUBSET S, NEW x \in t PROVE t \ {x} \in SUBSET S /\ Cardinality(t \ {x}) = Cardinality(t) - 1
    BY <1>0, <2>4, TakeOne
  <2> HIDE DEF T
  <2>5. s # {}
    <3>1. g[{}] = 0
      BY DEF SumsUp
    <3> QED
      BY <2>2, <3>1
  <2>y. PICK y \in s : y = Picked(s)
    BY <2>5 DEF Picked
  <2>6. g[s] = W[y] + g[s \ {y}] /\ W[y] \in Int
    BY <2>5, <2>y DEF SumsUp
  <2>7. Fine(s \ {y})
    <3>1. s \ {y} \in SUBSET S /\ Cardinality(s \ {y}) < n
      BY <2>2, <2>4
    <3> QED
      BY <2>3, <3>1
  <2>8. ASSUME NEW x \in s PROVE g[s] = W[x] + g[s \ {x}]
    <3>1. CASE x = y
      BY <2>6, <3>1
    <3>2. CASE x # y
      <4>1. W[x] \in Int /\ x \in s \ {y} /\ y \in s \ {x}
        BY <3>2
      <4>2. g[s \ {y}] = W[x] + g[(s \ {y}) \ {x}]
        BY <2>7, <4>1
      <4>3. Fine(s \ {x})
        <5>1. s \ {x} \in SUBSET S /\ Cardinality(s \ {x}) < n
          BY <2>2, <2>4
        <5> QED
          BY <2>3, <5>1
      <4>4. g[s \ {x}] = W[y] + g[(s \ {x}) \ {y}]
        BY <4>1, <4>3
      <4>5. (s \ {x}) \ {y} = (s \ {y}) \ {x}
        OBVIOUS
      <4>6. g[(s \ {y}) \ {x}] \in Int
        <5>1. (s \ {y}) \ {x} \in SUBSET S /\ Cardinality((s \ {y}) \ {x}) < n
          <6>1. s \ {y} \in SUBSET S /\ Cardinality(s \ {y}) = n - 1
            BY <2>2, <2>4
          <6>2. Cardinality((s \ {y}) \ {x}) = (n - 1) - 1
            BY <2>4, <4>1, <6>1
          <6> QED
            BY <2>2, <6>1, <6>2
        <5> QED
          BY <2>3, <5>1
      <4>7. PICK r \in Int : r = g[(s \ {y}) \ {x}]
        BY <4>6
      <4>8. g[s \ {x}] = W[y] + r
        BY <4>4, <4>5, <4>7
      <4>9. g[s] = W[y] + (W[x] + r)
        BY <2>6, <4>2, <4>7
      <4> HIDE DEF Fine
      <4> QED
        BY <2>6, <4>1, <4>8, <4>9
    <3> QED
      BY <3>1, <3>2
  <2>9. g[s] \in Int
    BY <2>6, <2>7
  <2> QED
    BY <2>2, <2>8, <2>9
<1> QED
  BY <1>0, <1>1 DEF AnyFirst

\* Both folds of ChunkPlan are such sums.
Weight(c) == [i \in DOMAIN c |-> IF c[i].state = "done" THEN ChunkLength(c[i]) ELSE 0]
Lengths(S) == [x \in S |-> ChunkLength(x)]

LEMMA BytesDoneSums ==
  ASSUME NEW c, IsFiniteSet(DOMAIN c), \A i \in DOMAIN c : ChunkLength(c[i]) \in Int
  PROVE  \E g : SumsUp(g, Weight(c), DOMAIN c) /\ BytesDone(c) = g[DOMAIN c]
<1> DEFINE S == DOMAIN c
           E(s, r) == IF c[Picked(s)].state = "done" THEN r + ChunkLength(c[Picked(s)]) ELSE r
           e == [i \in S |-> [r \in Int |-> IF c[i].state = "done" THEN r + ChunkLength(c[i]) ELSE r]]
           iter == CHOOSE iter : iter = [s \in SUBSET S |-> IF s = {} THEN 0 ELSE E(s, iter[s \ {Picked(s)}])]
<1>1. BytesDone(c) = iter[S]
  BY DEF BytesDone, FoldSeq, FoldFunction, FoldFunctionOnSet, MapThenFoldSet, Picked
<1>2. e \in [S -> [Int -> Int]] /\ IsFiniteSet(S)
  <2>1. ASSUME NEW i \in S, NEW r \in Int PROVE (IF c[i].state = "done" THEN r + ChunkLength(c[i]) ELSE r) \in Int
    OBVIOUS
  <2> QED
    BY <2>1
<1>p. \A s \in SUBSET S : s # {} => Picked(s) \in S /\ s \ {Picked(s)} \in SUBSET S
  BY DEF Picked
<1>e. \A s \in SUBSET S, r \in Int : s # {} => E(s, r) = Weight(c)[Picked(s)] + r /\ E(s, r) = e[Picked(s)][r] /\ E(s, r) \in Int
  <2> SUFFICES ASSUME NEW s \in SUBSET S, NEW r \in Int, s # {}
               PROVE  E(s, r) = Weight(c)[Picked(s)] + r /\ E(s, r) = e[Picked(s)][r] /\ E(s, r) \in Int
    OBVIOUS
  <2>1. PICK i \in S : i = Picked(s)
    BY <1>p
  <2> QED
    BY <2>1 DEF Weight
<1> HIDE DEF e, E
<1>3. \E g : g = [s \in SUBSET S |-> IF s = {} THEN 0 ELSE E(s, g[s \ {Picked(s)}])]
  <2>1. PICK g : FoldOf(g, e, S)
    <3> HIDE DEF S
    <3> QED
      BY <1>2, FoldExists
  <2>2. ASSUME NEW s \in SUBSET S PROVE g[s] = IF s = {} THEN 0 ELSE E(s, g[s \ {Picked(s)}])
    <3>1. CASE s = {}
      BY <2>1, <3>1 DEF FoldOf
    <3>2. CASE s # {}
      BY <1>p, <1>e, <2>1, <3>2 DEF FoldOf
    <3> QED
      BY <3>1, <3>2
  <2>3. g = [s \in SUBSET S |-> g[s]]
    BY <2>1 DEF FoldOf
  <2> QED
    BY <2>2, <2>3
<1>4. iter = [s \in SUBSET S |-> IF s = {} THEN 0 ELSE E(s, iter[s \ {Picked(s)}])]
  BY <1>3
<1> HIDE DEF iter
<1>5. \A s \in SUBSET S : iter[s] \in Int
  <2>1. iter[{}] = 0
    BY <1>4
  <2>2. ASSUME NEW s \in SUBSET S, s # {}, iter[s \ {Picked(s)}] \in Int PROVE iter[s] \in Int
    BY <1>4, <1>e, <2>2
  <2>3. \A s \in SUBSET S : s # {} /\ iter[s \ {Picked(s)}] \in Int => iter[s] \in Int
    BY <2>2
  <2>4. iter[{}] \in Int
    BY <2>1
  <2> HIDE DEF S
  <2> QED
    BY <1>2, <2>3, <2>4, FoldTyped
<1>6. SumsUp(iter, Weight(c), S)
  <2>1. ASSUME NEW s \in SUBSET S, s # {} PROVE iter[s] = Weight(c)[Picked(s)] + iter[s \ {Picked(s)}]
    BY <1>4, <1>5, <1>p, <1>e, <2>1
  <2> QED
    BY <1>4, <2>1 DEF SumsUp
<1> QED
  BY <1>1, <1>6

LEMMA LengthsSum ==
  ASSUME NEW S, IsFiniteSet(S), \A x \in S : ChunkLength(x) \in Int
  PROVE  \E g : SumsUp(g, Lengths(S), S) /\ MapThenSumSet(ChunkLength, S) = g[S]
<1> DEFINE E(s, r) == ChunkLength(Picked(s)) + r
           e == [x \in S |-> [r \in Int |-> ChunkLength(x) + r]]
           iter == CHOOSE iter : iter = [s \in SUBSET S |-> IF s = {} THEN 0 ELSE E(s, iter[s \ {Picked(s)}])]
<1>1. MapThenSumSet(ChunkLength, S) = iter[S]
  BY DEF MapThenSumSet, MapThenFoldSet, Picked
<1>2. e \in [S -> [Int -> Int]]
  OBVIOUS
<1>p. \A s \in SUBSET S : s # {} => Picked(s) \in S /\ s \ {Picked(s)} \in SUBSET S
  BY DEF Picked
<1>e. \A s \in SUBSET S, r \in Int : s # {} => E(s, r) = Lengths(S)[Picked(s)] + r /\ E(s, r) = e[Picked(s)][r] /\ E(s, r) \in Int
  BY <1>p DEF Lengths
<1> HIDE DEF e, E
<1>3. \E g : g = [s \in SUBSET S |-> IF s = {} THEN 0 ELSE E(s, g[s \ {Picked(s)}])]
  <2>1. PICK g : FoldOf(g, e, S)
    BY <1>2, FoldExists
  <2>2. ASSUME NEW s \in SUBSET S PROVE g[s] = IF s = {} THEN 0 ELSE E(s, g[s \ {Picked(s)}])
    <3>1. CASE s = {}
      BY <2>1, <3>1 DEF FoldOf
    <3>2. CASE s # {}
      BY <1>p, <1>e, <2>1, <3>2 DEF FoldOf
    <3> QED
      BY <3>1, <3>2
  <2>3. g = [s \in SUBSET S |-> g[s]]
    BY <2>1 DEF FoldOf
  <2> QED
    BY <2>2, <2>3
<1>4. iter = [s \in SUBSET S |-> IF s = {} THEN 0 ELSE E(s, iter[s \ {Picked(s)}])]
  BY <1>3
<1> HIDE DEF iter
<1>5. \A s \in SUBSET S : iter[s] \in Int
  <2>1. iter[{}] = 0
    BY <1>4
  <2>2. ASSUME NEW s \in SUBSET S, s # {}, iter[s \ {Picked(s)}] \in Int PROVE iter[s] \in Int
    BY <1>4, <1>e, <2>2
  <2> QED
    BY <2>1, <2>2, FoldTyped
<1>6. SumsUp(iter, Lengths(S), S)
  <2>1. ASSUME NEW s \in SUBSET S, s # {} PROVE iter[s] = Lengths(S)[Picked(s)] + iter[s \ {Picked(s)}]
    BY <1>4, <1>5, <1>p, <1>e, <2>1
  <2> QED
    BY <1>4, <2>1 DEF SumsUp
<1> QED
  BY <1>1, <1>6

\* What weighs something in S is in T once, with the same weight.
Renames(f, W, S, V, T) ==
  \E K \in SUBSET S :
    /\ \A i \in S \ K : W[i] = 0
    /\ \A i \in K : f[i] \in T /\ V[f[i]] = W[i]
    /\ \A i, j \in K : f[i] = f[j] => i = j
    /\ \A u \in T : \E i \in K : u = f[i]

\* Equal weights have equal sums, whatever weighs nothing.
LEMMA SameSum ==
  ASSUME NEW S, IsFiniteSet(S), NEW W \in [S -> Int], NEW g, SumsUp(g, W, S),
         NEW T, IsFiniteSet(T), NEW V \in [T -> Int], NEW h, SumsUp(h, V, T),
         NEW f, Renames(f, W, S, V, T)
  PROVE  g[S] = h[T]
<1>k. PICK K \in SUBSET S : /\ \A i \in S \ K : W[i] = 0
                            /\ \A i \in K : f[i] \in T /\ V[f[i]] = W[i]
                            /\ \A i, j \in K : f[i] = f[j] => i = j
                            /\ \A u \in T : \E i \in K : u = f[i]
  BY DEF Renames
<1>h. AnyFirst(g, W, S) /\ AnyFirst(h, V, T)
  BY AnyOrder
<1> DEFINE To(s) == {f[i] : i \in s \cap K}
           Bad == {n \in Nat : \E s \in SUBSET S : Cardinality(s) = n /\ g[s] # h[To(s)]}
<1>0. \A s \in SUBSET S : IsFiniteSet(s) /\ Cardinality(s) \in Nat
  BY FS_Subset, FS_CardinalityType
<1>t. \A s \in SUBSET S : To(s) \in SUBSET T
  BY <1>k
<1>1. ASSUME Bad # {} PROVE FALSE
  <2>1. PICK n \in Bad : \A k \in 0..(n - 1) : k \notin Bad
    <3> HIDE DEF Bad
    <3>1. Bad \in SUBSET Nat
      BY DEF Bad
    <3> QED
      BY <1>1, <3>1, LeastNat
  <2>2. PICK s \in SUBSET S : n \in Nat /\ Cardinality(s) = n /\ g[s] # h[To(s)]
    OBVIOUS
  <2>3. s # {}
    <3>1. g[{}] = 0 /\ h[{}] = 0
      BY DEF SumsUp
    <3>2. To({}) = {}
      OBVIOUS
    <3> HIDE DEF To
    <3> QED
      BY <2>2, <3>1, <3>2
  <2>y. PICK y \in s : TRUE
    BY <2>3
  <2>r. PICK r : r = s \ {y}
    OBVIOUS
  <2>4. r \in SUBSET S /\ Cardinality(r) = n - 1 /\ n - 1 \in Nat
    <3>1. IsFiniteSet(s) /\ r \in SUBSET S
      BY <1>0, <2>r
    <3>2. Cardinality(s) \in Nat \ {0} /\ Cardinality(r) = Cardinality(s) - 1
      BY <2>r, <3>1, TakeOne
    <3> QED
      BY <2>2, <3>1, <3>2
  <2>5. g[r] = h[To(r)]
    <3>1. n - 1 \in 0..(n - 1)
      BY <2>4
    <3>2. n - 1 \notin Bad
      BY <2>1, <3>1
    <3> QED
      BY <2>4, <3>2
  <2>6. g[s] = W[y] + g[r] /\ g[r] \in Int /\ W[y] \in Int
    BY <1>h, <2>4, <2>r DEF AnyFirst
  <2>7. g[s] = h[To(s)]
    <3>1. CASE y \in K
      <4>1. f[y] \in To(s) /\ To(s) \ {f[y]} = To(r) /\ W[y] = V[f[y]]
        BY <1>k, <2>r, <3>1
      <4>2. h[To(s)] = V[f[y]] + h[To(s) \ {f[y]}]
        <5> HIDE DEF To
        <5>1. To(s) \in SUBSET T
          BY <1>t
        <5> QED
          BY <1>h, <4>1, <5>1 DEF AnyFirst
      <4> HIDE DEF To, Bad
      <4> QED
        BY <2>5, <2>6, <4>1, <4>2
    <3>2. CASE y \notin K
      <4>1. To(s) = To(r) /\ W[y] = 0
        BY <1>k, <2>r, <3>2
      <4> HIDE DEF To, Bad
      <4> QED
        BY <2>5, <2>6, <4>1
    <3> QED
      BY <3>1, <3>2
  <2> QED
    BY <2>2, <2>7
<1>2. Cardinality(S) \notin Bad /\ Cardinality(S) \in Nat
  BY <1>0, <1>1
<1>3. g[S] = h[To(S)]
  BY <1>2
<1>4. To(S) = T
  BY <1>k
<1> QED
  BY <1>3, <1>4

\* x lists the stored rows once each, and the chunks c are theirs.
Lists(x, m) == (\A r \in rows : \E i \in 1..m : r = x[i]) /\ (\A i, j \in 1..m : x[i] = x[j] => i = j)
Alike(d, r) == r \in Piece /\ d.start = r.start /\ d.end = r.end /\ (d.state = "done" <=> r.state = "done")
SameRows(x, c, m) == Lists(x, m) /\ \A i \in 1..m : x[i] \in rows /\ Alike(c[i], x[i])

\* What a plan that is taken up again has of the stored rows.
LEMMA ResumedRows ==
  ASSUME NEW z \in Nat \ {0}, NEW a \in Nat, NEW b \in Nat, a <= b, Stored(rows, z, a, b), NEW m \in Nat, m = b - a, NEW p, p = ResumePlan(rows)
  PROVE  /\ p.chunks \in Seq(Piece) /\ Len(p.chunks) = m /\ p.bytesDone = BytesDone(p.chunks)
         /\ \E x : SameRows(x, p.chunks, m)
<1>x. PICK x : x = ByIndex(rows)
  OBVIOUS
<1>1. x \in Seq(Piece) /\ Len(x) = m /\ \A i \in 1..m : x[i] \in rows /\ x[i].index = a + i - 1
  BY <1>x, ByIndexIs DEF Pieces
<1>2. ASSUME NEW r \in rows PROVE \E i \in 1..m : r = x[i]
    <3>1. r.index \in Nat /\ a <= r.index /\ r.index < b
      BY DEF Stored, IsPiece, Piece
    <3>i. PICK i \in 1..m : a + i - 1 = r.index
      <4>1. r.index - a + 1 \in 1..m /\ a + (r.index - a + 1) - 1 = r.index
        BY <3>1
      <4>2. PICK i : i = r.index - a + 1
        OBVIOUS
      <4>3. i \in 1..m /\ a + i - 1 = r.index
        BY <4>1, <4>2
      <4> QED
        BY <4>3
    <3>2. x[i] \in rows /\ x[i].index = r.index
      BY <1>1, <3>i
    <3>3. r = x[i]
      BY <3>2 DEF Stored
    <3> QED
      BY <3>3
<1>3. \A i, j \in 1..m : x[i] = x[j] => i = j
  <2> SUFFICES ASSUME NEW i \in 1..m, NEW j \in 1..m, x[i] = x[j] PROVE i = j
    OBVIOUS
  <2>1. x[i].index = a + i - 1 /\ x[j].index = a + j - 1
    BY <1>1
  <2>2. a + i - 1 = a + j - 1
    BY <2>1
  <2> QED
    BY <2>2
<1>c. PICK c : c = [i \in DOMAIN x |-> [x[i] EXCEPT !.state = IF @ = "done" THEN "done" ELSE "pending"]]
  OBVIOUS
<1>4. ResumePlan(rows) = [resumed |-> TRUE, chunks |-> c, bytesDone |-> BytesDone(c)]
  BY <1>x, <1>c DEF ResumePlan
<1>5. ASSUME NEW i \in 1..m
      PROVE  x[i] \in rows /\ x[i] \in Piece /\ c[i].start = x[i].start /\ c[i].end = x[i].end /\ (c[i].state = "done" <=> x[i].state = "done")
  <2>1. i \in DOMAIN x /\ x[i] \in Piece
    BY <1>1
  <2>2. c[i] = [x[i] EXCEPT !.state = IF @ = "done" THEN "done" ELSE "pending"]
    BY <1>c, <2>1
  <2> QED
    BY <1>1, <2>1, <2>2 DEF Piece
<1>6. c \in Seq(Piece) /\ Len(c) = m
  BY <1>4, ResumedPieces DEF Pieces
<1>7. p.chunks = c /\ p.bytesDone = BytesDone(c)
  BY <1>4
<1>8. SameRows(x, c, m)
  <2>1. Lists(x, m)
    BY <1>2, <1>3 DEF Lists
  <2>2. \A i \in 1..m : x[i] \in rows /\ Alike(c[i], x[i])
    BY <1>5 DEF Alike
  <2> QED
    BY <2>1, <2>2 DEF SameRows
<1> QED
  BY <1>6, <1>7, <1>8

\* Its geometry is that of the rows, and so are the pieces and the bytes that count as done.
LEMMA ResumedGeometry ==
  ASSUME NEW z \in Nat \ {0}, NEW a \in Nat, NEW b \in Nat, a <= b, Stored(rows, z, a, b), NEW p, p = ResumePlan(rows)
  PROVE  /\ {<<c.start, c.end>> : c \in ToSet(p.chunks)} = {<<r.start, r.end>> : r \in rows}
         /\ {c.start : c \in {x \in ToSet(p.chunks) : x.state = "done"}}
              = {r.start : r \in {x \in rows : x.state = "done"}}
         /\ p.bytesDone = MapThenSumSet(ChunkLength, {x \in rows : x.state = "done"})
<1>m. PICK m \in Nat : m = b - a
  OBVIOUS
<1>c. PICK c : c = p.chunks
  OBVIOUS
<1>1. c \in Seq(Piece) /\ Len(c) = m /\ p.bytesDone = BytesDone(c)
  BY <1>c, <1>m, ResumedRows
<1>y. PICK x : SameRows(x, c, m)
  BY <1>c, <1>m, ResumedRows
<1>x. /\ \A r \in rows : \E i \in 1..m : r = x[i]
      /\ \A i, j \in 1..m : x[i] = x[j] => i = j
      /\ \A i \in 1..m : /\ x[i] \in rows /\ x[i] \in Piece /\ c[i].start = x[i].start /\ c[i].end = x[i].end
                         /\ c[i].state = "done" <=> x[i].state = "done"
  BY <1>y DEF SameRows, Lists, Alike
<1>2. DOMAIN c = 1..m /\ ToSet(c) = {c[i] : i \in 1..m} /\ \A i \in 1..m : c[i] \in Piece
  BY <1>1 DEF ToSet
<1>3. {<<d.start, d.end>> : d \in ToSet(c)} = {<<r.start, r.end>> : r \in rows}
  <2>1. ASSUME NEW i \in 1..m PROVE <<c[i].start, c[i].end>> = <<x[i].start, x[i].end>> /\ x[i] \in rows /\ c[i] \in ToSet(c)
    BY <1>x, <1>2
  <2>2. {<<d.start, d.end>> : d \in ToSet(c)} = {<<c[i].start, c[i].end>> : i \in 1..m}
    BY <1>2
  <2>3. {<<r.start, r.end>> : r \in rows} = {<<x[i].start, x[i].end>> : i \in 1..m}
    BY <1>x
  <2> QED
    BY <2>1, <2>2, <2>3
<1>4. {d.start : d \in {y \in ToSet(c) : y.state = "done"}} = {r.start : r \in {y \in rows : y.state = "done"}}
  <2>1. ASSUME NEW i \in 1..m
        PROVE  c[i].start = x[i].start /\ x[i] \in rows /\ c[i] \in ToSet(c) /\ (c[i].state = "done" <=> x[i].state = "done")
    BY <1>x, <1>2
  <2>2. {d.start : d \in {y \in ToSet(c) : y.state = "done"}} = {c[i].start : i \in {j \in 1..m : c[j].state = "done"}}
    BY <1>2
  <2>3. {r.start : r \in {y \in rows : y.state = "done"}} = {x[i].start : i \in {j \in 1..m : x[j].state = "done"}}
    BY <1>x
  <2> QED
    BY <2>1, <2>2, <2>3
<1> DEFINE D == {y \in rows : y.state = "done"}
           K == {i \in 1..m : c[i].state = "done"}
<1>5. \A d \in Piece : ChunkLength(d) \in Int
  BY DEF Piece, ChunkLength
<1>6. IsFiniteSet(1..m) /\ IsFiniteSet(rows) /\ IsFiniteSet(D)
  <2>1. IsFiniteSet(1..m)
    BY FS_Interval
  <2>2. rows = {s \in rows : s.index < b}
    BY DEF Stored
  <2>3. IsFiniteSet({s \in rows : s.index < b})
    <3>1. b \in a..b
      OBVIOUS
    <3> QED
      BY <3>1, CountBelow
  <2> QED
    BY <2>1, <2>2, <2>3, FS_Subset
<1>g. PICK g : SumsUp(g, Weight(c), 1..m) /\ BytesDone(c) = g[1..m]
  BY <1>2, <1>5, <1>6, BytesDoneSums
<1>h. PICK h : SumsUp(h, Lengths(D), D) /\ MapThenSumSet(ChunkLength, D) = h[D]
  <2>1. \A d \in D : ChunkLength(d) \in Int
    BY <1>x, <1>5
  <2> HIDE DEF D
  <2> QED
    BY <1>6, <2>1, LengthsSum
<1>7. Weight(c) \in [1..m -> Int] /\ \A i \in 1..m \ K : Weight(c)[i] = 0
  BY <1>2, <1>5 DEF Weight
<1>8. Lengths(D) \in [D -> Int]
  BY <1>x, <1>5 DEF Lengths
<1>9. ASSUME NEW i \in K PROVE x[i] \in D /\ Lengths(D)[x[i]] = Weight(c)[i]
  <2>1. i \in 1..m /\ x[i] \in D
    BY <1>x
  <2>2. Lengths(D)[x[i]] = ChunkLength(x[i]) /\ Weight(c)[i] = ChunkLength(c[i])
    <3>1. c[i].state = "done" /\ i \in DOMAIN c
      BY <1>2, <2>1
    <3> HIDE DEF D, K
    <3> QED
      BY <2>1, <3>1 DEF Lengths, Weight
  <2>3. ChunkLength(x[i]) = ChunkLength(c[i])
    BY <1>x, <2>1 DEF ChunkLength
  <2> QED
    BY <2>1, <2>2, <2>3
<1>10. g[1..m] = h[D]
  <2>1. K \in SUBSET (1..m) /\ \A i, j \in K : x[i] = x[j] => i = j
    BY <1>x
  <2>2. \A i \in K : x[i] \in D /\ Lengths(D)[x[i]] = Weight(c)[i]
    BY <1>9
  <2>W. PICK W \in [1..m -> Int] : W = Weight(c)
    BY <1>7
  <2>V. PICK V \in [D -> Int] : V = Lengths(D)
    BY <1>8
  <2>3. \A i \in (1..m) \ K : W[i] = 0
    BY <1>7, <2>W
  <2>5. \A y \in D : \E i \in K : y = x[i]
    BY <1>x
  <2> HIDE DEF D, K
  <2>4. SumsUp(g, W, 1..m) /\ SumsUp(h, V, D) /\ \A i \in K : x[i] \in D /\ V[x[i]] = W[i]
    BY <1>g, <1>h, <2>2, <2>V, <2>W
  <2>6. Renames(x, W, 1..m, V, D)
    BY <2>1, <2>3, <2>4, <2>5 DEF Renames
  <2> QED
    BY <1>6, <2>4, <2>6, SameSum
<1> QED
  BY <1>1, <1>3, <1>4, <1>10, <1>c, <1>g, <1>h

\* Only planning takes a plan up.
LEMMA TakenUp ==
  ASSUME PlanInv, [PlannerNext]_plannerVars, plan = NoPlan, plan' # NoPlan, rows # {}
  PROVE  plan' = ResumePlan(rows)
<1>1. ASSUME NEW i \in DOMAIN plan.chunks, NEW s, SettleChunk(i, s) PROVE FALSE
  BY <1>1 DEF SettleChunk, Idle
<1>2. ~(WriteBatch \/ Stop)
  BY DEF WriteBatch, Stop, Idle
<1>3. ~(Retry \/ (\E c \in Configured : Configure(c)) \/ UNCHANGED plannerVars)
  BY DEF Retry, Configure, plannerVars
<1>4. Plan
  BY <1>1, <1>2, <1>3 DEF PlannerNext
<1> QED
  BY <1>4 DEF Plan, PlanChunks

\* resumePlan: for every size, chunk size, batch and number of pieces, and whatever the setting
\* has become, a plan taken up again has the offsets of the stored rows, the pieces that were
\* done and no others count as done, and the bytes done are theirs.
THEOREM GeometryKept == PlannerSpec => ResumeKeepsGeometry
<1> DEFINE Kept(p) ==
      /\ {<<c.start, c.end>> : c \in ToSet(p.chunks)} = {<<r.start, r.end>> : r \in rows}
      /\ {c.start : c \in {x \in ToSet(p.chunks) : x.state = "done"}}
           = {r.start : r \in {x \in rows : x.state = "done"}}
      /\ p.bytesDone = MapThenSumSet(ChunkLength, {x \in rows : x.state = "done"})
<1>1. PlanInv /\ [PlannerNext]_plannerVars
        => [(plan = NoPlan /\ plan' # NoPlan /\ rows # {}) => Kept(plan')]_plannerVars
  <2> SUFFICES ASSUME PlanInv, [PlannerNext]_plannerVars, plan = NoPlan, plan' # NoPlan, rows # {}
               PROVE  Kept(plan')
    OBVIOUS
  <2>1. PICK z \in Nat \ {0}, a \in Nat, b \in Nat : a <= b /\ Stored(rows, z, a, b)
    BY DEF PlanInv, Explains
  <2>2. plan' = ResumePlan(rows)
    BY TakenUp
  <2>3. PICK p : p = ResumePlan(rows)
    OBVIOUS
  <2>4. Kept(p)
    BY <2>1, <2>3, ResumedGeometry
  <2> QED
    BY <2>2, <2>3, <2>4
<1> QED
  BY <1>1, PlanInvHolds, PTL DEF PlannerSpec, ResumeKeepsGeometry

\* The bytes of the pieces that are done are bytes of the file.
LEMMA BytesInFile ==
  ASSUME size \in Nat, NEW z \in Nat \ {0}, NEW f \in Nat, NEW k \in Nat, NEW c,
         Pieces(z, c, f, k), f + k <= Cuts(z)
  PROVE  BytesDone(c) \in 0..size
<1>0. c \in Seq(Piece) /\ DOMAIN c = 1..k /\ Cuts(z) \in Nat
  BY CeilIs DEF Pieces, Cuts
<1>1. IsFiniteSet(1..k) /\ \A i \in 1..k : ChunkLength(c[i]) \in Int
  <2>1. IsFiniteSet(1..k)
    BY FS_Interval
  <2>2. ASSUME NEW d \in Piece PROVE ChunkLength(d) \in Int
    BY DEF Piece, ChunkLength
  <2>3. \A i \in 1..k : c[i] \in Piece
    BY <1>0
  <2> QED
    BY <2>1, <2>2, <2>3
<1>g. PICK g : SumsUp(g, Weight(c), 1..k) /\ BytesDone(c) = g[1..k]
  BY <1>0, <1>1, BytesDoneSums
<1>W. PICK W \in [1..k -> Int] : W = Weight(c)
  <2>1. ASSUME NEW i \in 1..k PROVE (IF c[i].state = "done" THEN ChunkLength(c[i]) ELSE 0) \in Int
    BY <1>1
  <2>2. Weight(c) = [i \in 1..k |-> IF c[i].state = "done" THEN ChunkLength(c[i]) ELSE 0]
    BY <1>0 DEF Weight
  <2> QED
    BY <2>1, <2>2
<1>2. AnyFirst(g, W, 1..k)
  BY <1>1, <1>g, <1>W, AnyOrder
<1>3. ASSUME NEW n \in 1..k
      PROVE  /\ (f + n - 1) * z \in Nat /\ (f + n - 1) * z < size /\ (f + n - 1) * z < (f + n) * z /\ (f + n) * z \in Nat
             /\ W[n] \in 0..(Smaller((f + n) * z, size) - (f + n - 1) * z)
  <2>0. f + n \in 1..Cuts(z)
    BY <1>0
  <2>1. (f + n - 1) * z < size /\ (f + n - 1) * z < (f + n) * z /\ (f + n - 1) * z \in Nat
    BY <2>0, PieceBegins
  <2>2. (f + n) * z \in Nat
    OBVIOUS
  <2>d. PICK d : d = c[n]
    OBVIOUS
  <2>3. d.start = (f + n - 1) * z /\ d.end = Smaller((f + n) * z, size) - 1
    <3>1. IsPiece(z, f + n, d)
      BY <2>d DEF Pieces
    <3> QED
      BY <3>1 DEF IsPiece
  <2>4. PICK s \in Nat, e \in Nat : s = (f + n - 1) * z /\ e = (f + n) * z
    BY <2>1, <2>2
  <2>5. ChunkLength(d) = Smaller(e, size) - s /\ s < size /\ s < e
    <3>1. Smaller(e, size) \in Nat
      BY <2>4 DEF Smaller
    <3> QED
      BY <2>1, <2>3, <2>4, <3>1 DEF ChunkLength
  <2>6. W[n] = ChunkLength(d) \/ W[n] = 0
    BY <1>0, <1>W, <2>d DEF Weight
  <2>7. W[n] \in 0..(Smaller(e, size) - s)
    BY <2>5, <2>6 DEF Smaller
  <2> QED
    BY <2>1, <2>2, <2>4, <2>7
<1> DEFINE Fits(n) == g[1..n] \in 0..Smaller((f + n) * z, size)
           Bad == {n \in Nat : n <= k /\ ~Fits(n)}
<1>4. Bad = {}
  <2> SUFFICES ASSUME Bad # {} PROVE FALSE
    OBVIOUS
  <2>1. PICK n \in Bad : \A l \in 0..(n - 1) : l \notin Bad
    <3> HIDE DEF Bad
    <3>1. Bad \in SUBSET Nat
      BY DEF Bad
    <3> QED
      BY <3>1, LeastNat
  <2>2. n \in Nat /\ n <= k /\ ~Fits(n)
    OBVIOUS
  <2>3. CASE n = 0
    <3>1. 1..0 = {} /\ g[{}] = 0
      <4>1. 1..0 = {} /\ {} \in SUBSET (1..k)
        OBVIOUS
      <4>2. g[{}] = 0
        BY <1>g, <4>1 DEF SumsUp
      <4> QED
        BY <4>1, <4>2
    <3>2. (f + 0) * z \in Nat
      OBVIOUS
    <3> HIDE DEF Bad
    <3> QED
      BY <2>2, <2>3, <3>1, <3>2 DEF Smaller
  <2>4. CASE n # 0
    <3>1. n \in 1..k /\ n - 1 \in Nat /\ n - 1 \in 0..(n - 1) /\ n - 1 <= k
      BY <2>2, <2>4
    <3>2. Fits(n - 1)
      <4>1. n - 1 \notin Bad
        BY <2>1, <3>1
      <4> QED
        BY <3>1, <4>1
    <3>e. f + (n - 1) = f + n - 1
      BY <3>1
    <3> HIDE DEF Bad
    <3>3. g[1..n] = W[n] + g[(1..n) \ {n}]
      <4>1. 1..n \in SUBSET (1..k) /\ n \in 1..n
        BY <3>1
      <4> QED
        BY <1>2, <4>1 DEF AnyFirst
    <3>4. (1..n) \ {n} = 1..(n - 1)
      BY <3>1
    <3>5. PICK s \in Nat, e \in Nat : s = (f + n - 1) * z /\ e = (f + n) * z /\ s < size /\ s < e
      BY <1>3, <3>1
    <3>6. W[n] \in 0..(Smaller(e, size) - s) /\ g[1..(n - 1)] \in 0..Smaller(s, size)
      BY <1>3, <3>1, <3>2, <3>5, <3>e
    <3>7. g[1..n] = W[n] + g[1..(n - 1)]
      BY <3>3, <3>4
    <3>w. PICK w \in Int, h \in Int : w = W[n] /\ h = g[1..(n - 1)]
      <4>1. Smaller(e, size) - s \in Int /\ Smaller(s, size) \in Int
        BY DEF Smaller
      <4>2. W[n] \in Int /\ g[1..(n - 1)] \in Int
        BY <3>6, <4>1
      <4> QED
        BY <4>2
    <3>b. s < size /\ s < e /\ w \in 0..(Smaller(e, size) - s) /\ h \in 0..Smaller(s, size) /\ g[1..n] = w + h
      BY <3>5, <3>6, <3>7, <3>w
    <3>8. w + h \in 0..Smaller(e, size)
      <4>m. PICK m \in Nat : m = Smaller(e, size)
        BY DEF Smaller
      <4>1. h <= s /\ 0 <= h
        BY <3>b DEF Smaller
      <4>2. w <= m - s /\ 0 <= w
        BY <3>b, <4>m
      <4>3. w + h \in 0..m
        <5> HIDE <3>5, <3>b, <3>w, <4>m
        <5> QED
          BY <4>1, <4>2
      <4> QED
        BY <4>3, <4>m
    <3>9. Smaller(e, size) = Smaller((f + n) * z, size)
      BY <3>5
    <3> QED
      BY <2>2, <3>8, <3>9, <3>b
  <2> QED
    BY <2>3, <2>4
<1>5. Fits(k)
  <2> HIDE DEF Fits
  <2> QED
    BY <1>4
<1>6. g[1..k] \in 0..size
  <2>1. (f + k) * z \in Nat
    OBVIOUS
  <2> QED
    BY <1>5, <2>1 DEF Smaller
<1> QED
  BY <1>g, <1>6

\* The parts of a plan that its pieces do not determine.
PlanTypes == plan.resumed \in BOOLEAN /\ plan.bytesDone \in -1..size

\* The rows are records over the file, and what is unwritten is of the plan.
LEMMA InvTypes ==
  ASSUME PlanInv, PlanTypes
  PROVE  PlannerTypeOK
<1>1. size \in Nat /\ size \in Sizes /\ setting \in Configured /\ cut \subseteq {"stop", "retry"}
  BY DEF PlanInv
<1>a. PICK z \in Nat \ {0}, a \in Nat, m \in Nat : Explains(rows, plan, unwritten, cut, z, a, m)
  BY DEF PlanInv
<1>2. a <= m /\ m <= Cuts(z) /\ Stored(rows, z, a, m) /\ Planned(plan, unwritten, cut, z, m)
  BY <1>a DEF Explains
<1>3. Cuts(z) \in Nat
  BY <1>1, CeilIs DEF Cuts
<1>4. ASSUME NEW r \in rows
      PROVE  r.index \in Nat /\ r.start \in 0..size /\ r.end \in 0..size
             /\ r.state \in {"pending", "done", "failed", "corrupt"}
  <2>i. PICK i : i = r.index + 1
    OBVIOUS
  <2>1. r.index < m /\ IsPiece(z, i, r) /\ r \in Piece
    BY <1>2, <2>i DEF Stored, IsPiece
  <2>2. r.index \in Nat /\ r.state \in {"pending", "done", "failed", "corrupt"}
    BY <2>1 DEF Piece
  <2>3. i \in 1..Cuts(z)
    BY <1>2, <1>3, <2>i, <2>1, <2>2
  <2>4. PICK s \in Nat, e \in Nat : s = (i - 1) * z /\ e = i * z /\ s < size /\ s < e
    <3>1. (i - 1) * z < size /\ (i - 1) * z < i * z /\ (i - 1) * z \in Nat
      BY <1>1, <2>3, PieceBegins
    <3>2. i * z \in Nat
      BY <2>3
    <3> QED
      BY <3>1, <3>2
  <2>5. r.start = s /\ r.end = Smaller(e, size) - 1
    BY <2>1, <2>4 DEF IsPiece
  <2>6. r.start \in 0..size /\ r.end \in 0..size
    BY <1>1, <2>4, <2>5 DEF Smaller
  <2> QED
    BY <2>2, <2>6
<1>5. Len(unwritten) <= Len(plan.chunks)
  <2>1. CASE unwritten = <<>> /\ plan = NoPlan
    BY <2>1 DEF NoPlan
  <2>2. CASE unwritten = <<>> /\ Spans(plan.chunks, cut, z)
    <3>1. PICK f \in Nat, k \in Nat : Len(plan.chunks) = k
      BY <2>2 DEF Spans, Span, Pieces
    <3> QED
      BY <2>2, <3>1
  <2>3. CASE Half(plan.chunks, unwritten, z, m)
    <3>1. Len(plan.chunks) = Cuts(z) /\ Len(unwritten) = Cuts(z) - m
      BY <1>3, <2>3, HalfRest
    <3> QED
      BY <1>3, <3>1
  <2> QED
    BY <1>2, <2>1, <2>2, <2>3 DEF Planned
<1> QED
  BY <1>1, <1>4, <1>5 DEF PlannerTypeOK, PlanTypes

\* A plan is planned, settled piece by piece, or dropped.
LEMMA KeepsPlanTypes ==
  ASSUME PlanInv, PlanTypes, [PlannerNext]_plannerVars
  PROVE  PlanTypes'
<1>1. size \in Nat
  BY DEF PlanInv
<1>a. PICK z \in Nat \ {0}, a \in Nat, b \in Nat : Explains(rows, plan, unwritten, cut, z, a, b)
  BY DEF PlanInv
<1>2. a <= b /\ b <= Cuts(z) /\ Stored(rows, z, a, b) /\ Planned(plan, unwritten, cut, z, b)
  BY <1>a DEF Explains
<1>k. PICK k \in Nat : k = b - a /\ a + k = b
  BY <1>2
<1>3. CASE Plan
  <2>1. plan' = PlanChunks(size, setting, rows) /\ size' = size
    BY <1>3 DEF Plan
  <2>2. CASE rows # {}
    <3>1. plan' = ResumePlan(rows)
      BY <2>1, <2>2 DEF PlanChunks
    <3>p. PICK p : p = ResumePlan(rows)
      OBVIOUS
    <3>2. p.resumed = TRUE /\ Pieces(z, p.chunks, a, k) /\ p.bytesDone = BytesDone(p.chunks)
      BY <1>2, <1>k, <3>p, ResumedPieces, ResumedRows
    <3>c. PICK c : c = p.chunks
      OBVIOUS
    <3>3. BytesDone(c) \in 0..size
      <4>1. Pieces(z, c, a, k) /\ a + k <= Cuts(z)
        BY <1>2, <1>k, <3>2, <3>c
      <4> QED
        BY <1>1, <1>2, <4>1, BytesInFile
    <3>4. p.bytesDone \in 0..size
      BY <3>2, <3>3, <3>c
    <3>5. p.resumed \in BOOLEAN
      BY <3>2, Zenon
    <3>6. p.bytesDone \in -1..size
      BY <1>1, <3>4
    <3>7. plan' = p
      BY <3>1, <3>p
    <3> QED
      BY <2>1, <3>5, <3>6, <3>7 DEF PlanTypes
  <2>3. CASE rows = {}
    <3>1. plan'.resumed = FALSE /\ plan'.bytesDone = 0
      BY <2>1, <2>3 DEF PlanChunks
    <3>2. plan'.resumed \in BOOLEAN
      BY <3>1, Zenon
    <3>3. plan'.bytesDone \in -1..size
      BY <1>1, <3>1
    <3> QED
      BY <2>1, <3>2, <3>3 DEF PlanTypes
  <2> QED
    BY <2>2, <2>3
<1>4. CASE \E i \in DOMAIN plan.chunks, s \in {"done", "failed", "corrupt"} : SettleChunk(i, s)
  <2>1. PICK i \in DOMAIN plan.chunks, s \in {"done", "failed", "corrupt"} :
          plan' = [plan EXCEPT !.chunks[i].state = s] /\ size' = size
    BY <1>4 DEF SettleChunk
  <2>p. PICK r, c, d : plan = [resumed |-> r, chunks |-> c, bytesDone |-> d]
    BY <1>2 DEF Planned, PlanRecord
  <2>2. plan'.resumed = plan.resumed /\ plan'.bytesDone = plan.bytesDone
    BY <2>1, <2>p
  <2> QED
    BY <2>1, <2>2 DEF PlanTypes
<1>5. CASE Stop
  <2>1. plan' = NoPlan /\ size' = size
    BY <1>5 DEF Stop
  <2> QED
    BY <1>1, <2>1 DEF PlanTypes, NoPlan
<1>6. CASE WriteBatch \/ Retry \/ (\E c \in Configured : Configure(c)) \/ UNCHANGED plannerVars
  <2>1. plan' = plan /\ size' = size
    BY <1>6 DEF WriteBatch, Retry, Configure, plannerVars
  <2> QED
    BY <2>1 DEF PlanTypes
<1> QED
  BY <1>3, <1>4, <1>5, <1>6 DEF PlannerNext

\* The types of the planner; the bytes done are bytes of the file, the pieces of a torn plan
\* included.
THEOREM PlannerTypeCorrect == PlannerSpec => []PlannerTypeOK
<1>1. PlannerInit => PlanTypes
  <2> SUFFICES ASSUME PlannerInit PROVE PlanTypes
    OBVIOUS
  <2>1. size \in Nat /\ plan = NoPlan
    BY PlanConstants DEF PlannerInit, PlanConstants
  <2> QED
    BY <2>1 DEF PlanTypes, NoPlan
<1>2. PlanInv /\ PlanTypes /\ [PlannerNext]_plannerVars => PlanTypes'
  BY KeepsPlanTypes
<1>3. PlanInv /\ PlanTypes => PlannerTypeOK
  BY InvTypes
<1> QED
  BY <1>1, <1>2, <1>3, PlanInvHolds, PTL DEF PlannerSpec
=============================================================================
