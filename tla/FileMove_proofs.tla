--------------------------- MODULE FileMove_proofs ---------------------------
(***************************************************************************)
(* One file on its way to a destination of its own, whatever its length    *)
(* and however often its move is asked for, stopped, refused or cut short  *)
(* by a crash: what FileMove promises of it.  The hypothesis Files = {f}   *)
(* is needed: a partial that another file left at the same destination is  *)
(* resumed as if it were this one's (move_stale_partial).                  *)
(***************************************************************************)
EXTENDS FileMove, TLAPS

Moving == {"check", "open", "stream", "copy", "commit", "rename"}
Placing == {"finish", "link", "relink", "note"}
Call == [pc : Steps, pos : Nat, signal : {"none", "pause", "cancel"}]

\* TypeOK, and that mover is a function into calls.
MoveType == TypeOK /\ mover \in [Files -> Call]

\* The partial is the beginning of the file, as far as the copy came, as long as
\* its length could always be read; what is renamed has the file's length at least.
PartIsPrefix(f) ==
  /\ "stat" \notin swallowed => /\ Len(part) <= Size[f]
                                /\ \A i \in 1..Len(part) : part[i] = <<f, i>>
                                /\ At(f, "copy") => mover[f].pos = Len(part)
  /\ At(f, "rename") => Len(part) = Size[f]
  /\ At(f, "drop") => part = Absent \/ "unlink" \in swallowed

\* Under the final name there is nothing or a file's length, which is the file
\* itself if no length was misread; from the rename on there is something.
DestIsNothingOrAll(f) ==
  /\ dest = Absent \/ Len(dest) = Size[f]
  /\ dest = Absent \/ dest = Whole(f) \/ "stat" \in swallowed
  /\ mover[f].pc \in Placing \/ src[f] = "link" => dest # Absent
  /\ src[f] = "gone" => dest # Absent \/ last[f] = "cancelled"

\* A call that still moves has a source and nobody cancelled it; the release
\* manager's calls are never stopped and keep their source.
CallIsLive(f) ==
  /\ At(f, "idle") => mover[f] = Idle
  /\ mover[f].pc \in Moving \cup Placing => src[f] # "gone" /\ last[f] # "cancelled"
  /\ At(f, "remove") => last[f] = "cancelled"
  /\ f \in seeded => /\ mover[f].signal = "none" /\ mover[f].pc \notin {"drop", "remove"}
                     /\ src[f] # "gone" /\ last[f] # "cancelled"

MoveInv ==
  /\ MoveType
  /\ \A f \in Files : PartIsPrefix(f) /\ DestIsNothingOrAll(f) /\ CallIsLive(f)

-----------------------------------------------------------------------------
(* Type correctness, for any files.                                        *)

\* Updating one call gives calls.
LEMMA CallsAreTyped ==
  ASSUME NEW f \in Files, mover \in [Files -> Call]
  PROVE  /\ \A pc \in Steps : [mover EXCEPT ![f].pc = pc] \in [Files -> Call]
         /\ \A pos \in Nat : [mover EXCEPT ![f].pos = pos] \in [Files -> Call]
         /\ \A why \in {"pause", "cancel"} : [mover EXCEPT ![f].signal = why] \in [Files -> Call]
         /\ [mover EXCEPT ![f] = Idle] \in [Files -> Call]
BY DEF Call, Idle, Steps

\* _resumeOffset: the copy starts where the partial ends.
LEMMA Resuming ==
  ASSUME NEW f \in Files, mover \in [Files -> Call], NEW from \in Nat,
         mover' = [mover EXCEPT ![f] = [@ EXCEPT !.pc = "copy", !.pos = from]]
  PROVE  /\ mover' \in [Files -> Call]
         /\ \A g \in Files : mover'[g].pos = IF g = f THEN from ELSE mover[g].pos
         /\ mover'[f].pc = "copy" /\ mover'[f].signal = mover[f].signal
BY DEF Call, Steps

\* A call that goes on or is over is a call.
LEMMA GoingOn ==
  ASSUME MoveType, NEW f \in Files, NEW pc \in Steps, NEW how \in Ends
  PROVE  /\ Goto(f, pc) => mover' \in [Files -> Call]
         /\ Over(f, how) => mover' \in [Files -> Call] /\ last' \in [Files -> Ends]
<1>1. ASSUME Goto(f, pc) PROVE mover' \in [Files -> Call]
  BY <1>1, CallsAreTyped DEF Goto, MoveType
<1>2. ASSUME Over(f, how) PROVE mover' \in [Files -> Call] /\ last' \in [Files -> Ends]
  BY <1>2, CallsAreTyped DEF Over, MoveType, TypeOK
<1> QED
  BY <1>1, <1>2

\* What TypeOK says of the files on the disk and of the outcomes.
LEMMA TypeOfParts ==
  ASSUME UNCHANGED seeded, seeded \subseteq Files,
         mover' \in [Files -> Call],
         src' \in [Files -> {"file", "link", "gone"}], temp' \subseteq Files,
         part' \in Seq(Files \X Nat), dest' \in Seq(Files \X Nat),
         last' \in [Files -> Ends], asked' \in 0..MaxRequests, swallowed' \subseteq {"stat", "unlink"}
  PROVE  MoveType'
<1>1. \A g \in Files : /\ mover'[g].pc \in Steps /\ mover'[g].pos \in Nat
                       /\ mover'[g].signal \in {"none", "pause", "cancel"}
  BY DEF Call
<1> QED
  BY <1>1 DEF MoveType, TypeOK

LEMMA WholeIsTyped == \A f \in Files : Whole(f) \in Seq(Files \X Nat)
BY MoveConstants DEF Whole

\* What a source gives is typed, as far as it goes.
LEMMA ContentIsTyped ==
  ASSUME MoveType, NEW f \in Files
  PROVE  Total(f) \in Nat /\ \A pos \in Nat : pos < Total(f) => Content(f)[pos + 1] \in Files \X Nat
<1>1. Content(f) \in Seq(Files \X Nat)
  BY WholeIsTyped DEF Content, MoveType, TypeOK
<1>2. ASSUME NEW s \in Seq(Files \X Nat)
      PROVE  Len(s) \in Nat /\ \A pos \in Nat : pos < Len(s) => s[pos + 1] \in Files \X Nat
  OBVIOUS
<1> HIDE DEF Content
<1> QED
  BY <1>1, <1>2 DEF Total

\* Removing a partial, or failing to, leaves a partial.
LEMMA RemovingIsTyped ==
  ASSUME MoveType, Removes
  PROVE  part' \in Seq(Files \X Nat) /\ swallowed' \subseteq {"stat", "unlink"}
<1>1. CASE part' = Absent /\ UNCHANGED swallowed
  BY <1>1 DEF MoveType, TypeOK, Absent
<1>2. CASE UNCHANGED part /\ swallowed' = swallowed \cup {"unlink"}
  BY <1>2 DEF MoveType, TypeOK
<1> QED
  BY <1>1, <1>2 DEF Removes

\* _aborted leaves a partial and ends the call or goes on to cancel its row.
LEMMA AbortedIsTyped ==
  ASSUME MoveType, NEW f \in Files, Aborted(f)
  PROVE  /\ mover' \in [Files -> Call] /\ last' \in [Files -> Ends]
         /\ part' \in Seq(Files \X Nat) /\ swallowed' \subseteq {"stat", "unlink"}
<1>1. CASE mover[f].signal = "cancel"
  BY <1>1, RemovingIsTyped, GoingOn DEF Aborted, Steps, MoveType, TypeOK
<1>2. CASE mover[f].signal # "cancel"
  BY <1>2, GoingOn DEF Aborted, Ends, MoveType, TypeOK
<1> QED
  BY <1>1, <1>2

LEMMA StepKeepsType ==
  ASSUME MoveType, NEW f \in Files, UNCHANGED seeded,
         MoveStep(f) \/ ((Ask(f) \/ Discard(f)) /\ UNCHANGED swallowed)
  PROVE  MoveType'
<1> USE MoveConstants, TypeOfParts, GoingOn DEF MoveType, Steps, Ends
<1>0. Absent \in Seq(Files \X Nat)
  BY DEF Absent
<1>1. CASE Ask(f) /\ UNCHANGED swallowed
  BY <1>1 DEF TypeOK, Ask, disk
<1>2. CASE Check(f)
  <2>1. CASE Aborted(f)
    BY <1>2, <2>1, AbortedIsTyped DEF TypeOK, Check
  <2>2. CASE Goto(f, "open") /\ UNCHANGED <<part, last, swallowed>>
    BY <1>2, <2>2 DEF TypeOK, Check
  <2> QED
    BY <1>2, <2>1, <2>2 DEF Check
<1>3. CASE Open(f) /\ UNCHANGED swallowed
  <2>1. mover' \in [Files -> Call] /\ last' \in [Files -> Ends]
    BY <1>3 DEF TypeOK, Open
  <2>2. src' \in [Files -> {"file", "link", "gone"}]
    BY <1>3 DEF TypeOK, Open
  <2>3. dest' \in Seq(Files \X Nat)
    BY <1>3, WholeIsTyped DEF TypeOK, Open
  <2> QED
    BY <1>3, <2>1, <2>2, <2>3 DEF TypeOK, Open
<1>4. CASE Stream(f)
  <2>1. PICK from \in 0..Total(f) :
          /\ ResumesAt(f, from)
          /\ \/ from = Total(f) /\ Goto(f, "commit") /\ UNCHANGED last
             \/ from < Total(f) /\ mover' = [mover EXCEPT ![f] = [@ EXCEPT !.pc = "copy", !.pos = from]]
                               /\ UNCHANGED last
             \/ Over(f, "failed")
    BY <1>4 DEF Stream
  <2>2. /\ from \in Nat /\ UNCHANGED <<src, temp, dest, asked>>
        /\ part' \in Seq(Files \X Nat) /\ swallowed' \subseteq {"stat", "unlink"}
    <3>1. from \in Nat /\ UNCHANGED <<src, temp, dest, asked>>
      BY <1>4, ContentIsTyped DEF Stream
    <3>2. CASE Removes
      BY <3>1, <3>2, RemovingIsTyped
    <3>3. CASE UNCHANGED part /\ swallowed' \in {swallowed, swallowed \cup {"stat"}}
      BY <3>1, <3>3 DEF TypeOK
    <3> QED
      BY <2>1, <3>2, <3>3 DEF ResumesAt
  <2>3. mover' \in [Files -> Call] /\ last' \in [Files -> Ends]
    BY <2>1, <2>2, Resuming DEF TypeOK
  <2> QED
    BY <2>2, <2>3 DEF TypeOK
<1>5. CASE Copy(f)
  <2>1. CASE Aborted(f)
    BY <1>5, <2>1, AbortedIsTyped DEF TypeOK, Copy
  <2>2. CASE Appends(f)
    <3>1. mover[f].pos \in Nat /\ mover[f].pos + 1 \in Nat /\ mover[f].pos < Total(f)
      BY <1>5 DEF TypeOK, Copy
    <3>b. Content(f)[mover[f].pos + 1] \in Files \X Nat
      BY <3>1, ContentIsTyped
    <3>2. part' \in Seq(Files \X Nat)
      BY <2>2, <3>b DEF TypeOK, Appends
    <3>3. mover' \in [Files -> Call]
      BY <2>2, <3>1, CallsAreTyped DEF Appends
    <3> QED
      BY <1>5, <2>2, <3>2, <3>3 DEF TypeOK, Copy, Appends
  <2> QED
    BY <1>5, <2>1, <2>2 DEF Copy
<1>6. CASE (CopyFails(f) \/ CopyEnds(f)) /\ UNCHANGED swallowed
  BY <1>6 DEF TypeOK, CopyFails, CopyEnds, disk
<1>7. CASE Commit(f)
  BY <1>7, RemovingIsTyped DEF TypeOK, Commit
<1>8. CASE Rename(f) /\ UNCHANGED swallowed
  BY <1>0, <1>8 DEF TypeOK, Rename
<1>9. CASE (Finish(f) \/ Link(f)) /\ UNCHANGED swallowed
  BY <1>9 DEF TypeOK, Finish, Link
<1>10. CASE (Relink(f) \/ Note(f)) /\ UNCHANGED swallowed
  BY <1>10 DEF TypeOK, Relink, Note, disk
<1>11. CASE RemoveWork(f) /\ UNCHANGED swallowed
  BY <1>11 DEF TypeOK, RemoveWork
<1>12. CASE (Drop(f) \/ Discard(f)) /\ UNCHANGED swallowed
  <2>1. Goto(f, "remove") /\ last' \in [Files -> Ends] /\ UNCHANGED disk
    BY <1>12 DEF TypeOK, Drop, Discard, CancelRow
  <2>2. asked' \in 0..MaxRequests
    BY <1>12 DEF TypeOK, Drop, Discard, Asked
  <2> QED
    BY <1>12, <2>1, <2>2 DEF TypeOK, disk
<1> QED
  BY <1>1, <1>2, <1>3, <1>4, <1>5, <1>6, <1>7, <1>8, <1>9, <1>10, <1>11, <1>12 DEF MoveStep

\* The files, the calls of move and their outcomes are typed, for any files.
LEMMA TypeKeeps == MoveType /\ [Next]_vars => MoveType'
<1> SUFFICES ASSUME MoveType, [Next]_vars PROVE MoveType'
  OBVIOUS
<1> USE MoveConstants, TypeOfParts
<1>1. ASSUME NEW f \in Files, MoveStep(f) \/ ((Ask(f) \/ Discard(f)) /\ UNCHANGED swallowed), UNCHANGED seeded
      PROVE  MoveType'
  BY <1>1, StepKeepsType
<1>2. ASSUME NEW f \in Files, NEW why \in {"pause", "cancel"}, Stop(f, why), UNCHANGED <<seeded, swallowed>>
      PROVE  MoveType'
  <2>1. mover' \in [Files -> Call]
    BY <1>2, CallsAreTyped DEF Stop, MoveType
  <2>2. asked' \in 0..MaxRequests /\ UNCHANGED <<disk, last>>
    BY <1>2 DEF MoveType, TypeOK, Stop, Asked
  <2> QED
    BY <1>2, <2>1, <2>2 DEF MoveType, TypeOK, disk
<1>3. CASE Crash /\ UNCHANGED <<seeded, swallowed>>
  <2>1. mover' \in [Files -> Call]
    BY <1>3 DEF Crash, Call, Idle, Steps
  <2> QED
    BY <1>3, <2>1 DEF MoveType, TypeOK, Crash, Asked, disk
<1>4. CASE UNCHANGED vars
  BY <1>4 DEF MoveType, TypeOK, vars, disk
<1> QED
  BY <1>1, <1>2, <1>3, <1>4 DEF Next

\* The files, the partial, the calls of move, their outcomes and the failures
\* nobody is told of have their types.
THEOREM TypeCorrect == Spec => []TypeOK
<1>1. Init => MoveType
  BY MoveConstants DEF Init, MoveType, TypeOK, Call, Idle, Absent, Steps, Ends
<1> QED
  BY <1>1, TypeKeeps, PTL DEF Spec, MoveType

-----------------------------------------------------------------------------
(* One file: the invariant.                                                *)

\* What a call is after it goes on or ends.
LEMMA CallAfter ==
  ASSUME MoveType, NEW f \in Files, NEW pc, NEW how
  PROVE  /\ Goto(f, pc) => /\ mover'[f].pc = pc /\ mover'[f].pos = mover[f].pos
                           /\ mover'[f].signal = mover[f].signal
         /\ Over(f, how) => mover'[f] = Idle /\ last'[f] = how
BY DEF MoveType, TypeOK, Call, Goto, Over

\* A whole file has a byte at least, and a prefix as long is the whole file.
LEMMA WholeFile ==
  ASSUME NEW f \in Files
  PROVE  /\ Whole(f) # Absent /\ Len(Absent) = 0 /\ Size[f] \in Nat \ {0}
         /\ \A p \in Seq(Files \X Nat) :
              Len(p) = Size[f] /\ (\A i \in 1..Len(p) : p[i] = <<f, i>>) => p = Whole(f)
BY MoveConstants DEF Whole, Absent

\* A source gives as many bytes as its file has, and its file's bytes if no length
\* was misread: a link leads to what was placed.
LEMMA WhatIsRead ==
  ASSUME NEW f \in Files, MoveType, DestIsNothingOrAll(f)
  PROVE  Total(f) = Size[f] /\ ("stat" \notin swallowed => Content(f) = Whole(f))
<1>1. Size[f] \in Nat /\ Len(Whole(f)) = Size[f]
  BY MoveConstants DEF Whole
<1>2. Len(Content(f)) = Size[f] /\ ("stat" \notin swallowed => Content(f) = Whole(f))
  <2>1. CASE src[f] = "link"
    BY <2>1 DEF Content, DestIsNothingOrAll
  <2>2. CASE src[f] # "link"
    BY <1>1, <2>2 DEF Content
  <2> QED
    BY <2>1, <2>2
<1> QED
  BY <1>2 DEF Total

LEMMA InitMove == ASSUME NEW f, Files = {f}, Init PROVE MoveInv
<1>1. MoveType
  BY MoveConstants DEF Init, MoveType, TypeOK, Call, Idle, Absent, Steps, Ends
<1> QED
  BY <1>1, MoveConstants DEF Init, MoveInv, PartIsPrefix, DestIsNothingOrAll, CallIsLive, Moving, Placing, At, Idle, Absent

\* A call of move is asked for, stopped, given up before it began or cut short.
LEMMA RequestKeeps ==
  ASSUME NEW f, Files = {f}, MoveInv, MoveType', UNCHANGED <<seeded, swallowed>>,
         Ask(f) \/ Discard(f) \/ Crash \/ \E why \in {"pause", "cancel"} : Stop(f, why)
  PROVE  MoveInv'
<1>0. f \in Files /\ MoveType /\ PartIsPrefix(f) /\ DestIsNothingOrAll(f) /\ CallIsLive(f)
  BY DEF MoveInv
<1> SUFFICES PartIsPrefix(f)' /\ DestIsNothingOrAll(f)' /\ CallIsLive(f)'
  BY DEF MoveInv
<1>1. CASE Ask(f)
  <2>1. mover'[f].pc = "check" /\ mover'[f].signal = mover[f].signal
    BY <1>0, <1>1, CallAfter DEF Ask
  <2> QED
    BY <1>0, <1>1, <2>1 DEF Ask, PartIsPrefix, DestIsNothingOrAll, CallIsLive, Moving, Placing, At, Idle, Absent, Whole, disk
<1>2. CASE Discard(f)
  <2>1. mover'[f].pc = "remove" /\ last'[f] = "cancelled" /\ f \notin seeded
    BY <1>0, <1>2, CallAfter DEF Discard, CancelRow, MoveType, TypeOK
  <2> QED
    BY <1>0, <1>2, <2>1 DEF Discard, CancelRow, PartIsPrefix, DestIsNothingOrAll, CallIsLive, Moving, Placing, At, Absent, Whole, disk
<1>3. CASE Crash
  <2>1. mover'[f] = Idle
    BY <1>0, <1>3 DEF Crash
  <2> QED
    BY <1>0, <1>3, <2>1 DEF Crash, PartIsPrefix, DestIsNothingOrAll, CallIsLive, Moving, Placing, At, Idle, Absent, Whole, disk
<1>4. ASSUME NEW why \in {"pause", "cancel"}, Stop(f, why)
      PROVE  PartIsPrefix(f)' /\ DestIsNothingOrAll(f)' /\ CallIsLive(f)'
  <2>1. mover'[f].pc = mover[f].pc /\ mover'[f].pos = mover[f].pos
    BY <1>0, <1>4 DEF Stop, MoveType, Call
  <2> QED
    BY <1>0, <1>4, <2>1 DEF Stop, PartIsPrefix, DestIsNothingOrAll, CallIsLive, Moving, Placing, At, Absent, Whole, disk
<1> QED
  BY <1>1, <1>2, <1>3, <1>4

\* A stop that _aborted finds keeps the partial or drops it.
LEMMA AbortedKeeps ==
  ASSUME NEW f, Files = {f}, MoveInv, UNCHANGED <<seeded, src, temp, dest, asked>>,
         mover[f].pc \in Moving, Aborted(f)
  PROVE  PartIsPrefix(f)' /\ DestIsNothingOrAll(f)' /\ CallIsLive(f)'
<1>0. f \in Files /\ MoveType /\ PartIsPrefix(f) /\ DestIsNothingOrAll(f) /\ CallIsLive(f)
  BY DEF MoveInv
<1>1. CASE mover[f].signal = "cancel"
  <2>1. mover'[f].pc = "drop" /\ Removes /\ UNCHANGED last
    BY <1>0, <1>1, CallAfter DEF Aborted
  <2>2. f \notin seeded
    BY <1>0, <1>1 DEF CallIsLive
  <2>3. ("stat" \in swallowed' <=> "stat" \in swallowed) /\ (part' = Absent \/ (part' = part /\ "unlink" \in swallowed'))
    BY <2>1 DEF Removes
  <2>4. PartIsPrefix(f)'
    BY <1>0, <2>1, <2>3, WholeFile DEF PartIsPrefix, At
  <2> QED
    BY <1>0, <2>1, <2>2, <2>3, <2>4 DEF DestIsNothingOrAll, CallIsLive, Moving, Placing, At, Absent, Whole
<1>2. CASE mover[f].signal # "cancel"
  <2>1. mover'[f] = Idle /\ last'[f] = "paused" /\ UNCHANGED <<part, swallowed>>
    BY <1>0, <1>2, CallAfter DEF Aborted
  <2> QED
    BY <1>0, <2>1 DEF PartIsPrefix, DestIsNothingOrAll, CallIsLive, Moving, Placing, At, Idle, Absent, Whole
<1> QED
  BY <1>1, <1>2

\* A step of the call, up to the rename to the final name.
LEMMA MovingKeeps ==
  ASSUME NEW f, Files = {f}, MoveInv, MoveType', UNCHANGED seeded,
         \/ Check(f) \/ Stream(f) \/ Copy(f) \/ Commit(f)
         \/ (Open(f) \/ CopyFails(f) \/ CopyEnds(f) \/ Rename(f)) /\ UNCHANGED swallowed
  PROVE  MoveInv'
<1>0. f \in Files /\ MoveType /\ PartIsPrefix(f) /\ DestIsNothingOrAll(f) /\ CallIsLive(f)
  BY DEF MoveInv
<1> SUFFICES PartIsPrefix(f)' /\ DestIsNothingOrAll(f)' /\ CallIsLive(f)'
  BY DEF MoveInv
<1>a. Total(f) = Size[f] /\ Size[f] \in Nat /\ ("stat" \notin swallowed => Content(f) = Whole(f))
  BY <1>0, WhatIsRead, WholeFile
<1>1. CASE Check(f)
  <2>1. CASE Aborted(f)
    BY <1>1, <2>1, AbortedKeeps DEF Check, At, Moving
  <2>2. CASE ~Aborted(f)
    <3>1. mover'[f].pc = "open" /\ mover'[f].signal = mover[f].signal
      BY <1>0, <1>1, <2>2, CallAfter DEF Check
    <3> QED
      BY <1>0, <1>1, <2>2, <3>1 DEF Check, PartIsPrefix, DestIsNothingOrAll, CallIsLive, Moving, Placing, At, Absent, Whole
  <2> QED
    BY <2>1, <2>2
<1>2. CASE Open(f) /\ UNCHANGED swallowed
  <2>1. CASE f \notin seeded /\ Over(f, "placed") /\ dest' = Whole(f) /\ src' = [src EXCEPT ![f] = "gone"]
    <3>1. mover'[f] = Idle /\ last'[f] = "placed" /\ dest' = Whole(f)'
      BY <1>0, <2>1, CallAfter DEF Whole
    <3>2. dest' # Absent /\ Len(dest') = Size[f]
      BY <1>0, <2>1, WholeFile, MoveConstants DEF Whole
    <3> QED
      BY <1>0, <1>2, <2>1, <3>1, <3>2 DEF Open, PartIsPrefix, DestIsNothingOrAll, CallIsLive, Moving, Placing, At, Idle, Absent
  <2>2. CASE Over(f, "failed") /\ UNCHANGED <<dest, src>>
    <3>1. mover'[f] = Idle /\ last'[f] = "failed"
      BY <1>0, <2>2, CallAfter
    <3> QED
      BY <1>0, <1>2, <2>2, <3>1 DEF Open, PartIsPrefix, DestIsNothingOrAll, CallIsLive, Moving, Placing, At, Idle, Absent, Whole
  <2>3. CASE Goto(f, "stream") /\ UNCHANGED <<dest, src, last>>
    <3>1. mover'[f].pc = "stream" /\ mover'[f].signal = mover[f].signal
      BY <1>0, <2>3, CallAfter
    <3> QED
      BY <1>0, <1>2, <2>3, <3>1 DEF Open, PartIsPrefix, DestIsNothingOrAll, CallIsLive, Moving, Placing, At, Absent, Whole
  <2> QED
    BY <1>2, <2>1, <2>2, <2>3 DEF Open
<1>3. CASE Stream(f)
  <2>1. PICK from \in 0..Total(f) :
          /\ ResumesAt(f, from)
          /\ \/ from = Total(f) /\ Goto(f, "commit") /\ UNCHANGED last
             \/ from < Total(f) /\ mover' = [mover EXCEPT ![f] = [@ EXCEPT !.pc = "copy", !.pos = from]]
                               /\ UNCHANGED last
             \/ Over(f, "failed")
    BY <1>3 DEF Stream
  <2>2. ("stat" \notin swallowed' => "stat" \notin swallowed /\ UNCHANGED <<part, swallowed>> /\ from = Len(part))
    BY <1>0, <1>a, <2>1 DEF ResumesAt, Removes, PartIsPrefix
  <2>3. from \in Nat /\ At(f, "stream") /\ UNCHANGED <<src, temp, dest, asked>>
    <3>1. from \in Nat
      BY <1>a, <2>1
    <3> QED
      BY <1>3, <3>1 DEF Stream
  <2>4. /\ mover'[f].pc = "copy" => mover'[f].pos = from
        /\ mover'[f].pc \in {"commit", "copy", "idle"}
        /\ mover'[f].pc = "idle" => mover'[f] = Idle
        /\ mover'[f].pc # "idle" => mover'[f].signal = mover[f].signal
        /\ last'[f] \in {last[f], "failed"}
    <3>1. CASE Goto(f, "commit") /\ UNCHANGED last
      BY <1>0, <3>1, CallAfter
    <3>2. CASE mover' = [mover EXCEPT ![f] = [@ EXCEPT !.pc = "copy", !.pos = from]] /\ UNCHANGED last
      BY <1>0, <2>3, <3>2, Resuming DEF MoveType
    <3>3. CASE Over(f, "failed")
      BY <1>0, <3>3, CallAfter DEF Idle
    <3> QED
      BY <2>1, <3>1, <3>2, <3>3
  <2>5. PartIsPrefix(f)'
    BY <1>0, <2>2, <2>4 DEF PartIsPrefix, At
  <2>6. DestIsNothingOrAll(f)'
    BY <1>0, <2>2, <2>3, <2>4 DEF DestIsNothingOrAll, CallIsLive, Moving, Placing, At, Absent, Whole
  <2> QED
    BY <1>0, <2>3, <2>4, <2>5, <2>6 DEF CallIsLive, Moving, Placing, At, Idle
<1>4. CASE Copy(f)
  <2>1. CASE Aborted(f)
    BY <1>4, <2>1, AbortedKeeps DEF Copy, At, Moving
  <2>2. CASE Appends(f)
    <3> DEFINE next == Content(f)[mover[f].pos + 1]
    <3>1. next \in Files \X Nat /\ mover[f].pos < Size[f] /\ mover[f].pos \in Nat
      BY <1>0, <1>4, <1>a, ContentIsTyped DEF Copy, MoveType, TypeOK
    <3>2. /\ Len(part') = Len(part) + 1 /\ Len(part) \in Nat
          /\ \A i \in 1..Len(part') : part'[i] = IF i <= Len(part) THEN part[i] ELSE next
      BY <1>0, <2>2, <3>1 DEF Appends, MoveType, TypeOK
    <3>3. /\ mover'[f].pc = "copy" /\ mover'[f].pos = mover[f].pos + 1
          /\ mover'[f].signal = mover[f].signal
      BY <1>0, <1>4, <2>2 DEF Copy, Appends, At, MoveType, Call
    <3>4. ASSUME "stat" \notin swallowed'
          PROVE  /\ Len(part') <= Size[f] /\ mover'[f].pos = Len(part')
                 /\ \A i \in 1..Len(part') : part'[i] = <<f, i>>
      <4>1. /\ Len(part) <= Size[f] /\ \A i \in 1..Len(part) : part[i] = <<f, i>>
            /\ mover[f].pos = Len(part) /\ "stat" \notin swallowed
        BY <1>0, <1>4, <2>2, <3>4 DEF Appends, Copy, PartIsPrefix
      <4>2. next = <<f, Len(part) + 1>>
        BY <1>a, <3>1, <3>2, <4>1 DEF Whole
      <4>3. ASSUME NEW i \in 1..Len(part') PROVE part'[i] = <<f, i>>
        BY <3>2, <4>1, <4>2
      <4> QED
        BY <1>a, <3>1, <3>2, <3>3, <4>1, <4>3
    <3>5. PartIsPrefix(f)'
      BY <3>3, <3>4 DEF PartIsPrefix, At
    <3> QED
      BY <1>0, <1>4, <2>2, <3>3, <3>5 DEF Copy, Appends, DestIsNothingOrAll, CallIsLive, Moving, Placing, At, Absent, Whole
  <2> QED
    BY <1>4, <2>1, <2>2 DEF Copy
<1>5. CASE CopyFails(f) /\ UNCHANGED swallowed
  <2>1. mover'[f] = Idle /\ last'[f] = "failed"
    BY <1>0, <1>5, CallAfter DEF CopyFails
  <2> QED
    BY <1>0, <1>5, <2>1 DEF CopyFails, PartIsPrefix, DestIsNothingOrAll, CallIsLive, Moving, Placing, At, Idle, Absent, Whole, disk
<1>6. CASE CopyEnds(f) /\ UNCHANGED swallowed
  <2>1. mover'[f].pc = "commit" /\ mover'[f].signal = mover[f].signal
    BY <1>0, <1>6, CallAfter DEF CopyEnds
  <2> QED
    BY <1>0, <1>6, <2>1 DEF CopyEnds, PartIsPrefix, DestIsNothingOrAll, CallIsLive, Moving, Placing, At, Absent, Whole, disk
<1>7. CASE Commit(f)
  <2>1. CASE Len(part) = Total(f) /\ Goto(f, "rename") /\ UNCHANGED <<part, last, swallowed>>
    <3>1. mover'[f].pc = "rename" /\ mover'[f].signal = mover[f].signal
      BY <1>0, <2>1, CallAfter
    <3> QED
      BY <1>0, <1>a, <1>7, <2>1, <3>1 DEF Commit, PartIsPrefix, DestIsNothingOrAll, CallIsLive, Moving, Placing, At, Absent, Whole
  <2>2. CASE Over(f, "failed") /\ (UNCHANGED <<part, swallowed>> \/ (Len(part) > Total(f) /\ Removes))
    <3>1. mover'[f] = Idle /\ last'[f] = "failed"
      BY <1>0, <2>2, CallAfter
    <3>2. "stat" \notin swallowed' => "stat" \notin swallowed /\ part' = part
      BY <1>0, <1>a, <2>2 DEF Removes, PartIsPrefix, MoveType, TypeOK
    <3>3. PartIsPrefix(f)'
      BY <1>0, <3>1, <3>2 DEF PartIsPrefix, At, Idle
    <3> QED
      BY <1>0, <1>7, <3>1, <3>2, <3>3 DEF Commit, DestIsNothingOrAll, CallIsLive, Moving, Placing, At, Idle, Absent, Whole
  <2> QED
    BY <1>7, <2>1, <2>2 DEF Commit
<1>8. CASE Rename(f) /\ UNCHANGED swallowed
  <2>1. CASE dest' = part /\ part' = Absent /\ Goto(f, "finish") /\ UNCHANGED last
    <3>1. Len(part) = Size[f] /\ part # Absent /\ ("stat" \notin swallowed => part = Whole(f))
      BY <1>0, <1>8, WholeFile DEF Rename, PartIsPrefix, MoveType, TypeOK
    <3>2. mover'[f].pc = "finish" /\ mover'[f].signal = mover[f].signal
      BY <1>0, <2>1, CallAfter
    <3>3. PartIsPrefix(f)'
      BY <1>0, <2>1, <3>2, WholeFile DEF PartIsPrefix, At, Absent
    <3>4. DestIsNothingOrAll(f)'
      BY <1>0, <1>8, <2>1, <3>1, <3>2 DEF Rename, DestIsNothingOrAll, Absent, Whole
    <3> QED
      BY <1>0, <1>8, <2>1, <3>2, <3>3, <3>4 DEF Rename, CallIsLive, Moving, Placing, At
  <2>2. CASE Over(f, "failed") /\ UNCHANGED <<part, dest>>
    <3>1. mover'[f] = Idle /\ last'[f] = "failed"
      BY <1>0, <2>2, CallAfter
    <3> QED
      BY <1>0, <1>8, <2>2, <3>1 DEF Rename, PartIsPrefix, DestIsNothingOrAll, CallIsLive, Moving, Placing, At, Idle, Absent, Whole
  <2> QED
    BY <1>8, <2>1, <2>2 DEF Rename
<1> QED
  BY <1>1, <1>2, <1>3, <1>4, <1>5, <1>6, <1>7, <1>8

\* And after it, or after a cancellation.
LEMMA PlacedKeeps ==
  ASSUME NEW f, Files = {f}, MoveInv, MoveType', UNCHANGED <<seeded, swallowed>>,
         Finish(f) \/ Link(f) \/ Relink(f) \/ Note(f) \/ Drop(f) \/ RemoveWork(f)
  PROVE  MoveInv'
<1>0. f \in Files /\ MoveType /\ PartIsPrefix(f) /\ DestIsNothingOrAll(f) /\ CallIsLive(f)
  BY DEF MoveInv
<1>a. src \in [Files -> {"file", "link", "gone"}]
  BY <1>0 DEF MoveType, TypeOK
<1> SUFFICES PartIsPrefix(f)' /\ DestIsNothingOrAll(f)' /\ CallIsLive(f)'
  BY DEF MoveInv
<1>b. ASSUME Over(f, "placed") PROVE mover'[f] = Idle /\ last'[f] = "placed"
  BY <1>0, <1>b, CallAfter
<1>c. ASSUME NEW pc, Goto(f, pc) PROVE mover'[f].pc = pc /\ mover'[f].signal = mover[f].signal
  BY <1>0, <1>c, CallAfter
<1>1. CASE Finish(f)
  <2>1. CASE Over(f, "placed")
    BY <1>0, <1>a, <1>b, <1>1, <2>1 DEF Finish, PartIsPrefix, DestIsNothingOrAll, CallIsLive, Moving, Placing, At, Idle, Absent, Whole
  <2>2. CASE f \in seeded /\ Goto(f, "link") /\ UNCHANGED <<src, last>>
    BY <1>0, <1>c, <1>1, <2>2 DEF Finish, PartIsPrefix, DestIsNothingOrAll, CallIsLive, Moving, Placing, At, Absent, Whole
  <2> QED
    BY <1>1, <2>1, <2>2 DEF Finish
<1>2. CASE Link(f)
  <2>1. CASE Over(f, "placed")
    BY <1>0, <1>b, <1>2, <2>1 DEF Link, PartIsPrefix, DestIsNothingOrAll, CallIsLive, Moving, Placing, At, Idle, Absent, Whole
  <2>2. CASE Goto(f, "relink") /\ UNCHANGED last
    BY <1>0, <1>c, <1>2, <2>2 DEF Link, PartIsPrefix, DestIsNothingOrAll, CallIsLive, Moving, Placing, At, Absent, Whole
  <2> QED
    BY <1>2, <2>1, <2>2 DEF Link
<1>3. CASE Relink(f)
  <2>1. CASE Over(f, "placed") /\ UNCHANGED src
    BY <1>0, <1>b, <1>3, <2>1 DEF Relink, PartIsPrefix, DestIsNothingOrAll, CallIsLive, Moving, Placing, At, Idle, Absent, Whole
  <2>2. CASE src' = [src EXCEPT ![f] = "link"] /\ Goto(f, "note") /\ UNCHANGED last
    BY <1>0, <1>a, <1>c, <1>3, <2>2 DEF Relink, PartIsPrefix, DestIsNothingOrAll, CallIsLive, Moving, Placing, At, Absent, Whole
  <2> QED
    BY <1>3, <2>1, <2>2 DEF Relink
<1>4. CASE Note(f)
  BY <1>0, <1>b, <1>4 DEF Note, PartIsPrefix, DestIsNothingOrAll, CallIsLive, Moving, Placing, At, Idle, Absent, Whole, disk
<1>5. CASE Drop(f)
  <2>1. mover'[f].pc = "remove" /\ last'[f] = "cancelled" /\ f \notin seeded
    BY <1>0, <1>c, <1>5 DEF Drop, CancelRow, MoveType, TypeOK, CallIsLive, At
  <2> QED
    BY <1>0, <1>5, <2>1 DEF Drop, CancelRow, PartIsPrefix, DestIsNothingOrAll, CallIsLive, Moving, Placing, At, Absent, Whole, disk
<1>6. CASE RemoveWork(f)
  <2>1. mover'[f] = Idle /\ last'[f] = "cancelled" /\ f \notin seeded
    BY <1>0, <1>6, CallAfter DEF RemoveWork, CallIsLive, At
  <2> QED
    BY <1>0, <1>a, <1>6, <2>1 DEF RemoveWork, PartIsPrefix, DestIsNothingOrAll, CallIsLive, Moving, Placing, At, Idle, Absent, Whole
<1> QED
  BY <1>1, <1>2, <1>3, <1>4, <1>5, <1>6

LEMMA NextMove ==
  ASSUME NEW f, Files = {f}, MoveInv, [Next]_vars
  PROVE  MoveInv'
<1>1. MoveType'
  BY TypeKeeps DEF MoveInv
<1>2. CASE Next
  BY <1>1, <1>2, RequestKeeps, MovingKeeps, PlacedKeeps DEF Next, MoveStep
<1>3. CASE UNCHANGED vars
  BY <1>1, <1>3 DEF vars, disk, MoveInv, PartIsPrefix, DestIsNothingOrAll, CallIsLive, Moving, Placing, At, Absent, Whole
<1> QED
  BY <1>2, <1>3

-----------------------------------------------------------------------------
(* One file: what the move promises.                                       *)

LEMMA Invariance == ASSUME NEW f, Files = {f} PROVE Spec => []MoveInv
<1>1. Init => MoveInv
  BY InitMove
<1>2. MoveInv /\ [Next]_vars => MoveInv'
  BY NextMove
<1> QED
  BY <1>1, <1>2, PTL DEF Spec

\* A file that a torrent client still seeds can be read at its path at every
\* instant: through linking, its failures and crashes between its steps.
THEOREM SeedStaysReadable == ASSUME NEW f, Files = {f} PROVE Spec => []SeedReadable
<1>1. MoveInv => SeedReadable
  BY DEF MoveInv, MoveType, TypeOK, DestIsNothingOrAll, CallIsLive, SeedReadable
<1> QED
  BY <1>1, Invariance, PTL

\* What is seen under the final name has the length of the file, and is the file
\* unless the length of its partial could not be read once.
THEOREM WholeOrAbsent == ASSUME NEW f, Files = {f} PROVE Spec => []OnlyAMisreadTears
<1>1. MoveInv => OnlyAMisreadTears
  BY DEF MoveInv, DestIsNothingOrAll, DestIsWhole, OnlyAMisreadTears
<1> QED
  BY <1>1, Invariance, PTL

\* The row of a cancelled move is written by its own cancellation, once the
\* partial is gone or could not be removed, or by a request that finds no call.
LEMMA CancelledWhenEmpty ==
  ASSUME NEW f, Files = {f}, MoveInv, Next,
         mover[f].signal = "cancel", last[f] # "cancelled", last'[f] = "cancelled"
  PROVE  part' = Absent \/ "unlink" \in swallowed'
<1>0. f \in Files /\ MoveType /\ PartIsPrefix(f) /\ CallIsLive(f)
  BY DEF MoveInv
<1>1. ASSUME NEW how, Over(f, how), how # "cancelled" PROVE FALSE
  BY <1>0, <1>1, CallAfter
<1>2. CASE Drop(f) /\ UNCHANGED swallowed
  BY <1>0, <1>2 DEF Drop, CancelRow, disk, PartIsPrefix, Absent
<1>3. CASE RemoveWork(f)
  BY <1>0, <1>3 DEF RemoveWork, CallIsLive
<1>4. CASE Discard(f)
  BY <1>0, <1>4 DEF Discard, CallIsLive, Idle
<1>5. CASE Ask(f) \/ Crash \/ \E why \in {"pause", "cancel"} : Stop(f, why)
  BY <1>5 DEF Ask, Crash, Stop
<1>6. CASE MoveStep(f) /\ ~Drop(f) /\ ~RemoveWork(f)
  BY <1>1, <1>6 DEF MoveStep, Check, Aborted, Open, Stream, Copy, Appends, CopyFails, CopyEnds,
     Commit, Rename, Finish, Link, Relink, Note
<1>7. MoveStep(f) => ~(Drop(f) \/ RemoveWork(f)) \/ (Drop(f) /\ UNCHANGED swallowed) \/ RemoveWork(f)
  BY DEF MoveStep, Drop, Check, Stream, Copy, Commit, At
<1> QED
  BY <1>0, <1>2, <1>3, <1>4, <1>5, <1>6, <1>7 DEF Next

\* A copy that goes on does so where the partial ends, or a length was misread.
LEMMA ResumedWhereItEnded ==
  ASSUME NEW f, Files = {f}, MoveInv, Next, mover[f].pc = "stream", mover'[f].pc = "copy"
  PROVE  \/ "stat" \in swallowed' /\ mover'[f].pos = 0
         \/ part' = part /\ mover'[f].pos = Len(part)
<1>0. f \in Files /\ MoveType /\ PartIsPrefix(f) /\ DestIsNothingOrAll(f)
  BY DEF MoveInv
<1>1. CASE Stream(f)
  <2>1. PICK from \in 0..Total(f) :
          /\ ResumesAt(f, from)
          /\ \/ from = Total(f) /\ Goto(f, "commit") /\ UNCHANGED last
             \/ from < Total(f) /\ mover' = [mover EXCEPT ![f] = [@ EXCEPT !.pc = "copy", !.pos = from]]
                               /\ UNCHANGED last
             \/ Over(f, "failed")
    BY <1>1 DEF Stream
  <2>2. Total(f) = Size[f] /\ from \in Nat
    BY <1>0, <2>1, WhatIsRead, WholeFile
  <2>3. mover'[f].pos = from
    <3>1. CASE Goto(f, "commit")
      BY <1>0, <3>1, CallAfter
    <3>2. CASE Over(f, "failed")
      BY <1>0, <3>2, CallAfter DEF Idle
    <3>3. CASE mover' = [mover EXCEPT ![f] = [@ EXCEPT !.pc = "copy", !.pos = from]]
      BY <1>0, <2>2, <3>3, Resuming DEF MoveType
    <3> QED
      BY <2>1, <3>1, <3>2, <3>3
  <2>4. CASE Len(part) > Total(f)
    <3>1. "stat" \in swallowed
      BY <1>0, <2>2, <2>4, WholeFile DEF PartIsPrefix, MoveType, TypeOK
    <3>2. from = 0 /\ "stat" \in swallowed'
      BY <1>0, <2>1, <2>2, <2>4, <3>1, WholeFile DEF ResumesAt, Removes, MoveType, TypeOK
    <3> QED
      BY <2>3, <3>2
  <2>5. CASE ~(Len(part) > Total(f))
    BY <2>1, <2>3, <2>5 DEF ResumesAt
  <2> QED
    BY <2>4, <2>5
<1>2. CASE Crash
  BY <1>0, <1>2 DEF Crash, Idle
<1>3. CASE Ask(f) \/ Discard(f) \/ \E why \in {"pause", "cancel"} : Stop(f, why)
  <2>1. Ask(f) \/ Discard(f) => FALSE
    BY DEF Ask, Discard, At
  <2>2. ASSUME NEW why \in {"pause", "cancel"}, Stop(f, why) PROVE FALSE
    BY <1>0, <2>2 DEF Stop, MoveType, Call
  <2> QED
    BY <1>3, <2>1, <2>2
<1>4. CASE MoveStep(f) /\ ~Stream(f)
  BY <1>4 DEF MoveStep, At, Check, Open, Copy, CopyFails, CopyEnds,
     Commit, Rename, Finish, Link, Relink, Note, Drop, RemoveWork
<1> QED
  BY <1>0, <1>1, <1>2, <1>3, <1>4 DEF Next

\* _aborted and _resumeOffset: however pauses, cancellations, crashes and retries
\* alternate, a resumed copy goes on from the byte the last one reached, and a
\* move cancelled while it ran leaves no partial behind, but for a length that
\* could not be read and a removal that failed.
THEOREM StopsHonoured == ASSUME NEW film, Files = {film} PROVE Spec => StopsAreHonoured
<1>1. MoveInv /\ [Next]_vars =>
        [\A f \in Files : mover[f].pc = "stream" /\ mover'[f].pc = "copy" =>
            \/ "stat" \in swallowed' /\ mover'[f].pos = 0
            \/ part' = part /\ mover'[f].pos = Len(part)]_vars
  BY ResumedWhereItEnded
<1>2. MoveInv /\ [Next]_vars =>
        [\A f \in Files : mover[f].signal = "cancel" /\ last[f] # "cancelled" /\ last'[f] = "cancelled"
           => part' = Absent \/ "unlink" \in swallowed']_vars
  BY CancelledWhenEmpty
<1>3. Spec => []MoveInv
  BY Invariance
<1> QED
  BY <1>1, <1>2, <1>3, PTL DEF Spec, StopsAreHonoured, ResumeKeepsBytes, CancelledMoveLeavesNothing

-----------------------------------------------------------------------------
(* One file: FileMove implements AtomicPlacement.                          *)

Kept == {f \in Files : src[f] = "file"}
Dropped == {f \in Files : last[f] = "cancelled"}

Doubted == "stat" \in swallowed

\* What the library sees of one file.
LEMMA View ==
  ASSUME NEW film, Files = {film}, MoveInv
  PROVE  /\ Shelf = IF dest = Absent THEN "nothing" ELSE IF dest = Whole(film) THEN film ELSE "torn"
         /\ Kept = IF src[film] = "file" THEN {film} ELSE {}
         /\ Dropped = IF last[film] = "cancelled" THEN {film} ELSE {}
<1>1. film \in Files
  OBVIOUS
<1>2. dest # Absent => (DestIsWhole <=> dest = Whole(film))
  BY DEF DestIsWhole
<1>3. dest = Whole(film) => (CHOOSE f \in Files : dest = Whole(f)) = film
  OBVIOUS
<1> QED
  BY <1>1, <1>2, <1>3 DEF Shelf, Kept, Dropped

LEMMA ViewNext ==
  ASSUME NEW film, Files = {film}, MoveInv'
  PROVE  /\ Shelf' = IF dest' = Absent THEN "nothing" ELSE IF dest' = Whole(film) THEN film ELSE "torn"
         /\ Kept' = IF src'[film] = "file" THEN {film} ELSE {}
         /\ Dropped' = IF last'[film] = "cancelled" THEN {film} ELSE {}
<1>1. film \in Files
  OBVIOUS
<1>2. dest' # Absent => (DestIsWhole' <=> dest' = Whole(film))
  BY DEF DestIsWhole, Absent, Whole
<1>3. dest' = Whole(film) => (CHOOSE f \in Files : dest' = Whole(f)) = film
  BY DEF Whole
<1> QED
  BY <1>1, <1>2, <1>3 DEF Shelf, Kept, Dropped, Absent, Whole

LEMMA StepRefines ==
  ASSUME NEW film, Files = {film}, MoveInv, MoveInv', [Next]_vars
  PROVE  [Promise!Next]_<<Shelf, Kept, Dropped, Doubted>>
<1>0. /\ film \in Files /\ MoveType /\ PartIsPrefix(film) /\ DestIsNothingOrAll(film) /\ CallIsLive(film)
      /\ src \in [Files -> {"file", "link", "gone"}] /\ last \in [Files -> Ends]
      /\ DestIsNothingOrAll(film)'
  BY DEF MoveInv, MoveType, TypeOK
<1> DEFINE Quiet == /\ UNCHANGED <<dest, src>>
                    /\ last'[film] = "cancelled" <=> last[film] = "cancelled"
<1>1. ASSUME Promise!Publish(film) \/ Promise!Release(film) \/ Promise!Cancel(film)
      PROVE  [Promise!Next]_<<Shelf, Kept, Dropped, Doubted>>
  BY <1>0, <1>1 DEF Promise!Next, Doubted
<1>a. dest # Absent => Shelf = film \/ (Doubted /\ Shelf = "torn")
  BY <1>0, View DEF DestIsNothingOrAll, Doubted
<1>b. dest' # Absent => Shelf' = film \/ (Doubted' /\ Shelf' = "torn")
  BY <1>0, ViewNext DEF DestIsNothingOrAll, Doubted, Absent, Whole
<1>c. UNCHANGED dest => UNCHANGED Shelf
  BY View, ViewNext
<1>d. /\ UNCHANGED src => UNCHANGED Kept
      /\ (last'[film] = "cancelled" <=> last[film] = "cancelled") => UNCHANGED Dropped
      /\ src'[film] # "file" => Kept' = Kept \ {film}
      /\ last'[film] = "cancelled" => Dropped' = Dropped \cup {film}
      /\ (film \in Kept <=> src[film] = "file") /\ (film \in Dropped <=> last[film] = "cancelled")
  BY View, ViewNext
\* A step that places, removes and cancels nothing is not seen; it may be the one
\* that takes up a partial without knowing its length.
<1>2. CASE Quiet
  <2>1. UNCHANGED <<Shelf, Kept, Dropped>>
    BY <1>c, <1>d, <1>2
  <2>2. CASE Doubted' = Doubted
    BY <2>1, <2>2
  <2>3. CASE Doubted' # Doubted
    <3>1. Doubted' = TRUE
      <4>1. swallowed \subseteq swallowed'
        BY <1>0 DEF Next, MoveStep, vars, Check, Aborted, Removes, Stream, ResumesAt, Copy, Appends, Commit
      <4> QED
        BY <2>3, <4>1 DEF Doubted
    <3>2. Promise!Doubt
      BY <2>1, <3>1 DEF Promise!Doubt, Doubted, Kept, Dropped
    <3> QED
      BY <3>2 DEF Promise!Next
  <2> QED
    BY <2>2, <2>3
<1>3. ASSUME NEW how, Over(film, how) PROVE last'[film] = how
  BY <1>0, <1>3, CallAfter
\* A rename, of the source or of its copy, publishes the file.
<1>4. ASSUME dest' # Absent, src[film] # "gone", last[film] # "cancelled", last'[film] # "cancelled",
             Doubted' = Doubted, Kept' \in {Kept, Kept \ {film}}
      PROVE  [Promise!Next]_<<Shelf, Kept, Dropped, Doubted>>
  <2>1. src[film] # "file" => dest # Absent
    BY <1>0, <1>4 DEF DestIsNothingOrAll
  <2>2. film \in Kept \cup {Shelf} \/ (Doubted /\ Shelf = "torn")
    BY <1>a, <1>d, <2>1
  <2>3. film \notin Dropped /\ UNCHANGED Dropped
    BY <1>d, <1>4
  <2>4. Promise!Publish(film)
    BY <1>b, <1>4, <2>2, <2>3 DEF Promise!Publish, Doubted, Kept, Dropped
  <2> QED
    BY <1>1, <2>4
<1>5. CASE Open(film) /\ UNCHANGED swallowed
  <2>0. src[film] # "gone" /\ last[film] # "cancelled" /\ Doubted' = Doubted
    BY <1>0, <1>5 DEF Open, CallIsLive, At, Moving, Doubted
  <2>1. CASE dest' = Whole(film) /\ src' = [src EXCEPT ![film] = "gone"] /\ last'[film] = "placed"
    <3>1. src'[film] # "file" /\ dest' # Absent
      BY <1>0, <2>1, WholeFile
    <3> QED
      BY <1>d, <1>4, <2>0, <2>1, <3>1
  <2>2. CASE Quiet
    BY <1>2, <2>2
  <2> QED
    BY <1>0, <1>3, <1>5, <2>0, <2>1, <2>2 DEF Open
<1>6. CASE Rename(film) /\ UNCHANGED swallowed
  <2>0. src[film] # "gone" /\ last[film] # "cancelled" /\ Doubted' = Doubted /\ src' = src
    BY <1>0, <1>6 DEF Rename, CallIsLive, At, Moving, Doubted
  <2>1. CASE dest' = part /\ UNCHANGED last
    <3>1. dest' # Absent
      BY <1>0, <1>6, <2>1, WholeFile DEF Rename, PartIsPrefix, MoveType, TypeOK
    <3> QED
      BY <1>d, <1>4, <2>0, <2>1, <3>1
  <2>2. CASE Quiet
    BY <1>2, <2>2
  <2> QED
    BY <1>0, <1>3, <1>6, <2>0, <2>1, <2>2 DEF Rename
\* The source goes, or becomes a link, once the file is there or was cancelled.
<1>7. ASSUME dest' = dest, dest # Absent \/ last[film] = "cancelled", src'[film] # "file", UNCHANGED swallowed,
             last'[film] = "cancelled" <=> last[film] = "cancelled"
      PROVE  [Promise!Next]_<<Shelf, Kept, Dropped, Doubted>>
  <2>1. UNCHANGED <<Shelf, Dropped>> /\ Doubted' = Doubted /\ Kept' = Kept \ {film}
    BY <1>c, <1>d, <1>7 DEF Doubted
  <2>2. Shelf = film \/ (Doubted /\ Shelf = "torn") \/ film \in Dropped
    BY <1>a, <1>d, <1>7
  <2>3. Promise!Release(film)
    BY <2>1, <2>2 DEF Promise!Release, Doubted, Kept, Dropped
  <2> QED
    BY <1>1, <2>3
<1>8. CASE (Finish(film) \/ Relink(film)) /\ UNCHANGED swallowed
  <2>1. dest # Absent /\ dest' = dest /\ last[film] # "cancelled" /\ last'[film] # "cancelled"
    BY <1>0, <1>3, <1>8 DEF Finish, Relink, At, DestIsNothingOrAll, CallIsLive, Placing
  <2>2. src' = src \/ src'[film] # "file"
    BY <1>0, <1>8 DEF Finish, Relink
  <2> QED
    BY <1>2, <1>7, <1>8, <2>1, <2>2
\* A cancelled transfer gives up its working file.
<1>9. CASE RemoveWork(film) /\ UNCHANGED swallowed
  <2>1. dest' = dest /\ last[film] = "cancelled" /\ last'[film] = "cancelled"
    BY <1>0, <1>3, <1>9 DEF RemoveWork, CallIsLive
  <2>2. src' = src \/ src'[film] # "file"
    BY <1>0, <1>9 DEF RemoveWork
  <2> QED
    BY <1>2, <1>7, <1>9, <2>1, <2>2
<1>10. CASE (Drop(film) \/ Discard(film)) /\ UNCHANGED swallowed
  <2>1. UNCHANGED <<dest, src>> /\ last'[film] = "cancelled"
    BY <1>0, <1>10 DEF Drop, Discard, CancelRow, disk
  <2>2. Promise!Cancel(film)
    BY <1>c, <1>d, <1>10, <2>1 DEF Promise!Cancel, Doubted, Kept, Dropped
  <2> QED
    BY <1>1, <2>2
\* Everything else works on the partial.
<1>11. CASE \/ Check(film) \/ Stream(film) \/ Copy(film) \/ CopyFails(film) \/ CopyEnds(film)
           \/ Commit(film) \/ Link(film) \/ Note(film)
  <2>1. UNCHANGED <<dest, src>> /\ last[film] # "cancelled"
    BY <1>0, <1>11 DEF Check, Stream, Copy, CopyFails, CopyEnds, Commit, Link, Note, disk, At, CallIsLive, Moving, Placing
  <2>2. last'[film] # "cancelled"
    BY <1>0, <1>3, <1>11, <2>1 DEF Check, Aborted, Stream, Copy, Appends, CopyFails, CopyEnds, Commit, Link, Note
  <2> QED
    BY <1>2, <2>1, <2>2
<1>12. CASE Ask(film) \/ Crash \/ \E why \in {"pause", "cancel"} : Stop(film, why)
  BY <1>2, <1>12 DEF Ask, Crash, Stop, disk
<1>13. CASE UNCHANGED vars
  BY <1>2, <1>13 DEF vars, disk
<1>14. CASE Next
  <2>1. MoveStep(film) \/ ((Ask(film) \/ Discard(film) \/ Crash
                              \/ \E why \in {"pause", "cancel"} : Stop(film, why)) /\ UNCHANGED swallowed)
    BY <1>14 DEF Next
  <2> QED
    BY <2>1, <1>5, <1>6, <1>8, <1>9, <1>10, <1>11, <1>12 DEF MoveStep
<1> QED
  BY <1>13, <1>14

\* A move is an atomic placement: for a file of any length, and however its move
\* is stopped, refused, retried or cut short, the file appears under its final name
\* in one step, whole unless the length of its partial could not be read once, and
\* the bytes it came from go only after that, or after somebody cancelled it.
THEOREM MoveIsAtomic == ASSUME NEW film, Files = {film} PROVE Spec => PlacementIsAtomic
<1>1. Init => Promise!Init
  <2> SUFFICES ASSUME Init PROVE Promise!Init
    OBVIOUS
  <2>1. MoveInv
    BY InitMove
  <2> QED
    BY <2>1, View DEF Init, Promise!Init, Kept, Dropped
<1>2. MoveInv /\ MoveInv' /\ [Next]_vars => [Promise!Next]_<<Shelf, Kept, Dropped, Doubted>>
  BY StepRefines
<1>3. Spec => []MoveInv
  BY Invariance
<1> QED
  BY <1>1, <1>2, <1>3, PTL DEF Spec, PlacementIsAtomic, Promise!Spec, Kept, Dropped, Doubted
=============================================================================
