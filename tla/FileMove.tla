------------------------------ MODULE FileMove ------------------------------
(***************************************************************************)
(* services/file-move.service.ts: a finished file goes to its library path *)
(* by a rename, or across filesystems by a copy beside the destination     *)
(* that can be stopped, resumed and refused, is compared by length and     *)
(* renamed.  The engine moves its working files (and may stop the move);   *)
(* the release manager copies files a torrent client still seeds, and may  *)
(* leave a symlink in their place.                                         *)
(*                                                                         *)
(* All moves here go to one destination, one after the other.  A byte is  *)
(* its file and its position; an absent file has no bytes.  A step ends    *)
(* where the code awaits the filesystem, and each call of it may fail: the *)
(* failures the code swallows are named in `swallowed`.  The text of the   *)
(* notes beside linked files and the free-space figures are left out: the  *)
(* probe may refuse or not.                                                *)
(***************************************************************************)
EXTENDS Integers, Sequences

CONSTANTS
  Files,        \* files on their way to the destination
  Size,         \* their lengths, in copied buffers
  Requests,     \* what may stop a move: "pause", "cancel", "discard", "crash"
  MaxRequests   \* bound on moves asked for and on stops

ASSUME MoveConstants ==
  /\ Size \in [Files -> Nat \ {0}]
  /\ MaxRequests \in Nat

VARIABLES
  seeded,   \* the files a torrent client still seeds: their source is kept
  src,      \* what each source path holds: "file", "link" or "gone"
  temp,     \* source paths with a half-made link beside them
  part,     \* the partial beside the destination
  dest,     \* the file at the destination
  mover,    \* the calls of move in progress
  last,     \* how the last call for a file ended
  asked,    \* requests so far
  swallowed \* failures nobody was told of: "stat" and "unlink" of a partial

disk == <<src, temp, part, dest>>
vars == <<seeded, disk, mover, last, asked, swallowed>>

Whole(f) == [i \in 1..Size[f] |-> <<f, i>>]
Absent   == <<>>
Idle     == [pc |-> "idle", pos |-> 0, signal |-> "none"]
Steps    == {"idle", "check", "open", "stream", "copy", "commit", "rename", "finish",
             "link", "relink", "note", "drop", "remove"}
Ends     == {"none", "paused", "cancelled", "failed", "placed"}

Init ==
  /\ seeded \in SUBSET Files
  /\ src = [f \in Files |-> "file"] /\ temp = {}
  /\ part = Absent /\ dest = Absent
  /\ mover = [f \in Files |-> Idle]
  /\ last = [f \in Files |-> "none"] /\ asked = 0 /\ swallowed = {}

-----------------------------------------------------------------------------
(* One call of move.                                                       *)

At(f, pc) == mover[f].pc = pc
Goto(f, pc) == mover' = [mover EXCEPT ![f].pc = pc]
Over(f, how) == mover' = [mover EXCEPT ![f] = Idle] /\ last' = [last EXCEPT ![f] = how]
Stopped(f) == mover[f].signal # "none"

\* The engine and the release manager call move for a file they have.
Ask(f) ==
  /\ \A g \in Files : At(g, "idle")
  /\ src[f] # "gone" /\ last[f] \notin {"cancelled", "placed"}
  /\ asked < MaxRequests /\ asked' = asked + 1
  /\ Goto(f, "check")
  /\ UNCHANGED <<disk, last>>

\* unlink(partial).catch(() => undefined), to the same end whether it fails or not.
Removes == \/ part' = Absent /\ UNCHANGED swallowed
           \/ part # Absent /\ UNCHANGED part /\ swallowed' = swallowed \cup {"unlink"}

\* Mutant: pausing and cancelling are the same event.
Aborted_KeepsPartial(f) ==
  /\ Stopped(f) /\ UNCHANGED <<part, swallowed>>
  /\ IF mover[f].signal = "cancel" THEN Goto(f, "drop") /\ UNCHANGED last ELSE Over(f, "paused")

\* _aborted: a pause keeps the partial, a cancellation tries to remove it.
Aborted(f) ==
  /\ Stopped(f)
  /\ IF mover[f].signal = "cancel"
     THEN Removes /\ Goto(f, "drop") /\ UNCHANGED last
     ELSE Over(f, "paused") /\ UNCHANGED <<part, swallowed>>

Check(f) ==
  /\ At(f, "check")
  /\ \/ Aborted(f)
     \/ ~Stopped(f) /\ Goto(f, "open") /\ UNCHANGED <<part, last, swallowed>>
  /\ UNCHANGED <<src, temp, dest, asked>>

\* TransferEngineService.cancel: the row says so, then the working file goes.
CancelRow(f) == Goto(f, "remove") /\ last' = [last EXCEPT ![f] = "cancelled"] /\ UNCHANGED disk

\* The engine cancels the transfer whose move was cancelled.
Drop(f) == At(f, "drop") /\ CancelRow(f) /\ UNCHANGED asked

RemoveWork(f) ==
  /\ At(f, "remove") /\ Over(f, "cancelled")
  /\ src' \in {src, [src EXCEPT ![f] = "gone"]}
  /\ UNCHANGED <<temp, part, dest, asked>>

\* A rename where it can be one.  A file to be kept is streamed, and so is one
\* the rename answers EXDEV for; any other answer is a failure.
Open(f) ==
  /\ At(f, "open")
  /\ \/ /\ f \notin seeded /\ Over(f, "placed")
        /\ dest' = Whole(f) /\ src' = [src EXCEPT ![f] = "gone"]
     \/ Over(f, "failed") /\ UNCHANGED <<dest, src>>
     \/ Goto(f, "stream") /\ UNCHANGED <<dest, src, last>>
  /\ UNCHANGED <<temp, part, asked>>

\* What reading the source gives; a link leads to what was placed.
Content(f) == IF src[f] = "link" THEN dest ELSE Whole(f)
Total(f) == Len(Content(f))

\* Where the copy goes on: at the end of the partial, or at 0 when a failed stat
\* of it reads as an empty one (the write appends to it all the same).  A partial
\* longer than the source belongs to another file; its removal may fail too.
ResumesAt(f, from) ==
  \/ Len(part) <= Total(f) /\ from = Len(part) /\ UNCHANGED <<part, swallowed>>
  \/ Len(part) > Total(f) /\ from = 0 /\ Removes
  \/ part # Absent /\ from = 0 /\ UNCHANGED part /\ swallowed' = swallowed \cup {"stat"}

\* _stream: a complete partial only has to be committed; what is missing may not
\* fit, and the source may be unreadable.
Stream(f) ==
  /\ At(f, "stream")
  /\ \E from \in 0..Total(f) :
       /\ ResumesAt(f, from)
       /\ \/ from = Total(f) /\ Goto(f, "commit") /\ UNCHANGED last
          \/ from < Total(f) /\ mover' = [mover EXCEPT ![f] = [@ EXCEPT !.pc = "copy", !.pos = from]]
                            /\ UNCHANGED last
          \/ Over(f, "failed")
  /\ UNCHANGED <<src, temp, dest, asked>>

\* One buffer of the source goes to the end of the partial.
Appends(f) ==
  /\ ~Stopped(f)
  /\ part' = Append(part, Content(f)[mover[f].pos + 1])
  /\ mover' = [mover EXCEPT ![f].pos = @ + 1]
  /\ UNCHANGED <<last, swallowed>>

\* _copy: the signal is looked at before each buffer.
Copy(f) ==
  /\ At(f, "copy") /\ mover[f].pos < Total(f)
  /\ Aborted(f) \/ Appends(f)
  /\ UNCHANGED <<src, temp, dest, asked>>

\* The source or the destination fails: a full disk keeps its partial.
CopyFails(f) ==
  /\ At(f, "copy") /\ Over(f, "failed")
  /\ UNCHANGED <<disk, asked>>

\* Everything was read.  A destination may have stopped taking bytes unnoticed.
CopyEnds(f) ==
  /\ At(f, "copy") /\ Goto(f, "commit")
  /\ UNCHANGED <<disk, last, asked>>

\* Mutant: a copy that ended without an error is taken for a complete one.
Commit_Trusts(f) ==
  /\ At(f, "commit") /\ Goto(f, "rename")
  /\ UNCHANGED <<disk, last, asked, swallowed>>

\* Mutant: the source is removed before the copy has its final name.
Commit_DropsSource(f) ==
  /\ At(f, "commit") /\ Len(part) = Total(f)
  /\ src' = IF f \in seeded THEN src ELSE [src EXCEPT ![f] = "gone"]
  /\ Goto(f, "rename")
  /\ UNCHANGED <<temp, part, dest, last, asked, swallowed>>

\* Mutant: a short copy is resumed at once, as often as it takes.
Commit_Retries(f) ==
  /\ At(f, "commit") /\ Goto(f, IF Len(part) = Total(f) THEN "rename" ELSE "stream")
  /\ UNCHANGED <<disk, last, asked, swallowed>>

\* _commit compares the lengths: a short partial is kept, and so is one whose
\* stat fails; a long one is dropped.
Commit(f) ==
  /\ At(f, "commit")
  /\ \/ Len(part) = Total(f) /\ Goto(f, "rename") /\ UNCHANGED <<part, last, swallowed>>
     \/ Over(f, "failed") /\ UNCHANGED <<part, swallowed>>
     \/ Len(part) > Total(f) /\ Over(f, "failed") /\ Removes
  /\ UNCHANGED <<src, temp, dest, asked>>

\* The rename, which may fail.
Rename(f) ==
  /\ At(f, "rename")
  /\ \/ dest' = part /\ part' = Absent /\ Goto(f, "finish") /\ UNCHANGED last
     \/ Over(f, "failed") /\ UNCHANGED <<part, dest>>
  /\ UNCHANGED <<src, temp, asked>>

\* The source goes last, and a failure to remove it is swallowed.  A seeded one
\* stays, or becomes a link when the settings ask for links.
Finish(f) ==
  /\ At(f, "finish")
  /\ \/ f \notin seeded /\ src' \in {src, [src EXCEPT ![f] = "gone"]} /\ Over(f, "placed")
     \/ f \in seeded /\ Over(f, "placed") /\ UNCHANGED src
     \/ f \in seeded /\ Goto(f, "link") /\ UNCHANGED <<src, last>>
  /\ UNCHANGED <<temp, part, dest, asked>>

\* Mutant: the source makes way for its link first.
Link_UnlinksFirst(f) ==
  /\ At(f, "link")
  /\ src' = [src EXCEPT ![f] = "gone"] /\ temp' = temp \cup {f}
  /\ Goto(f, "relink")
  /\ UNCHANGED <<part, dest, last, asked>>

\* The link is made beside the source.  A source that is a link already is left
\* alone; a leftover of an earlier attempt makes it fail, and is swept up or not.
Link(f) ==
  /\ At(f, "link")
  /\ \/ src[f] = "file" /\ f \notin temp /\ temp' = temp \cup {f} /\ Goto(f, "relink") /\ UNCHANGED last
     \/ src[f] = "link" /\ Over(f, "placed") /\ UNCHANGED temp
     \/ src[f] = "file" /\ Over(f, "placed") /\ temp' \in {temp, temp \ {f}}
  /\ UNCHANGED <<src, part, dest, asked>>

\* And renamed over it, or swept up.
Relink(f) ==
  /\ At(f, "relink")
  /\ \/ src' = [src EXCEPT ![f] = "link"] /\ temp' = temp \ {f} /\ Goto(f, "note") /\ UNCHANGED last
     \/ Over(f, "placed") /\ temp' \in {temp, temp \ {f}} /\ UNCHANGED src
  /\ UNCHANGED <<part, dest, asked>>

\* _witness: a note beside the library file; its failure is swallowed.
Note(f) == At(f, "note") /\ Over(f, "placed") /\ UNCHANGED <<disk, asked>>

-----------------------------------------------------------------------------
(* What happens to it.                                                     *)

Asked(op) == op \in Requests /\ asked < MaxRequests /\ asked' = asked + 1

\* The engine aborts the signal of a run; the release manager gives none.
Stop(f, why) ==
  /\ Asked(why) /\ f \notin seeded /\ ~Stopped(f)
  /\ mover[f].pc \notin {"idle", "drop", "remove"}
  /\ mover' = [mover EXCEPT ![f].signal = why]
  /\ UNCHANGED <<disk, last>>

\* Somebody cancels a transfer that is not running: the working file goes,
\* nobody looks for a partial in the library.
Discard(f) ==
  /\ Asked("discard") /\ f \notin seeded
  /\ \A g \in Files : At(g, "idle")
  /\ last[f] \in {"paused", "failed"} /\ CancelRow(f)

\* The process dies; the filesystem stays as it is.
Crash ==
  /\ Asked("crash")
  /\ mover' = [f \in Files |-> Idle]
  /\ UNCHANGED <<disk, last>>

MoveStep(f) ==
  \/ Check(f) \/ Stream(f) \/ Copy(f) \/ Commit(f)
  \/ /\ \/ Open(f) \/ CopyFails(f) \/ CopyEnds(f) \/ Rename(f) \/ Finish(f)
        \/ Link(f) \/ Relink(f) \/ Note(f) \/ Drop(f) \/ RemoveWork(f)
     /\ UNCHANGED swallowed

Next ==
  /\ \/ \E f \in Files : MoveStep(f)
     \/ /\ \/ \E f \in Files : Ask(f) \/ Discard(f)
           \/ \E f \in Files, why \in {"pause", "cancel"} : Stop(f, why)
           \/ Crash
        /\ UNCHANGED swallowed
  /\ UNCHANGED seeded

Spec == Init /\ [][Next]_vars
\* Every filesystem call answers or fails.
FairSpec == Spec /\ \A f \in Files : WF_vars(MoveStep(f) /\ UNCHANGED seeded)

-----------------------------------------------------------------------------
(* Properties.                                                             *)

\* Shape of the state.
TypeOK ==
  /\ seeded \subseteq Files
  /\ src \in [Files -> {"file", "link", "gone"}] /\ temp \subseteq Files
  /\ part \in Seq(Files \X Nat) /\ dest \in Seq(Files \X Nat)
  /\ \A f \in Files : /\ mover[f].pc \in Steps /\ mover[f].pos \in Nat
                      /\ mover[f].signal \in {"none", "pause", "cancel"}
  /\ last \in [Files -> Ends] /\ asked \in 0..MaxRequests /\ swallowed \subseteq {"stat", "unlink"}

\* What a media server can see under the final name is a whole file.
DestIsWhole == dest # Absent => \E f \in Files : dest = Whole(f)

\* Unless the length of a partial could not be read: then the copy appended to it
\* from the start, and a stop at the source's length left what _commit takes for
\* a complete copy.  The length is right even then.
OnlyAMisreadTears ==
  /\ dest # Absent => \E f \in Files : Len(dest) = Size[f]
  /\ DestIsWhole \/ "stat" \in swallowed

\* A seeded file's path holds the file or a link that leads to it, at every instant;
\* after a misread the link may lead to a torn copy, never to nothing.
SeedReadable ==
  \A f \in seeded :
    \/ src[f] = "file"
    \/ src[f] = "link" /\ Len(dest) = Size[f] /\ (dest = Whole(f) \/ "stat" \in swallowed)

\* A resumed copy goes on from the byte it reached, and what was copied is kept
\* while somebody may still come back for it; a length that could not be read is
\* the one thing that makes it begin anew (and append).
ResumeKeepsBytes ==
  [][\A f \in Files : mover[f].pc = "stream" /\ mover'[f].pc = "copy" =>
       \/ "stat" \in swallowed' /\ mover'[f].pos = 0
       \/ part' = part /\ mover'[f].pos = Len(part)]_vars

\* _aborted: however often a move was paused or crashed before, one that is
\* cancelled while it runs leaves no partial in the library that could be removed.
CancelledMoveLeavesNothing ==
  [][\A f \in Files : mover[f].signal = "cancel" /\ last[f] # "cancelled" /\ last'[f] = "cancelled"
       => part' = Absent \/ "unlink" \in swallowed']_vars

\* A stop means what was asked, however stops, crashes and resumes alternate: a pause
\* keeps the bytes for the resume and a cancellation drops them.
StopsAreHonoured == ResumeKeepsBytes /\ CancelledMoveLeavesNothing

\* FILE_MOVE_CANCEL: cancelling removes the partial, "because the disk space is
\* exactly what somebody cancelled to get back", moving or not.
CancelFreesSpace ==
  \A f \in Files : last[f] = "cancelled" => part = Absent

\* Every call of move comes back.
MovesEnd == \A f \in Files : mover[f].pc # "idle" ~> mover[f].pc = "idle"

\* The library's view of the copy: the whole file under the final name, if there
\* is one; the sources that still hold their bytes; the cancelled transfers;
\* whether a partial was taken up without knowing its length.
Shelf == IF dest = Absent THEN "nothing"
         ELSE IF DestIsWhole THEN CHOOSE f \in Files : dest = Whole(f) ELSE "torn"
Promise == INSTANCE AtomicPlacement WITH
  shelf   <- Shelf,
  kept    <- {f \in Files : src[f] = "file"},
  dropped <- {f \in Files : last[f] = "cancelled"},
  doubted <- "stat" \in swallowed

\* move implements an atomic placement: whatever is stopped, fails or crashes, a
\* file appears in one step, whole unless the length of its partial could not be
\* read, and its source goes only after that or after its transfer was cancelled.
PlacementIsAtomic == Promise!Spec
=============================================================================
