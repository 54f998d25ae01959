-------------------------- MODULE AtomicPlacement --------------------------
(***************************************************************************)
(* What placing files in a library promises, with the copying left out: a  *)
(* file appears under its final name in one step, and the bytes it came    *)
(* from are given up only once it is there, or once its transfer was       *)
(* cancelled.  It is whole, unless the length of a partial copy could not  *)
(* be read before: from then on what appears may be torn.                  *)
(***************************************************************************)
CONSTANT Files
VARIABLES
  shelf,   \* the file under the final name, "torn", or "nothing"
  kept,    \* files whose source still holds the bytes
  dropped, \* files whose transfer was cancelled
  doubted  \* a partial was taken up whose length could not be read

Init == shelf = "nothing" /\ kept = Files /\ dropped = {} /\ doubted = FALSE

\* A file gets its final name; a rename takes its source at once.
Publish(f) ==
  /\ f \notin dropped /\ (f \in kept \cup {shelf} \/ (doubted /\ shelf = "torn"))
  /\ shelf' = f \/ (doubted /\ shelf' = "torn")
  /\ kept' \in {kept, kept \ {f}}
  /\ UNCHANGED <<dropped, doubted>>

\* The source goes, or becomes a link to what is on the shelf.
Release(f) ==
  /\ shelf = f \/ (doubted /\ shelf = "torn") \/ f \in dropped
  /\ kept' = kept \ {f}
  /\ UNCHANGED <<shelf, dropped, doubted>>

Cancel(f) == dropped' = dropped \cup {f} /\ UNCHANGED <<shelf, kept, doubted>>

Doubt == doubted' = TRUE /\ UNCHANGED <<shelf, kept, dropped>>

Next == Doubt \/ \E f \in Files : Publish(f) \/ Release(f) \/ Cancel(f)

Spec == Init /\ [][Next]_<<shelf, kept, dropped, doubted>>
=============================================================================
