----------------------------- MODULE MCFileMove -----------------------------
(***************************************************************************)
(* Sizes for FileMove: the file named "longer" has one buffer more than    *)
(* the others, so that its partial is too long for them.                   *)
(***************************************************************************)
EXTENDS FileMove

Sizes == [f \in Files |-> IF f = "longer" THEN 4 ELSE 3]
=============================================================================
