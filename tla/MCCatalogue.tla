---------------------------- MODULE MCCatalogue ----------------------------
(* Readers who ask about different groups of states.                       *)
EXTENDS Catalogue

MCWanted == [r \in Readers |-> IF r = "wall" THEN {"gaps", "upgrades"} ELSE {"gaps"}]
=============================================================================
