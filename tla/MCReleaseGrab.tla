--------------------------- MODULE MCReleaseGrab ---------------------------
(***************************************************************************)
(* A pack of two episodes of which one is wanted, and a release of the     *)
(* wanted one alone: both are filed under one name.                        *)
(***************************************************************************)
EXTENDS ReleaseGrab

MCPack == [g \in Grabs |-> IF g = "pack" THEN {"e1", "e2"} ELSE {"e1"}]
MCWanted == [g \in Grabs |-> {"e1"}]
=============================================================================
