----------------------------- MODULE MCSyncJob -----------------------------
(* How many requests are made of each run.                                 *)
EXTENDS SyncJob

MCMaxRequests == [c \in Calls |-> IF c = "a" THEN 2 ELSE 0]
MCOneRequest == [c \in Calls |-> 1]
MCNoRequests == [c \in Calls |-> 0]
=============================================================================
