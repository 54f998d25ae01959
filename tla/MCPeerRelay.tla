---------------------------- MODULE MCPeerRelay ----------------------------
(* Two diallers, who ask the same node or one each.                        *)
EXTENDS PeerRelay

MCPlacements == {at0 \in [Calls -> Nodes] : at0[1] = Answerer}
MCMaxUp == [c \in Calls |-> 1]
MCMaxDown == [c \in Calls |-> IF c = 1 THEN 2 ELSE 0]
=============================================================================
