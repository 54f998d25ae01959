---------------------------- MODULE RelayedLink ----------------------------
(***************************************************************************)
(* What a relayed link promises its two ends, whoever carries it: each     *)
(* direction is a pipe that delivers what its own sender sent, in order    *)
(* and once, until the receiving end is told that the link is over.        *)
(***************************************************************************)
EXTENDS Naturals, Sequences

CONSTANT Pipes    \* one per direction of each link

VARIABLES
  sent,      \* how many messages each pipe was given
  received,  \* what came out of it
  over       \* pipes whose receiver was told

Message(p, k) == <<p, k>>

Init ==
  /\ sent = [p \in Pipes |-> 0]
  /\ received = [p \in Pipes |-> <<>>]
  /\ over = {}

\* The sender may find the link ended by its message.
Send(p) ==
  /\ sent' = [sent EXCEPT ![p] = @ + 1]
  /\ over \subseteq over' /\ UNCHANGED received

Receive(p) ==
  /\ p \notin over /\ Len(received[p]) < sent[p]
  /\ received' = [received EXCEPT ![p] = Append(@, Message(p, Len(@) + 1))]
  /\ UNCHANGED <<sent, over>>

End == over \subseteq over' /\ UNCHANGED <<sent, received>>

Next == End \/ \E p \in Pipes : Send(p) \/ Receive(p)

Spec == Init /\ [][Next]_<<sent, received, over>>
=============================================================================
