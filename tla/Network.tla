------------------------------ MODULE Network ------------------------------
(***************************************************************************)
(* What the transport promises its users: a message handed to the message  *)
(* queue reaches the input threads of its destination exactly once, with   *)
(* the content it was sent with and the sender's node id, and, where the   *)
(* code asks for "strict message ordering for sequencer thread"            *)
(* (system/msg_queue.cpp, CALVIN), in the order in which one thread sent   *)
(* its messages to one node.                                               *)
(***************************************************************************)
EXTENDS Integers, Sequences

CONSTANTS Node, Packet

VARIABLES ordered, sent, delivered

Channel(p) == <<p.src, p.thd, p.dst>>
\* messages carry their number as txn_id
Arrived(i) == \E n \in Node : \E k \in DOMAIN delivered[n] : delivered[n][k].m.txn_id = i

Init == /\ ordered \in BOOLEAN
        /\ sent = <<>>
        /\ delivered = [n \in Node |-> <<>>]

Send == /\ \E p \in Packet : p.m.txn_id = Len(sent) + 1 /\ sent' = Append(sent, p)
        /\ UNCHANGED <<ordered, delivered>>

Deliver(i) ==
  /\ ~Arrived(i)
  /\ ordered => \A j \in 1..(i - 1) : Channel(sent[j]) = Channel(sent[i]) => Arrived(j)
  /\ delivered' = [delivered EXCEPT ![sent[i].dst] =
                     Append(@, [from |-> sent[i].src, m |-> sent[i].m])]
  /\ UNCHANGED <<ordered, sent>>

Next == Send \/ \E i \in DOMAIN sent : Deliver(i)

Spec == Init /\ [][Next]_<<ordered, sent, delivered>>
=============================================================================
