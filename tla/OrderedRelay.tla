---------------------------- MODULE OrderedRelay ----------------------------
(***************************************************************************)
(* What byteport-messenger promises in each direction: items that were     *)
(* offered one after the other are delivered in that order, none twice;    *)
(* some may be lost.  Item number k is the kth that is offered.            *)
(***************************************************************************)
EXTENDS Naturals, Sequences

VARIABLES
    offered,     \* how many items were offered
    delivered    \* the numbers of those that were delivered, in order

Init == offered = 0 /\ delivered = <<>>

Offer == offered' \in Nat /\ offered' > offered /\ UNCHANGED delivered

Deliver ==
    /\ \E k \in 1..offered :
         /\ \A i \in 1..Len(delivered) : delivered[i] < k
         /\ delivered' = Append(delivered, k)
    /\ UNCHANGED offered

Next == Offer \/ Deliver

Spec == Init /\ [][Next]_<<offered, delivered>>
=============================================================================
