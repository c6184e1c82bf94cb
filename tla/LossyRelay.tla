----------------------------- MODULE LossyRelay -----------------------------
(***************************************************************************)
(* What the gateway promises the messages of the nodes: a message is       *)
(* relayed whole, under the name of its sender, at most once and only      *)
(* after it was offered; it may be lost, and messages may overtake each    *)
(* other.  Reports of the gateway's own appear between them.               *)
(***************************************************************************)
EXTENDS Sequences, Naturals

CONSTANTS
    Message,
    Content,   \* Content[m]: what is relayed for m
    Report     \* what stands for a report

VARIABLES
    offered,   \* the messages handed to the relay
    relayed    \* what the relay has put out, in order

Init == offered = {} /\ relayed = <<>>

Offer(m) ==
    /\ m \notin offered
    /\ offered' = offered \cup {m}
    /\ UNCHANGED relayed

Relay(m) ==
    /\ m \in offered
    /\ \A i \in 1..Len(relayed) : relayed[i] # Content[m]
    /\ relayed' = Append(relayed, Content[m])
    /\ UNCHANGED offered

SendReport ==
    /\ relayed' = Append(relayed, Report)
    /\ UNCHANGED offered

Next == \/ \E m \in Message : Offer(m) \/ Relay(m)
        \/ SendReport

Spec == Init /\ [][Next]_<<offered, relayed>>
=============================================================================
