----------------------------- MODULE FrameChannel -----------------------------
(***************************************************************************)
(* What one direction of a STOMP connection promises: the frames that are  *)
(* read are those that were written, whole, unchanged, in order, none      *)
(* left out and none twice.  A new connection starts with nothing.         *)
(***************************************************************************)
EXTENDS Naturals, Sequences

VARIABLES
    written,   \* the frames whose writing has begun on this connection
    read       \* the frames that were read from it

Init == written = <<>> /\ read = <<>>

Write ==
    /\ Len(written') = Len(written) + 1
    /\ SubSeq(written', 1, Len(written)) = written
    /\ UNCHANGED read

Read ==
    /\ Len(read) < Len(written)
    /\ read' = Append(read, written[Len(read) + 1])
    /\ UNCHANGED written

Open == written' = <<>> /\ read' = <<>>

Next == Write \/ Read \/ Open

Spec == Init /\ [][Next]_<<written, read>>
=============================================================================
