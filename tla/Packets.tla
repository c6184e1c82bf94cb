------------------------------- MODULE Packets -------------------------------
(***************************************************************************)
(* What a sensor node puts on the air: packet_t of packets.h, and the      *)
(* fragments into which send_message of test_mode.c cuts a message (the    *)
(* only node-side code in the repository).                                 *)
(*                                                                         *)
(* A packet carries a header (packet_id, total_size, offset, data_size)    *)
(* and payload bytes.  All of them are functions of the message the packet *)
(* belongs to and of the number of the fragment, so a packet is the pair   *)
(* [msg, no].  Messages are numbered in the order in which they are sent.  *)
(***************************************************************************)
EXTENDS Integers, FiniteSets

CONSTANTS
    Node,         \* addresses of nodes, as seen in a frame's source address
    Message,      \* the messages the nodes have to send, a set of numbers
    Source,       \* Source[m]: the node that sends m
    PacketId,     \* PacketId[m]: the 8 bit packet_id that node gives m
    TotalSize,    \* TotalSize[m]: length of m (strlen + 1, hence positive)
    PayloadSize   \* PAYLOAD_SIZE, 80 in packets.h

ASSUME PacketAssumption ==
    /\ Message \subseteq Nat
    /\ Source \in [Message -> Node]
    /\ PacketId \in [Message -> 0..255]
    /\ TotalSize \in [Message -> Nat \ {0}]
    /\ PayloadSize \in Nat \ {0}

tot_frags(m) == TotalSize[m] \div PayloadSize

\* send_message runs its loop to frag_no = tot_frags inclusive: a message whose
\* size is a multiple of PayloadSize ends with a fragment of no bytes.
Fragments(m) == {[msg |-> m, no |-> k] : k \in 0..tot_frags(m)}
Packet == UNION {Fragments(m) : m \in Message}

src(p) == Source[p.msg]
packet_id(p) == PacketId[p.msg]
total_size(p) == TotalSize[p.msg]
offset(p) == p.no * PayloadSize
data_size(p) == IF p.no = tot_frags(p.msg) THEN TotalSize[p.msg] % PayloadSize
                                           ELSE PayloadSize

\* The positions of the message, from 1, that the payload of p covers.
Bytes(p) == (offset(p) + 1)..(offset(p) + data_size(p))

\* The bytes of a message, each named after the message and its position.
Payload(m) == [b \in 1..TotalSize[m] |-> <<m, b>>]

Fragmented(p) == total_size(p) > data_size(p)
IsLast(p) == total_size(p) = offset(p) + data_size(p)

\* The order in which one node sends.
SentBefore(p, q) ==
    /\ src(p) = src(q)
    /\ \/ p.msg < q.msg
       \/ p.msg = q.msg /\ p.no < q.no
=============================================================================
