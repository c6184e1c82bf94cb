---------------------------- MODULE MCTransceiver ----------------------------
(***************************************************************************)
(* Instances of Transceiver for TLC.  A message is given by its sender,    *)
(* its packet_id and its size; PayloadSize is 2, so that a size of 5 makes *)
(* packets of 2, 2 and 1 bytes, and a size of 4 makes 2, 2 and 0.          *)
(***************************************************************************)
EXTENDS Transceiver

CONSTANTS n1, n2

TwoNodes == {n1, n2}
BothListed == [i \in Entry |-> IF i = 1 THEN n1 ELSE IF i = 2 THEN n2 ELSE NoNode]
NoneListed == EmptyList
NoCommands == {}

\* Two nodes that use the same packet_id, and a message in one packet.
RadioMessages == 1..3
RadioSource == <<n1, n2, n1>>
RadioIds == <<1, 1, 2>>
RadioSizes == <<5, 5, 1>>

\* One node that uses a packet_id again, for a message as long as the first, and
\* one whose message falls between these.  The second message fills its first
\* packet, so a packet without a byte follows it.
OrderMessages == 1..4
OrderSource == <<n1, n1, n2, n1>>
OrderIds == <<7, 8, 7, 7>>
OrderSizes == <<3, 2, 3, 3>>

\* One message in three packets.
HoleMessages == {1}
HoleSource == <<n1>>
HoleIds == <<1>>
HoleSizes == <<5>>

\* One packet from each node, and the lists byteport-messenger may send.
ListMessages == 1..3
ListSource == <<n1, n2, n1>>
ListIds == <<1, 1, 2>>
ListSizes == <<1, 1, 1>>
ListCommands == {<<>>, <<n1>>, <<n1, n2>>}
=============================================================================
