------------------------------ MODULE MCGateway ------------------------------
(***************************************************************************)
(* An instance of Gateway for TLC: one node, which the broker puts on the  *)
(* whitelist, takes off and puts on again, a message of two characters and *)
(* its zero in two packets, and a transceiver that is started twice.       *)
(***************************************************************************)
EXTENDS Gateway

OneNode == {1}
Messages == {1}
Sources == <<1>>
Ids == <<1>>
Sizes == <<3>>
NoneListed == [i \in 1..MaxNodeList |-> 0]
AddAndClear == {<<1>>, <<>>}
MessagePackets == <<[id |-> "message", length |-> 2]>>
Add == [uid |-> <<9>>, data |-> <<<<1>>>>, cmd |-> "add_to_whitelist"]
Clear == [uid |-> <<9>>, data |-> <<>>, cmd |-> "clear_whitelist"]
AddClearAdd == <<Add, Clear, Add>>

\* All that a step depends on: what a report says is only sent, never looked at, and
\* neither is the time of a message.  The queue is never full, so it does not matter
\* which fragment in it is the oldest.  Nothing of a transceiver that has ended is
\* looked at, and ready only right after select.
Queued == {packet_queue[i].packet : i \in {j \in T!Slot : ~T!IsFree(packet_queue, j)}}
Relevant ==
    <<transceiver_pc, interrupted,
      IF transceiver_pc = "exit" THEN <<>>
      ELSE <<running, whitelist, ipc_rx_buf, Queued, clock > next_status, arrived, ipc_in>>,
      clock, sent, air, [k \in 1..Len(Passed) |-> <<Passed[k].source, Passed[k].data>>],
      IF daemon_pc \in {"server", "forward"} THEN ready ELSE {},
      daemon_pc, gs_die, current, conn, input_data, frames, packets, broker_up, outages,
      subscribe_in, peer, served, i8_in, sent_in, pushed, published, forwarded>>
=============================================================================
