------------------------------- MODULE Gateway -------------------------------
(***************************************************************************)
(* The gateway: i8-transceiver and byteport-messenger at the two ends of   *)
(* the Unix socket /tmp/bpm-ipc, each as its own module has it.  What one  *)
(* sends is what the other receives, a socket that is full makes the       *)
(* sender wait, and a transceiver that has ended is started again.         *)
(***************************************************************************)
EXTENDS Integers, Sequences, FiniteSets

CONSTANTS
    \* of Transceiver
    Node, NoNode, Message, Source, PacketId, TotalSize, PayloadSize, QueueSize,
    DataBufferSize, EndOfTime, MaxNodeList, InitialWhitelist, StatusDelay,
    NodelistCommands, ForwardsMessages, MessageFields, Faults, MaxClock, MaxCommands,
    \* of Messenger
    I8Packet, ReportLengths, Command, GatewayId, NoCmd, MaxFields, StepSize, MaxAddress,
    MaxParts, MaxSessions, MaxOutages, IpcCapacity,
    \* of the gateway
    DownCapacity,     \* bound: packets for a transceiver that its socket holds
    MaxFailures       \* bound: outages and interrupts of the processes that run

\* The daemon is not a slow peer besides: its socket has room when i8_in has.  The
\* transceiver sends it messages and reports, no lists.
ASSUME GatewayAssumption ==
    /\ "slow_peer" \notin Faults
    /\ \A k \in 1..Len(I8Packet) : I8Packet[k].id = "message"
    /\ MaxSessions \in Nat
    /\ DownCapacity \in Nat \ {0}
    /\ MaxFailures \in Nat

VARIABLES
    \* of Transceiver
    transceiver_pc, running, whitelist, comlist, ipc_rx_buf, stats, packet_queue,
    next_status, clock, sent, air, arrived, ipc_in, ipc_out, requested, interrupted,
    \* of Messenger
    daemon_pc, gs_die, current, conn, ready, input_data, frames, packets, broker_up,
    outages, subscribe_in, peer, served, i8_in, sent_in, pushed, published, forwarded

transceiver ==
    <<transceiver_pc, running, whitelist, comlist, ipc_rx_buf, stats, packet_queue,
      next_status, clock, sent, air, arrived, ipc_in, ipc_out, requested, interrupted>>
daemon ==
    <<daemon_pc, gs_die, current, conn, ready, input_data, frames, packets, broker_up,
      outages, subscribe_in, peer, served, i8_in, sent_in, pushed, published, forwarded>>
vars == <<transceiver, daemon>>

\* The transceiver process that was started last.
Latest == Cardinality({s \in 1..MaxSessions : peer[s] # "absent"})

\* The daemon has its end of that one's socket open, or will accept it.
SocketOpen == daemon_pc # "exit" /\ (Latest = current \/ Latest > served)

\* The two programs, from the modules that also have the theorems about each.
T == INSTANCE RelayProofs WITH
       pc <- transceiver_pc, ipc_open <- SocketOpen, commands <- 0,
       ipc_read <- 0, OutCapacity <- IpcCapacity
M == INSTANCE MessengerProofs WITH pc <- daemon_pc, sent <- sent_in, Gateway <- GatewayId

ASSUME ProgramsAssumption ==
    /\ T!PacketAssumption /\ T!QueueAssumption /\ T!NodeListAssumption
    /\ T!TransceiverAssumption
    /\ M!MessengerAssumption

\* Variant for model checking: the whitelist is still known.
Started_keeps_whitelist ==
    /\ running' = TRUE
    /\ whitelist' = whitelist
    /\ comlist' = T!EmptyList
    /\ ipc_rx_buf' = T!EmptyList
    /\ stats' = T!NoStats
    /\ packet_queue' = T!EmptyQueue
    /\ next_status' = 0
    /\ arrived' = T!NoPacket
    /\ ipc_in' = <<>>
    /\ requested' = T!Listed(InitialWhitelist)
    /\ interrupted' = FALSE

\* What a process of i8-transceiver starts with.
Started ==
    /\ running' = TRUE
    /\ whitelist' = InitialWhitelist
    /\ comlist' = T!EmptyList
    /\ ipc_rx_buf' = T!EmptyList
    /\ stats' = T!NoStats
    /\ packet_queue' = T!EmptyQueue
    /\ next_status' = 0
    /\ arrived' = T!NoPacket
    /\ ipc_in' = <<>>
    /\ requested' = T!Listed(InitialWhitelist)
    /\ interrupted' = FALSE

\* None has been started yet.
Init ==
    /\ transceiver_pc = "exit"
    /\ running = TRUE
    /\ whitelist = InitialWhitelist
    /\ comlist = T!EmptyList
    /\ ipc_rx_buf = T!EmptyList
    /\ stats = T!NoStats
    /\ packet_queue = T!EmptyQueue
    /\ next_status = 0
    /\ clock = 1
    /\ sent = {}
    /\ air = {}
    /\ arrived = T!NoPacket
    /\ ipc_in = <<>>
    /\ ipc_out = <<>>
    /\ requested = T!Listed(InitialWhitelist)
    /\ interrupted = FALSE
    /\ M!Init

-----------------------------------------------------------------------------
(* The transceiver, and what it does to the socket.                        *)

\* What arrived before it has its own socket on the radio is lost.
TransceiverStarts ==
    /\ transceiver_pc = "exit"
    /\ Latest < MaxSessions
    /\ transceiver_pc' = "setup"
    /\ Started
    /\ air' \in SUBSET air
    /\ UNCHANGED <<clock, sent, ipc_out>>
    /\ M!PeerStarts(Latest + 1)

\* It works, without sending anything.
TransceiverWorks ==
    /\ UNCHANGED <<daemon, ipc_out>>
    /\ T!Loop
    /\ transceiver_pc' # "exit"

\* It sends a message or a report, or waits for room in the socket.
TransceiverSends ==
    /\ transceiver_pc # "exit"
    /\ M!PeerSends(Latest) \/ M!PeerReports(Latest)
    /\ T!Loop
    /\ Len(ipc_out') > Len(ipc_out)
    /\ Len(sent_in') > Len(sent_in) <=> ipc_out'[Len(ipc_out')].kind = "data"

TransceiverEnds ==
    /\ transceiver_pc # "exit"
    /\ M!PeerEnds(Latest)
    /\ T!Loop
    /\ transceiver_pc' = "exit"

\* What has failed in the lifetime of the two processes.
Failures ==
    outages + (IF interrupted THEN 1 ELSE 0) + (IF gs_die THEN 1 ELSE 0)

\* The last transceiver is not disturbed itself: it meets what the failures before it
\* have left behind.
MayFail == Failures < MaxFailures /\ Latest < MaxSessions

\* Only the head of the loop looks at what the handler sets, and only select is
\* woken up: an interrupt that comes later in a turn of the loop does the same there.
TransceiverInterrupted ==
    /\ transceiver_pc \in {"loop", "select"}
    /\ MayFail
    /\ UNCHANGED daemon
    /\ T!Interrupt

\* Time passes while it waits: a turn of its loop takes none.
Radio ==
    /\ UNCHANGED daemon
    /\ \/ \E m \in Message : T!NodeSends(m)
       \/ transceiver_pc = "select" /\ T!Tick

-----------------------------------------------------------------------------
(* The daemon.                                                             *)

AsReceived(packet) ==
    IF packet.id = "nodelist" THEN T!Nodelist(packet.content) ELSE T!Forwarded

\* What the commands are made into is what Transceiver expects.
ASSUME CommandsAssumption ==
    \A k \in 1..Len(Command) : \A i \in 1..Len(M!PacketsFor(k)) :
      AsReceived(M!PacketsFor(k)[i]) \in T!IpcPacket

\* It forwards a packet to the transceiver, or waits for room in the socket.
DaemonForwards ==
    /\ M!Forward
    /\ Len(forwarded') > Len(forwarded)
    /\ Len(ipc_in) < DownCapacity
    /\ ipc_in' = Append(ipc_in, AsReceived(forwarded'[Len(forwarded')]))
    /\ UNCHANGED <<transceiver_pc, running, whitelist, comlist, ipc_rx_buf, stats,
                   packet_queue, next_status, clock, sent, air, arrived, ipc_out,
                   requested, interrupted>>

\* It does anything else.
DaemonWorks ==
    /\ M!Process
    /\ Len(forwarded') = Len(forwarded)
    /\ UNCHANGED transceiver

DaemonInterrupted ==
    /\ MayFail
    /\ M!Interrupt
    /\ UNCHANGED transceiver

Broker ==
    /\ \/ M!BrokerStarts
       \/ M!BrokerSends
       \/ /\ MayFail
          /\ \/ M!BrokerStops
             \/ \E c \in M!Connection : M!ConnectionFails(c)
    /\ UNCHANGED transceiver

Next ==
    \/ TransceiverStarts \/ TransceiverWorks \/ TransceiverSends \/ TransceiverEnds
    \/ TransceiverInterrupted \/ Radio
    \/ DaemonForwards \/ DaemonWorks \/ DaemonInterrupted \/ Broker

Spec == Init /\ [][Next]_vars

\* Both processes are scheduled, and a broker that is down comes up again.
FairSpec ==
    /\ Spec
    /\ WF_transceiver(TransceiverWorks \/ TransceiverSends \/ TransceiverEnds)
    /\ WF_daemon(DaemonForwards \/ DaemonWorks)
    /\ WF_vars(M!BrokerStarts /\ UNCHANGED transceiver)

-----------------------------------------------------------------------------
(* Properties.                                                             *)

\* Both programs keep their types, whatever the other does.
TypeOK == T!TypeOK /\ M!TypeOK

\* What was passed on, without the reports: its kth element is I8Packet[k].
DataOf(out) ==
    LET upto[n \in 0..Len(out)] ==
          IF n = 0 THEN <<>>
          ELSE IF out[n].kind = "data" THEN Append(upto[n - 1], out[n]) ELSE upto[n - 1]
    IN upto[Len(out)]
Passed == DataOf(ipc_out)

\* What is published of a message, unless it has a tail of another one.
NotIntact == [source |-> NoNode, data |-> <<-1>>]
Published ==
    [i \in 1..Len(published) |->
       LET k == published[i].packet
       IN IF published[i].text = [j \in 1..I8Packet[k].length |-> k]
          THEN [source |-> Passed[k].source, data |-> Passed[k].data] ELSE NotIntact]

EndToEnd == INSTANCE LossyRelay WITH
              offered <- sent, relayed <- Published, Content <- T!Content,
              Report <- T!Report

\* From a node to the broker the two programs are one lossy relay: a message is
\* published whole and once, across sessions, restarts of the transceiver with half
\* of a message in its queue, and outages of the broker.
PublishesLossily == EndToEnd!Spec

Nodes(list) == {list[i] : i \in 1..Len(list)}
ListSent(j, s) == forwarded[j].id = "nodelist" /\ pushed[forwarded[j].command] = s

\* A list that the daemon forwarded in this session is in the whitelist, or on its
\* way to it, unless a later one has cleared that.
ListsReachWhitelist ==
    (transceiver_pc # "exit" /\ T!PrefixLength(whitelist) < MaxNodeList) =>
      \A j \in 1..Len(forwarded) :
        \/ ~ListSent(j, Latest)
        \/ \E k \in (j + 1)..Len(forwarded) :
             ListSent(k, Latest) /\ forwarded[k].content = <<>>
        \/ Nodes(forwarded[j].content) \subseteq T!Listed(whitelist)
        \/ \E k \in 1..Len(ipc_in) : ipc_in[k] = AsReceived(forwarded[j])

\* Nothing of a node is published that was not listed in the session in which its
\* message came in: a transceiver that was started again knows no list of before.
NothingWithoutList ==
    \A i \in 1..Len(published) :
      LET k == published[i].packet
      IN \E j \in 1..Len(forwarded) :
           ListSent(j, sent_in[k]) /\ Passed[k].source \in Nodes(forwarded[j].content)

\* Each program is about to send to the other, and the sockets are full both ways.
BothWait ==
    /\ daemon_pc = "forward" /\ packets # <<>>
    /\ current = Latest /\ Len(ipc_in) = DownCapacity
    /\ transceiver_pc \in {"ieee", "status"} /\ Len(i8_in[Latest]) = IpcCapacity

\* A message that the transceiver has passed on is published at last, unless the
\* broker or one of the two programs fails, or they wait for each other for ever.
\* (What was sent stays sent.)
PassedIsPublished ==
    (\A k \in 1..Len(I8Packet) :
       []<>(Len(sent_in) >= k => \/ \E i \in 1..Len(published) : published[i].packet = k
                                 \/ outages > 0
                                 \/ peer[sent_in[k]] = "closed"
                                 \/ gs_die \/ daemon_pc = "exit"))
    \/ <>[]BothWait

\* The transceiver comes back to select again and again, or ends, whatever the daemon
\* is at: in bm_connect, between two transceivers, at an end.  Only one thing keeps it
\* for ever, that both programs are in send and neither reads; no failure of a third
\* party is needed for that, and none ends it.
LoopsTurn == []<>(transceiver_pc \in {"select", "exit"}) \/ <>[]BothWait
=============================================================================
