---------------------------- MODULE GatewayProofs ----------------------------
(***************************************************************************)
(* Gateway implements Messenger: the i8-transceiver of the repository does *)
(* to the daemon only what the environment of Messenger may do, so that    *)
(* what is proved of the daemon holds in the gateway too.                  *)
(*                                                                         *)
(* Together with what is proved of each program, this says what holds from *)
(* end to end: lists that were forwarded reach the whitelist, only nodes   *)
(* that were listed are published, and the gateway as a whole is a lossy   *)
(* relay from the nodes to the broker.                                     *)
(***************************************************************************)
EXTENDS Gateway, NatLemmas, SequenceTheorems

\* Some transceiver was started.
Some == \E s \in M!Session : peer[s] # "absent"

PeersOK ==
    /\ peer \in [M!Session -> {"absent", "open", "closed"}]
    /\ transceiver_pc # "exit" => Some

\* Latest is a session, if there was one at all.
LEMMA LatestRange == Latest \in 0..MaxSessions /\ (Some => Latest # 0)
  <1> DEFINE Begun == {s \in 1..MaxSessions : peer[s] # "absent"}
  <1>1. IsFiniteSet(1..MaxSessions) /\ Cardinality(1..MaxSessions) = MaxSessions
    BY GatewayAssumption, FS_Interval
  <1>2. IsFiniteSet(Begun) /\ Cardinality(Begun) <= MaxSessions
    BY <1>1, FS_Subset
  <1>3. Cardinality(Begun) \in Nat /\ (Cardinality(Begun) = 0 <=> Begun = {})
    BY <1>2, FS_CardinalityType, FS_EmptySet
  <1>4. Latest = Cardinality(Begun)
    BY DEF Latest
  <1>5. Some => Begun # {}
    BY DEF Some, M!Session
  <1>6. QED
    BY <1>2, <1>3, <1>4, <1>5, GatewayAssumption

\* The daemon itself does not touch the other ends of the sockets.
LEMMA ProcessKeepsPeers == ASSUME M!Process PROVE peer' = peer /\ sent_in' = sent_in
  <1> USE DEF M!outside, M!peers
  <1>1. CASE M!OuterLoop \/ M!Uninstall \/ M!Accept \/ M!Subscribe \/ M!InnerLoop
    BY <1>1 DEF M!OuterLoop, M!Uninstall, M!Accept, M!Subscribe, M!InnerLoop,
                M!WriteMeets
  <1>2. CASE M!Select \/ M!ReceiveFromServer \/ M!Forward \/ M!ReceiveFromI8
    BY <1>2 DEF M!Select, M!ReceiveFromServer, M!Forward, M!ReceiveFromI8
  <1>3. CASE M!Publish \/ M!Disconnect
    BY <1>3 DEF M!Publish, M!Disconnect, M!WriteMeets
  <1>4. CASE \E c \in M!Connection : M!Connect(c) \/ M!Login(c)
    BY <1>4 DEF M!Connect, M!Login, M!WriteMeets
  <1>5. QED
    BY <1>1, <1>2, <1>3, <1>4 DEF M!Process

\* Nor does what happens outside, short of a transceiver that starts or ends.
LEMMA EnvironmentKeepsPeers ==
    ASSUME \/ M!Interrupt \/ M!BrokerStops \/ M!BrokerStarts \/ M!BrokerSends
           \/ \E c \in M!Connection : M!ConnectionFails(c)
           \/ \E s \in M!Session : M!PeerSends(s) \/ M!PeerReports(s)
    PROVE  peer' = peer
  BY DEF M!Interrupt, M!BrokerStops, M!BrokerStarts, M!BrokerSends, M!ConnectionFails,
         M!PeerSends, M!PeerReports, M!Breaks, M!outside, M!peers

\* A turn of the loop starts in a process that has not ended.
LEMMA LoopRuns == ASSUME T!Loop PROVE transceiver_pc # "exit"
  BY DEF T!Loop, T!Setup, T!LoopHead, T!SelectRadio, T!SelectIpcOrTimeout,
         T!ReceiveIpcFails, T!ReceiveNodelist, T!ReceiveForwarded, T!ReceiveRadioFails,
         T!ReceiveRejected, T!ReceiveWhole, T!ReceiveFragment, T!StatusReport,
         T!NoStatusDue

\* What the nodes and the clock do, the process does not notice.
LEMMA RadioKeepsProcess == ASSUME Radio PROVE transceiver_pc' = transceiver_pc
  BY DEF Radio, T!NodeSends, T!Tick

-----------------------------------------------------------------------------
(* Every step of the gateway is one of Messenger, or leaves it alone.      *)

\* A transceiver that starts is a peer that starts.
LEMMA StartStep ==
    ASSUME PeersOK, TransceiverStarts
    PROVE  PeersOK' /\ M!Environment
  <1>1. Latest + 1 \in M!Session /\ M!PeerStarts(Latest + 1)
    BY LatestRange, GatewayAssumption DEF TransceiverStarts, M!Session
  <1>2. peer' = [peer EXCEPT ![Latest + 1] = "open"]
    BY <1>1 DEF M!PeerStarts
  <1>3. PeersOK'
    BY <1>1, <1>2 DEF PeersOK, Some
  <1>4. QED
    BY <1>1, <1>3 DEF M!Environment

\* What it sends is what a peer sends, a message of a node or a report.
LEMMA SendStep ==
    ASSUME PeersOK, TransceiverSends
    PROVE  PeersOK' /\ M!Environment
  <1>1. Latest \in M!Session
    BY LatestRange, GatewayAssumption DEF TransceiverSends, PeersOK, M!Session
  <1>2. M!PeerSends(Latest) \/ M!PeerReports(Latest)
    BY DEF TransceiverSends
  <1>3. peer' = peer
    BY <1>1, <1>2, EnvironmentKeepsPeers
  <1>4. PeersOK'
    BY <1>3 DEF TransceiverSends, PeersOK, Some
  <1>5. QED
    BY <1>1, <1>2, <1>4 DEF M!Environment

\* When it ends, its end of the socket is closed.
LEMMA EndStep ==
    ASSUME PeersOK, TransceiverEnds
    PROVE  PeersOK' /\ M!Environment
  <1>1. Latest \in M!Session /\ M!PeerEnds(Latest)
    BY LatestRange, GatewayAssumption DEF TransceiverEnds, PeersOK, M!Session
  <1>2. peer' = [peer EXCEPT ![Latest] = "closed"]
    BY <1>1 DEF M!PeerEnds
  <1>3. PeersOK'
    BY <1>1, <1>2 DEF TransceiverEnds, PeersOK, Some
  <1>4. QED
    BY <1>1, <1>3 DEF M!Environment

\* The steps that do not concern the daemon.
LEMMA AloneStep ==
    ASSUME PeersOK, TransceiverWorks \/ TransceiverInterrupted \/ Radio \/ UNCHANGED vars
    PROVE  PeersOK' /\ UNCHANGED M!vars
  <1>1. UNCHANGED daemon
    BY DEF TransceiverWorks, TransceiverInterrupted, Radio, vars
  <1>2. UNCHANGED M!vars /\ peer' = peer
    BY <1>1 DEF daemon, M!vars, M!session, M!buffers, M!outside, M!broker, M!peers,
                M!output
  <1>3. transceiver_pc' # "exit" => transceiver_pc # "exit"
    BY LoopRuns, RadioKeepsProcess
       DEF TransceiverWorks, TransceiverInterrupted, vars, transceiver
  <1>4. QED
    BY <1>2, <1>3 DEF PeersOK, Some

\* The daemon's steps and the broker's are those of Messenger.
LEMMA DaemonStep ==
    ASSUME PeersOK, DaemonForwards \/ DaemonWorks \/ DaemonInterrupted \/ Broker
    PROVE  PeersOK' /\ (M!Process \/ M!Environment)
  <1>1. M!Process \/ \/ M!Interrupt \/ M!BrokerStops \/ M!BrokerStarts \/ M!BrokerSends
                     \/ \E c \in M!Connection : M!ConnectionFails(c)
    BY DEF DaemonForwards, DaemonWorks, DaemonInterrupted, Broker, M!Process
  <1>2. peer' = peer
    BY <1>1, ProcessKeepsPeers, EnvironmentKeepsPeers
  <1>3. transceiver_pc' = transceiver_pc
    BY DEF DaemonForwards, DaemonWorks, DaemonInterrupted, Broker, transceiver
  <1>4. QED
    BY <1>1, <1>2, <1>3 DEF PeersOK, Some, M!Environment

\* Whatever step the gateway takes, Messenger takes it or stands still.
LEMMA GatewayStep ==
    ASSUME PeersOK, [Next]_vars
    PROVE  PeersOK' /\ [M!Next]_(M!vars)
  <1>1. CASE TransceiverStarts
    BY <1>1, StartStep DEF M!Next
  <1>2. CASE TransceiverSends
    BY <1>2, SendStep DEF M!Next
  <1>3. CASE TransceiverEnds
    BY <1>3, EndStep DEF M!Next
  <1>4. CASE TransceiverWorks \/ TransceiverInterrupted \/ Radio \/ UNCHANGED vars
    BY <1>4, AloneStep
  <1>5. CASE DaemonForwards \/ DaemonWorks \/ DaemonInterrupted \/ Broker
    BY <1>5, DaemonStep DEF M!Next
  <1>6. QED
    BY <1>1, <1>2, <1>3, <1>4, <1>5 DEF Next

\* In the gateway the daemon behaves as Messenger has it, however many messages,
\* commands, sessions and failures there are.
THEOREM GatewayImplementsMessenger == Spec => M!Spec
  <1>1. Init => PeersOK /\ M!Init
    BY DEF Init, PeersOK, M!Init
  <1>2. PeersOK /\ [Next]_vars => PeersOK' /\ [M!Next]_(M!vars)
    BY GatewayStep
  <1>3. QED
    BY <1>1, <1>2, PTL DEF Spec, M!Spec

-----------------------------------------------------------------------------
(* Types.                                                                  *)

\* What is known of the daemon, and of the transceiver that was started last.
DaemonInv ==
    /\ PeersOK /\ M!AcceptedStarted
    /\ M!TypeInv /\ M!DownInv /\ M!UpInv /\ M!WorkInv /\ M!AccountInv
BothInv == DaemonInv /\ T!ListInv

\* All that is known of the daemon alone holds in the gateway.
LEMMA DaemonInit == Init => DaemonInv
  <1>1. Init => PeersOK /\ M!Init
    BY DEF Init, PeersOK, M!Init
  <1>2. M!Init => M!TypeInv /\ M!DownInv /\ M!UpInv /\ M!WorkInv /\ M!AccountInv
    BY ProgramsAssumption, M!InitType, M!DownInit, M!UpInit, M!WorkInit, M!AccountInit
  <1>4. M!Init => M!AcceptedStarted
    BY DEF M!Init, M!AcceptedStarted
  <1>3. QED
    BY <1>1, <1>2, <1>4 DEF DaemonInv

\* So what is inductive for Messenger is inductive in the gateway.
LEMMA DaemonInvStep ==
    ASSUME DaemonInv, [Next]_vars
    PROVE  DaemonInv' /\ [M!Next]_(M!vars)
  <1>1. PeersOK' /\ [M!Next]_(M!vars)
    BY GatewayStep DEF DaemonInv
  <1>2. (M!TypeInv)'
    BY <1>1, ProgramsAssumption, M!StepType DEF DaemonInv
  <1>3. (M!DownInv)' /\ (M!UpInv)' /\ (M!WorkInv)'
    BY <1>1, <1>2, ProgramsAssumption, M!DownStep, M!UpStep, M!WorkStep DEF DaemonInv
  <1>4. (M!AccountInv)' /\ (M!AcceptedStarted)'
    BY <1>1, <1>2, ProgramsAssumption, M!AccountStep, M!AcceptedStep DEF DaemonInv
  <1>5. QED
    BY <1>1, <1>2, <1>3, <1>4 DEF DaemonInv

\* The steps that the transceiver or its radio takes are steps of Transceiver.
LEMMA TransceiverStep ==
    ASSUME TransceiverWorks \/ TransceiverSends \/ TransceiverEnds
             \/ TransceiverInterrupted \/ Radio
    PROVE  T!Next
  <1>1. T!Loop \/ T!Environment
    BY DEF TransceiverWorks, TransceiverSends, TransceiverEnds, TransceiverInterrupted,
           Radio, T!Environment
  <1>2. QED
    BY <1>1 DEF T!Next

\* The packet that is forwarded is one that the transceiver expects.
LEMMA ForwardedIsReceived ==
    ASSUME DaemonInv, DaemonForwards
    PROVE  /\ packets # <<>> /\ packets \in Seq(M!Packet) /\ forwarded \in Seq(M!Packet)
           /\ peer[current] = "open"
           /\ forwarded' = Append(forwarded, Head(packets))
           /\ ipc_in' = Append(ipc_in, AsReceived(Head(packets)))
           /\ AsReceived(Head(packets)) \in T!IpcPacket
  <1>1. /\ packets \in Seq(M!Packet) /\ forwarded \in Seq(M!Packet)
    BY ProgramsAssumption, M!DownTypes DEF DaemonInv
  <1>2. /\ packets # <<>> /\ peer[current] = "open"
        /\ forwarded' = Append(forwarded, Head(packets))
    BY <1>1 DEF DaemonForwards, M!Forward
  <1>3. forwarded'[Len(forwarded')] = Head(packets)
    BY <1>1, <1>2
  <1>4. ipc_in' = Append(ipc_in, AsReceived(Head(packets)))
    BY <1>3 DEF DaemonForwards
  <1>5. Head(packets) \in M!Packet /\ M!MadeOf(Head(packets))
    BY <1>1, <1>2 DEF DaemonInv, M!WorkInv, M!OnlyMade
  <1>6. AsReceived(Head(packets)) \in T!IpcPacket
    BY <1>5, CommandsAssumption DEF M!MadeOf, M!Packet
  <1>7. QED
    BY <1>1, <1>2, <1>4, <1>6

\* The process has just started, or was never started.
Fresh ==
    /\ transceiver_pc \in {"setup", "exit"}
    /\ running = TRUE
    /\ whitelist = InitialWhitelist
    /\ comlist = T!EmptyList
    /\ ipc_rx_buf = T!EmptyList
    /\ stats = T!NoStats
    /\ packet_queue = T!EmptyQueue
    /\ next_status = 0
    /\ arrived = T!NoPacket
    /\ ipc_in = <<>>
    /\ requested = T!Listed(InitialWhitelist)
    /\ interrupted = FALSE
    /\ clock \in 1..MaxClock
    /\ sent \subseteq Message
    /\ air \subseteq T!Packet
    /\ ipc_out \in Seq(T!IpcMessage)

\* Then its types are right, and its lists are as they should be.
LEMMA FreshLists == Fresh => T!ListInv
  <1> SUFFICES ASSUME Fresh PROVE T!ListInv
    OBVIOUS
  <1>1. /\ T!EmptyList \in T!NodeLists(Node) /\ T!Compact(T!EmptyList)
        /\ T!Distinct(T!EmptyList)
    BY ProgramsAssumption, T!EmptyListKeeps
  <1>2. InitialWhitelist \in T!NodeLists(Node) /\ T!Compact(InitialWhitelist)
    BY ProgramsAssumption DEF T!TransceiverAssumption
  <1>3. T!Listed(InitialWhitelist) \subseteq Node
    BY <1>2 DEF T!Listed, T!NodeLists
  <1>4. packet_queue \in T!Queues
    BY ProgramsAssumption, T!EmptyQueueStores DEF Fresh
  <1>5. T!NoStats \in [total : Nat, rejected : Nat]
    BY DEF T!NoStats
  <1>6. ipc_in \in Seq(T!IpcPacket) /\ 0 \in 0..MaxCommands
    BY ProgramsAssumption DEF Fresh, T!TransceiverAssumption
  <1>7. SocketOpen \in BOOLEAN
    BY DEF SocketOpen
  <1>8. T!TypeOK
    BY <1>1, <1>2, <1>3, <1>4, <1>5, <1>6, <1>7 DEF Fresh, T!TypeOK
  <1>9. T!ListsCompact /\ T!ComlistDistinct /\ T!RequestedAreListed
    BY <1>1, <1>2 DEF Fresh, T!ListsCompact, T!ComlistDistinct, T!RequestedAreListed
  <1>10. QED
    BY <1>8, <1>9 DEF T!ListInv

\* The gateway starts with both programs as they start.
LEMMA BothInit == Init => BothInv
  <1> SUFFICES ASSUME Init PROVE BothInv
    OBVIOUS
  <1>1. Fresh
    BY ProgramsAssumption DEF Init, Fresh, T!TransceiverAssumption
  <1>2. QED
    BY <1>1, FreshLists, DaemonInit DEF BothInv

\* Nothing of this depends on what the other end of the socket is.
LEMMA SocketAlone ==
    ASSUME T!ListInv, ipc_in' \in Seq(T!IpcPacket),
           UNCHANGED <<transceiver_pc, running, whitelist, comlist, ipc_rx_buf, stats,
                       packet_queue, next_status, clock, sent, air, arrived, ipc_out,
                       requested, interrupted>>
    PROVE  (T!ListInv)'
  <1>1. SocketOpen' \in BOOLEAN
    BY DEF SocketOpen
  <1>2. (T!TypeOK)'
    BY <1>1 DEF T!ListInv, T!TypeOK
  <1>3. (T!ListsCompact)' /\ (T!ComlistDistinct)' /\ (T!RequestedAreListed)'
    BY DEF T!ListInv, T!ListsCompact, T!ComlistDistinct, T!RequestedAreListed
  <1>4. QED
    BY <1>2, <1>3 DEF T!ListInv

\* No step of either program breaks what is known of the other.
LEMMA BothStep ==
    ASSUME BothInv, [Next]_vars
    PROVE  BothInv'
  <1>1. DaemonInv'
    BY DaemonInvStep DEF BothInv
  <1>2. CASE TransceiverWorks \/ TransceiverSends \/ TransceiverEnds
               \/ TransceiverInterrupted \/ Radio
    <2>1. (T!ListInv)'
      BY <1>2, TransceiverStep, ProgramsAssumption, T!StepLists DEF BothInv
    <2>2. QED
      BY <1>1, <2>1 DEF BothInv
  <1>3. CASE TransceiverStarts
    <2>1. Fresh'
      BY <1>3 DEF BothInv, T!ListInv, T!TypeOK, TransceiverStarts, Started, Fresh
    <2>2. (Fresh => T!ListInv)'
      BY FreshLists, PTL
    <2>3. QED
      BY <1>1, <2>1, <2>2 DEF BothInv
  <1>4. CASE DaemonForwards
    <2>1. ipc_in' \in Seq(T!IpcPacket)
      <3>1. ipc_in \in Seq(T!IpcPacket)
        BY DEF BothInv, T!ListInv, T!TypeOK
      <3>2. /\ AsReceived(Head(packets)) \in T!IpcPacket
            /\ ipc_in' = Append(ipc_in, AsReceived(Head(packets)))
        BY <1>4, ForwardedIsReceived DEF BothInv
      <3>3. QED
        BY <3>1, <3>2
    <2>2. (T!ListInv)'
      BY <1>4, <2>1, SocketAlone DEF BothInv, DaemonForwards
    <2>3. QED
      BY <1>1, <2>2 DEF BothInv
  <1>5. CASE DaemonWorks \/ DaemonInterrupted \/ Broker \/ UNCHANGED vars
    <2>1. UNCHANGED transceiver
      BY <1>5 DEF DaemonWorks, DaemonInterrupted, Broker, vars
    <2>2. (T!ListInv)'
      BY <2>1, SocketAlone DEF BothInv, T!ListInv, T!TypeOK, transceiver
    <2>3. QED
      BY <1>1, <2>2 DEF BothInv
  <1>6. QED
    BY <1>2, <1>3, <1>4, <1>5 DEF Next

\* Both programs keep their types whatever the other one does, also when one of
\* them is started again and the other is not.
THEOREM GatewayTypeCorrect == Spec => []TypeOK
  <1>1. BothInv => TypeOK
    BY DEF BothInv, DaemonInv, M!TypeInv, T!ListInv, TypeOK
  <1>2. QED
    BY <1>1, BothInit, BothStep, PTL DEF Spec

-----------------------------------------------------------------------------
(* The transceivers follow each other.                                     *)

\* Those up to Latest were started, the others were not.
LEMMA LatestStarted ==
    DaemonInv => /\ Latest \in 0..MaxSessions
                 /\ \A s \in M!Session : peer[s] # "absent" <=> s <= Latest
  <1> SUFFICES ASSUME DaemonInv
               PROVE  /\ Latest \in 0..MaxSessions
                      /\ \A s \in M!Session : peer[s] # "absent" <=> s <= Latest
    OBVIOUS
  <1> DEFINE Begun == {s \in 1..MaxSessions : peer[s] # "absent"}
  <1>1. MaxSessions \in Nat /\ M!Session = 1..MaxSessions
    BY GatewayAssumption DEF M!Session
  <1>2. \A s, t \in 1..MaxSessions : s < t /\ peer[t] # "absent" => peer[s] # "absent"
    BY <1>1 DEF DaemonInv, M!UpInv, M!PeersInOrder
  <1>3. PICK n \in 0..MaxSessions : Begun = 1..n
    <2>1. CASE Begun = {}
      BY <1>1, <2>1
    <2>2. CASE Begun # {}
      <3>1. PICK n \in Begun : \A s \in Begun : s <= n
        <4>1. Begun \in SUBSET Nat /\ \A s \in Begun : s <= MaxSessions
          BY <1>1
        <4> HIDE DEF Begun
        <4>2. QED
          BY <2>2, <4>1, <1>1, GreatestNat
      <3>2. \A s \in 1..n : s \in Begun
        BY <1>1, <1>2, <3>1
      <3>3. Begun = 1..n /\ n \in 0..MaxSessions
        BY <1>1, <3>1, <3>2
      <3>4. QED
        BY <3>3
    <2>3. QED
      BY <2>1, <2>2
  <1>4. Latest = n
    <2>1. Latest = Cardinality(Begun)
      BY DEF Latest
    <2> HIDE DEF Begun
    <2>2. Cardinality(1..n) = n
      BY <1>1, FS_Interval
    <2>3. QED
      BY <1>3, <2>1, <2>2
  <1>5. QED
    BY <1>1, <1>3, <1>4

\* The one that was started last is the one that runs, if any does.
OnePeer ==
    /\ transceiver_pc # "exit" => peer[Latest] = "open"
    /\ transceiver_pc = "exit" => \A s \in M!Session : peer[s] # "open"

\* A session that is open is that of the last one.
LEMMA OpenIsLatest ==
    ASSUME DaemonInv, OnePeer, NEW s \in M!Session, peer[s] = "open"
    PROVE  s = Latest /\ transceiver_pc # "exit"
  <1>1. transceiver_pc # "exit"
    BY DEF OnePeer
  <1>2. Latest \in 0..MaxSessions /\ s \in 1..MaxSessions /\ s <= Latest
    BY LatestStarted DEF M!Session
  <1>3. Latest \in M!Session /\ s \in Nat /\ Latest \in Nat
    BY <1>2, GatewayAssumption DEF M!Session
  <1>4. peer[Latest] # "absent"
    BY <1>2, <1>3, LatestStarted
  <1>5. ~(s < Latest)
    BY <1>3, <1>4 DEF DaemonInv, M!UpInv, M!PeersInOrder
  <1>6. QED
    BY <1>1, <1>2, <1>3, <1>5

\* Steps other than these neither start nor end one.
LEMMA PeerCases ==
    ASSUME BothInv, [Next]_vars
    PROVE  \/ TransceiverStarts \/ TransceiverEnds
           \/ UNCHANGED peer /\ (transceiver_pc' = "exit" <=> transceiver_pc = "exit")
  <1>1. CASE TransceiverWorks
    BY <1>1, LoopRuns DEF TransceiverWorks, daemon
  <1>2. CASE TransceiverSends
    <2>1. BothInv' /\ T!Loop /\ ~UNCHANGED ipc_out
      BY <1>2, BothStep DEF TransceiverSends
    <2>2. transceiver_pc' # "exit"
      BY <2>1, T!PutOut, ProgramsAssumption DEF BothInv, T!ListInv
    <2>3. Latest \in M!Session
      BY <1>2, LatestRange, GatewayAssumption
         DEF TransceiverSends, BothInv, DaemonInv, PeersOK, M!Session
    <2>4. UNCHANGED peer
      BY <1>2, <2>3, EnvironmentKeepsPeers DEF TransceiverSends
    <2>5. QED
      BY <1>2, <2>2, <2>4 DEF TransceiverSends
  <1>3. CASE TransceiverInterrupted
    BY <1>3 DEF TransceiverInterrupted, T!Interrupt, daemon
  <1>4. CASE Radio
    BY <1>4, RadioKeepsProcess DEF Radio, daemon
  <1>5. CASE DaemonForwards \/ DaemonWorks \/ DaemonInterrupted \/ Broker
    <2>1. M!Process \/ \/ M!Interrupt \/ M!BrokerStops \/ M!BrokerStarts \/ M!BrokerSends
                       \/ \E c \in M!Connection : M!ConnectionFails(c)
      BY <1>5 DEF DaemonForwards, DaemonWorks, DaemonInterrupted, Broker, M!Process
    <2>2. UNCHANGED <<peer, transceiver_pc>>
      BY <1>5, <2>1, ProcessKeepsPeers, EnvironmentKeepsPeers
         DEF DaemonForwards, DaemonWorks, DaemonInterrupted, Broker, transceiver
    <2>3. QED
      BY <2>2
  <1>6. CASE UNCHANGED vars
    BY <1>6 DEF vars, transceiver, daemon
  <1>7. QED
    BY <1>1, <1>2, <1>3, <1>4, <1>5, <1>6 DEF Next

\* Only a start makes another one the last.
LEMMA LatestStep ==
    ASSUME BothInv, OnePeer, [Next]_vars
    PROVE  /\ OnePeer'
           /\ Latest' = IF TransceiverStarts THEN Latest + 1 ELSE Latest
  <1>0. /\ DaemonInv /\ DaemonInv'
        /\ peer \in [M!Session -> {"absent", "open", "closed"}]
        /\ M!Session = 1..MaxSessions /\ MaxSessions \in Nat
    BY DaemonInvStep, GatewayAssumption DEF BothInv, DaemonInv, PeersOK, M!Session
  <1>1. CASE TransceiverStarts
    <2>1. /\ transceiver_pc' # "exit" /\ transceiver_pc = "exit"
          /\ peer' = [peer EXCEPT ![Latest + 1] = "open"]
          /\ Latest < MaxSessions /\ Latest \in 0..MaxSessions
          /\ \A s \in M!Session : peer[s] # "absent" <=> s <= Latest
      BY <1>0, <1>1, LatestStarted DEF TransceiverStarts, M!PeerStarts
    <2>2. (DaemonInv => /\ Latest \in 0..MaxSessions
                        /\ \A s \in M!Session : peer[s] # "absent" <=> s <= Latest)'
      BY LatestStarted, PTL
    <2>3. /\ Latest' \in 0..MaxSessions
          /\ \A s \in 1..MaxSessions : peer'[s] # "absent" <=> s <= Latest'
      BY <1>0, <2>2
    <2>4. /\ Latest + 1 \in 1..MaxSessions /\ peer'[Latest + 1] = "open"
          /\ \A s \in 1..MaxSessions : s # Latest + 1 => peer'[s] = peer[s]
      BY <1>0, <2>1
    <2>5. Latest + 1 <= Latest'
      BY <2>3, <2>4
    <2>6. ~(Latest + 1 < Latest')
      BY <1>0, <2>1, <2>3, <2>4
    <2>7. Latest' = Latest + 1
      BY <1>0, <2>1, <2>3, <2>5, <2>6
    <2>8. QED
      BY <1>1, <2>1, <2>4, <2>7 DEF OnePeer
  <1>2. CASE TransceiverEnds /\ ~TransceiverStarts
    <2>1. /\ transceiver_pc # "exit" /\ transceiver_pc' = "exit"
          /\ peer[Latest] = "open" /\ peer' = [peer EXCEPT ![Latest] = "closed"]
          /\ Latest \in M!Session
      BY <1>0, <1>2, LatestRange DEF TransceiverEnds, M!PeerEnds, DaemonInv, PeersOK
    <2>2. \A s \in M!Session : peer'[s] # "absent" <=> peer[s] # "absent"
      BY <1>0, <2>1
    <2>3. Latest' = Latest
      BY <1>0, <2>2 DEF Latest
    <2>4. \A s \in M!Session : peer'[s] # "open"
      BY <1>0, <2>1, OpenIsLatest
    <2>5. QED
      BY <1>2, <2>1, <2>3, <2>4 DEF OnePeer
  <1>3. CASE /\ UNCHANGED peer /\ ~TransceiverStarts
             /\ transceiver_pc' = "exit" <=> transceiver_pc = "exit"
    <2>1. Latest' = Latest
      BY <1>3 DEF Latest
    <2>2. QED
      BY <1>3, <2>1 DEF OnePeer
  <1>4. QED
    BY <1>1, <1>2, <1>3, PeerCases

-----------------------------------------------------------------------------
(* The lists on their way.                                                 *)

\* How many of the packets for transceivers the last one has received, or an
\* earlier one did.
Arrived == Len(forwarded) - Len(ipc_in)

\* What the daemon forwarded last is in the socket, for the transceiver that runs.
OnItsWay ==
    transceiver_pc # "exit" =>
      /\ Len(ipc_in) <= Len(forwarded)
      /\ \A i \in 1..Len(ipc_in) :
           /\ ipc_in[i] = AsReceived(forwarded[Arrived + i])
           /\ pushed[forwarded[Arrived + i].command] = Latest

\* The nodes of a list that it has received are requested, unless a later list has
\* cleared them.
ListsRequested ==
    transceiver_pc # "exit" =>
      \A j \in 1..Len(forwarded) : j <= Arrived /\ ListSent(j, Latest) =>
        \/ \E k \in (j + 1)..Len(forwarded) :
             ListSent(k, Latest) /\ forwarded[k].content = <<>>
        \/ Nodes(forwarded[j].content) \subseteq requested

ListsInv == BothInv /\ OnePeer /\ OnItsWay /\ ListsRequested

\* The types of what the proofs below count with.
LEMMA ListTypes ==
    ASSUME BothInv
    PROVE  /\ forwarded \in Seq(M!Packet) /\ Len(forwarded) \in Nat
           /\ packets \in Seq(M!Packet)
           /\ ipc_in \in Seq(T!IpcPacket) /\ Len(ipc_in) \in Nat
           /\ Len(pushed) \in Nat /\ \A k \in 1..Len(pushed) : pushed[k] \in M!Session
           /\ Latest \in 0..MaxSessions
           /\ M!Session = 1..MaxSessions /\ MaxSessions \in Nat
           /\ \A j \in 1..Len(forwarded) : forwarded[j].command \in 1..Len(pushed)
  <1>1. /\ forwarded \in Seq(M!Packet) /\ packets \in Seq(M!Packet)
        /\ pushed \in Seq(M!Session)
    BY ProgramsAssumption, M!DownTypes DEF BothInv, DaemonInv
  <1>2. ipc_in \in Seq(T!IpcPacket)
    BY DEF BothInv, T!ListInv, T!TypeOK
  <1>3. Latest \in 0..MaxSessions
    BY LatestStarted DEF BothInv
  <1>4. ASSUME NEW j \in 1..Len(forwarded)
        PROVE  forwarded[j].command \in 1..Len(pushed)
    <2>1. forwarded[j] \in M!Packet
      BY <1>1
    <2>2. forwarded[j].command \in 1..Len(Command)
      BY <2>1 DEF M!Packet
    <2>3. forwarded[j].command <= Len(pushed)
      BY DEF BothInv, DaemonInv, M!DownInv, M!ForwardedKnown
    <2>4. QED
      BY <1>1, <2>2, <2>3
  <1>5. QED
    BY <1>1, <1>2, <1>3, <1>4, GatewayAssumption DEF M!Session

\* What is known of the daemon's packets, in the terms of the gateway.
LEMMA DaemonKeepsForwarded ==
    ASSUME BothInv, [Next]_vars, ~DaemonForwards
    PROVE  /\ UNCHANGED forwarded
           /\ \A k \in 1..Len(pushed) : pushed'[k] = pushed[k]
  <1>1. [M!Next]_(M!vars) /\ M!TypeInv
    BY DaemonInvStep DEF BothInv, DaemonInv
  <1>2. M!DownDropped \/ M!DownRead \/ M!DownSent \/ M!DownPushed
    BY <1>1, ProgramsAssumption, M!DownCases
  <1>3. pushed \in Seq(M!Session) /\ pushed' \in Seq(M!Session)
        /\ forwarded \in Seq(M!Packet)
    BY DaemonInvStep DEF BothInv, DaemonInv, M!TypeInv, M!TypeOK
  <1>4. \A k \in 1..Len(pushed) : pushed'[k] = pushed[k]
    BY <1>2, <1>3 DEF M!DownDropped, M!DownRead, M!DownSent, M!DownPushed
  <1>5. UNCHANGED forwarded
    <2>1. UNCHANGED forwarded \/ Len(forwarded') = Len(forwarded) + 1
      BY <1>2, <1>3 DEF M!DownDropped, M!DownRead, M!DownSent, M!DownPushed
    <2>2. CASE DaemonWorks
      BY <1>3, <2>1, <2>2 DEF DaemonWorks
    <2>3. CASE DaemonInterrupted \/ Broker
      BY <2>3 DEF DaemonInterrupted, Broker, M!Interrupt, M!BrokerStarts, M!BrokerSends,
                  M!BrokerStops, M!ConnectionFails, M!Breaks, M!output
    <2>4. CASE TransceiverStarts \/ TransceiverEnds
      BY <2>4 DEF TransceiverStarts, TransceiverEnds, M!PeerStarts, M!PeerEnds, M!output
    <2>5. CASE TransceiverSends
      BY <2>5 DEF TransceiverSends, M!PeerSends, M!PeerReports, M!output
    <2>6. CASE TransceiverWorks \/ TransceiverInterrupted \/ Radio \/ UNCHANGED vars
      BY <2>6 DEF TransceiverWorks, TransceiverInterrupted, Radio, vars, daemon
    <2>7. QED
      BY <2>2, <2>3, <2>4, <2>5, <2>6 DEF Next
  <1>6. QED
    BY <1>4, <1>5

\* Lists that were sent stay so, whoever they were for.
LEMMA SentStays ==
    ASSUME BothInv, [Next]_vars, ~DaemonForwards
    PROVE  \A s : \A j \in 1..Len(forwarded) : ListSent(j, s)' <=> ListSent(j, s)
  <1>1. /\ UNCHANGED forwarded
        /\ \A j \in 1..Len(forwarded) :
             pushed'[forwarded[j].command] = pushed[forwarded[j].command]
    BY DaemonKeepsForwarded, ListTypes
  <1>2. QED
    BY <1>1 DEF ListSent

\* No list was sent in a session that is yet to come.
LEMMA NothingForNext ==
    ASSUME BothInv
    PROVE  \A k \in 1..Len(pushed) : pushed[k] <= Latest
  <1>1. served \in 0..MaxSessions /\ \A k \in 1..Len(pushed) : pushed[k] <= served
    BY DEF BothInv, DaemonInv, M!AccountInv, M!NotYetTold, M!TypeInv, M!TypeOK
  <1>2. served <= Latest
    <2>1. served = 0 \/ (served \in M!Session /\ peer[served] # "absent")
      BY <1>1, ListTypes DEF BothInv, DaemonInv, M!AcceptedStarted
    <2>2. QED
      BY <1>1, <2>1, LatestStarted, ListTypes DEF BothInv
  <1>3. QED
    BY <1>1, <1>2, ListTypes

\* Steps that do not concern the lists.
LEMMA ListsKept ==
    ASSUME ListsInv, [Next]_vars, ~DaemonForwards, ~TransceiverStarts,
           UNCHANGED <<ipc_in, requested>>
    PROVE  OnItsWay' /\ ListsRequested'
  <1> USE DEF ListsInv
  <1>1. /\ UNCHANGED forwarded /\ UNCHANGED Latest
        /\ \A j \in 1..Len(forwarded) :
             pushed'[forwarded[j].command] = pushed[forwarded[j].command]
    BY DaemonKeepsForwarded, ListTypes, LatestStep
  <1>2. transceiver_pc' # "exit" => transceiver_pc # "exit"
    BY PeerCases DEF TransceiverEnds
  <1>3. UNCHANGED Arrived
    BY <1>1 DEF Arrived
  <1>4. OnItsWay'
    <2> SUFFICES ASSUME transceiver_pc' # "exit"
                 PROVE  /\ Len(ipc_in) <= Len(forwarded)
                        /\ \A i \in 1..Len(ipc_in) :
                             /\ ipc_in[i] = AsReceived(forwarded[Arrived + i])
                             /\ pushed'[forwarded[Arrived + i].command] = Latest
      BY <1>1, <1>3 DEF OnItsWay, AsReceived, T!Nodelist, T!Forwarded
    <2>1. \A i \in 1..Len(ipc_in) : Arrived + i \in 1..Len(forwarded)
      BY <1>2, ListTypes DEF Arrived, OnItsWay
    <2>2. QED
      BY <1>1, <1>2, <2>1 DEF OnItsWay
  <1>5. ListsRequested'
    <2>1. \A j \in 1..Len(forwarded) : ListSent(j, Latest)' <=> ListSent(j, Latest)
      BY <1>1 DEF ListSent
    <2> SUFFICES ASSUME transceiver_pc' # "exit", NEW j \in 1..Len(forwarded),
                        j <= Arrived, ListSent(j, Latest)
                 PROVE  \/ \E k \in (j + 1)..Len(forwarded) :
                             ListSent(k, Latest)' /\ forwarded[k].content = <<>>
                        \/ Nodes(forwarded[j].content) \subseteq requested
      BY <1>1, <1>3, <2>1 DEF ListsRequested, Nodes
    <2>2. CASE Nodes(forwarded[j].content) \subseteq requested
      BY <2>2
    <2>3. CASE \E k \in (j + 1)..Len(forwarded) :
                 ListSent(k, Latest) /\ forwarded[k].content = <<>>
      BY <2>1, <2>3, ListTypes
    <2>4. QED
      BY <1>2, <2>2, <2>3 DEF ListsRequested
  <1>6. QED
    BY <1>4, <1>5

\* A packet is received: a list is requested then, or the ones before it cleared.
LEMMA ListsTaken ==
    ASSUME ListsInv, [Next]_vars, ~DaemonForwards, ~TransceiverStarts,
           transceiver_pc # "exit", T!ReceiveNodelist \/ T!ReceiveForwarded
    PROVE  OnItsWay' /\ ListsRequested'
  <1> USE DEF ListsInv
  <1> DEFINE n == Len(forwarded)
             a == Arrived
             p == forwarded[a + 1]
  <1>1. /\ UNCHANGED forwarded /\ UNCHANGED Latest
        /\ \A j \in 1..n : pushed'[forwarded[j].command] = pushed[forwarded[j].command]
        /\ \A j \in 1..n : ListSent(j, Latest)' <=> ListSent(j, Latest)
    <2>1. /\ UNCHANGED forwarded /\ UNCHANGED Latest
          /\ \A j \in 1..n : pushed'[forwarded[j].command] = pushed[forwarded[j].command]
      BY DaemonKeepsForwarded, ListTypes, LatestStep
    <2>2. QED
      BY <2>1 DEF ListSent
  <1>2. /\ ipc_in # <<>> /\ ipc_in' = Tail(ipc_in)
        /\ ipc_in \in Seq(T!IpcPacket) /\ Len(ipc_in) \in Nat /\ n \in Nat
    BY ListTypes DEF T!ReceiveNodelist, T!ReceiveForwarded
  <1>3. /\ Len(ipc_in') = Len(ipc_in) - 1 /\ Len(ipc_in) > 0 /\ Head(ipc_in) = ipc_in[1]
        /\ \A i \in 1..Len(ipc_in') : ipc_in'[i] = ipc_in[i + 1]
    BY <1>2
  <1>4. a \in Nat /\ a + 1 \in 1..n /\ Arrived' = a + 1
    BY <1>1, <1>2, <1>3 DEF Arrived, OnItsWay
  <1>5. /\ Head(ipc_in) = AsReceived(p) /\ pushed[p.command] = Latest
    BY <1>2, <1>3 DEF OnItsWay
  <1>6. OnItsWay'
    <2>1. Len(ipc_in') <= n
      BY <1>2, <1>3 DEF OnItsWay
    <2>2. ASSUME NEW i \in 1..Len(ipc_in')
          PROVE  /\ ipc_in'[i] = AsReceived(forwarded[a + 1 + i])
                 /\ pushed'[forwarded[a + 1 + i].command] = Latest
      <3>1. i + 1 \in 1..Len(ipc_in) /\ a + 1 + i = a + (i + 1) /\ a + 1 + i \in 1..n
        BY <1>2, <1>3, <1>4 DEF Arrived
      <3>2. QED
        BY <1>1, <1>3, <3>1 DEF OnItsWay
    <2> HIDE DEF a
    <2>3. QED
      BY <1>1, <1>4, <2>1, <2>2 DEF OnItsWay, AsReceived, T!Nodelist, T!Forwarded
  <1>7. ListsRequested'
    <2> SUFFICES ASSUME NEW j \in 1..n, j <= a + 1, ListSent(j, Latest)
                 PROVE  \/ \E k \in (j + 1)..n :
                             ListSent(k, Latest) /\ forwarded[k].content = <<>>
                        \/ Nodes(forwarded[j].content) \subseteq requested'
      <3>1. \A j \in 1..n : \A k \in (j + 1)..n : k \in 1..n
        BY <1>2
      <3>2. QED
        BY <1>1, <1>4, <3>1 DEF ListsRequested, Nodes
    <2>1. CASE p.id # "nodelist"
      <3>1. Head(ipc_in).id = "message"
        BY <1>5, <2>1 DEF AsReceived, T!Forwarded
      <3>2. UNCHANGED requested
        BY <3>1 DEF T!ReceiveNodelist, T!ReceiveForwarded
      <3>3. j # a + 1
        BY <2>1 DEF ListSent
      <3>4. QED
        BY <1>4, <3>2, <3>3 DEF ListsRequested
    <2>2. CASE p.id = "nodelist"
      <3>1. Head(ipc_in) = T!Nodelist(p.content)
        BY <1>5, <2>2 DEF AsReceived
      <3>2. requested' = IF p.content = <<>> THEN {}
                         ELSE requested \cup {p.content[i] : i \in DOMAIN p.content}
        BY <3>1 DEF T!ReceiveNodelist, T!ReceiveForwarded, T!Nodelist
      <3>3. ListSent(a + 1, Latest)
        BY <1>5, <2>2 DEF ListSent
      <3>4. p.content \in Seq(Nat)
        <4>1. p \in M!Packet
          BY <1>4, ListTypes
        <4>2. QED
          BY <4>1 DEF M!Packet
      <3>5. CASE j = a + 1
        <4>1. Nodes(p.content) \subseteq requested'
          BY <3>2, <3>4 DEF Nodes
        <4>2. QED
          BY <3>5, <4>1
      <3>6. CASE j # a + 1 /\ p.content = <<>>
        BY <1>4, <3>3, <3>6
      <3>7. CASE j # a + 1 /\ p.content # <<>>
        BY <1>4, <3>2, <3>7 DEF ListsRequested
      <3>8. QED
        BY <3>5, <3>6, <3>7
    <2>3. QED
      BY <2>1, <2>2
  <1>8. QED
    BY <1>6, <1>7

\* A packet is forwarded to the transceiver that runs: the session is its own.
LEMMA ListsForwarded ==
    ASSUME ListsInv, [Next]_vars, DaemonForwards
    PROVE  OnItsWay' /\ ListsRequested'
  <1> USE DEF ListsInv
  <1> DEFINE n == Len(forwarded)
             x == Head(packets)
  <1>1. /\ packets # <<>> /\ packets \in Seq(M!Packet) /\ forwarded \in Seq(M!Packet)
        /\ peer[current] = "open" /\ forwarded' = Append(forwarded, x)
        /\ ipc_in' = Append(ipc_in, AsReceived(x))
    BY ForwardedIsReceived DEF BothInv
  <1>2. /\ ipc_in \in Seq(T!IpcPacket) /\ Len(ipc_in) \in Nat /\ n \in Nat
    BY ListTypes
  <1>3. UNCHANGED <<pushed, peer, requested, transceiver_pc>>
    BY DEF DaemonForwards, M!Forward, M!outside, M!peers
  <1>4. UNCHANGED Latest
    BY <1>3 DEF Latest
  <1>5. /\ Len(forwarded') = n + 1 /\ forwarded'[n + 1] = x
        /\ \A j \in 1..n : forwarded'[j] = forwarded[j]
    BY <1>1
  <1>6. /\ Len(ipc_in') = Len(ipc_in) + 1 /\ ipc_in'[Len(ipc_in) + 1] = AsReceived(x)
        /\ \A i \in 1..Len(ipc_in) : ipc_in'[i] = ipc_in[i]
    <2>1. \A q \in Seq(T!IpcPacket) : \A y :
            /\ Len(Append(q, y)) = Len(q) + 1 /\ Append(q, y)[Len(q) + 1] = y
            /\ \A i \in 1..Len(q) : Append(q, y)[i] = q[i]
      OBVIOUS
    <2>2. QED
      BY <1>1, <1>2, <2>1
  <1>7. Arrived' = Arrived /\ Arrived = n - Len(ipc_in)
    BY <1>2, <1>5, <1>6 DEF Arrived
  <1>8. current = Latest /\ pushed[x.command] = current
    <2>1. current \in M!Session
      BY DEF BothInv, DaemonInv, M!TypeInv, M!Phases, DaemonForwards, M!Forward
    <2>2. current = Latest
      BY <1>1, <2>1, OpenIsLatest DEF BothInv
    <2>3. 1 \in 1..Len(packets) /\ x = packets[1]
      BY <1>1
    <2>4. QED
      BY <2>2, <2>3 DEF BothInv, DaemonInv, M!WorkInv, M!OfThisSession
  <1> HIDE DEF x
  <1>9. OnItsWay'
    <2> SUFFICES ASSUME transceiver_pc # "exit"
                 PROVE  /\ Len(ipc_in') <= Len(forwarded')
                        /\ \A i \in 1..Len(ipc_in') :
                             /\ ipc_in'[i] = AsReceived(forwarded'[Arrived + i])
                             /\ pushed[forwarded'[Arrived + i].command] = Latest
      BY <1>3, <1>4, <1>7 DEF OnItsWay, AsReceived, T!Nodelist, T!Forwarded
    <2>1. Len(ipc_in) <= n
      BY DEF OnItsWay
    <2>2. ASSUME NEW i \in 1..Len(ipc_in)
          PROVE  /\ ipc_in'[i] = AsReceived(forwarded'[Arrived + i])
                 /\ pushed[forwarded'[Arrived + i].command] = Latest
      <3>1. Arrived + i \in 1..n
        BY <1>2, <1>7, <2>1
      <3>2. QED
        BY <1>5, <1>6, <3>1 DEF OnItsWay
    <2>3. Arrived + Len(ipc_in) + 1 = n + 1
      BY <1>2, <1>7
    <2>4. /\ ipc_in'[Len(ipc_in) + 1] = AsReceived(forwarded'[Arrived + (Len(ipc_in) + 1)])
          /\ pushed[forwarded'[Arrived + (Len(ipc_in) + 1)].command] = Latest
      <3>1. Arrived + (Len(ipc_in) + 1) = n + 1
        BY <1>2, <1>7
      <3>2. QED
        BY <1>5, <1>6, <1>8, <3>1
    <2>5. Len(ipc_in') <= Len(forwarded')
      BY <1>2, <1>5, <1>6, <2>1
    <2>6. \A i \in 1..Len(ipc_in') : i \in 1..Len(ipc_in) \/ i = Len(ipc_in) + 1
      BY <1>2, <1>6
    <2>7. QED
      BY <2>2, <2>4, <2>5, <2>6
  <1>10. ListsRequested'
    <2>1. \A j \in 1..n : ListSent(j, Latest)' <=> ListSent(j, Latest)
      BY <1>3, <1>4, <1>5 DEF ListSent
    <2> SUFFICES ASSUME transceiver_pc # "exit", NEW j \in 1..Len(forwarded'),
                        j <= Arrived, ListSent(j, Latest)'
                 PROVE  \/ \E k \in (j + 1)..Len(forwarded') :
                             ListSent(k, Latest)' /\ forwarded'[k].content = <<>>
                        \/ Nodes(forwarded'[j].content) \subseteq requested
      BY <1>3, <1>7 DEF ListsRequested, Nodes
    <2>2. j \in 1..n
      BY <1>2, <1>5, <1>7
    <2>3. \/ \E k \in (j + 1)..n : ListSent(k, Latest) /\ forwarded[k].content = <<>>
          \/ Nodes(forwarded[j].content) \subseteq requested
      BY <2>1, <2>2 DEF ListsRequested
    <2>4. \A k \in (j + 1)..n : k \in 1..n /\ k \in (j + 1)..Len(forwarded')
      BY <1>2, <1>5, <2>2
    <2>5. QED
      BY <1>5, <2>1, <2>2, <2>3, <2>4
  <1>11. QED
    BY <1>9, <1>10

\* At first no list is on its way.
LEMMA ListsInit == Init => ListsInv
  <1> SUFFICES ASSUME Init PROVE ListsInv
    OBVIOUS
  <1>1. BothInv /\ transceiver_pc = "exit"
    BY BothInit DEF Init
  <1>2. \A s \in M!Session : peer[s] # "open"
    BY DEF Init, M!Init
  <1>3. QED
    BY <1>1, <1>2 DEF ListsInv, OnePeer, OnItsWay, ListsRequested

\* No step loses a list or lets one overtake another.
LEMMA ListsStep ==
    ASSUME ListsInv, [Next]_vars
    PROVE  ListsInv'
  <1>1. BothInv' /\ OnePeer'
    BY BothStep, LatestStep DEF ListsInv
  <1>2. CASE DaemonForwards
    BY <1>1, <1>2, ListsForwarded DEF ListsInv
  <1>3. CASE TransceiverStarts /\ ~DaemonForwards
    <2>1. /\ UNCHANGED forwarded /\ Latest' = Latest + 1 /\ ipc_in' = <<>>
          /\ \A j \in 1..Len(forwarded) :
               pushed'[forwarded[j].command] = pushed[forwarded[j].command]
      BY <1>3, DaemonKeepsForwarded, ListTypes, LatestStep
         DEF ListsInv, TransceiverStarts, Started
    <2>2. Len(ipc_in') = 0 /\ Len(forwarded) \in Nat /\ Latest \in Nat
      BY <2>1, ListTypes DEF ListsInv
    <2>3. \A j \in 1..Len(forwarded) : ~ListSent(j, Latest)'
      <3> SUFFICES ASSUME NEW j \in 1..Len(forwarded)
                   PROVE  pushed[forwarded[j].command] # Latest + 1
        BY <2>1 DEF ListSent
      <3>1. forwarded[j].command \in 1..Len(pushed)
        BY ListTypes DEF ListsInv
      <3>2. /\ pushed[forwarded[j].command] <= Latest
            /\ pushed[forwarded[j].command] \in 1..MaxSessions
        BY <3>1, NothingForNext, ListTypes DEF ListsInv
      <3>3. QED
        BY <2>2, <3>2
    <2>4. OnItsWay'
      BY <2>1, <2>2 DEF OnItsWay
    <2>5. ListsRequested'
      BY <2>1, <2>3 DEF ListsRequested
    <2>6. QED
      BY <1>1, <2>4, <2>5 DEF ListsInv
  <1>4. CASE TransceiverEnds
    <2>1. OnItsWay' /\ ListsRequested'
      BY <1>4 DEF TransceiverEnds, OnItsWay, ListsRequested
    <2>2. QED
      BY <1>1, <2>1 DEF ListsInv
  <1>5. CASE /\ TransceiverWorks \/ TransceiverSends \/ TransceiverInterrupted \/ Radio
             /\ ~DaemonForwards /\ ~TransceiverStarts
    <2>1. T!Loop \/ T!Interrupt \/ T!Tick \/ \E m \in Message : T!NodeSends(m)
      BY <1>5 DEF TransceiverWorks, TransceiverSends, TransceiverInterrupted, Radio
    <2>2. \/ UNCHANGED <<ipc_in, requested>>
          \/ T!ReceiveNodelist \/ T!ReceiveForwarded
      BY <2>1, ProgramsAssumption, T!ListCases
    <2>3. T!ReceiveNodelist \/ T!ReceiveForwarded => transceiver_pc # "exit"
      BY DEF T!ReceiveNodelist, T!ReceiveForwarded
    <2>4. QED
      BY <1>1, <1>5, <2>2, <2>3, ListsKept, ListsTaken DEF ListsInv
  <1>6. CASE /\ DaemonWorks \/ DaemonInterrupted \/ Broker \/ UNCHANGED vars
             /\ ~DaemonForwards /\ ~TransceiverStarts
    <2>1. UNCHANGED <<ipc_in, requested>>
      BY <1>6 DEF DaemonWorks, DaemonInterrupted, Broker, vars, transceiver
    <2>2. QED
      BY <1>1, <1>6, <2>1, ListsKept DEF ListsInv
  <1>7. QED
    BY <1>2, <1>3, <1>4, <1>5, <1>6 DEF Next

\* A list that was forwarded in this session is in the whitelist, unless it is full
\* or was cleared since, or it is still in the socket: none is lost between the two
\* programs, whichever was started again in between.
THEOREM ForwardedListsArrive == Spec => []ListsReachWhitelist
  <1>1. ListsInv => ListsReachWhitelist
    <2> SUFFICES ASSUME ListsInv, transceiver_pc # "exit",
                        T!PrefixLength(whitelist) < MaxNodeList,
                        NEW j \in 1..Len(forwarded), ListSent(j, Latest),
                        ~\E k \in (j + 1)..Len(forwarded) :
                           ListSent(k, Latest) /\ forwarded[k].content = <<>>
                 PROVE  \/ Nodes(forwarded[j].content) \subseteq T!Listed(whitelist)
                        \/ \E k \in 1..Len(ipc_in) : ipc_in[k] = AsReceived(forwarded[j])
      BY DEF ListsReachWhitelist
    <2>0. Len(forwarded) \in Nat /\ Len(ipc_in) \in Nat /\ MaxNodeList \in Nat
      BY ListTypes, ProgramsAssumption DEF ListsInv, T!NodeListAssumption
    <2>1. CASE j <= Arrived
      <3>1. Nodes(forwarded[j].content) \subseteq requested
        BY <2>1 DEF ListsInv, ListsRequested
      <3>2. T!PrefixLength(whitelist) # MaxNodeList
        <4>1. whitelist \in T!NodeLists(Node)
          BY DEF ListsInv, BothInv, T!ListInv, T!TypeOK
        <4>2. T!PrefixLength(whitelist) \in 0..MaxNodeList
          BY <4>1, ProgramsAssumption, T!PrefixLengthExists
        <4>3. QED
          BY <2>0, <4>2
      <3>3. requested \subseteq T!Listed(whitelist)
        BY <3>2 DEF ListsInv, BothInv, T!ListInv, T!RequestedAreListed
      <3>4. QED
        BY <3>1, <3>3
    <2>2. CASE j > Arrived
      <3>1. j - Arrived \in 1..Len(ipc_in) /\ Arrived + (j - Arrived) = j
        BY <2>0, <2>2 DEF Arrived
      <3>2. ipc_in[j - Arrived] = AsReceived(forwarded[j])
        BY <3>1 DEF ListsInv, OnItsWay
      <3>3. QED
        BY <3>1, <3>2
    <2>3. QED
      BY <2>0, <2>1, <2>2 DEF Arrived
  <1>2. QED
    BY <1>1, ListsInit, ListsStep, PTL DEF Spec

-----------------------------------------------------------------------------
(* What was passed on, message by message.                                 *)

\* The messages of nodes among the first k that were put out, for k up to n.
IsUpto(f, out, n) ==
    f = [k \in 0..n |->
           IF k = 0 THEN <<>>
           ELSE IF out[k].kind = "data" THEN Append(f[k - 1], out[k]) ELSE f[k - 1]]

\* There is one, ...
LEMMA UptoExists ==
    ASSUME NEW out, NEW n \in Nat
    PROVE  \E f : IsUpto(f, out, n)
  <1> DEFINE S == {m \in Nat : \E f : IsUpto(f, out, m)}
  <1>1. 0 \in S
    <2>1. IsUpto([k \in 0..0 |-> <<>>], out, 0)
      BY DEF IsUpto
    <2>2. QED
      BY <2>1
  <1>2. ASSUME NEW m \in Nat, m \in S
        PROVE  m + 1 \in S
    <2>1. PICK f : IsUpto(f, out, m)
      BY <1>2
    <2> DEFINE last == IF out[m + 1].kind = "data" THEN Append(f[m], out[m + 1]) ELSE f[m]
               g == [k \in 0..(m + 1) |-> IF k <= m THEN f[k] ELSE last]
    <2>2. \A k \in 0..m : g[k] = f[k] /\ k \in 0..(m + 1)
      OBVIOUS
    <2>3. g[m + 1] = last
      OBVIOUS
    <2>4. \A k \in 0..m : f[k] = IF k = 0 THEN <<>>
             ELSE IF out[k].kind = "data" THEN Append(f[k - 1], out[k]) ELSE f[k - 1]
      BY <2>1 DEF IsUpto
    <2>5. \A k \in 1..m : k - 1 \in 0..m
      OBVIOUS
    <2>6. \A k \in 0..(m + 1) : g[k] = IF k = 0 THEN <<>>
             ELSE IF out[k].kind = "data" THEN Append(g[k - 1], out[k]) ELSE g[k - 1]
      <3> SUFFICES ASSUME NEW k \in 0..(m + 1)
                   PROVE  g[k] = IF k = 0 THEN <<>>
             ELSE IF out[k].kind = "data" THEN Append(g[k - 1], out[k]) ELSE g[k - 1]
        OBVIOUS
      <3> HIDE DEF g
      <3>1. CASE k = m + 1
        <4>1. m \in 0..m /\ k - 1 = m /\ k # 0
          BY <3>1
        <4>2. QED
          BY <2>2, <2>3, <3>1, <4>1
      <3>2. CASE k \in 0..m
        BY <2>2, <2>4, <2>5, <3>2
      <3>3. QED
        BY <3>1, <3>2
    <2>7. g = [k \in 0..(m + 1) |-> g[k]]
      OBVIOUS
    <2> HIDE DEF g
    <2>8. IsUpto(g, out, m + 1)
      BY <2>6, <2>7 DEF IsUpto
    <2>9. QED
      BY <2>8
  <1> HIDE DEF S
  <1>3. Nat \subseteq S
    BY <1>1, <1>2, SetInduction
  <1>4. QED
    BY <1>3 DEF S

\* ... whose last element DataOf is, ...
LEMMA DataOfIs ==
    ASSUME NEW out, Len(out) \in Nat
    PROVE  \E f : IsUpto(f, out, Len(out)) /\ DataOf(out) = f[Len(out)]
  <1> DEFINE f == CHOOSE f : IsUpto(f, out, Len(out))
  <1>1. IsUpto(f, out, Len(out))
    BY UptoExists
  <1>2. DataOf(out) = f[Len(out)]
    BY DEF DataOf, IsUpto
  <1>3. QED
    BY <1>1, <1>2

\* ... each element of which is made of the one before.
LEMMA UptoNext ==
    ASSUME NEW f, NEW out, NEW n \in Nat, IsUpto(f, out, n)
    PROVE  \A l \in 1..n :
             f[l] = IF out[l].kind = "data" THEN Append(f[l - 1], out[l]) ELSE f[l - 1]
  <1> SUFFICES ASSUME NEW l \in 1..n
               PROVE  f[l] = IF out[l].kind = "data" THEN Append(f[l - 1], out[l]) ELSE f[l - 1]
    OBVIOUS
  <1>1. l \in 0..n /\ l # 0
    OBVIOUS
  <1>2. QED
    BY <1>1 DEF IsUpto

\* The sequences agree as long as what they are made of does.
LEMMA UptoAgree ==
    ASSUME NEW one, NEW two, NEW f, NEW g, NEW m \in Nat, NEW n \in Nat, m <= n,
           IsUpto(f, one, m), IsUpto(g, two, n),
           \A k \in 1..m : one[k] = two[k]
    PROVE  \A k \in 0..m : f[k] = g[k]
  <1> DEFINE S == {k \in Nat : k <= m => f[k] = g[k]}
  <1>1. 0 \in S
    BY DEF IsUpto
  <1>2. ASSUME NEW k \in Nat, k \in S
        PROVE  k + 1 \in S
    <2> SUFFICES ASSUME k + 1 <= m PROVE f[k + 1] = g[k + 1]
      OBVIOUS
    <2>1. /\ k + 1 \in 0..m /\ k + 1 \in 0..n /\ k + 1 \in 1..m /\ k + 1 \in 1..n
          /\ (k + 1) - 1 = k /\ k + 1 # 0 /\ f[k] = g[k]
      <3>1. k <= m
        BY <1>2
      <3>2. f[k] = g[k]
        BY <1>2, <3>1
      <3> HIDE DEF S
      <3> QED
        BY <1>2, <3>2
    <2> HIDE DEF S
    <2>2. f[k + 1] = IF one[k + 1].kind = "data" THEN Append(f[k], one[k + 1]) ELSE f[k]
      <3>1. \A l \in 1..m :
              f[l] = IF one[l].kind = "data" THEN Append(f[l - 1], one[l]) ELSE f[l - 1]
        BY UptoNext
      <3> QED
        BY <2>1, <3>1
    <2>3. g[k + 1] = IF two[k + 1].kind = "data" THEN Append(g[k], two[k + 1]) ELSE g[k]
      <3>1. \A l \in 1..n :
              g[l] = IF two[l].kind = "data" THEN Append(g[l - 1], two[l]) ELSE g[l - 1]
        BY UptoNext
      <3> QED
        BY <2>1, <3>1
    <2>4. QED
      BY <2>1, <2>2, <2>3
  <1> HIDE DEF S
  <1>3. Nat \subseteq S
    BY <1>1, <1>2, SetInduction
  <1>4. QED
    BY <1>3 DEF S

\* What has been passed on are messages of the kind.
LEMMA DataOfType ==
    ASSUME NEW S, NEW out \in Seq(S)
    PROVE  /\ DataOf(out) \in Seq(S)
           /\ \A k \in 1..Len(DataOf(out)) :
                \E i \in 1..Len(out) : out[i].kind = "data" /\ DataOf(out)[k] = out[i]
  <1>1. PICK f : IsUpto(f, out, Len(out)) /\ DataOf(out) = f[Len(out)]
    BY DataOfIs
  <1> DEFINE D == {x \in S : \E i \in 1..Len(out) : out[i].kind = "data" /\ x = out[i]}
             Good == {k \in Nat : k <= Len(out) => f[k] \in Seq(D)}
  <1>2. 0 \in Good
    BY <1>1 DEF IsUpto
  <1>3. ASSUME NEW k \in Nat, k \in Good
        PROVE  k + 1 \in Good
    <2> SUFFICES ASSUME k + 1 <= Len(out) PROVE f[k + 1] \in Seq(D)
      OBVIOUS
    <2>1. /\ k + 1 \in 0..Len(out) /\ k + 1 \in 1..Len(out)
          /\ (k + 1) - 1 = k /\ k + 1 # 0 /\ f[k] \in Seq(D)
      BY <1>3
    <2>2. f[k + 1] = IF out[k + 1].kind = "data" THEN Append(f[k], out[k + 1]) ELSE f[k]
      BY <1>1, <2>1 DEF IsUpto
    <2>3. out[k + 1].kind = "data" => out[k + 1] \in D
      BY <2>1
    <2> HIDE DEF D
    <2>4. QED
      BY <2>1, <2>2, <2>3
  <1> HIDE DEF Good
  <1>4. Nat \subseteq Good
    BY <1>2, <1>3, SetInduction
  <1>5. DataOf(out) \in Seq(D)
    BY <1>1, <1>4 DEF Good
  <1>6. \A k \in 1..Len(DataOf(out)) : DataOf(out)[k] \in D
    <2> HIDE DEF D
    <2>1. QED
      BY <1>5
  <1>7. DataOf(out) \in Seq(S)
    <2>1. D \subseteq S
      OBVIOUS
    <2> HIDE DEF D
    <2>2. QED
      BY <1>5, <2>1
  <1>8. QED
    BY <1>6, <1>7

\* A message of a node that is put out is passed on behind the others, and a report
\* is not.
LEMMA DataOfGrows ==
    ASSUME NEW S, NEW out \in Seq(S), NEW x \in S
    PROVE  DataOf(Append(out, x)) =
             IF x.kind = "data" THEN Append(DataOf(out), x) ELSE DataOf(out)
  <1> DEFINE n == Len(out)
             more == Append(out, x)
  <1>1. /\ n \in Nat /\ Len(more) = n + 1 /\ more[n + 1] = x
        /\ \A k \in 1..n : out[k] = more[k]
    OBVIOUS
  <1> HIDE DEF more, n
  <1>2. PICK f : IsUpto(f, out, n) /\ DataOf(out) = f[n]
    BY <1>1, DataOfIs DEF n
  <1>3. PICK g : IsUpto(g, more, n + 1) /\ DataOf(more) = g[n + 1]
    BY <1>1, DataOfIs
  <1>4. f[n] = g[n]
    <2>1. n \in 0..n /\ n + 1 \in Nat /\ n <= n + 1
      BY <1>1
    <2>2. \A k \in 0..n : f[k] = g[k]
      BY <1>1, <1>2, <1>3, <2>1, UptoAgree
    <2>3. QED
      BY <2>1, <2>2
  <1>5. n + 1 \in 0..(n + 1) /\ (n + 1) - 1 = n /\ n + 1 # 0
    BY <1>1
  <1>6. g[n + 1] = IF x.kind = "data" THEN Append(g[n], x) ELSE g[n]
    BY <1>1, <1>3, <1>5 DEF IsUpto
  <1>7. QED
    BY <1>2, <1>3, <1>4, <1>6 DEF more

\* Nothing was passed on at first.
LEMMA DataOfNothing == DataOf(<<>>) = <<>>
  <1>1. PICK f : IsUpto(f, <<>>, Len(<<>>)) /\ DataOf(<<>>) = f[Len(<<>>)]
    BY DataOfIs
  <1>2. Len(<<>>) = 0 /\ 0 \in 0..0
    OBVIOUS
  <1>3. f[0] = <<>>
    BY <1>1, <1>2 DEF IsUpto
  <1>4. QED
    BY <1>1, <1>2, <1>3

\* A step passes on nothing, or the message of a node that is in the whitelist, in
\* the session of the transceiver that runs.
LEMMA PassedCases ==
    ASSUME BothInv, [Next]_vars
    PROVE  \/ UNCHANGED <<Passed, sent_in>>
           \/ /\ TransceiverSends
              /\ UNCHANGED <<whitelist, published, forwarded, pushed>>
              /\ sent_in' = Append(sent_in, Latest)
              /\ \E x \in T!IpcMessage :
                   /\ x.kind = "data" /\ x.source \in Node
                   /\ T!nodelist_find(whitelist, x.source)
                   /\ ipc_out' = Append(ipc_out, x)
                   /\ Passed' = Append(Passed, x)
  <1>1. /\ T!TypeOK /\ (T!TypeOK)' /\ ipc_out \in Seq(T!IpcMessage)
        /\ sent_in \in Seq(M!Session)
    BY BothStep DEF BothInv, DaemonInv, T!ListInv, T!TypeOK, M!TypeInv, M!TypeOK
  <1>2. CASE UNCHANGED <<ipc_out, sent_in>>
    BY <1>2 DEF Passed
  <1>3. CASE TransceiverSends
    <2>1. T!Loop /\ ~UNCHANGED ipc_out
      BY <1>3 DEF TransceiverSends
    <2>2. /\ UNCHANGED whitelist
          /\ \E x \in T!IpcMessage :
               /\ ipc_out' = Append(ipc_out, x)
               /\ x.kind = "data" => T!nodelist_find(whitelist, x.source) /\ x.source \in Node
      BY <1>1, <2>1, T!PutOut, ProgramsAssumption
    <2>3. PICK x \in T!IpcMessage :
               /\ ipc_out' = Append(ipc_out, x)
               /\ x.kind = "data" => T!nodelist_find(whitelist, x.source) /\ x.source \in Node
      BY <2>2
    <2>4. Passed' = IF x.kind = "data" THEN Append(Passed, x) ELSE Passed
      BY <1>1, <2>3, DataOfGrows DEF Passed
    <2>5. ipc_out'[Len(ipc_out')] = x
      BY <1>1, <2>3
    <2>6. /\ UNCHANGED <<published, forwarded, pushed>>
          /\ sent_in' = Append(sent_in, Latest) \/ UNCHANGED sent_in
      BY <1>3 DEF TransceiverSends, M!PeerSends, M!PeerReports, M!output
    <2>7. Len(sent_in') > Len(sent_in) <=> x.kind = "data"
      BY <1>3, <2>5 DEF TransceiverSends
    <2>8. IF x.kind = "data" THEN sent_in' = Append(sent_in, Latest) ELSE UNCHANGED sent_in
      <3>1. sent_in' = Append(sent_in, Latest) => Len(sent_in') > Len(sent_in)
        BY <1>1
      <3>2. UNCHANGED sent_in => ~(Len(sent_in') > Len(sent_in))
        BY <1>1
      <3>3. QED
        BY <2>6, <2>7, <3>1, <3>2
    <2>9. QED
      BY <1>3, <2>2, <2>3, <2>4, <2>6, <2>8
  <1>4. CASE TransceiverEnds
    <2>1. T!Loop /\ transceiver_pc' = "exit" /\ UNCHANGED sent_in
      BY <1>4 DEF TransceiverEnds, M!PeerEnds
    <2>2. UNCHANGED ipc_out
      BY <1>1, <2>1, T!PutOut, ProgramsAssumption
    <2>3. QED
      BY <1>2, <2>1, <2>2
  <1>5. CASE TransceiverStarts
    BY <1>2, <1>5 DEF TransceiverStarts, M!PeerStarts
  <1>6. CASE TransceiverWorks \/ TransceiverInterrupted \/ Radio \/ UNCHANGED vars
    BY <1>2, <1>6 DEF TransceiverWorks, TransceiverInterrupted, Radio, vars, daemon,
       transceiver, T!Interrupt, T!NodeSends, T!Tick, T!process
  <1>7. CASE DaemonForwards \/ DaemonWorks \/ DaemonInterrupted \/ Broker
    <2>1. UNCHANGED ipc_out
      BY <1>7 DEF DaemonForwards, DaemonWorks, DaemonInterrupted, Broker, transceiver
    <2>2. M!Process \/ \/ M!Interrupt \/ M!BrokerStops \/ M!BrokerStarts \/ M!BrokerSends
                       \/ \E c \in M!Connection : M!ConnectionFails(c)
      BY <1>7 DEF DaemonForwards, DaemonWorks, DaemonInterrupted, Broker, M!Process
    <2>3. UNCHANGED sent_in
      BY <2>2, ProcessKeepsPeers
         DEF M!Interrupt, M!BrokerStops, M!BrokerStarts, M!BrokerSends,
             M!ConnectionFails, M!Breaks, M!outside, M!peers
    <2>4. QED
      BY <1>2, <2>1, <2>3
  <1>8. QED
    BY <1>3, <1>4, <1>5, <1>6, <1>7 DEF Next

-----------------------------------------------------------------------------
(* Whose messages are passed on.                                           *)

\* The nodes of the lists that were sent in a session.
Heard(s) == UNION {Nodes(forwarded[j].content) :
                     j \in {i \in 1..Len(forwarded) : ListSent(i, s)}}

\* The transceiver that runs knows only those of its own session, also in the part
\* of its buffer that a list can be read on into; and what was passed on before
\* was of nodes that were heard of in the session it was passed on in.
KnowsHeard ==
    transceiver_pc # "exit" =>
      /\ whitelist \in T!NodeLists(Heard(Latest))
      /\ T!BufferOf(ipc_rx_buf, Heard(Latest))
PassedHeard ==
    /\ Len(Passed) = Len(sent_in)
    /\ \A k \in 1..Len(sent_in) : Passed[k].source \in Heard(sent_in[k])
KnownInv == ListsInv /\ KnowsHeard /\ PassedHeard

\* Nothing that was heard is forgotten.
LEMMA HeardStays ==
    ASSUME BothInv, [Next]_vars
    PROVE  \A s : Heard(s) \subseteq Heard(s)'
  <1> SUFFICES ASSUME NEW s, NEW j \in 1..Len(forwarded), ListSent(j, s)
               PROVE  /\ j \in 1..Len(forwarded') /\ ListSent(j, s)'
                      /\ forwarded'[j] = forwarded[j]
    BY DEF Heard, Nodes
  <1>1. CASE DaemonForwards
    <2>1. /\ forwarded \in Seq(M!Packet)
          /\ forwarded' = Append(forwarded, Head(packets))
      BY <1>1, ForwardedIsReceived DEF BothInv
    <2>2. j \in 1..Len(forwarded') /\ forwarded'[j] = forwarded[j]
      BY <2>1
    <2>3. UNCHANGED pushed
      BY <1>1 DEF DaemonForwards, M!Forward, M!outside
    <2>4. QED
      BY <2>2, <2>3 DEF ListSent
  <1>2. CASE ~DaemonForwards
    BY <1>2, DaemonKeepsForwarded, SentStays
  <1>3. QED
    BY <1>1, <1>2

\* Lists of nodes are lists of more nodes.
LEMMA MoreNodes ==
    ASSUME NEW S, NEW R, S \subseteq R
    PROVE  /\ T!NodeLists(S) \subseteq T!NodeLists(R)
           /\ \A buffer : T!BufferOf(buffer, S) => T!BufferOf(buffer, R)
  BY DEF T!NodeLists, T!BufferOf

\* The lists of the transceiver.
LEMMA KnowsHeardStep ==
    ASSUME InitialWhitelist = T!EmptyList, T!ShortLists, ListsInv, KnowsHeard, [Next]_vars
    PROVE  KnowsHeard'
  <1> USE DEF ListsInv
  <1>1. \A s : /\ T!NodeLists(Heard(s)) \subseteq T!NodeLists(Heard(s)')
               /\ \A buffer : T!BufferOf(buffer, Heard(s)) => T!BufferOf(buffer, Heard(s)')
    BY HeardStays, MoreNodes
  <1>2. CASE TransceiverStarts
    <2>1. \A S : T!EmptyList \in T!NodeLists(S) /\ T!BufferOf(T!EmptyList, S)
      BY DEF T!EmptyList, T!NodeLists, T!BufferOf
    <2>2. whitelist' = T!EmptyList /\ ipc_rx_buf' = T!EmptyList
      BY <1>2 DEF TransceiverStarts, Started
    <2>3. QED
      BY <2>1, <2>2 DEF KnowsHeard
  <1>3. CASE TransceiverEnds
    BY <1>3 DEF TransceiverEnds, KnowsHeard
  <1>4. CASE UNCHANGED <<whitelist, ipc_rx_buf>> /\ ~TransceiverStarts
    <2>1. UNCHANGED Latest /\ (transceiver_pc' # "exit" => transceiver_pc # "exit")
      BY <1>4, LatestStep, PeerCases DEF TransceiverEnds
    <2>2. QED
      BY <1>1, <1>4, <2>1 DEF KnowsHeard
  <1>5. CASE /\ TransceiverWorks \/ TransceiverSends \/ TransceiverInterrupted \/ Radio
             /\ ~TransceiverStarts
    <2>1. T!Loop \/ T!Interrupt \/ T!Tick \/ \E m \in Message : T!NodeSends(m)
      BY <1>5 DEF TransceiverWorks, TransceiverSends, TransceiverInterrupted, Radio
    <2>2. \/ UNCHANGED <<ipc_in, requested, whitelist, ipc_rx_buf>>
          \/ T!ReceiveNodelist \/ T!ReceiveForwarded
      BY <2>1, ProgramsAssumption, T!ListCases
    <2>3. CASE T!ReceiveNodelist \/ T!ReceiveForwarded
      <3>1. transceiver_pc # "exit" /\ ipc_in # <<>>
        BY <2>3 DEF T!ReceiveNodelist, T!ReceiveForwarded
      <3> DEFINE p == forwarded[Arrived + 1]
      <3>2. /\ Arrived + 1 \in 1..Len(forwarded)
            /\ Head(ipc_in) = AsReceived(p) /\ pushed[p.command] = Latest
        <4>1. 1 \in 1..Len(ipc_in) /\ Head(ipc_in) = ipc_in[1]
          BY <3>1, ListTypes
        <4>2. QED
          BY <3>1, <4>1, ListTypes DEF OnItsWay, Arrived
      <3>3. \A i \in 1..Len(Head(ipc_in).list) : Head(ipc_in).list[i] \in Heard(Latest)
        <4>1. CASE p.id = "nodelist"
          <5>1. Head(ipc_in).list = p.content
            BY <3>2, <4>1 DEF AsReceived, T!Nodelist
          <5>2. ListSent(Arrived + 1, Latest)
            BY <3>2, <4>1 DEF ListSent
          <5>3. \A i \in 1..Len(p.content) : p.content[i] \in Nodes(p.content)
            BY DEF Nodes
          <5>4. QED
            BY <3>2, <5>1, <5>2, <5>3 DEF Heard
        <4>2. CASE p.id # "nodelist"
          <5>1. Head(ipc_in).list = <<>>
            BY <3>2, <4>2 DEF AsReceived, T!Forwarded
          <5>2. QED
            BY <5>1
        <4>3. QED
          BY <4>1, <4>2
      <3>4. T!TypeOK
        BY DEF BothInv, T!ListInv
      <3>5. /\ whitelist' \in T!NodeLists(Heard(Latest))
            /\ T!BufferOf(ipc_rx_buf', Heard(Latest))
        BY <2>3, <3>1, <3>3, <3>4, ProgramsAssumption, T!ListsStayIn DEF KnowsHeard
      <3>6. UNCHANGED Latest
        BY <1>5, LatestStep
      <3>7. QED
        BY <1>1, <3>5, <3>6 DEF KnowsHeard
    <2>4. QED
      BY <1>4, <1>5, <2>2, <2>3
  <1>6. CASE DaemonForwards \/ DaemonWorks \/ DaemonInterrupted \/ Broker \/ UNCHANGED vars
    <2>1. UNCHANGED <<whitelist, ipc_rx_buf>>
      BY <1>6 DEF DaemonForwards, DaemonWorks, DaemonInterrupted, Broker, vars, transceiver
    <2>2. QED
      BY <1>2, <1>4, <2>1
  <1>7. QED
    BY <1>2, <1>3, <1>5, <1>6 DEF Next

\* What is passed on.
LEMMA PassedHeardStep ==
    ASSUME KnownInv, [Next]_vars
    PROVE  PassedHeard'
  <1> USE DEF KnownInv, ListsInv
  <1>1. /\ sent_in \in Seq(M!Session) /\ Passed \in Seq(T!IpcMessage)
        /\ Len(sent_in) \in Nat
    <2>1. sent_in \in Seq(M!Session) /\ ipc_out \in Seq(T!IpcMessage)
      BY DEF BothInv, DaemonInv, M!TypeInv, M!TypeOK, T!ListInv, T!TypeOK
    <2>2. QED
      BY <2>1, DataOfType DEF Passed
  <1>2. \A s : Heard(s) \subseteq Heard(s)'
    BY HeardStays
  <1>3. CASE UNCHANGED <<Passed, sent_in>>
    BY <1>2, <1>3 DEF PassedHeard
  <1>4. CASE TransceiverSends /\ sent_in' = Append(sent_in, Latest)
    <2>1. PICK x \in T!IpcMessage :
                /\ x.source \in Node /\ T!nodelist_find(whitelist, x.source)
                /\ Passed' = Append(Passed, x)
      BY <1>4, <1>1, PassedCases
    <2>2. x.source \in Heard(Latest)
      <3>1. whitelist \in T!NodeLists(Heard(Latest)) /\ x.source # NoNode
        BY <1>4, <2>1, ProgramsAssumption
           DEF TransceiverSends, KnowsHeard, T!TransceiverAssumption
      <3>2. QED
        BY <2>1, <3>1 DEF T!nodelist_find, T!NodeLists
    <2>3. QED
      BY <1>1, <1>2, <1>4, <2>1, <2>2 DEF PassedHeard
  <1>5. QED
    BY <1>3, <1>4, PassedCases

\* A whitelist that starts empty lists no one who was not named.
LEMMA KnownInit == ASSUME InitialWhitelist = T!EmptyList PROVE Init => KnownInv
  <1> SUFFICES ASSUME Init PROVE KnownInv
    OBVIOUS
  <1>1. Passed = <<>> /\ sent_in = <<>> /\ transceiver_pc = "exit"
    BY DataOfNothing DEF Init, M!Init, Passed
  <1>2. QED
    BY <1>1, ListsInit DEF KnownInv, KnowsHeard, PassedHeard

\* The transceiver of the test mode, which starts with a node in its list, apart: no
\* message of a node is published that no list of its session has named, whatever
\* was in the whitelist or the buffers in an earlier session.  Where the daemon also
\* forwards messages for nodes, lists must be too short to be read on into the bytes
\* that such a message leaves in the transceiver's buffer.
THEOREM OnlyListedPublished ==
    ASSUME InitialWhitelist = T!EmptyList, T!ShortLists
    PROVE  Spec => []NothingWithoutList
  <1>1. KnownInv => NothingWithoutList
    <2> SUFFICES ASSUME KnownInv, NEW i \in 1..Len(published)
                 PROVE  \E j \in 1..Len(forwarded) :
                          /\ ListSent(j, sent_in[published[i].packet])
                          /\ Passed[published[i].packet].source \in Nodes(forwarded[j].content)
      BY DEF NothingWithoutList
    <2>1. published[i].packet \in 1..Len(sent_in)
      <3>1. /\ published[i].packet # M!Report /\ published[i].packet <= Len(sent_in)
            /\ published \in Seq(M!Frame) /\ Len(sent_in) \in Nat
        BY DEF KnownInv, ListsInv, BothInv, DaemonInv, M!UpInv, M!PublishedKnown,
               M!TypeInv, M!TypeOK
      <3>2. published[i] \in M!Frame
        BY <3>1
      <3>3. published[i].packet \in 0..Len(I8Packet)
        BY <3>2 DEF M!Frame
      <3>4. QED
        BY <3>1, <3>3 DEF M!Report
    <2>2. Passed[published[i].packet].source \in Heard(sent_in[published[i].packet])
      BY <2>1 DEF KnownInv, PassedHeard
    <2>3. QED
      BY <2>2 DEF Heard
  <1>2. KnownInv /\ [Next]_vars => KnownInv'
    BY ListsStep, KnowsHeardStep, PassedHeardStep DEF KnownInv
  <1>3. QED
    BY <1>1, <1>2, KnownInit, PTL DEF Spec

-----------------------------------------------------------------------------
(* From the nodes to the broker.                                           *)

View(x) == [source |-> x.source, data |-> x.data]

\* What was passed on are messages that the nodes have sent, each of them once.
PassedOnce ==
    /\ Len(Passed) = Len(sent_in)
    /\ \A k \in 1..Len(Passed) : \E m \in sent : View(Passed[k]) = T!Content[m]
    /\ \A k, l \in 1..Len(Passed) : View(Passed[k]) = View(Passed[l]) => k = l

EndInv == BothInv /\ T!RelayInv /\ M!TextInv /\ PassedOnce

\* A transceiver that is started again has nothing of a message that was passed on.
LEMMA RelayStep ==
    ASSUME T!NoDuplicates, T!UniqueIds, BothInv, T!RelayInv, [Next]_vars
    PROVE  (T!RelayInv)' /\ [T!Lossy!Next]_<<sent, T!Relayed>>
  <1>1. (T!TypeOK)' /\ T!TypeOK
    BY BothStep DEF BothInv, T!ListInv
  <1>2. CASE TransceiverWorks \/ TransceiverSends \/ TransceiverEnds
               \/ TransceiverInterrupted \/ Radio
    BY <1>2, TransceiverStep, ProgramsAssumption, T!StepRelay
  <1>3. CASE TransceiverStarts
    <2>1. /\ UNCHANGED <<sent, ipc_out>> /\ air' \subseteq air
          /\ packet_queue' = T!EmptyQueue /\ arrived' = T!NoPacket
      BY <1>3 DEF TransceiverStarts, Started
    <2>2. T!StoredOnce(T!EmptyQueue) /\ T!Stored(T!EmptyQueue) = {}
      BY ProgramsAssumption, T!EmptyQueueStores
    <2>3. T!StoredOnce(packet_queue') /\ T!Stored(packet_queue') = {}
      BY <2>1, <2>2
    <2>4. (T!RelayInv)' /\ UNCHANGED T!Relayed
      BY <1>1, <2>1, <2>3, ProgramsAssumption, T!PacketsMove
    <2>5. QED
      BY <2>1, <2>4
  <1>4. CASE DaemonForwards \/ DaemonWorks \/ DaemonInterrupted \/ Broker \/ UNCHANGED vars
    <2>1. UNCHANGED <<sent, air, arrived, packet_queue, ipc_out>>
      BY <1>4 DEF DaemonForwards, DaemonWorks, DaemonInterrupted, Broker, vars, transceiver
    <2>2. /\ T!StoredOnce(packet_queue)
          /\ arrived # T!NoPacket => arrived \notin air \cup T!Stored(packet_queue)
      BY DEF T!RelayInv, T!OnePlace
    <2>3. (T!RelayInv)' /\ UNCHANGED T!Relayed
      BY <1>1, <2>1, <2>2, ProgramsAssumption, T!PacketsMove
    <2>4. QED
      BY <2>1, <2>3
  <1>5. QED
    BY <1>2, <1>3, <1>4 DEF Next

\* A sequence grows by the element that was appended to it.
LEMMA Grown ==
    ASSUME NEW S, NEW s \in Seq(S), NEW a
    PROVE  /\ Len(s) \in Nat /\ Len(Append(s, a)) = Len(s) + 1
           /\ Append(s, a)[Len(s) + 1] = a
           /\ \A i \in 1..Len(s) : Append(s, a)[i] = s[i]
  <1>1. s \in [1..Len(s) -> S] /\ Len(s) \in Nat
    OBVIOUS
  <1>2. s \in [1..Len(s) -> S \cup {a}]
    BY <1>1
  <1>3. s \in Seq(S \cup {a})
    BY <1>1, <1>2, SeqDef
  <1>4. QED
    BY <1>1, <1>3

\* What the relay puts out for the first time is passed on for the first time.
LEMMA PassedOnceStep ==
    ASSUME T!NoDuplicates, T!UniqueIds, BothInv, T!RelayInv, PassedOnce, [Next]_vars
    PROVE  PassedOnce'
  <1>1. [T!Lossy!Next]_<<sent, T!Relayed>>
    BY RelayStep
  <1>2. sent \subseteq sent'
    BY <1>1 DEF T!Lossy!Next, T!Lossy!Offer, T!Lossy!Relay, T!Lossy!SendReport
  <1>3. /\ sent_in \in Seq(M!Session) /\ ipc_out \in Seq(T!IpcMessage)
        /\ Passed \in Seq(T!IpcMessage)
        /\ \A k \in 1..Len(Passed) : \E i \in 1..Len(ipc_out) :
             ipc_out[i].kind = "data" /\ Passed[k] = ipc_out[i]
    <2>1. sent_in \in Seq(M!Session) /\ ipc_out \in Seq(T!IpcMessage)
      BY DEF BothInv, DaemonInv, M!TypeInv, M!TypeOK, T!ListInv, T!TypeOK
    <2>2. QED
      BY <2>1, DataOfType DEF Passed
  <1>4. \A m \in Message : UNCHANGED T!Content[m]
    BY DEF T!Content, T!Payload
  <1>5. CASE UNCHANGED <<Passed, sent_in>>
    BY <1>2, <1>5 DEF PassedOnce, T!Content, T!Payload
  <1>6. ASSUME sent_in' = Append(sent_in, Latest), NEW x \in T!IpcMessage,
               x.kind = "data", x.source \in Node, ipc_out' = Append(ipc_out, x),
               Passed' = Append(Passed, x)
        PROVE  PassedOnce'
    <2>1. /\ T!Relayed' = Append(T!Relayed, View(x))
          /\ T!Relayed \in Seq({[source |-> y.source, data |-> y.data] :
                y \in {z \in T!IpcMessage : z.kind = "data"}} \cup {T!Report})
      BY <1>3, <1>6, ProgramsAssumption, T!RelayedGrows DEF View
    <2>2. PICK m \in sent : /\ View(x) = T!Content[m]
                            /\ \A i \in 1..Len(T!Relayed) : T!Relayed[i] # T!Content[m]
      <3> DEFINE Views == {[source |-> y.source, data |-> y.data] :
                y \in {z \in T!IpcMessage : z.kind = "data"}} \cup {T!Report}
      <3>1. T!Relayed \in Seq(Views) /\ View(x) \in Views
        BY <1>6, <2>1 DEF View
      <3>2. T!Relayed' # T!Relayed
        <4>1. Len(T!Relayed) \in Nat /\ Len(T!Relayed') = Len(T!Relayed) + 1
          BY <2>1, <3>1, Grown
        <4>2. QED
          BY <4>1
      <3>3. View(x) # T!Report
        BY <1>6, ProgramsAssumption DEF View, T!Report, T!TransceiverAssumption
      <3>4. T!Lossy!Next
        BY <1>1, <3>2
      <3>5. ~T!Lossy!SendReport
        <4>1. T!Relayed'[Len(T!Relayed) + 1] = View(x)
          BY <2>1, <3>1, Grown
        <4>2. Append(T!Relayed, T!Report)[Len(T!Relayed) + 1] = T!Report
          BY <3>1, Grown
        <4>3. QED
          BY <3>3, <4>1, <4>2 DEF T!Lossy!SendReport
      <3>6. PICK m \in Message : T!Lossy!Relay(m)
        BY <3>2, <3>4, <3>5 DEF T!Lossy!Next, T!Lossy!Offer
      <3>7. View(x) = T!Content[m]
        <4>1. T!Relayed' = Append(T!Relayed, T!Content[m])
          BY <3>6 DEF T!Lossy!Relay
        <4>2. T!Relayed'[Len(T!Relayed) + 1] = T!Content[m]
          BY <4>1, <3>1, Grown
        <4>3. T!Relayed'[Len(T!Relayed) + 1] = View(x)
          BY <2>1, <3>1, Grown
        <4>4. QED
          BY <4>2, <4>3
      <3>8. QED
        BY <3>6, <3>7 DEF T!Lossy!Relay
    <2>3. /\ T!Content' = T!Content
          /\ Len(Passed) \in Nat /\ Len(sent_in) \in Nat
          /\ Len(Passed') = Len(Passed) + 1 /\ Len(sent_in') = Len(sent_in) + 1
          /\ Passed'[Len(Passed) + 1] = x
          /\ \A k \in 1..Len(Passed) : Passed'[k] = Passed[k]
      <3>1. T!Content' = T!Content
        BY DEF T!Content, T!Payload
      <3>2. QED
        BY <1>3, <1>6, <3>1, Grown
    <2>4. ASSUME NEW k \in 1..Len(Passed) PROVE View(Passed[k]) # View(x)
      <3>1. PICK i \in 1..Len(ipc_out) : ipc_out[i].kind = "data" /\ Passed[k] = ipc_out[i]
        BY <1>3
      <3>2. T!Relayed[i] = View(Passed[k]) /\ i \in 1..Len(T!Relayed)
        BY <1>3, <3>1 DEF T!Relayed, View
      <3>3. QED
        BY <2>2, <3>2
    <2>5. m \in sent'
      BY <1>2
    <2>6. \A k \in 1..Len(Passed') : k \in 1..Len(Passed) \/ k = Len(Passed) + 1
      BY <2>3
    <2>7. \A k \in 1..Len(Passed') : \E j \in sent' : View(Passed'[k]) = T!Content[j]
      BY <1>2, <2>2, <2>3, <2>5, <2>6 DEF PassedOnce
    <2>8. \A k, l \in 1..Len(Passed') : View(Passed'[k]) = View(Passed'[l]) => k = l
      BY <2>3, <2>4, <2>6 DEF PassedOnce
    <2>9. QED
      BY <2>3, <2>7, <2>8 DEF PassedOnce, View
  <1>7. QED
    BY <1>5, <1>6, PassedCases

\* At first nothing was sent, passed on or published.
LEMMA EndInit == Init => EndInv
  <1> SUFFICES ASSUME Init PROVE EndInv
    OBVIOUS
  <1>1. BothInv /\ M!TextInv
    BY BothInit, ProgramsAssumption, M!TextInit DEF Init
  <1>2. PassedOnce
    <2>1. Passed = <<>> /\ sent_in = <<>>
      BY DataOfNothing DEF Init, M!Init, Passed
    <2>2. QED
      BY <2>1 DEF PassedOnce
  <1>3. T!RelayInv
    <2>1. T!Stored(T!EmptyQueue) = {} /\ T!StoredOnce(T!EmptyQueue)
      BY ProgramsAssumption, T!EmptyQueueStores
    <2>2. \A m \in Message : ~T!IsRelayed(m)
      BY DEF Init, T!IsRelayed
    <2>3. T!OnePlace
      BY <2>1, <2>2 DEF Init, T!OnePlace
    <2>4. QED
      BY <1>1, <2>3 DEF T!RelayInv, BothInv, T!ListInv
  <1>4. QED
    BY <1>1, <1>2, <1>3 DEF EndInv

\* No step passes a message on twice, or one that no node sent.
LEMMA EndInvStep ==
    ASSUME T!NoDuplicates, T!UniqueIds, EndInv, [Next]_vars
    PROVE  EndInv'
  <1>1. BothInv' /\ (T!RelayInv)' /\ PassedOnce'
    BY BothStep, RelayStep, PassedOnceStep DEF EndInv
  <1>2. (M!TextInv)'
    <2>1. [M!Next]_(M!vars)
      BY GatewayStep DEF EndInv, BothInv, DaemonInv
    <2>2. QED
      BY <1>1, <2>1, ProgramsAssumption, M!TextStep DEF EndInv, BothInv, DaemonInv
  <1>3. QED
    BY <1>1, <1>2 DEF EndInv

\* What is published of a packet is what was passed on as that packet.
WholePackets ==
    /\ published \in Seq(M!Frame) /\ Len(published) \in Nat
    /\ \A i \in 1..Len(published) :
         published[i].packet \in 1..Len(Passed) /\ published[i].part = 1
    /\ Published = [i \in 1..Len(published) |-> View(Passed[published[i].packet])]

\* It is so because a message makes one frame, with its own bytes.
LEMMA PublishedWhole == EndInv => WholePackets
  <1> SUFFICES ASSUME EndInv PROVE WholePackets
    OBVIOUS
  <1>1. published \in Seq(M!Frame) /\ Len(published) \in Nat /\ Len(sent_in) \in Nat
    BY DEF EndInv, BothInv, DaemonInv, M!TypeInv, M!TypeOK
  <1>2. ASSUME NEW i \in 1..Len(published)
        PROVE  /\ published[i].packet \in 1..Len(Passed) /\ published[i].part = 1
               /\ published[i].text =
                    [j \in 1..I8Packet[published[i].packet].length |-> published[i].packet]
    <2>1. published[i].packet \in 0..Len(I8Packet)
      <3>1. published[i] \in M!Frame
        BY <1>1
      <3>2. QED
        BY <3>1 DEF M!Frame
    <2>2. published[i].packet # M!Report /\ published[i].packet <= Len(sent_in)
      BY DEF EndInv, BothInv, DaemonInv, M!UpInv, M!PublishedKnown
    <2>3. M!Intact(published[i])
      BY DEF EndInv, M!TextInv
    <2>4. Len(Passed) = Len(sent_in)
      BY DEF EndInv, PassedOnce
    <2>5. published[i].packet \in 1..Len(I8Packet)
      BY <2>1, <2>2 DEF M!Report
    <2>6. ~M!IsList(published[i].packet)
      BY <2>5, GatewayAssumption DEF M!IsList
    <2>7. QED
      BY <1>1, <2>2, <2>3, <2>4, <2>5, <2>6 DEF M!Intact
  <1>3. Published = [i \in 1..Len(published) |-> View(Passed[published[i].packet])]
    BY <1>2 DEF Published, View
  <1>4. QED
    BY <1>1, <1>2, <1>3 DEF WholePackets

\* Only the daemon publishes, and nothing else of interest here changes then.
LEMMA PublishCases ==
    ASSUME BothInv, [Next]_vars
    PROVE  \/ UNCHANGED published
           \/ /\ UNCHANGED <<sent, Passed, sent_in>>
              /\ frames # <<>> /\ Head(frames).packet # M!Report
              /\ published' = Append(published, Head(frames))
  <1>1. [M!Next]_(M!vars)
    BY GatewayStep DEF BothInv, DaemonInv
  <1>2. M!UpDropped \/ M!UpRead \/ M!UpWritten
          \/ \E s \in M!Session : M!UpPeer(s) \/ M!UpSent(s)
    BY <1>1, ProgramsAssumption, M!UpCases DEF BothInv, DaemonInv
  <1>3. CASE TransceiverStarts \/ TransceiverWorks \/ TransceiverSends \/ TransceiverEnds
               \/ TransceiverInterrupted \/ Radio
    BY <1>3 DEF TransceiverStarts, TransceiverWorks, TransceiverSends, TransceiverEnds,
         TransceiverInterrupted, Radio, daemon, M!PeerStarts, M!PeerSends, M!PeerReports,
         M!PeerEnds, M!output
  <1>4. CASE DaemonForwards \/ DaemonWorks \/ DaemonInterrupted \/ Broker \/ UNCHANGED vars
    <2>1. UNCHANGED <<sent, ipc_out>>
      BY <1>4 DEF DaemonForwards, DaemonWorks, DaemonInterrupted, Broker, vars, transceiver
    <2>2. UNCHANGED Passed
      BY <2>1 DEF Passed
    <2>3. QED
      BY <1>2, <2>1, <2>2
         DEF M!UpDropped, M!UpRead, M!UpWritten, M!UpPeer, M!UpSent, M!peers
  <1>5. QED
    BY <1>3, <1>4 DEF Next

\* Every step is one of the lossy relay from the nodes to the broker, or none.
LEMMA PublishStep ==
    ASSUME T!NoDuplicates, T!UniqueIds, EndInv, EndInv', [Next]_vars
    PROVE  [EndToEnd!Next]_<<sent, Published>>
  <1>1. WholePackets /\ WholePackets'
    BY PublishedWhole, PTL
  <1>2. CASE UNCHANGED published
    <2>1. \A k \in 1..Len(Passed) : Passed'[k] = Passed[k]
      <3>1. Passed \in Seq(T!IpcMessage)
        BY DataOfType DEF Passed, EndInv, BothInv, T!ListInv, T!TypeOK
      <3>2. Passed' = Passed \/ \E x : Passed' = Append(Passed, x)
        BY PassedCases DEF EndInv
      <3>3. QED
        BY <3>1, <3>2, Grown
    <2>2. UNCHANGED Published
      BY <1>1, <1>2, <2>1 DEF WholePackets, View
    <2>3. CASE UNCHANGED sent
      BY <2>2, <2>3
    <2>4. CASE ~UNCHANGED sent
      <3>1. T!Lossy!Next
        BY <2>4, RelayStep DEF EndInv
      <3>2. \E m \in Message : m \notin sent /\ sent' = sent \cup {m}
        BY <2>4, <3>1 DEF T!Lossy!Next, T!Lossy!Offer, T!Lossy!Relay, T!Lossy!SendReport
      <3>3. QED
        BY <2>2, <3>2 DEF EndToEnd!Next, EndToEnd!Offer
    <2>5. QED
      BY <2>3, <2>4
  <1>3. CASE ~UNCHANGED published
    <2> DEFINE f == Head(frames)
               k == f.packet
    <2>1. /\ UNCHANGED <<sent, Passed, sent_in>>
          /\ frames # <<>> /\ k # M!Report /\ published' = Append(published, f)
      BY <1>3, PublishCases DEF EndInv
    <2>2. /\ f = frames[1] /\ 1 \in 1..Len(frames) /\ f \in M!Frame
      BY <2>1 DEF EndInv, BothInv, DaemonInv, M!TypeInv, M!TypeOK
    <2> HIDE DEF f
    <2>3. /\ Len(published') = Len(published) + 1 /\ published'[Len(published) + 1] = f
          /\ \A i \in 1..Len(published) : published'[i] = published[i]
      BY <1>1, <2>1, <2>2 DEF WholePackets
    <2>4. k \in 1..Len(Passed) /\ f.part = 1
      BY <1>1, <2>1, <2>3 DEF WholePackets
    <2>5. Published' = Append(Published, View(Passed[k]))
      <3> DEFINE n == Len(published)
                 v == View(Passed[k])
      <3>1. /\ n \in Nat
            /\ Published = [i \in 1..n |-> View(Passed[published[i].packet])]
            /\ Published' = [i \in 1..(n + 1) |-> View(Passed[published'[i].packet])]
        BY <1>1, <2>1, <2>3 DEF WholePackets, View
      <3>2. \A i \in 1..(n + 1) : published'[i] = IF i = n + 1 THEN f ELSE published[i]
        BY <2>3, <3>1
      <3> HIDE DEF n, v
      <3>3. Published' = [i \in 1..(n + 1) |-> IF i = n + 1 THEN v ELSE Published[i]]
        BY <3>1, <3>2 DEF v
      <3>4. Append(Published, v) =
              [i \in 1..(n + 1) |-> IF i = n + 1 THEN v ELSE Published[i]]
        BY <3>1
      <3>5. QED
        BY <3>3, <3>4 DEF v
    <2>6. PICK m \in sent : View(Passed[k]) = T!Content[m]
      BY <2>4 DEF EndInv, PassedOnce
    <2>7. ASSUME NEW i \in 1..Len(Published), Published[i] = T!Content[m]
          PROVE  FALSE
      <3>1. /\ i \in 1..Len(published) /\ Published[i] = View(Passed[published[i].packet])
            /\ published[i].packet \in 1..Len(Passed) /\ published[i].part = 1
        BY <1>1 DEF WholePackets
      <3>2. published[i].packet = k
        BY <2>4, <2>6, <2>7, <3>1 DEF EndInv, PassedOnce
      <3>3. M!FrameItem(published[i]) < M!FrameItem(f)
        BY <2>1, <2>2, <3>1 DEF EndInv, BothInv, DaemonInv, M!UpInv, M!FramesInOrder
      <3>4. M!FrameItem(published[i]) = M!FrameItem(f) /\ M!FrameItem(f) \in Nat
        <4>1. k \in Nat \ {0} /\ MaxParts \in Nat
          BY <2>4, ProgramsAssumption DEF M!MessengerAssumption
        <4>2. M!FrameItem(published[i]) = M!FrameItem(f)
          BY <2>4, <3>1, <3>2 DEF M!FrameItem
        <4>3. f.packet \in Nat /\ f.part \in Nat
          BY <2>4, <4>1
        <4>4. M!FrameItem(f) \in Nat
          BY <4>1, <4>3 DEF M!FrameItem, M!Item
        <4>5. QED
          BY <4>2, <4>4
      <3>5. QED
        <4> DEFINE x == M!FrameItem(f)
        <4>1. x < x /\ x \in Nat
          BY <3>3, <3>4
        <4> HIDE DEF x
        <4>2. QED
          BY <4>1
    <2>8. m \in Message
      BY DEF EndInv, BothInv, T!ListInv, T!TypeOK
    <2>9. EndToEnd!Relay(m)
      BY <2>1, <2>5, <2>6, <2>7 DEF EndToEnd!Relay
    <2>10. QED
      BY <2>8, <2>9 DEF EndToEnd!Next
  <1>4. QED
    BY <1>2, <1>3

\* From a node to the broker the two programs are one lossy relay, when the radio
\* duplicates nothing and no node uses a packet_id twice, as it is for the
\* transceiver alone, and when messages end with a zero.
THEOREM GatewayImplementsLossyRelay ==
    ASSUME T!NoDuplicates, T!UniqueIds
    PROVE  Spec => PublishesLossily
  <1>1. Init => EndToEnd!Init
    <2>1. Init => Len(published) = 0 /\ sent = {}
      BY DEF Init, M!Init
    <2>2. QED
      BY <2>1 DEF EndToEnd!Init, Published
  <1>2. EndInv /\ [Next]_vars => EndInv' /\ [EndToEnd!Next]_<<sent, Published>>
    BY EndInvStep, PublishStep
  <1>3. QED
    BY <1>1, <1>2, EndInit, PTL DEF Spec, PublishesLossily, EndToEnd!Spec

-----------------------------------------------------------------------------
(* Where the bytes are from.                                               *)

\* What a transceiver that is started again finds on the radio was sent, and what was
\* passed on by the ones before it is not touched.
SourcesInv == BothInv /\ T!PacketsSent /\ T!BytesFromSource

\* No step of either program mixes bytes of two nodes.
LEMMA SourcesStep ==
    ASSUME SourcesInv, [Next]_vars
    PROVE  SourcesInv'
  <1>1. BothInv'
    BY BothStep DEF SourcesInv
  <1>2. CASE TransceiverWorks \/ TransceiverSends \/ TransceiverEnds
               \/ TransceiverInterrupted \/ Radio
    <2>1. T!SourceInv /\ T!Next
      BY <1>2, TransceiverStep DEF SourcesInv, BothInv, T!ListInv, T!SourceInv
    <2>2. (T!SourceInv)'
      BY <2>1, ProgramsAssumption, T!StepSource
    <2>3. QED
      BY <1>1, <2>2 DEF SourcesInv, T!SourceInv
  <1>3. CASE TransceiverStarts
    <2>1. /\ UNCHANGED <<sent, ipc_out>> /\ air' \subseteq air
          /\ arrived' = T!NoPacket /\ packet_queue' = T!EmptyQueue
      BY <1>3 DEF TransceiverStarts, Started
    <2>2. T!Stored(T!EmptyQueue) = {}
      BY ProgramsAssumption, T!EmptyQueueStores
    <2>3. (T!PacketsSent)'
      BY <2>1, <2>2 DEF SourcesInv, T!PacketsSent
    <2>4. (T!BytesFromSource)'
      BY <2>1, ProgramsAssumption, T!SourceKept DEF SourcesInv
    <2>5. QED
      BY <1>1, <2>3, <2>4 DEF SourcesInv
  <1>4. CASE DaemonForwards \/ DaemonWorks \/ DaemonInterrupted \/ Broker \/ UNCHANGED vars
    <2>1. UNCHANGED <<sent, air, arrived, packet_queue, ipc_out>>
      BY <1>4 DEF DaemonForwards, DaemonWorks, DaemonInterrupted, Broker, transceiver, vars
    <2>2. (T!PacketsSent)'
      BY <2>1 DEF SourcesInv, T!PacketsSent
    <2>3. (T!BytesFromSource)'
      BY <2>1, ProgramsAssumption, T!SourceKept DEF SourcesInv
    <2>4. QED
      BY <1>1, <2>2, <2>3 DEF SourcesInv
  <1>5. QED
    BY <1>2, <1>3, <1>4 DEF Next

\* Whatever is lost, duplicated or reordered, and however often transceivers are started
\* again, a message passed to the daemon has bytes of the node it names only.
THEOREM GatewayKeepsSources == Spec => []T!BytesFromSource
  <1>1. Init => SourcesInv
    <2> SUFFICES ASSUME Init PROVE SourcesInv
      OBVIOUS
    <2>1. T!PacketsSent
      BY ProgramsAssumption, T!EmptyQueueStores DEF Init, T!PacketsSent
    <2>2. T!BytesFromSource
      BY DEF Init, T!BytesFromSource
    <2>3. QED
      BY <2>1, <2>2, BothInit DEF SourcesInv
  <1>2. SourcesInv /\ [Next]_vars => SourcesInv'
    BY SourcesStep
  <1>3. SourcesInv => T!BytesFromSource
    BY DEF SourcesInv
  <1>4. QED
    BY <1>1, <1>2, <1>3, PTL DEF Spec
=============================================================================
