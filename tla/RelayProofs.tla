----------------------------- MODULE RelayProofs -----------------------------
(***************************************************************************)
(* The transceiver implements LossyRelay, for any number of nodes,         *)
(* messages, slots and packets, when the radio duplicates no packet and no *)
(* node uses a packet_id for two messages.                                 *)
(*                                                                         *)
(* When the radio keeps order and the queue has room, packet_ids may       *)
(* repeat: each node's messages leave in the order it sent them.           *)
(***************************************************************************)
EXTENDS TransceiverProofs

NoDuplicates == "duplicate" \notin Faults
UniqueIds ==
    \A m, k \in Message : Source[m] = Source[k] /\ PacketId[m] = PacketId[k] => m = k

RelayInv == TypeOK /\ OnePlace

-----------------------------------------------------------------------------
(* Messages.                                                               *)

\* A packet that carries its whole message is the first packet of it.
LEMMA WholePacket ==
    ASSUME NEW p \in Packet, ~Fragmented(p)
    PROVE  /\ p = FirstFragment(p.msg)
           /\ data_size(p) = TotalSize[p.msg]
<1> DEFINE m == p.msg
           t == TotalSize[m]
           P == PayloadSize
           d == t \div P
           r == t % P
<1>1. /\ m \in Message /\ p.no \in 0..d /\ p = [msg |-> m, no |-> p.no]
      /\ t \in Nat \ {0} /\ P \in Nat \ {0}
  BY PacketFields, PacketAssumption DEF tot_frags
<1>2. d \in Nat /\ r \in 0..(P - 1) /\ t = d * P + r
  BY <1>1, DivMod
<1>3. data_size(p) = IF p.no = d THEN r ELSE P
  BY DEF data_size, tot_frags
<1>4. t <= data_size(p)
  <2>1. data_size(p) \in Nat
    BY <1>1, <1>2, <1>3
  <2> QED
    BY <2>1, <1>1 DEF Fragmented, total_size
<1> HIDE DEF m, t, P, d, r
<1>5. d <= 1
  <2> SUFFICES ASSUME 1 < d PROVE FALSE
    BY <1>2
  <2>1. 1 * P + P <= d * P
    BY <1>1, <1>2, Multiples
  <2>2. 1 * P = P /\ d * P \in Nat
    BY <1>1, <1>2
  <2> QED
    BY <2>1, <2>2, <1>1, <1>2, <1>3, <1>4
<1>6. d * P = IF d = 0 THEN 0 ELSE P
  BY <1>1, <1>2, <1>5
<1>7. p.no = 0 /\ data_size(p) = t
  BY <1>1, <1>2, <1>3, <1>4, <1>5, <1>6
<1> QED
  BY <1>1, <1>7 DEF FirstFragment, m, t

\* The bytes tell messages apart.
LEMMA PayloadsDiffer ==
    ASSUME NEW m \in Message, NEW k \in Message, Payload(m) = Payload(k)
    PROVE  m = k
<1>1. 1 \in 1..TotalSize[m] /\ 1 \in 1..TotalSize[k]
  BY PacketAssumption
<1>2. Payload(m)[1] = <<m, 1>> /\ Payload(k)[1] = <<k, 1>>
  BY <1>1 DEF Payload
<1> QED
  BY <1>2

\* Every message has a first packet.
LEMMA FirstIsPacket ==
    ASSUME NEW m \in Message
    PROVE  FirstFragment(m) \in Packet /\ FirstFragment(m).msg = m
BY FirstPacket DEF FirstFragment

-----------------------------------------------------------------------------
(* What a message that is put out means for the abstract relay.            *)

\* ipc_out grows by one message, and so does what the abstract relay has put out.
LEMMA RelayedGrows ==
    ASSUME ipc_out \in Seq(IpcMessage), NEW message \in IpcMessage,
           ipc_out' = Append(ipc_out, message)
    PROVE  /\ Relayed \in Seq({[source |-> x.source, data |-> x.data] :
                               x \in {y \in IpcMessage : y.kind = "data"}} \cup {Report})
           /\ Relayed' = Append(Relayed,
                IF message.kind = "data"
                THEN [source |-> message.source, data |-> message.data] ELSE Report)
           /\ \A m \in Message : IsRelayed(m)' <=> IsRelayed(m) \/ Relays(message, m)
<1> DEFINE n == Len(ipc_out)
           View(x) == IF x.kind = "data" THEN [source |-> x.source, data |-> x.data]
                                         ELSE Report
           Views == {[source |-> x.source, data |-> x.data] :
                       x \in {y \in IpcMessage : y.kind = "data"}} \cup {Report}
<1>1. /\ n \in Nat /\ Len(ipc_out') = n + 1
      /\ \A i \in 1..n : ipc_out[i] \in IpcMessage /\ ipc_out'[i] = ipc_out[i]
      /\ ipc_out'[n + 1] = message
  OBVIOUS
<1>2. Relayed = [i \in 1..n |-> View(ipc_out[i])]
  BY DEF Relayed
<1>3. Relayed' = [i \in 1..(n + 1) |-> View(ipc_out'[i])]
  BY <1>1 DEF Relayed, Report
<1>4. \A x \in IpcMessage : View(x) \in Views
  OBVIOUS
<1> HIDE DEF View, Views, n
<1>5. Relayed \in Seq(Views)
  <2>1. Relayed \in [1..n -> Views]
    BY <1>1, <1>2, <1>4
  <2> QED
    BY <2>1, <1>1, SeqDef
<1>6. Relayed' = Append(Relayed, View(message))
  <2>1. Len(Relayed) = n /\ \A i \in 1..n : Relayed[i] = View(ipc_out[i])
    BY <1>1, <1>2, <1>5
  <2> DEFINE grown == Append(Relayed, View(message))
  <2>2. /\ grown \in Seq(Views) /\ Len(grown) = n + 1
        /\ \A i \in 1..n : grown[i] = Relayed[i]
        /\ grown[n + 1] = View(message)
    BY <2>1, <1>1, <1>4, <1>5
  <2> HIDE DEF grown
  <2>3. grown = [i \in 1..(n + 1) |-> grown[i]]
    BY <2>2
  <2>4. \A i \in 1..(n + 1) : grown[i] = View(ipc_out'[i])
    BY <2>1, <2>2, <1>1
  <2> QED
    BY <2>3, <2>4, <1>3 DEF grown
<1>7. ASSUME NEW m \in Message
      PROVE  IsRelayed(m)' <=> IsRelayed(m) \/ Relays(message, m)
  <2>1. IsRelayed(m)' <=> \E i \in 1..(n + 1) : Relays(ipc_out'[i], m)
    BY <1>1 DEF IsRelayed, Relays, Payload
  <2>2. IsRelayed(m) <=> \E i \in 1..n : Relays(ipc_out[i], m)
    BY DEF IsRelayed, n
  <2> QED
    BY <2>1, <2>2, <1>1
<1> QED
  BY <1>5, <1>6, <1>7 DEF View, Views

\* A message that was not relayed yet goes out: a Relay step.
LEMMA RelayOne ==
    ASSUME TypeOK, NEW m \in sent, ~IsRelayed(m), UNCHANGED sent, NEW time \in Nat,
           ipc_out' = Append(ipc_out, DataMessage(Source[m], Payload(m), time))
    PROVE  /\ Lossy!Relay(m)
           /\ \A k \in Message : IsRelayed(k)' <=> IsRelayed(k) \/ k = m
<1> DEFINE message == DataMessage(Source[m], Payload(m), time)
<1>1. m \in Message /\ ipc_out \in Seq(IpcMessage)
  BY DEF TypeOK
<1>2. Payload(m) \in Seq(Byte)
  <2>1. TotalSize[m] \in Nat /\ Payload(m) \in [1..TotalSize[m] -> Byte]
    BY <1>1, PacketAssumption DEF Payload, Byte
  <2> QED
    BY <2>1, SeqDef
<1>3. message \in IpcMessage /\ message.kind = "data"
      /\ message.source = Source[m] /\ message.data = Payload(m)
  BY <1>1, <1>2, PacketAssumption DEF DataMessage, IpcMessage
<1> HIDE DEF message
<1>4. /\ Relayed' = Append(Relayed, Content[m])
      /\ \A k \in Message : IsRelayed(k)' <=> IsRelayed(k) \/ Relays(message, k)
  BY <1>1, <1>3, RelayedGrows DEF Content, message
<1>5. \A k \in Message : Relays(message, k) <=> k = m
  BY <1>1, <1>3, PayloadsDiffer DEF Relays
<1>6. \A i \in 1..Len(Relayed) : Relayed[i] # Content[m]
  <2> SUFFICES ASSUME NEW i \in 1..Len(Relayed), Relayed[i] = Content[m] PROVE FALSE
    OBVIOUS
  <2>1. Len(Relayed) = Len(ipc_out) /\ Len(ipc_out) \in Nat
    BY <1>1, <1>3, RelayedGrows DEF Relayed, message
  <2>2. i \in 1..Len(ipc_out) /\ Content[m].source = Source[m]
        /\ Content[m].data = Payload(m) /\ Source[m] # NoNode
    BY <1>1, <2>1, PacketAssumption, TransceiverAssumption DEF Content
  <2>3. ipc_out[i].kind = "data"
    BY <2>2 DEF Relayed, Report
  <2>4. Relays(ipc_out[i], m)
    BY <2>2, <2>3 DEF Relayed, Relays
  <2> QED
    BY <2>2, <2>4 DEF IsRelayed
<1> QED
  BY <1>4, <1>5, <1>6 DEF Lossy!Relay

\* A status report goes out: a SendReport step.
LEMMA ReportOne ==
    ASSUME TypeOK, UNCHANGED sent, ipc_out' = Append(ipc_out, StatusMessage)
    PROVE  /\ Lossy!SendReport
           /\ \A k \in Message : IsRelayed(k)' <=> IsRelayed(k)
<1>1. /\ ipc_out \in Seq(IpcMessage)
      /\ StatusMessage \in IpcMessage /\ StatusMessage.kind = "status"
  BY StatusMessageType DEF TypeOK, StatusMessage
<1>2. \A k \in Message : ~Relays(StatusMessage, k)
  BY <1>1 DEF Relays
<1> QED
  BY <1>1, <1>2, RelayedGrows DEF Lossy!SendReport

-----------------------------------------------------------------------------
(* Every step is one of the abstract relay, or none.                       *)

\* At first there is no packet, and nothing was relayed.
LEMMA InitRelay == Init => RelayInv /\ Lossy!Init
<1> SUFFICES ASSUME Init PROVE RelayInv /\ Lossy!Init
  OBVIOUS
<1>1. Len(ipc_out) = 0
  BY DEF Init
<1>2. \A m \in Message : ~IsRelayed(m)
  BY <1>1 DEF IsRelayed
<1>3. OnePlace
  BY <1>2, EmptyQueueStores DEF Init, OnePlace
<1>4. Relayed = <<>>
  BY <1>1 DEF Relayed
<1> QED
  BY <1>3, <1>4, InitType DEF Init, RelayInv, Lossy!Init

\* As long as nothing is put out, each message stays as relayed as it was.
LEMMA NothingPutOut ==
    ASSUME UNCHANGED ipc_out
    PROVE  UNCHANGED Relayed /\ \A k \in Message : IsRelayed(k)' <=> IsRelayed(k)
BY DEF Relayed, Report, IsRelayed, Relays, Payload

\* A fragment that completes its message: the bytes collected are the message's,
\* and its first packet leaves the queue.
LEMMA FragmentCompletes ==
    ASSUME RelayInv, UniqueIds, ReceiveFragment,
           NEW queue, queue = add_to_queue(packet_queue, arrived, clock),
           collects(queue, src(arrived), packet_id(arrived))
    PROVE  LET m == arrived.msg
               slots == Collected(queue, src(arrived), packet_id(arrived))
           IN  /\ MergedData(queue, slots) = Payload(m)
               /\ CollectedTime(queue, slots) \in Nat
               /\ FirstFragment(m) \in Stored(packet_queue) \cup {arrived}
               /\ FirstFragment(m) \notin Stored(Clear(queue, slots))
<1> DEFINE m == arrived.msg
           node == src(arrived)
           id == packet_id(arrived)
           slots == Collected(queue, node, id)
<1>1. arrived \in Packet /\ m \in Message
  BY ArrivedPacket, PacketFields DEF ReceiveFragment, RelayInv
<1>2. /\ packet_queue \in Queues /\ clock \in Nat \ {0}
      /\ StoredOnce(packet_queue) /\ arrived \notin Stored(packet_queue)
  BY <1>1, NoPacketIsNone DEF RelayInv, TypeOK, OnePlace
<1>3. /\ queue \in Queues /\ StoredOnce(queue)
      /\ Stored(queue) \subseteq Stored(packet_queue) \cup {arrived}
  BY <1>1, <1>2, AddKeeps
<1>4. \A i \in Matching(queue, node, id) : queue[i].packet.msg = m
  <2> SUFFICES ASSUME NEW i \in Matching(queue, node, id)
               PROVE  queue[i].packet.msg = m
    OBVIOUS
  <2>1. /\ queue[i].packet \in Packet
        /\ src(queue[i].packet) = node /\ packet_id(queue[i].packet) = id
    BY <1>3, CollectedSlots
  <2>2. queue[i].packet.msg \in Message
    BY <2>1, PacketFields
  <2> QED
    BY <2>1, <2>2, <1>1 DEF UniqueIds, src, packet_id
<1>5. /\ MergedData(queue, slots) = Payload(m)
      /\ \E i \in slots : queue[i].packet = [msg |-> m, no |-> 0]
  BY <1>1, <1>3, <1>4, CollectIntact
<1>6. CollectedTime(queue, slots) \in Nat
  BY <1>3, CollectType
<1>7. PICK i \in slots : queue[i].packet = FirstFragment(m)
  BY <1>5 DEF FirstFragment
<1>8. i \in Slot /\ ~IsFree(queue, i)
  BY <1>3, <1>7, CollectedSlots
<1>9. FirstFragment(m) \in Stored(queue)
  BY <1>7, <1>8 DEF Stored
<1>10. FirstFragment(m) \notin Stored(Clear(queue, slots))
  BY <1>3, <1>7, <1>8, ClearRemoves
<1> QED
  BY <1>3, <1>5, <1>6, <1>9, <1>10

\* What holds of the packets carries over to a state in which some have moved from
\* the air to the process or the queue, or disappeared, and nothing was put out.
LEMMA PacketsMove ==
    ASSUME RelayInv, UNCHANGED <<sent, ipc_out>>, TypeOK',
           air' \subseteq air, StoredOnce(packet_queue'),
           Stored(packet_queue') \subseteq Stored(packet_queue) \cup {arrived},
           arrived' \in {arrived, NoPacket} \cup air,
           arrived' # NoPacket => arrived' \notin air' \cup Stored(packet_queue')
    PROVE  RelayInv' /\ UNCHANGED Relayed
<1>1. UNCHANGED Relayed /\ \A k \in Message : IsRelayed(k)' <=> IsRelayed(k)
  BY NothingPutOut
<1>2. NoPacket \notin Packet /\ Stored(packet_queue') \subseteq Packet
  BY NoPacketIsNone, StoredPackets DEF TypeOK
<1>3. \A m \in Message : FirstFragment(m)' = FirstFragment(m) /\ FirstFragment(m) \in Packet
  BY FirstIsPacket DEF FirstFragment
<1>4. OnePlace'
  <2>1. \A p \in air' \cup Stored(packet_queue') : p.msg \in sent'
    BY <1>2 DEF RelayInv, OnePlace
  <2>2. arrived' # NoPacket =>
          arrived'.msg \in sent' /\ arrived' \notin air' \cup Stored(packet_queue')
    BY DEF RelayInv, OnePlace
  <2>3. air' \cap Stored(packet_queue') = {}
    BY <1>2 DEF RelayInv, OnePlace
  <2>4. \A m \in Message : IsRelayed(m)' =>
          /\ m \in sent'
          /\ FirstFragment(m) \notin air' \cup Stored(packet_queue') \cup {arrived'}
    BY <1>1, <1>2, <1>3 DEF RelayInv, OnePlace
  <2> QED
    BY <2>1, <2>2, <2>3, <2>4, <1>3 DEF OnePlace
<1> QED
  BY <1>1, <1>4 DEF RelayInv

\* It also carries over when the message of the packet that arrived is put out.
LEMMA MessagePutOut ==
    ASSUME RelayInv, UNCHANGED <<sent, air>>, TypeOK', pc = "ieee",
           StoredOnce(packet_queue'),
           Stored(packet_queue') \subseteq Stored(packet_queue) \cup {arrived},
           arrived' = NoPacket, NEW time \in Nat,
           FirstFragment(arrived.msg) \in Stored(packet_queue) \cup {arrived},
           FirstFragment(arrived.msg) \notin Stored(packet_queue'),
           ipc_out' = Append(ipc_out,
             DataMessage(src(arrived), Payload(arrived.msg), time))
    PROVE  RelayInv' /\ \E m \in Message : Lossy!Relay(m)
<1> DEFINE m == arrived.msg
<1>1. /\ arrived # NoPacket /\ m \in Message /\ m \in sent
      /\ src(arrived) = Source[m] /\ arrived \in Packet
  BY ArrivedPacket, NoPacketIsNone, PacketFields DEF RelayInv, OnePlace, src
<1>2. ~IsRelayed(m)
  BY <1>1 DEF RelayInv, OnePlace
<1>3. /\ Lossy!Relay(m)
      /\ \A k \in Message : IsRelayed(k)' <=> IsRelayed(k) \/ k = m
  BY <1>1, <1>2, RelayOne DEF RelayInv
<1>4. NoPacket \notin Packet /\ Stored(packet_queue') \subseteq Packet
  BY NoPacketIsNone, StoredPackets DEF TypeOK
<1>5. \A k \in Message : FirstFragment(k)' = FirstFragment(k) /\ FirstFragment(k) \in Packet
  BY FirstIsPacket DEF FirstFragment
<1>6. FirstFragment(m) \notin air
  BY <1>1 DEF RelayInv, OnePlace
<1>7. OnePlace'
  <2>1. \A p \in air' \cup Stored(packet_queue') : p.msg \in sent'
    BY <1>1 DEF RelayInv, OnePlace
  <2>2. air' \cap Stored(packet_queue') = {}
    BY <1>1 DEF RelayInv, OnePlace
  <2>3. \A k \in Message : IsRelayed(k)' =>
          /\ k \in sent'
          /\ FirstFragment(k) \notin air' \cup Stored(packet_queue') \cup {arrived'}
    BY <1>1, <1>3, <1>4, <1>5, <1>6 DEF RelayInv, OnePlace
  <2> QED
    BY <2>1, <2>2, <2>3, <1>5 DEF OnePlace
<1> QED
  BY <1>1, <1>3, <1>7 DEF RelayInv

\* No step puts a packet at a second place or relays a message twice.
LEMMA StepRelay ==
    ASSUME NoDuplicates, UniqueIds, RelayInv, [Next]_vars
    PROVE  RelayInv' /\ [Lossy!Next]_<<sent, Relayed>>
<1> USE DEF RelayInv
<1>1. TypeOK'
  BY StepType
<1>2. CASE SelectRadio
  <2>1. PICK p \in air : arrived' = p /\ air' = air \ {p}
    BY <1>2 DEF SelectRadio, NoDuplicates
  <2> QED
    BY <1>1, <1>2, <2>1, PacketsMove DEF SelectRadio, OnePlace
<1>3. CASE ReceiveRejected \/ ReceiveRadioFails
  BY <1>1, <1>3, PacketsMove
  DEF ReceiveRejected, ReceiveRadioFails, radio, OnePlace
<1>4. CASE ReceiveWhole
  <2> DEFINE m == arrived.msg
  <2>1. arrived \in Packet /\ m \in Message
    BY <1>4, ArrivedPacket, PacketFields DEF ReceiveWhole
  <2>2. /\ arrived = FirstFragment(m)
        /\ data_size(arrived) = TotalSize[m]
    BY <1>4, <2>1, WholePacket DEF ReceiveWhole
  <2>3. [b \in 1..data_size(arrived) |-> <<arrived.msg, b>>] = Payload(m)
    BY <2>2 DEF Payload
  <2>4. /\ pc = "ieee" /\ arrived' = NoPacket
        /\ UNCHANGED <<sent, air, packet_queue>>
        /\ SendToMessenger(DataMessage(src(arrived), Payload(m), clock), "status")
    BY <1>4, <2>3 DEF ReceiveWhole, radio
  <2>5. /\ StoredOnce(packet_queue) /\ clock \in Nat
        /\ arrived \notin Stored(packet_queue)
    BY <2>1, NoPacketIsNone DEF TypeOK, OnePlace
  <2>6. CASE ipc_open
    <3>1. RelayInv' /\ \E k \in Message : Lossy!Relay(k)
      BY <1>1, <2>2, <2>4, <2>5, <2>6, MessagePutOut DEF SendToMessenger
    <3> QED
      BY <3>1 DEF Lossy!Next
  <2>7. CASE ~ipc_open
    BY <1>1, <2>4, <2>5, <2>7, PacketsMove DEF SendToMessenger
  <2> QED
    BY <2>6, <2>7
<1>5. CASE ReceiveFragment
  <2> DEFINE m == arrived.msg
             node == src(arrived)
             id == packet_id(arrived)
             queue == add_to_queue(packet_queue, arrived, clock)
             slots == Collected(queue, node, id)
             complete == IsLast(arrived) /\ collects(queue, node, id)
             message == DataMessage(node, MergedData(queue, slots),
                                    CollectedTime(queue, slots))
  <2>1. /\ pc = "ieee" /\ arrived' = NoPacket /\ UNCHANGED <<sent, air>>
        /\ packet_queue' = IF IsLast(arrived) THEN Clear(queue, slots) ELSE queue
        /\ IF complete THEN SendToMessenger(message, "status")
                       ELSE pc' = "status" /\ UNCHANGED ipc_out
    BY <1>5 DEF ReceiveFragment, radio, after_collect
  <2>2. arrived \in Packet
    BY <2>1, ArrivedPacket
  <2>3. /\ packet_queue \in Queues /\ clock \in Nat \ {0}
        /\ StoredOnce(packet_queue) /\ arrived \notin Stored(packet_queue)
    BY <2>2, NoPacketIsNone DEF TypeOK, OnePlace
  <2>4. /\ queue \in Queues /\ StoredOnce(queue)
        /\ Stored(queue) \subseteq Stored(packet_queue) \cup {arrived}
    BY <2>2, <2>3, AddKeeps
  <2>5. complete =>
          /\ MergedData(queue, slots) = Payload(m)
          /\ CollectedTime(queue, slots) \in Nat
          /\ FirstFragment(m) \in Stored(packet_queue) \cup {arrived}
          /\ FirstFragment(m) \notin Stored(Clear(queue, slots))
    BY <1>5, FragmentCompletes
  <2> HIDE DEF queue, slots
  <2>6. StoredOnce(packet_queue')
        /\ Stored(packet_queue') \subseteq Stored(packet_queue) \cup {arrived}
    BY <2>1, <2>4, ClearKeeps
  <2>7. CASE complete /\ ipc_open
    <3>1. ipc_out' = Append(ipc_out,
            DataMessage(src(arrived), Payload(m), CollectedTime(queue, slots)))
      BY <2>1, <2>5, <2>7 DEF SendToMessenger
    <3>2. RelayInv' /\ \E k \in Message : Lossy!Relay(k)
      BY <1>1, <2>1, <2>5, <2>6, <2>7, <3>1, MessagePutOut
    <3> QED
      BY <3>2 DEF Lossy!Next
  <2>8. CASE ~(complete /\ ipc_open)
    <3>1. UNCHANGED ipc_out
      BY <2>1, <2>8 DEF SendToMessenger
    <3> QED
      BY <1>1, <2>1, <2>6, <3>1, PacketsMove
  <2> QED
    BY <2>7, <2>8
<1>6. CASE StatusReport
  <2>1. /\ UNCHANGED <<sent, air, arrived, packet_queue>>
        /\ SendToMessenger(StatusMessage, "loop")
    BY <1>6 DEF StatusReport, radio
  <2>2. CASE ipc_open
    <3>1. /\ Lossy!SendReport
          /\ \A k \in Message : IsRelayed(k)' <=> IsRelayed(k)
      BY <2>1, <2>2, ReportOne DEF SendToMessenger
    <3>2. OnePlace'
      BY <2>1, <3>1 DEF OnePlace, FirstFragment
    <3> QED
      BY <1>1, <3>1, <3>2 DEF Lossy!Next
  <2>3. CASE ~ipc_open
    BY <1>1, <2>1, <2>3, PacketsMove DEF SendToMessenger, OnePlace
  <2> QED
    BY <2>2, <2>3
<1>7. CASE \E m \in Message : NodeSends(m)
  <2>1. PICK m \in Message : NodeSends(m)
    BY <1>7
  <2>2. /\ m \notin sent /\ sent' = sent \cup {m} /\ air' = air \cup Fragments(m)
        /\ UNCHANGED <<arrived, packet_queue, ipc_out>>
    BY <2>1 DEF NodeSends, process
  <2>3. /\ UNCHANGED Relayed
        /\ \A k \in Message : IsRelayed(k)' <=> IsRelayed(k)
    BY <2>2, NothingPutOut
  <2>4. \A p \in Fragments(m) : p.msg = m
    BY DEF Fragments
  <2>5. \A k \in Message : FirstFragment(k)' = FirstFragment(k) /\ FirstFragment(k).msg = k
    BY DEF FirstFragment
  <2>6. OnePlace'
    <3>1. \A p \in air' \cup Stored(packet_queue') : p.msg \in sent'
      BY <2>2, <2>4 DEF OnePlace
    <3>2. arrived' # NoPacket =>
            arrived'.msg \in sent' /\ arrived' \notin air' \cup Stored(packet_queue')
      BY <2>2, <2>4 DEF OnePlace
    <3>3. air' \cap Stored(packet_queue') = {} /\ StoredOnce(packet_queue')
      BY <2>2, <2>4 DEF OnePlace
    <3>4. \A k \in Message : IsRelayed(k)' =>
            /\ k \in sent'
            /\ FirstFragment(k) \notin air' \cup Stored(packet_queue') \cup {arrived'}
      BY <2>2, <2>3, <2>4, <2>5 DEF OnePlace
    <3> QED
      BY <3>1, <3>2, <3>3, <3>4, <2>5 DEF OnePlace
  <2> QED
    BY <1>1, <2>2, <2>3, <2>6 DEF Lossy!Next, Lossy!Offer
<1>8. CASE \E p \in air : PacketLost(p)
  BY <1>1, <1>8, PacketsMove DEF PacketLost, process, OnePlace
<1>9. CASE UNCHANGED <<sent, air, arrived, packet_queue, ipc_out>>
  BY <1>1, <1>9, PacketsMove DEF OnePlace
<1>10. \/ SelectRadio \/ ReceiveRejected \/ ReceiveRadioFails \/ ReceiveWhole
       \/ ReceiveFragment \/ StatusReport
       \/ \E m \in Message : NodeSends(m)
       \/ \E p \in air : PacketLost(p)
       \/ UNCHANGED <<sent, air, arrived, packet_queue, ipc_out>>
  BY DEF Next, Loop, Environment, Exited, Setup, LoopHead, SelectIpcOrTimeout,
     ReceiveIpcFails, ReceiveNodelist, ReceiveForwarded, NoStatusDue,
     MessengerSends, MessengerReads, MessengerCloses, Interrupt, Tick, process, lists, radio, vars
<1> QED
  BY <1>2, <1>3, <1>4, <1>5, <1>6, <1>7, <1>8, <1>9, <1>10

\* No packet is at two places, and no relayed message can be put together again.
THEOREM PacketsAtOnePlace ==
    ASSUME NoDuplicates, UniqueIds
    PROVE  Spec => []OnePlace
<1>1. Init => RelayInv
  BY InitRelay
<1>2. RelayInv /\ [Next]_vars => RelayInv'
  BY StepRelay
<1>3. RelayInv => OnePlace
  BY DEF RelayInv
<1> QED
  BY <1>1, <1>2, <1>3, PTL DEF Spec

\* The transceiver relays every message whole, unchanged and at most once,
\* whatever is lost, reordered or dropped on the way.
THEOREM ImplementsLossyRelay ==
    ASSUME NoDuplicates, UniqueIds
    PROVE  Spec => RelaysLossily
<1>1. Init => RelayInv /\ Lossy!Init
  BY InitRelay
<1>2. RelayInv /\ [Next]_vars => RelayInv' /\ [Lossy!Next]_<<sent, Relayed>>
  BY StepRelay
<1> QED
  BY <1>1, <1>2, PTL DEF Spec, RelaysLossily, Lossy!Spec

\* What the relay has put out are contents of messages, and reports.
WholeOnes == {Content[m] : m \in Message} \cup {Report}

\* The relay puts out nothing else.
LEMMA StepWhole ==
    ASSUME Relayed \in Seq(WholeOnes), [Lossy!Next]_<<sent, Relayed>>
    PROVE  (Relayed \in Seq(WholeOnes))'
<1>1. WholeOnes' = WholeOnes
  BY DEF WholeOnes, Content, Payload, Report
<1>2. \/ UNCHANGED Relayed
      \/ \E x \in WholeOnes : Relayed' = Append(Relayed, x)
  BY DEF Lossy!Next, Lossy!Offer, Lossy!Relay, Lossy!SendReport, WholeOnes
<1> HIDE DEF WholeOnes
<1>3. \A q \in Seq(WholeOnes) : \A x \in WholeOnes : Append(q, x) \in Seq(WholeOnes)
  OBVIOUS
<1> QED
  BY <1>1, <1>2, <1>3

\* Without duplicates and reused ids, no message that is put together has a hole.
THEOREM NoHolesWithoutDuplicates ==
    ASSUME NoDuplicates, UniqueIds
    PROVE  Spec => []CompleteMessages
<1>1. Init => RelayInv /\ Relayed \in Seq(WholeOnes)
  BY InitRelay DEF Lossy!Init
<1>2. RelayInv /\ Relayed \in Seq(WholeOnes) /\ [Next]_vars
        => RelayInv' /\ (Relayed \in Seq(WholeOnes))'
  BY StepRelay, StepWhole
<1>3. Relayed \in Seq(WholeOnes) => CompleteMessages
  <2> SUFFICES ASSUME Relayed \in Seq(WholeOnes),
                      NEW i \in 1..Len(ipc_out), ipc_out[i].kind = "data",
                      NEW b \in DOMAIN ipc_out[i].data
               PROVE  ipc_out[i].data[b] # Hole
    BY DEF CompleteMessages
  <2>1. /\ DOMAIN Relayed = 1..Len(ipc_out)
        /\ Relayed[i] = [source |-> ipc_out[i].source, data |-> ipc_out[i].data]
    BY DEF Relayed
  <2>2. Relayed[i] \in WholeOnes
    <3> HIDE DEF WholeOnes
    <3>1. \A q \in Seq(WholeOnes) : \A j \in DOMAIN q : q[j] \in WholeOnes
      OBVIOUS
    <3> QED
      BY <2>1, <3>1
  <2>3. ipc_out[i].data = Relayed[i].data
    BY <2>1
  <2>4. Relayed[i].data # <<>>
    BY <2>3
  <2>5. PICK m \in Message : Relayed[i] = Content[m]
    BY <2>2, <2>4 DEF WholeOnes, Report
  <2>6. ipc_out[i].data = Payload(m)
    BY <2>3, <2>5 DEF Content
  <2> QED
    BY <2>6 DEF Payload, Hole
<1> QED
  BY <1>1, <1>2, <1>3, PTL DEF Spec

-----------------------------------------------------------------------------
(* Messages in order.                                                      *)

\* The packet with which a message is complete: the last one that has a byte.
Closing(m) ==
    IF TotalSize[m] % PayloadSize = 0 THEN tot_frags(m) - 1 ELSE tot_frags(m)
ClosingPacket(m) == [msg |-> m, no |-> Closing(m)]

\* collect_from_queue is called for it, and for an empty packet behind it.
LEMMA ClosingIsLast ==
    ASSUME NEW m \in Message
    PROVE  /\ Closing(m) \in 0..tot_frags(m) /\ ClosingPacket(m) \in Packet
           /\ ClosingPacket(m).msg = m /\ ClosingPacket(m).no = Closing(m)
           /\ \A p \in Packet : p.msg = m =>
                /\ IsLast(p) <=> p.no >= Closing(m)
                /\ p.no > Closing(m) => data_size(p) = 0
                /\ ~Fragmented(p) => p = ClosingPacket(m)
<1> DEFINE t == TotalSize[m]
           P == PayloadSize
           d == t \div P
           r == t % P
<1>1. t \in Nat \ {0} /\ P \in Nat \ {0}
  BY PacketAssumption
<1>2. d \in Nat /\ r \in 0..(P - 1) /\ t = d * P + r
  BY <1>1, DivMod
<1>3. tot_frags(m) = d /\ Closing(m) = IF r = 0 THEN d - 1 ELSE d
  BY DEF tot_frags, Closing
<1> HIDE DEF t, P, d, r
<1>4. Closing(m) \in 0..d
  <2>1. r = 0 => d # 0
    <3>1. d = 0 => d * P = 0
      BY <1>1
    <3> QED
      BY <1>1, <1>2, <3>1
  <2> QED
    BY <1>2, <1>3, <2>1
<1>5. ClosingPacket(m) \in Packet
  <2>1. ClosingPacket(m) \in Fragments(m)
    BY <1>3, <1>4 DEF ClosingPacket, Fragments
  <2> QED
    BY <2>1 DEF Packet
<1>6. ASSUME NEW p \in Packet, p.msg = m
      PROVE  /\ IsLast(p) <=> p.no >= Closing(m)
             /\ p.no > Closing(m) => data_size(p) = 0
             /\ ~Fragmented(p) => p = ClosingPacket(m)
  <2>1. p.no \in 0..d /\ p = [msg |-> m, no |-> p.no]
    BY <1>3, <1>6, PacketFields
  <2>2. data_size(p) = IF p.no = d THEN r ELSE P
    BY <1>3, <1>6 DEF data_size, t, P, r
  <2>3. IsLast(p) <=> t = p.no * P + data_size(p)
    BY <1>6 DEF IsLast, total_size, offset, t, P
  <2>4. p.no * P \in Nat /\ d * P \in Nat
    BY <1>1, <1>2, <2>1
  <2>5. p.no < d => p.no * P + P <= d * P
    BY <1>1, <1>2, <2>1, Multiples
  <2>6. d # 0 /\ p.no < d - 1 => p.no * P + P < d * P
    <3> SUFFICES ASSUME d # 0, p.no < d - 1 PROVE p.no * P + P < d * P
      OBVIOUS
    <3>1. p.no \in Nat /\ p.no + 1 \in Nat /\ p.no + 1 < d
      BY <1>2, <2>1
    <3>2. (p.no + 1) * P + P <= d * P
      BY <1>1, <1>2, <3>1, Multiples
    <3>3. p.no * P + P <= (p.no + 1) * P
      BY <1>1, <3>1, Multiples
    <3>4. (p.no + 1) * P \in Nat
      BY <1>1, <3>1
    <3> QED
      BY <1>1, <2>4, <3>2, <3>3, <3>4
  <2>7. d # 0 /\ p.no = d - 1 => p.no * P + P = d * P
    <3> SUFFICES ASSUME d # 0, p.no = d - 1 PROVE p.no * P + P = d * P
      OBVIOUS
    <3>1. p.no \in Nat /\ d = p.no + 1
      BY <1>2, <2>1
    <3>2. (p.no + 1) * P = p.no * P + P
      BY <1>1, <3>1
    <3> QED
      BY <3>1, <3>2
  <2>8. IsLast(p) <=> p.no >= Closing(m)
    <3>1. CASE p.no = d
      <4>1. p.no * P = d * P
        BY <3>1
      <4>2. IsLast(p)
        BY <1>2, <2>2, <2>3, <3>1, <4>1
      <4> QED
        BY <1>2, <1>3, <3>1, <4>2
    <3>2. CASE p.no < d
      <4>1. IsLast(p) <=> r = 0 /\ p.no = d - 1
        BY <1>1, <1>2, <2>1, <2>2, <2>3, <2>4, <2>5, <2>6, <2>7, <3>2
      <4> QED
        BY <1>2, <1>3, <2>1, <3>2, <4>1
    <3> QED
      BY <1>2, <2>1, <3>1, <3>2
  <2>9. p.no > Closing(m) => data_size(p) = 0
    BY <1>2, <1>3, <2>1, <2>2
  <2>10. ~Fragmented(p) => p = ClosingPacket(m)
    <3> SUFFICES ASSUME ~Fragmented(p) PROVE p = ClosingPacket(m)
      OBVIOUS
    <3>1. p.no = 0 /\ data_size(p) = t
      BY <1>6, WholePacket DEF FirstFragment, t
    <3>2. p.no * P = 0
      BY <1>1, <3>1
    <3>3. IsLast(p)
      BY <1>1, <2>3, <3>1, <3>2
    <3>4. Closing(m) = 0
      BY <1>2, <1>4, <2>8, <3>1, <3>3
    <3> QED
      BY <2>1, <3>1, <3>4 DEF ClosingPacket
  <2> QED
    BY <2>8, <2>9, <2>10
<1> QED
  BY <1>3, <1>4, <1>5, <1>6 DEF ClosingPacket

\* Up to that packet, they have all bytes of the message.
LEMMA ClosingCovers ==
    ASSUME NEW m \in Message, NEW b \in 1..TotalSize[m]
    PROVE  \E k \in 0..Closing(m) :
             [msg |-> m, no |-> k] \in Packet /\ b \in Bytes([msg |-> m, no |-> k])
<1> DEFINE t == TotalSize[m]
           P == PayloadSize
           d == t \div P
           r == t % P
           k == (b - 1) \div P
           s == (b - 1) % P
<1>1. t \in Nat \ {0} /\ P \in Nat \ {0} /\ b \in Nat \ {0} /\ b - 1 \in Nat /\ b <= t
  BY PacketAssumption
<1>2. /\ d \in Nat /\ r \in 0..(P - 1) /\ t = d * P + r
      /\ k \in Nat /\ s \in 0..(P - 1) /\ b - 1 = k * P + s
  BY <1>1, DivMod
<1>3. /\ tot_frags(m) = d /\ Closing(m) = IF r = 0 THEN d - 1 ELSE d
      /\ Closing(m) \in 0..d
  BY ClosingIsLast DEF tot_frags, Closing
<1> HIDE DEF t, P, d, r, k, s
<1>4. d * P \in Nat /\ k * P \in Nat
  BY <1>1, <1>2
<1>5. d < k => d * P + P <= k * P
  BY <1>1, <1>2, Multiples
<1>6. k < d => k * P + P <= d * P
  BY <1>1, <1>2, Multiples
<1>7. k <= d
  BY <1>1, <1>2, <1>4, <1>5
<1>8. k = d => s < r
  BY <1>1, <1>2, <1>4
<1>9. k \in 0..Closing(m)
  BY <1>2, <1>3, <1>7, <1>8
<1> DEFINE p == [msg |-> m, no |-> k]
<1>10. p \in Packet
  <2>1. p \in Fragments(m)
    BY <1>2, <1>3, <1>7 DEF Fragments
  <2> QED
    BY <2>1 DEF Packet
<1>11. offset(p) = k * P /\ data_size(p) = IF k = d THEN r ELSE P
  BY <1>3 DEF offset, data_size, P, t, r
<1>12. b \in Bytes(p)
  <2> HIDE DEF p
  <2>1. data_size(p) \in Nat /\ s < data_size(p)
    BY <1>1, <1>2, <1>8, <1>11
  <2> QED
    BY <1>1, <1>2, <1>4, <1>11, <2>1 DEF Bytes
<1> QED
  BY <1>9, <1>10, <1>12

\* Nothing gets lost on the radio or overtakes what was sent before it, and the
\* socket of the radio does not fail.
InOrderRadio == Faults \subseteq {"interrupt", "peer_close"}
\* Every message fits into data_buffer.
AllFit == \A m \in Message : TotalSize[m] <= DataBufferSize

\* Packets that were sent and not handled yet.
Waiting == air \cup ({arrived} \ {NoPacket})

\* A node has sent all messages before one that it has sent.
SentInTurn ==
    \A m \in sent : \A k \in Message : Source[k] = Source[m] /\ k < m => k \in sent

\* The packets of a node are handled in the order in which it sent them.
ArrivedInTurn ==
    /\ \A p \in Waiting : p.msg \in sent
    /\ arrived \notin air
    /\ \A p, q \in Packet : p.msg \in sent /\ q.msg \in sent /\ SentBefore(p, q) =>
         /\ q \notin Waiting => p \notin Waiting
         /\ q = arrived => p \notin air

\* The queue holds what was handled of messages that are not complete yet, ...
Unfinished ==
    {p \in Packet : p.msg \in sent /\ p \notin Waiting /\ ClosingPacket(p.msg) \in Waiting}
QueueHoldsRest == StoredOnce(packet_queue) /\ Stored(packet_queue) = Unfinished

\* ... and those that are complete were relayed.
FinishedRelayed == \A m \in sent : IsRelayed(m) <=> ClosingPacket(m) \notin Waiting

\* Whoever's packet arrives is listed, and a fragment finds a free slot.
Undisturbed ==
    pc = "ieee" =>
      /\ nodelist_find(whitelist, src(arrived))
      /\ Fragmented(arrived) => \E i \in Slot : IsFree(packet_queue, i)

\* A process that has ended may have lost a message when it tried to send it.
OrderInv ==
    /\ TypeOK /\ SentInTurn /\ RelaysInOrder
    /\ \A m \in Message : IsRelayed(m) => m \in sent
    /\ pc # "exit" => ArrivedInTurn /\ QueueHoldsRest /\ FinishedRelayed

\* The order is kept if all earlier messages of its node were put out before.
LEMMA OrderKept ==
    ASSUME TypeOK, RelaysInOrder, UNCHANGED sent, NEW x \in IpcMessage,
           ipc_out' = Append(ipc_out, x),
           \A m \in sent : Relays(x, m) =>
             \A k \in sent : Source[k] = Source[m] /\ k < m => IsRelayed(k)
    PROVE  RelaysInOrder'
<1> DEFINE n == Len(ipc_out)
<1>1. /\ n \in Nat /\ Len(ipc_out') = n + 1 /\ ipc_out'[n + 1] = x
      /\ \A i \in 1..n : ipc_out'[i] = ipc_out[i]
  BY DEF TypeOK
<1> HIDE DEF n
<1>2. \A y : \A k \in Message : Relays(y, k)' <=> Relays(y, k)
  BY DEF Relays, Payload
<1>3. sent \subseteq Message
  BY DEF TypeOK
<1>4. ASSUME NEW i \in 1..(n + 1), NEW m \in sent, Relays(ipc_out'[i], m),
             NEW k \in sent, Source[k] = Source[m], k < m
      PROVE  \E j \in 1..(i - 1) : Relays(ipc_out'[j], k)
  <2>1. CASE i \in 1..n
    <3>1. PICK j \in 1..(i - 1) : Relays(ipc_out[j], k)
      BY <1>1, <1>4, <2>1 DEF RelaysInOrder, n
    <3>2. j \in 1..n
      BY <1>1, <2>1
    <3> QED
      BY <1>1, <3>1, <3>2
  <2>2. CASE i = n + 1
    <3>1. IsRelayed(k)
      BY <1>1, <1>4, <2>2
    <3>2. PICK j \in 1..n : Relays(ipc_out[j], k)
      BY <3>1 DEF IsRelayed, n
    <3> QED
      BY <1>1, <2>2, <3>2
  <2> QED
    BY <1>1, <2>1, <2>2
<1> QED
  BY <1>1, <1>3, <1>4 DEF RelaysInOrder, Relays, Payload

\* The message that is put out for m is no other one's.
LEMMA PutOutFor ==
    ASSUME NEW m \in Message, NEW time \in Nat
    PROVE  LET x == DataMessage(Source[m], Payload(m), time)
           IN  x \in IpcMessage /\ \A k \in Message : Relays(x, k) <=> k = m
<1> DEFINE x == DataMessage(Source[m], Payload(m), time)
<1>1. Payload(m) \in Seq(Byte)
  <2>1. TotalSize[m] \in Nat /\ Payload(m) \in [1..TotalSize[m] -> Byte]
    BY PacketAssumption DEF Payload, Byte
  <2> QED
    BY <2>1, SeqDef
<1>2. x \in IpcMessage /\ x.kind = "data" /\ x.source = Source[m] /\ x.data = Payload(m)
  BY <1>1, PacketAssumption DEF DataMessage, IpcMessage
<1> HIDE DEF x
<1>3. \A k \in Message : Relays(x, k) <=> k = m
  BY <1>2, PayloadsDiffer DEF Relays
<1> QED
  BY <1>2, <1>3 DEF x

\* What is before the packet that arrived was handled, what is behind it was not; and
\* taking it leaves that order.
LEMMA ArrivedTaken ==
    ASSUME TypeOK, pc = "ieee", ArrivedInTurn, arrived' = NoPacket,
           UNCHANGED <<sent, air>>
    PROVE  /\ arrived \in Packet /\ arrived.msg \in sent /\ arrived \in Waiting
           /\ Waiting' = Waiting \ {arrived}
           /\ ArrivedInTurn'
           /\ \A q \in Packet : q.msg \in sent =>
                /\ SentBefore(q, arrived) => q \notin Waiting
                /\ SentBefore(arrived, q) => q \in Waiting
<1>1. arrived \in Packet /\ arrived # NoPacket /\ arrived \notin air /\ NoPacket \notin air
  BY ArrivedPacket, NoPacketIsNone DEF TypeOK, ArrivedInTurn
<1>2. arrived \in Waiting /\ arrived.msg \in sent
  BY <1>1 DEF Waiting, ArrivedInTurn
<1>3. Waiting = air \cup {arrived} /\ Waiting' = air
  BY <1>1 DEF Waiting
<1>4. Waiting' = Waiting \ {arrived}
  BY <1>1, <1>3
<1>5. \A q \in Packet : q.msg \in sent =>
        /\ SentBefore(q, arrived) => q \notin Waiting
        /\ SentBefore(arrived, q) => q \in Waiting
  <2>1. ~SentBefore(arrived, arrived)
    <3>1. arrived.msg \in Nat /\ arrived.no \in Nat
      BY <1>1, PacketFields, PacketAssumption DEF tot_frags
    <3> QED
      BY <3>1 DEF SentBefore
  <2>2. ASSUME NEW q \in Packet, q.msg \in sent, SentBefore(q, arrived)
        PROVE  q \notin Waiting
    <3>1. q \notin air
      BY <1>1, <1>2, <2>2 DEF ArrivedInTurn
    <3>2. q # arrived
      BY <2>1, <2>2
    <3> QED
      BY <1>3, <3>1, <3>2
  <2>3. ASSUME NEW q \in Packet, q.msg \in sent, SentBefore(arrived, q)
        PROVE  q \in Waiting
    BY <1>1, <1>2, <2>3 DEF ArrivedInTurn
  <2> QED
    BY <2>2, <2>3
<1>6. ArrivedInTurn'
  <2>1. \A p \in Waiting' : p.msg \in sent
    BY <1>4 DEF ArrivedInTurn
  <2>2. arrived' \notin air' /\ \A q \in Packet : q # arrived'
    BY <1>1, NoPacketIsNone
  <2>3. ASSUME NEW p \in Packet, NEW q \in Packet, p.msg \in sent, q.msg \in sent,
               SentBefore(p, q), q \notin Waiting'
        PROVE  p \notin Waiting'
    BY <1>4, <1>5, <2>3 DEF ArrivedInTurn
  <2> QED
    BY <2>1, <2>2, <2>3 DEF ArrivedInTurn, SentBefore, src
<1> QED
  BY <1>1, <1>2, <1>4, <1>5, <1>6

\* Only one message of a node is unfinished, and what is unfinished then.
LEMMA UnfinishedThen ==
    ASSUME TypeOK, pc = "ieee", ArrivedInTurn, arrived' = NoPacket,
           UNCHANGED <<sent, air>>
    PROVE  LET m == arrived.msg
           IN  /\ arrived.no < Closing(m) => Unfinished' = Unfinished \cup {arrived}
               /\ arrived = ClosingPacket(m) =>
                    /\ Unfinished' = {q \in Unfinished : q.msg # m}
                    /\ \A q \in Unfinished : src(q) = src(arrived) => q.msg = m
                    /\ \A q \in Packet : q.msg = m /\ q.no < Closing(m) => q \in Unfinished
               /\ arrived.no > Closing(m) =>
                    /\ Unfinished' = Unfinished
                    /\ \A q \in Unfinished : src(q) # src(arrived)
<1> DEFINE m == arrived.msg
<1>1. /\ arrived \in Packet /\ m \in sent /\ arrived \in Waiting
      /\ Waiting' = Waiting \ {arrived}
      /\ \A q \in Packet : q.msg \in sent =>
           /\ SentBefore(q, arrived) => q \notin Waiting
           /\ SentBefore(arrived, q) => q \in Waiting
  BY ArrivedTaken
<1>2. sent \subseteq Message /\ Message \subseteq Nat /\ m \in Message
  BY <1>1, PacketAssumption DEF TypeOK
<1>3. /\ \A k \in Message : /\ ClosingPacket(k) \in Packet /\ ClosingPacket(k).msg = k
                            /\ ClosingPacket(k).no = Closing(k)
                            /\ Closing(k) \in Nat
      /\ arrived.no \in Nat /\ arrived = [msg |-> m, no |-> arrived.no]
  <2>1. \A k \in Message : tot_frags(k) \in Nat
    BY PacketAssumption, DivMod DEF tot_frags
  <2> QED
    BY <1>1, <2>1, ClosingIsLast, PacketFields
<1>4. \A q \in Packet : q.msg \in Message /\ q.msg \in Nat /\ q.no \in Nat
  BY PacketFields, PacketAssumption DEF tot_frags
<1>5. Unfinished' = {p \in Packet : /\ p.msg \in sent /\ p \notin Waiting'
                                    /\ ClosingPacket(p.msg) \in Waiting'}
  BY DEF Unfinished, ClosingPacket, Closing
<1>6. ASSUME NEW q \in Unfinished, src(q) = src(arrived), arrived.no >= Closing(m)
      PROVE  q.msg = m /\ arrived.no = Closing(m)
  <2>1. /\ q \in Packet /\ q.msg \in sent /\ q \notin Waiting
        /\ ClosingPacket(q.msg) \in Waiting
    BY <1>6 DEF Unfinished
  <2>2. ~(m < q.msg)
    BY <1>1, <1>6, <2>1 DEF SentBefore
  <2>3. ~(q.msg < m)
    <3> SUFFICES ASSUME q.msg < m PROVE FALSE
      OBVIOUS
    <3>1. SentBefore(ClosingPacket(q.msg), arrived)
      BY <1>3, <1>4, <1>6, <2>1 DEF SentBefore, src
    <3> QED
      BY <1>1, <1>3, <1>4, <2>1, <3>1
  <2>4. q.msg = m
    <3>1. q.msg \in Nat /\ m \in Nat
      BY <1>2, <1>4, <2>1
    <3> HIDE DEF m
    <3> QED
      BY <2>2, <2>3, <3>1
  <2>5. ~(Closing(m) < arrived.no)
    <3> SUFFICES ASSUME Closing(m) < arrived.no PROVE FALSE
      OBVIOUS
    <3>1. SentBefore(ClosingPacket(m), arrived)
      BY <1>2, <1>3 DEF SentBefore, src
    <3> QED
      BY <1>1, <1>2, <1>3, <2>1, <2>4, <3>1
  <2> QED
    BY <1>2, <1>3, <1>6, <2>4, <2>5
<1>7. ASSUME arrived.no < Closing(m)
      PROVE  Unfinished' = Unfinished \cup {arrived}
  <2>1. ClosingPacket(m) \in Waiting
    <3>1. SentBefore(arrived, ClosingPacket(m))
      BY <1>2, <1>3, <1>7 DEF SentBefore, src
    <3> QED
      BY <1>1, <1>2, <1>3, <3>1
  <2>2. \A k \in Message : ClosingPacket(k) # arrived
    BY <1>2, <1>3, <1>7
  <2> QED
    BY <1>1, <1>2, <1>4, <1>5, <2>1, <2>2 DEF Unfinished
<1>8. ASSUME arrived = ClosingPacket(m)
      PROVE  /\ Unfinished' = {q \in Unfinished : q.msg # m}
             /\ \A q \in Packet : q.msg = m /\ q.no < Closing(m) => q \in Unfinished
  <2>1. \A k \in Message : ClosingPacket(k) = arrived <=> k = m
    BY <1>2, <1>3, <1>8
  <2>2. Unfinished' = {q \in Unfinished : q.msg # m}
    BY <1>1, <1>2, <1>4, <1>5, <2>1 DEF Unfinished
  <2>3. ASSUME NEW q \in Packet, q.msg = m, q.no < Closing(m)
        PROVE  q \in Unfinished
    <3>1. SentBefore(q, arrived)
      BY <1>2, <1>3, <1>8, <2>3 DEF SentBefore, src
    <3> QED
      BY <1>1, <1>8, <2>3, <3>1 DEF Unfinished
  <2> QED
    BY <2>2, <2>3
<1>9. ASSUME arrived.no > Closing(m)
      PROVE  Unfinished' = Unfinished
  <2>1. ClosingPacket(m) \notin Waiting
    <3>1. SentBefore(ClosingPacket(m), arrived)
      BY <1>2, <1>3, <1>9 DEF SentBefore, src
    <3> QED
      BY <1>1, <1>2, <1>3, <3>1
  <2>2. \A k \in Message : ClosingPacket(k) # arrived
    BY <1>2, <1>3, <1>9
  <2> QED
    BY <1>1, <1>2, <1>4, <1>5, <2>1, <2>2 DEF Unfinished
<1>10. arrived = ClosingPacket(m) => \A q \in Unfinished : src(q) = src(arrived) => q.msg = m
  BY <1>2, <1>3, <1>6
<1>11. arrived.no > Closing(m) => \A q \in Unfinished : src(q) # src(arrived)
  BY <1>2, <1>3, <1>6
<1> QED
  BY <1>7, <1>8, <1>9, <1>10, <1>11

\* At first nothing was sent.
LEMMA InitOrder == Init => OrderInv
<1> SUFFICES ASSUME Init PROVE OrderInv
  OBVIOUS
<1>1. Len(ipc_out) = 0 /\ sent = {} /\ Waiting = {}
  BY DEF Init, Waiting
<1>2. \A m \in Message : ~IsRelayed(m)
  BY <1>1 DEF IsRelayed
<1>3. Unfinished = {}
  BY <1>1 DEF Unfinished
<1>4. QueueHoldsRest
  BY <1>3, EmptyQueueStores DEF Init, QueueHoldsRest
<1> QED
  BY <1>1, <1>2, <1>4, InitType
     DEF OrderInv, SentInTurn, RelaysInOrder, ArrivedInTurn, FinishedRelayed, Init, Waiting

\* As long as nothing is put out and nothing sent, the order of what was put out is
\* what it was.
LEMMA NothingNew ==
    ASSUME OrderInv, TypeOK', UNCHANGED <<sent, ipc_out>>
    PROVE  /\ SentInTurn' /\ RelaysInOrder'
           /\ \A m \in Message : (IsRelayed(m)' <=> IsRelayed(m))
                                 /\ (IsRelayed(m)' => m \in sent')
<1>1. \A m \in Message : IsRelayed(m)' <=> IsRelayed(m)
  BY NothingPutOut
<1>2. \A y : \A k \in Message : Relays(y, k)' <=> Relays(y, k)
  BY DEF Relays, Payload
<1>3. sent \subseteq Message /\ sent' = sent /\ ipc_out' = ipc_out
  BY DEF OrderInv, TypeOK
<1>4. RelaysInOrder'
  BY <1>2, <1>3 DEF OrderInv, RelaysInOrder, Relays, Payload
<1> QED
  BY <1>1, <1>3, <1>4 DEF OrderInv, SentInTurn

\* A message that a node sends is the last of that node.
LEMMA SendsInOrder ==
    ASSUME OrderInv, TypeOK', NEW m \in Message, NodeSends(m)
    PROVE  OrderInv'
<1>1. /\ m \notin sent /\ sent' = sent \cup {m} /\ air' = air \cup Fragments(m)
      /\ \A k \in Message : Source[k] = Source[m] /\ k < m => k \in sent
      /\ UNCHANGED <<pc, arrived, packet_queue, ipc_out>>
  BY DEF NodeSends, process
<1>2. sent \subseteq Message /\ Message \subseteq Nat
  BY PacketAssumption DEF OrderInv, TypeOK
<1>3. SentInTurn'
  BY <1>1 DEF OrderInv, SentInTurn
<1>4. \A k \in Message : IsRelayed(k)' <=> IsRelayed(k)
  BY <1>1, NothingPutOut
<1>5. ~IsRelayed(m)
  BY <1>1 DEF OrderInv
<1>6. RelaysInOrder'
  <2> SUFFICES ASSUME NEW i \in 1..Len(ipc_out'), NEW k \in sent', Relays(ipc_out'[i], k),
                      NEW j \in sent', Source[j] = Source[k], j < k
               PROVE  \E l \in 1..(i - 1) : Relays(ipc_out'[l], j)
    BY DEF RelaysInOrder, Relays, Payload
  <2>1. i \in 1..Len(ipc_out) /\ Relays(ipc_out[i], k)
    BY <1>1
  <2>2. k # m
    BY <1>5, <2>1 DEF IsRelayed
  <2>3. k \in sent
    BY <1>1, <2>2
  <2>4. j \in sent
    BY <1>1, <1>2, <2>3 DEF OrderInv, SentInTurn
  <2> QED
    BY <1>1, <2>1, <2>3, <2>4 DEF OrderInv, RelaysInOrder
<1>7. ASSUME pc' # "exit"
      PROVE  ArrivedInTurn' /\ QueueHoldsRest' /\ FinishedRelayed'
  <2>1. ArrivedInTurn /\ QueueHoldsRest /\ FinishedRelayed
    BY <1>1, <1>7 DEF OrderInv
  <2>2. /\ \A p \in Fragments(m) : p.msg = m
        /\ \A p \in Packet : p.msg = m => p \in Fragments(m)
    <3>1. \A p \in Packet : p.no \in 0..tot_frags(p.msg) /\ p = [msg |-> p.msg, no |-> p.no]
      BY PacketFields
    <3> QED
      BY <3>1 DEF Fragments
  <2>3. NoPacket \notin Packet
    BY NoPacketIsNone
  <2>4. Waiting' = Waiting \cup Fragments(m)
    BY <1>1 DEF Waiting
  <2>5. arrived # NoPacket => arrived \in Waiting /\ arrived.msg \in sent
    BY <2>1 DEF Waiting, ArrivedInTurn
  <2>6. \A p \in Packet : p \in Waiting' <=> p \in Waiting \/ p.msg = m
    BY <2>2, <2>4
  <2>7. ArrivedInTurn'
    <3>1. \A p \in Waiting' : p.msg \in sent'
      BY <1>1, <2>1, <2>2, <2>4 DEF ArrivedInTurn
    <3>2. arrived' \notin air'
      <4>1. \A p \in Fragments(m) : p \in Packet
        BY DEF Packet
      <4> QED
        BY <1>1, <2>1, <2>2, <2>3, <2>5, <4>1 DEF ArrivedInTurn
    <3>3. ASSUME NEW p \in Packet, NEW q \in Packet, p.msg \in sent', q.msg \in sent',
                 SentBefore(p, q)
          PROVE  /\ q \notin Waiting' => p \notin Waiting'
                 /\ q = arrived' => p \notin air'
      <4>1. CASE q.msg = m
        <5>1. q \in Waiting' /\ q # arrived
          BY <1>1, <2>3, <2>5, <2>6, <4>1
        <5> QED
          BY <1>1, <5>1
      <4>2. CASE q.msg # m
        <5>1. q.msg \in sent /\ p.msg \in sent /\ p.msg # m
          BY <1>1, <1>2, <3>3, <4>2 DEF OrderInv, SentInTurn, SentBefore, src
        <5>2. p \in Waiting' <=> p \in Waiting
          BY <2>6, <5>1
        <5>3. q \in Waiting' <=> q \in Waiting
          BY <2>6, <5>1, <4>2
        <5>4. p \in air' <=> p \in air
          BY <1>1, <2>2, <5>1
        <5> QED
          BY <1>1, <2>1, <3>3, <5>1, <5>2, <5>3, <5>4 DEF ArrivedInTurn
      <4> QED
        BY <4>1, <4>2
    <3> QED
      BY <3>1, <3>2, <3>3 DEF ArrivedInTurn, SentBefore, src
  <2>8. \A k \in Message : ClosingPacket(k) \in Packet /\ ClosingPacket(k).msg = k
    BY ClosingIsLast
  <2>9. Unfinished' = Unfinished
    <3>1. Unfinished' = {p \in Packet : /\ p.msg \in sent' /\ p \notin Waiting'
                                        /\ ClosingPacket(p.msg) \in Waiting'}
      BY DEF Unfinished, ClosingPacket, Closing
    <3>2. \A p \in Packet : p.msg \in Message
      BY PacketFields
    <3> QED
      BY <1>1, <2>6, <2>8, <3>1, <3>2 DEF Unfinished
  <2>10. QueueHoldsRest'
    BY <1>1, <2>1, <2>9 DEF QueueHoldsRest
  <2>11. FinishedRelayed'
    <3> SUFFICES ASSUME NEW k \in sent'
                 PROVE  IsRelayed(k)' <=> ClosingPacket(k) \notin Waiting'
      BY DEF FinishedRelayed, ClosingPacket, Closing
    <3> QED
      BY <1>1, <1>2, <1>4, <1>5, <2>1, <2>6, <2>8 DEF FinishedRelayed
  <2> QED
    BY <2>7, <2>10, <2>11
<1>8. \A k \in Message : IsRelayed(k)' => k \in sent'
  BY <1>1, <1>4 DEF OrderInv
<1> QED
  BY <1>3, <1>6, <1>7, <1>8 DEF OrderInv

\* select takes a packet that no other one of its node is before.
LEMMA SelectsInOrder ==
    ASSUME OrderInv, TypeOK', InOrderRadio, SelectRadio
    PROVE  OrderInv'
<1>1. PICK p \in air : /\ MayArrive(p) /\ arrived' = p
                       /\ air' = air \ {p}
  BY DEF SelectRadio, InOrderRadio
<1>2. /\ UNCHANGED <<sent, packet_queue, ipc_out>> /\ pc = "select"
      /\ arrived = NoPacket /\ p \in Packet /\ p # NoPacket
  BY <1>1, NoPacketIsNone DEF SelectRadio, OrderInv, TypeOK
<1>3. /\ SentInTurn' /\ RelaysInOrder'
      /\ \A m \in Message : (IsRelayed(m)' <=> IsRelayed(m)) /\ (IsRelayed(m)' => m \in sent')
  BY <1>2, NothingNew
<1>4. ArrivedInTurn /\ QueueHoldsRest /\ FinishedRelayed
  BY <1>2 DEF OrderInv
<1>5. UNCHANGED Waiting
  BY <1>1, <1>2 DEF Waiting
<1>6. ArrivedInTurn'
  <2>1. \A q \in air : ~SentBefore(q, p)
    BY <1>1 DEF MayArrive, InOrderRadio
  <2>2. ASSUME NEW q \in Packet, NEW s \in Packet, q.msg \in sent', s.msg \in sent',
               SentBefore(q, s)
        PROVE  /\ s \notin Waiting' => q \notin Waiting'
               /\ s = arrived' => q \notin air'
    BY <1>1, <1>2, <1>4, <1>5, <2>1, <2>2 DEF ArrivedInTurn
  <2>3. (\A q \in Waiting' : q.msg \in sent') /\ arrived' \notin air'
    BY <1>1, <1>2, <1>4, <1>5 DEF ArrivedInTurn
  <2> QED
    BY <2>2, <2>3 DEF ArrivedInTurn, SentBefore, src
<1>7. QueueHoldsRest' /\ FinishedRelayed'
  <2>1. UNCHANGED Unfinished
    BY <1>2, <1>5 DEF Unfinished, ClosingPacket, Closing
  <2>2. sent \subseteq Message
    BY DEF OrderInv, TypeOK
  <2> QED
    BY <1>2, <1>3, <1>4, <1>5, <2>1, <2>2
       DEF QueueHoldsRest, FinishedRelayed, ClosingPacket, Closing
<1> QED
  BY <1>3, <1>6, <1>7 DEF OrderInv

\* A packet that does not complete its message is kept, or dropped if it is empty.
LEMMA KeepsPacket ==
    ASSUME OrderInv, TypeOK', pc = "ieee", arrived' = NoPacket,
           UNCHANGED <<sent, air, ipc_out>>, StoredOnce(packet_queue'),
           arrived.no # Closing(arrived.msg),
           Stored(packet_queue') =
             IF arrived.no < Closing(arrived.msg) THEN Stored(packet_queue) \cup {arrived}
                                                  ELSE Stored(packet_queue)
    PROVE  OrderInv'
<1>1. TypeOK /\ ArrivedInTurn /\ QueueHoldsRest /\ FinishedRelayed
  BY DEF OrderInv
<1>2. /\ arrived \in Packet /\ arrived.msg \in sent /\ ArrivedInTurn'
      /\ Waiting' = Waiting \ {arrived}
  BY <1>1, ArrivedTaken
<1>3. /\ SentInTurn' /\ RelaysInOrder'
      /\ \A m \in Message : (IsRelayed(m)' <=> IsRelayed(m)) /\ (IsRelayed(m)' => m \in sent')
  BY NothingNew
<1>4. sent \subseteq Message /\ arrived.msg \in Message
  BY <1>1, <1>2 DEF TypeOK
<1>5. \A k \in Message : ClosingPacket(k) # arrived
  BY ClosingIsLast
<1>6. FinishedRelayed'
  BY <1>1, <1>2, <1>3, <1>4, <1>5 DEF FinishedRelayed, ClosingPacket, Closing
<1>7. QueueHoldsRest'
  <2>1. arrived.no \in Nat /\ Closing(arrived.msg) \in Int
    BY <1>2, <1>4, ClosingIsLast, PacketFields, DivMod, PacketAssumption DEF tot_frags
  <2>2. \/ arrived.no < Closing(arrived.msg) /\ Unfinished' = Unfinished \cup {arrived}
        \/ ~(arrived.no < Closing(arrived.msg)) /\ Unfinished' = Unfinished
    BY <1>1, <2>1, UnfinishedThen
  <2> QED
    BY <1>1, <2>2 DEF QueueHoldsRest
<1> QED
  BY <1>2, <1>3, <1>6, <1>7 DEF OrderInv

\* The packet that completes its message has it put out, unless the process ends.
LEMMA CompletesMessage ==
    ASSUME OrderInv, TypeOK', pc = "ieee", arrived' = NoPacket,
           UNCHANGED <<sent, air>>, StoredOnce(packet_queue'),
           arrived = ClosingPacket(arrived.msg), NEW time \in Nat,
           Stored(packet_queue') = {q \in Stored(packet_queue) : q.msg # arrived.msg},
           SendToMessenger(DataMessage(src(arrived), Payload(arrived.msg), time), "status")
    PROVE  OrderInv'
<1> DEFINE m == arrived.msg
           x == DataMessage(Source[m], Payload(m), time)
<1>1. TypeOK /\ ArrivedInTurn /\ QueueHoldsRest /\ FinishedRelayed /\ RelaysInOrder
  BY DEF OrderInv
<1>2. /\ arrived \in Packet /\ m \in sent /\ ArrivedInTurn'
      /\ Waiting' = Waiting \ {arrived}
      /\ \A q \in Packet : q.msg \in sent => (SentBefore(q, arrived) => q \notin Waiting)
  BY <1>1, ArrivedTaken
<1>3. sent \subseteq Message /\ m \in Message /\ Message \subseteq Nat
  BY <1>1, <1>2, PacketAssumption DEF TypeOK
<1>4. \A k \in Message : ClosingPacket(k) \in Packet /\ ClosingPacket(k).msg = k
  BY ClosingIsLast
<1>5. \A k \in Message : ClosingPacket(k) = arrived <=> k = m
  BY <1>4
<1>6. QueueHoldsRest'
  <2>1. Unfinished' = {q \in Unfinished : q.msg # m}
    BY <1>1, UnfinishedThen
  <2> QED
    BY <1>1, <2>1 DEF QueueHoldsRest
<1>7. CASE ~ipc_open
  BY <1>7, NothingNew DEF SendToMessenger, OrderInv
<1>8. CASE ipc_open
  <2>1. ipc_out' = Append(ipc_out, x)
    BY <1>8 DEF SendToMessenger, src
  <2>2. x \in IpcMessage /\ \A k \in Message : Relays(x, k) <=> k = m
    BY <1>3, PutOutFor
  <2> HIDE DEF x
  <2>3. \A k \in Message : IsRelayed(k)' <=> IsRelayed(k) \/ k = m
    BY <1>1, <2>1, <2>2, RelayedGrows DEF TypeOK
  <2>4. \A k \in sent : Source[k] = Source[m] /\ k < m => IsRelayed(k)
    BY <1>1, <1>2, <1>3, <1>4 DEF SentBefore, src, FinishedRelayed
  <2>5. RelaysInOrder'
    BY <1>1, <1>3, <2>1, <2>2, <2>4, OrderKept
  <2>6. FinishedRelayed'
    BY <1>1, <1>2, <1>3, <1>5, <2>3 DEF FinishedRelayed, ClosingPacket, Closing
  <2>7. \A k \in Message : IsRelayed(k)' => k \in sent'
    BY <1>2, <2>3 DEF OrderInv
  <2>8. SentInTurn'
    BY DEF OrderInv, SentInTurn
  <2> QED
    BY <1>2, <1>6, <2>5, <2>6, <2>7, <2>8 DEF OrderInv
<1> QED
  BY <1>7, <1>8

\* A packet that is a whole message completes it.
LEMMA TakesWhole ==
    ASSUME OrderInv, TypeOK', ReceiveWhole
    PROVE  OrderInv'
<1> DEFINE m == arrived.msg
<1>1. TypeOK /\ ArrivedInTurn /\ QueueHoldsRest
  BY DEF OrderInv, ReceiveWhole
<1>2. /\ pc = "ieee" /\ arrived' = NoPacket /\ ~Fragmented(arrived)
      /\ UNCHANGED <<sent, air, packet_queue>> /\ clock \in Nat
      /\ SendToMessenger(DataMessage(src(arrived),
           [b \in 1..data_size(arrived) |-> <<arrived.msg, b>>], clock), "status")
  BY <1>1 DEF ReceiveWhole, radio, TypeOK
<1>3. arrived \in Packet /\ m \in sent /\ m \in Message
  BY <1>1, <1>2, ArrivedTaken, PacketFields
<1>4. arrived = ClosingPacket(m)
  BY <1>2, <1>3, ClosingIsLast
<1>5. arrived = FirstFragment(m) /\ data_size(arrived) = TotalSize[m]
  BY <1>2, <1>3, WholePacket
<1>6. [b \in 1..data_size(arrived) |-> <<arrived.msg, b>>] = Payload(m)
  BY <1>5 DEF Payload
<1>7. \A q \in Stored(packet_queue) : q.msg # m
  <2> SUFFICES ASSUME NEW q \in Unfinished, q.msg = m PROVE FALSE
    BY <1>1 DEF QueueHoldsRest
  <2>1. q \in Packet /\ q \notin Waiting
    BY DEF Unfinished
  <2>2. q # arrived
    BY <1>1, <1>2, <2>1, ArrivedTaken
  <2>3. q.no \in Nat /\ q = [msg |-> m, no |-> q.no] /\ arrived = [msg |-> m, no |-> 0]
    BY <1>5, <2>1, PacketFields, DivMod, PacketAssumption DEF FirstFragment, tot_frags
  <2>4. SentBefore(arrived, q)
    BY <2>2, <2>3 DEF SentBefore, src
  <2> QED
    BY <1>1, <1>2, <1>3, <2>1, <2>4, ArrivedTaken
<1>8. Stored(packet_queue') = {q \in Stored(packet_queue) : q.msg # m}
  BY <1>2, <1>7
<1>9. StoredOnce(packet_queue')
  BY <1>1, <1>2 DEF QueueHoldsRest
<1> QED
  BY <1>2, <1>4, <1>6, <1>8, <1>9, CompletesMessage

\* A fragment that finds a free slot is stored beside the rest of its message.
LEMMA FragmentStored ==
    ASSUME TypeOK, pc = "ieee", ArrivedInTurn, QueueHoldsRest, arrived' = NoPacket,
           UNCHANGED <<sent, air>>,
           \E i \in Slot : IsFree(packet_queue, i),
           NEW queue, queue = add_to_queue(packet_queue, arrived, clock)
    PROVE  /\ queue \in Queues /\ StoredOnce(queue)
           /\ Stored(queue) = Unfinished \cup {arrived}
           /\ arrived \notin Unfinished
<1>1. /\ arrived \in Packet /\ arrived \in Waiting
      /\ packet_queue \in Queues /\ clock \in Nat \ {0}
  BY ArrivedTaken DEF TypeOK
<1>2. arrived \notin Unfinished
  BY <1>1 DEF Unfinished
<1>3. StoredOnce(packet_queue) /\ Stored(packet_queue) = Unfinished
  BY DEF QueueHoldsRest
<1>4. queue \in Queues /\ StoredOnce(queue)
  BY <1>1, <1>2, <1>3, AddKeeps
<1>5. Stored(queue) = Stored(packet_queue) \cup {arrived}
  BY <1>1, AddStores
<1> QED
  BY <1>2, <1>3, <1>4, <1>5

\* The last fragment finds the others of its message in the queue, and no one else's.
LEMMA FragmentsComplete ==
    ASSUME TypeOK, AllFit, pc = "ieee", ArrivedInTurn, QueueHoldsRest,
           arrived' = NoPacket, UNCHANGED <<sent, air>>,
           \E i \in Slot : IsFree(packet_queue, i),
           NEW queue, queue = add_to_queue(packet_queue, arrived, clock),
           arrived = ClosingPacket(arrived.msg)
    PROVE  LET m == arrived.msg
               node == src(arrived)
               id == packet_id(arrived)
               slots == Collected(queue, node, id)
           IN  /\ collects(queue, node, id)
               /\ MergedData(queue, slots) = Payload(m)
               /\ CollectedTime(queue, slots) \in Nat
               /\ StoredOnce(Clear(queue, slots))
               /\ Stored(Clear(queue, slots)) = {q \in Stored(packet_queue) : q.msg # m}
<1> DEFINE m == arrived.msg
           node == src(arrived)
           id == packet_id(arrived)
           slots == Collected(queue, node, id)
<1>1. /\ queue \in Queues /\ StoredOnce(queue)
      /\ Stored(queue) = Unfinished \cup {arrived} /\ arrived \notin Unfinished
      /\ Stored(packet_queue) = Unfinished
  BY FragmentStored DEF QueueHoldsRest
<1>2. arrived \in Packet /\ m \in Message /\ TotalSize[m] <= DataBufferSize
  BY ArrivedTaken, PacketFields DEF AllFit
<1>3. /\ \A q \in Unfinished : src(q) = node => q.msg = m
      /\ \A q \in Packet : q.msg = m /\ q.no < Closing(m) => q \in Unfinished
  BY UnfinishedThen
<1>4. \A q \in Stored(queue) : q.msg = m <=> src(q) = node /\ packet_id(q) = id
  BY <1>1, <1>3 DEF src, packet_id
<1>5. \A i \in Matching(queue, node, id) : queue[i].packet.msg = m
  <2>1. \A i \in Matching(queue, node, id) :
          /\ queue[i].packet \in Stored(queue)
          /\ src(queue[i].packet) = node /\ packet_id(queue[i].packet) = id
    BY DEF Matching, Stored
  <2> QED
    BY <1>4, <2>1
<1>6. \A q \in Stored(queue) : q.msg = m =>
        \E i \in Matching(queue, node, id) : queue[i].packet = q
  <2> SUFFICES ASSUME NEW q \in Stored(queue), q.msg = m
               PROVE  \E i \in Matching(queue, node, id) : queue[i].packet = q
    OBVIOUS
  <2>1. PICK i \in Slot : ~IsFree(queue, i) /\ queue[i].packet = q
    BY DEF Stored
  <2>2. src(q) = node /\ packet_id(q) = id
    BY <1>4
  <2> QED
    BY <2>1, <2>2 DEF Matching
<1>7. \A b \in 1..TotalSize[m] :
        \E i \in Matching(queue, node, id) : b \in Bytes(queue[i].packet)
  <2> SUFFICES ASSUME NEW b \in 1..TotalSize[m]
               PROVE  \E i \in Matching(queue, node, id) : b \in Bytes(queue[i].packet)
    OBVIOUS
  <2>1. PICK k \in 0..Closing(m) :
          [msg |-> m, no |-> k] \in Packet /\ b \in Bytes([msg |-> m, no |-> k])
    BY <1>2, ClosingCovers
  <2> DEFINE p == [msg |-> m, no |-> k]
  <2>2. p \in Packet /\ p.msg = m /\ p.no = k /\ b \in Bytes(p)
    BY <2>1
  <2>3. k < Closing(m) \/ p = ClosingPacket(m)
    <3>1. tot_frags(m) \in Nat /\ Closing(m) \in 0..tot_frags(m)
      BY <1>2, ClosingIsLast, DivMod, PacketAssumption DEF tot_frags
    <3> QED
      BY <3>1 DEF ClosingPacket
  <2>4. p \in Stored(queue)
    BY <1>1, <1>3, <2>2, <2>3
  <2> HIDE DEF p
  <2>5. PICK i \in Matching(queue, node, id) : queue[i].packet = p
    BY <1>6, <2>2, <2>4
  <2> QED
    BY <2>2, <2>5
<1>8. collects(queue, node, id)
  BY <1>1, <1>2, <1>5, <1>7, CollectsComplete
<1>9. slots = Matching(queue, node, id)
  BY <1>8 DEF collects
<1>10. MergedData(queue, slots) = Payload(m) /\ CollectedTime(queue, slots) \in Nat
  BY <1>1, <1>2, <1>5, <1>8, CollectIntact, CollectType
<1>11. StoredOnce(Clear(queue, slots))
  BY <1>1, ClearKeeps
<1>12. Stored(Clear(queue, slots)) = {q \in Stored(packet_queue) : q.msg # m}
  <2>1. Stored(Clear(queue, slots)) =
          {q \in Stored(queue) : src(q) # node \/ packet_id(q) # id}
    BY <1>1, <1>9, ClearStores
  <2> HIDE DEF slots, node, id
  <2> QED
    BY <1>1, <1>4, <2>1
<1> QED
  BY <1>8, <1>10, <1>11, <1>12

\* The empty packet behind it finds nothing of its node, and is cleared again.
LEMMA EmptyPacketCleared ==
    ASSUME TypeOK, AllFit, pc = "ieee", ArrivedInTurn, QueueHoldsRest,
           arrived' = NoPacket, UNCHANGED <<sent, air>>,
           \E i \in Slot : IsFree(packet_queue, i),
           NEW queue, queue = add_to_queue(packet_queue, arrived, clock),
           arrived.no > Closing(arrived.msg)
    PROVE  LET node == src(arrived)
               id == packet_id(arrived)
               slots == Collected(queue, node, id)
           IN  /\ ~collects(queue, node, id)
               /\ StoredOnce(Clear(queue, slots))
               /\ Stored(Clear(queue, slots)) = Stored(packet_queue)
<1> DEFINE m == arrived.msg
           node == src(arrived)
           id == packet_id(arrived)
           slots == Collected(queue, node, id)
<1>1. /\ queue \in Queues /\ StoredOnce(queue)
      /\ Stored(queue) = Unfinished \cup {arrived} /\ arrived \notin Unfinished
      /\ Stored(packet_queue) = Unfinished
  BY FragmentStored DEF QueueHoldsRest
<1>2. arrived \in Packet /\ m \in Message /\ TotalSize[m] <= DataBufferSize
  BY ArrivedTaken, PacketFields DEF AllFit
<1>3. \A q \in Unfinished : src(q) # node
  BY UnfinishedThen
<1>4. data_size(arrived) = 0
  BY <1>2, ClosingIsLast
<1>5. \A i \in Matching(queue, node, id) : queue[i].packet = arrived
  <2>1. \A i \in Matching(queue, node, id) :
          queue[i].packet \in Stored(queue) /\ src(queue[i].packet) = node
    BY DEF Matching, Stored
  <2> QED
    BY <1>1, <1>3, <2>1
<1>6. ~collects(queue, node, id)
  BY <1>1, <1>2, <1>4, <1>5, CollectsNothing
<1>7. slots = Matching(queue, node, id)
  BY <1>1, <1>2, <1>5, CollectsAll
<1>8. StoredOnce(Clear(queue, slots))
  BY <1>1, ClearKeeps
<1>9. Stored(Clear(queue, slots)) = Stored(packet_queue)
  <2>1. Stored(Clear(queue, slots)) =
          {q \in Stored(queue) : src(q) # node \/ packet_id(q) # id}
    BY <1>1, <1>7, ClearStores
  <2> QED
    BY <1>1, <1>3, <2>1
<1> QED
  BY <1>6, <1>8, <1>9

\* A fragment is the last with a byte, one before it, or an empty one behind it.
LEMMA TakesFragment ==
    ASSUME OrderInv, TypeOK', AllFit, Undisturbed, ReceiveFragment
    PROVE  OrderInv'
<1> DEFINE m == arrived.msg
           node == src(arrived)
           id == packet_id(arrived)
           queue == add_to_queue(packet_queue, arrived, clock)
           slots == Collected(queue, node, id)
           complete == IsLast(arrived) /\ collects(queue, node, id)
<1>1. /\ pc = "ieee" /\ arrived' = NoPacket /\ UNCHANGED <<sent, air>>
      /\ packet_queue' = IF IsLast(arrived) THEN Clear(queue, slots) ELSE queue
      /\ IF complete
         THEN SendToMessenger(DataMessage(node, MergedData(queue, slots),
                                          CollectedTime(queue, slots)), "status")
         ELSE pc' = "status" /\ UNCHANGED ipc_out
  BY DEF ReceiveFragment, radio, after_collect
<1>2. /\ TypeOK /\ ArrivedInTurn /\ QueueHoldsRest
      /\ \E i \in Slot : IsFree(packet_queue, i)
  BY <1>1 DEF OrderInv, Undisturbed, ReceiveFragment
<1>3. arrived \in Packet /\ m \in Message /\ arrived.no \in Nat /\ Closing(m) \in Int
  BY <1>1, <1>2, ArrivedTaken, PacketFields, ClosingIsLast, DivMod, PacketAssumption
     DEF tot_frags
<1>4. /\ IsLast(arrived) <=> arrived.no >= Closing(m)
      /\ arrived.no = Closing(m) => arrived = ClosingPacket(m)
  BY <1>3, ClosingIsLast, PacketFields DEF ClosingPacket
<1>5. QueueHoldsRest => Stored(packet_queue) = Unfinished
  BY DEF QueueHoldsRest
<1> HIDE DEF m, node, id, queue
<1>6. CASE arrived.no < Closing(arrived.msg)
  <2>1. packet_queue' = queue /\ UNCHANGED ipc_out
    BY <1>1, <1>3, <1>4, <1>6 DEF m
  <2>2. StoredOnce(queue) /\ Stored(queue) = Stored(packet_queue) \cup {arrived}
    BY <1>1, <1>2, <1>5, FragmentStored DEF queue
  <2>3. arrived.no # Closing(arrived.msg)
    BY <1>3, <1>6 DEF m
  <2> QED
    BY <1>1, <1>6, <2>1, <2>2, <2>3, KeepsPacket
<1>7. CASE arrived = ClosingPacket(arrived.msg)
  <2>1. IsLast(arrived)
    BY <1>3, <1>4, <1>7 DEF m, ClosingPacket
  <2>2. /\ collects(queue, node, id)
        /\ MergedData(queue, slots) = Payload(m)
        /\ CollectedTime(queue, slots) \in Nat
        /\ StoredOnce(Clear(queue, slots))
        /\ Stored(Clear(queue, slots)) = {q \in Stored(packet_queue) : q.msg # m}
    BY <1>1, <1>2, <1>7, FragmentsComplete DEF m, node, id, queue
  <2>3. packet_queue' = Clear(queue, slots)
    BY <1>1, <2>1
  <2>4. SendToMessenger(DataMessage(node, Payload(m), CollectedTime(queue, slots)), "status")
    BY <1>1, <2>1, <2>2
  <2> QED
    BY <1>1, <1>7, <2>2, <2>3, <2>4, CompletesMessage DEF m, node
<1>8. CASE arrived.no > Closing(arrived.msg)
  <2>1. IsLast(arrived)
    BY <1>3, <1>4, <1>8 DEF m
  <2>2. /\ ~collects(queue, node, id)
        /\ StoredOnce(Clear(queue, slots))
        /\ Stored(Clear(queue, slots)) = Stored(packet_queue)
    BY <1>1, <1>2, <1>8, EmptyPacketCleared DEF node, id, queue
  <2>3. packet_queue' = Clear(queue, slots) /\ UNCHANGED ipc_out
    BY <1>1, <2>1, <2>2
  <2>4. arrived.no # Closing(arrived.msg) /\ ~(arrived.no < Closing(arrived.msg))
    BY <1>3, <1>8 DEF m
  <2> QED
    BY <1>1, <2>2, <2>3, <2>4, KeepsPacket
<1> QED
  BY <1>3, <1>4, <1>6, <1>7, <1>8 DEF m

\* A status report is no message of a node.
LEMMA ReportsInOrder ==
    ASSUME OrderInv, TypeOK', StatusReport
    PROVE  OrderInv'
<1>1. /\ UNCHANGED <<sent, air, arrived, packet_queue>> /\ pc # "exit"
      /\ SendToMessenger(StatusMessage, "loop")
  BY DEF StatusReport, radio
<1>2. TypeOK /\ ArrivedInTurn /\ QueueHoldsRest /\ FinishedRelayed /\ RelaysInOrder
  BY <1>1 DEF OrderInv
<1>3. CASE ~ipc_open
  BY <1>1, <1>3, NothingNew DEF SendToMessenger, OrderInv
<1>4. CASE ipc_open
  <2>1. ipc_out' = Append(ipc_out, StatusMessage)
    BY <1>1, <1>4 DEF SendToMessenger
  <2>2. StatusMessage \in IpcMessage /\ StatusMessage.kind = "status"
    BY <1>2, StatusMessageType DEF StatusMessage
  <2>3. \A k \in Message : ~Relays(StatusMessage, k)
    BY <2>2 DEF Relays
  <2>4. \A k \in Message : IsRelayed(k)' <=> IsRelayed(k)
    BY <1>1, <1>2, <2>1, ReportOne
  <2>5. sent \subseteq Message
    BY <1>2 DEF TypeOK
  <2>6. RelaysInOrder'
    BY <1>1, <1>2, <2>1, <2>2, <2>3, <2>5, OrderKept
  <2>7. UNCHANGED <<Waiting, Unfinished>>
    BY <1>1 DEF Waiting, Unfinished, ClosingPacket, Closing
  <2>8. ArrivedInTurn' /\ QueueHoldsRest'
    BY <1>1, <1>2, <2>7 DEF ArrivedInTurn, QueueHoldsRest, SentBefore, src
  <2>9. FinishedRelayed'
    BY <1>1, <1>2, <2>4, <2>5, <2>7 DEF FinishedRelayed, ClosingPacket, Closing
  <2>10. SentInTurn' /\ \A k \in Message : IsRelayed(k)' => k \in sent'
    BY <1>1, <2>4 DEF OrderInv, SentInTurn
  <2> QED
    BY <2>6, <2>8, <2>9, <2>10 DEF OrderInv
<1> QED
  BY <1>3, <1>4

\* All other steps leave what the order is about alone.
LEMMA OthersInOrder ==
    ASSUME OrderInv, TypeOK', UNCHANGED <<sent, air, arrived, packet_queue, ipc_out>>,
           pc = "exit" => pc' = "exit"
    PROVE  OrderInv'
<1>1. /\ SentInTurn' /\ RelaysInOrder'
      /\ \A m \in Message : (IsRelayed(m)' <=> IsRelayed(m)) /\ (IsRelayed(m)' => m \in sent')
  BY NothingNew
<1>2. ASSUME pc' # "exit"
      PROVE  ArrivedInTurn' /\ QueueHoldsRest' /\ FinishedRelayed'
  <2>1. ArrivedInTurn /\ QueueHoldsRest /\ FinishedRelayed /\ sent \subseteq Message
    BY <1>2 DEF OrderInv, TypeOK
  <2>2. UNCHANGED <<Waiting, Unfinished>>
    BY DEF Waiting, Unfinished, ClosingPacket, Closing
  <2>3. ArrivedInTurn' /\ QueueHoldsRest'
    BY <2>1, <2>2 DEF ArrivedInTurn, QueueHoldsRest, SentBefore, src
  <2> QED
    BY <1>1, <2>1, <2>2, <2>3 DEF FinishedRelayed, ClosingPacket, Closing
<1> QED
  BY <1>1, <1>2 DEF OrderInv

\* No step of an undisturbed process disturbs the order.
LEMMA StepOrder ==
    ASSUME InOrderRadio, AllFit, OrderInv, Undisturbed, [Next]_vars
    PROVE  OrderInv'
<1>1. TypeOK'
  BY StepType DEF OrderInv
<1>2. CASE SelectRadio
  BY <1>1, <1>2, SelectsInOrder
<1>3. CASE ReceiveRejected \/ ReceiveRadioFails \/ \E p \in air : PacketLost(p)
  BY <1>3 DEF ReceiveRejected, ReceiveRadioFails, PacketLost, Undisturbed, InOrderRadio
<1>4. CASE ReceiveWhole
  BY <1>1, <1>4, TakesWhole
<1>5. CASE ReceiveFragment
  BY <1>1, <1>5, TakesFragment
<1>6. CASE StatusReport
  BY <1>1, <1>6, ReportsInOrder
<1>7. CASE \E m \in Message : NodeSends(m)
  BY <1>1, <1>7, SendsInOrder
<1>8. CASE /\ UNCHANGED <<sent, air, arrived, packet_queue, ipc_out>>
           /\ pc = "exit" => pc' = "exit"
  BY <1>1, <1>8, OthersInOrder
<1>9. \/ SelectRadio \/ ReceiveRejected \/ ReceiveRadioFails \/ ReceiveWhole
      \/ ReceiveFragment \/ StatusReport
      \/ \E m \in Message : NodeSends(m)
      \/ \E p \in air : PacketLost(p)
      \/ /\ UNCHANGED <<sent, air, arrived, packet_queue, ipc_out>>
         /\ pc = "exit" => pc' = "exit"
  BY DEF Next, Loop, Environment, Exited, Setup, LoopHead, SelectIpcOrTimeout,
     ReceiveIpcFails, ReceiveNodelist, ReceiveForwarded, NoStatusDue,
     MessengerSends, MessengerReads, MessengerCloses, Interrupt, Tick, process, lists, radio, vars
<1> QED
  BY <1>2, <1>3, <1>4, <1>5, <1>6, <1>7, <1>8, <1>9

-----------------------------------------------------------------------------
(* When the process is undisturbed.                                        *)

\* All nodes are listed from the start, and byteport-messenger clears no list.
EveryoneListed ==
    Node \subseteq Listed(InitialWhitelist) /\ <<>> \notin NodelistCommands

\* The queue has more slots than one message of each node has packets to wait in it.
RoomForAll ==
    \A rest \in SUBSET Packet :
      /\ IsFiniteSet(rest)
      /\ \A p \in rest : p.no < Closing(p.msg)
      /\ \A p, q \in rest : src(p) = src(q) => p.msg = q.msg
      => Cardinality(rest) < QueueSize

\* Everyone is listed still.
ListedInv == ListInv /\ Node \subseteq Listed(whitelist)

\* A list that is appended removes no one.
LEMMA StepListed == EveryoneListed /\ ListedInv /\ [Next]_vars => ListedInv'
<1> SUFFICES ASSUME EveryoneListed, ListedInv, [Next]_vars PROVE ListedInv'
  OBVIOUS
<1>1. ListInv'
  BY StepLists DEF ListedInv
<1>2. CASE ReceiveNodelist
  <2>1. /\ ipc_in \in Seq(IpcPacket) /\ ipc_in # <<>>
        /\ whitelist \in NodeLists(Node) /\ ipc_rx_buf \in NodeLists(Node)
        /\ Compact(whitelist)
    BY <1>2 DEF ReceiveNodelist, ListedInv, ListInv, TypeOK, ListsCompact
  <2> DEFINE packet == Head(ipc_in)
             buffer == Received(ipc_rx_buf, packet.list)
  <2>2. packet \in IpcPacket /\ packet.id = "nodelist"
    BY <1>2, <2>1 DEF ReceiveNodelist
  <2>3. packet.list \in NodelistCommands /\ packet.list # <<>>
    BY <2>2 DEF IpcPacket, Nodelist, Forwarded, EveryoneListed
  <2>4. packet.list \in Seq(Node)
    BY <2>3, TransceiverAssumption
  <2>5. buffer \in NodeLists(Node)
    BY <2>1, <2>4, ReceivedType
  <2>6. whitelist' = nodelist_append(whitelist, buffer)
    BY <1>2, <2>3 DEF ReceiveNodelist
  <2> HIDE DEF packet, buffer
  <2>7. Listed(whitelist) \subseteq Listed(whitelist')
    BY <2>1, <2>5, <2>6, AppendLists, TransceiverAssumption
  <2> QED
    BY <1>1, <2>7 DEF ListedInv
<1>3. CASE UNCHANGED whitelist
  BY <1>1, <1>3 DEF ListedInv
<1>4. ReceiveNodelist \/ UNCHANGED whitelist
  BY DEF Next, Loop, Environment, Exited, Setup, LoopHead, SelectRadio,
     SelectIpcOrTimeout, ReceiveIpcFails, ReceiveForwarded, ReceiveRadioFails,
     ReceiveRejected, ReceiveWhole, ReceiveFragment, StatusReport, NoStatusDue,
     NodeSends, PacketLost, MessengerSends, MessengerReads, MessengerCloses, Interrupt, Tick,
     process, lists, vars
<1> QED
  BY <1>2, <1>3, <1>4

\* Each node has one unfinished message at most, and its last packet is still to come.
LEMMA UnfinishedOnePerNode ==
    ASSUME OrderInv, pc # "exit"
    PROVE  /\ \A p \in Unfinished : p.no < Closing(p.msg)
           /\ \A p, q \in Unfinished : src(p) = src(q) => p.msg = q.msg
<1>1. /\ \A k \in Message : /\ ClosingPacket(k) \in Packet /\ ClosingPacket(k).msg = k
                            /\ ClosingPacket(k).no = Closing(k) /\ Closing(k) \in Nat
                            /\ ClosingPacket(k) = [msg |-> k, no |-> Closing(k)]
      /\ \A p \in Packet : /\ p.msg \in Message /\ p.msg \in Nat /\ p.no \in Nat
                           /\ p = [msg |-> p.msg, no |-> p.no]
  <2>1. \A k \in Message : tot_frags(k) \in Nat /\ k \in Nat
    BY PacketAssumption, DivMod DEF tot_frags
  <2> QED
    BY <2>1, ClosingIsLast, PacketFields DEF ClosingPacket
<1>2. \A p \in Unfinished : /\ p \in Packet /\ p.msg \in sent /\ p \notin Waiting
                            /\ ClosingPacket(p.msg) \in Waiting
  BY DEF Unfinished
<1>3. \A p, q \in Packet :
        p.msg \in sent /\ q.msg \in sent /\ SentBefore(p, q) =>
          (q \notin Waiting => p \notin Waiting)
  BY DEF OrderInv, ArrivedInTurn
<1>4. ASSUME NEW p \in Unfinished PROVE p.no < Closing(p.msg)
  <2>1. ~SentBefore(ClosingPacket(p.msg), p)
    BY <1>1, <1>2, <1>3
  <2>2. ~(Closing(p.msg) < p.no)
    BY <1>1, <1>2, <2>1 DEF SentBefore, src
  <2>3. p.no # Closing(p.msg)
    BY <1>1, <1>2
  <2> QED
    BY <1>1, <1>2, <2>2, <2>3
<1>5. ASSUME NEW p \in Unfinished, NEW q \in Unfinished, src(p) = src(q)
      PROVE  ~(p.msg < q.msg)
  BY <1>1, <1>2, <1>3, <1>5 DEF SentBefore, src
<1>6. ASSUME NEW p \in Unfinished, NEW q \in Unfinished, src(p) = src(q)
      PROVE  p.msg = q.msg
  <2>1. ~(p.msg < q.msg) /\ ~(q.msg < p.msg)
    BY <1>5, <1>6
  <2>2. p.msg \in Nat /\ q.msg \in Nat
    BY <1>1, <1>2
  <2> QED
    BY <2>1, <2>2
<1> QED
  BY <1>4, <1>6

\* A queue without a free slot holds as many packets as it has slots.
LEMMA FullQueueHolds ==
    ASSUME NEW queue \in Queues, StoredOnce(queue), \A i \in Slot : ~IsFree(queue, i)
    PROVE  IsFiniteSet(Stored(queue)) /\ Cardinality(Stored(queue)) = QueueSize
<1> DEFINE f == [i \in Slot |-> queue[i].packet]
<1>1. f \in [Slot -> Stored(queue)] /\ \A p \in Stored(queue) : \E i \in Slot : f[i] = p
  BY DEF Stored
<1>2. \A i, j \in Slot : f[i] = f[j] => i = j
  BY DEF StoredOnce
<1>3. IsFiniteSet(Slot) /\ Cardinality(Slot) = QueueSize
  <2>1. QueueSize \in Nat \ {0}
    BY QueueAssumption
  <2>2. IsFiniteSet(1..QueueSize)
        /\ Cardinality(1..QueueSize) = IF 1 > QueueSize THEN 0 ELSE QueueSize - 1 + 1
    BY <2>1, FS_Interval
  <2> QED
    BY <2>1, <2>2 DEF Slot
<1> HIDE DEF f
<1>4. f \in Bijection(Slot, Stored(queue))
  BY <1>1, <1>2 DEF Bijection, Injection, Surjection, IsInjective
<1> QED
  BY <1>3, <1>4, FS_Bijection DEF ExistsBijection

\* So the packets that wait in the queue leave a slot free.
LEMMA IsUndisturbed ==
    ASSUME RoomForAll, OrderInv, ListedInv
    PROVE  Undisturbed
<1> SUFFICES ASSUME pc = "ieee"
             PROVE  /\ nodelist_find(whitelist, src(arrived))
                    /\ \E i \in Slot : IsFree(packet_queue, i)
  BY DEF Undisturbed
<1>1. TypeOK /\ packet_queue \in Queues /\ QueueHoldsRest
  BY DEF OrderInv, TypeOK
<1>2. nodelist_find(whitelist, src(arrived))
  BY <1>1, ArrivedPacket DEF ListedInv, Listed, nodelist_find
<1>3. \E i \in Slot : IsFree(packet_queue, i)
  <2> SUFFICES ASSUME \A i \in Slot : ~IsFree(packet_queue, i) PROVE FALSE
    OBVIOUS
  <2>1. StoredOnce(packet_queue) /\ Stored(packet_queue) = Unfinished
    BY <1>1 DEF QueueHoldsRest
  <2>2. IsFiniteSet(Unfinished) /\ Cardinality(Unfinished) = QueueSize
    BY <1>1, <2>1, FullQueueHolds
  <2>3. Unfinished \in SUBSET Packet
    BY DEF Unfinished
  <2>4. Cardinality(Unfinished) < QueueSize
    BY <2>2, <2>3, UnfinishedOnePerNode DEF RoomForAll
  <2> QED
    BY <2>2, <2>4, QueueAssumption
<1> QED
  BY <1>2, <1>3

\* The messages of a node leave in the order in which it sent them and none is left
\* out, whichever packet_ids they have, when the radio loses and reorders nothing,
\* every message fits into data_buffer and all nodes are and stay listed.
THEOREM MessagesInOrder ==
    ASSUME InOrderRadio, AllFit, EveryoneListed, RoomForAll
    PROVE  Spec => []RelaysInOrder
<1> DEFINE Inv == OrderInv /\ ListedInv
<1>1. Init => Inv
  BY InitOrder, InitLists DEF ListedInv, EveryoneListed, Init
<1>2. Inv /\ [Next]_vars => Inv'
  BY IsUndisturbed, StepOrder, StepListed
<1>3. Inv => RelaysInOrder
  BY DEF OrderInv
<1> QED
  BY <1>1, <1>2, <1>3, PTL DEF Spec
=============================================================================
