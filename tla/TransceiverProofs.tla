-------------------------- MODULE TransceiverProofs --------------------------
(***************************************************************************)
(* Theorems about Transceiver, for every value of its constants.           *)
(***************************************************************************)
EXTENDS Transceiver, PacketQueueProofs

-----------------------------------------------------------------------------
(* What the nodelist functions preserve, for lists of any length.          *)

\* Counting up to the first free entry ends, and yields the entries before it.
LEMMA PrefixLengthExists ==
    ASSUME NEW S, NEW list \in NodeLists(S)
    PROVE  /\ PrefixLength(list) \in 0..MaxNodeList
           /\ IsPrefixLength(list, PrefixLength(list))
<1> USE NodeListAssumption
<1> DEFINE T == {n \in 0..MaxNodeList : n < MaxNodeList => list[n + 1] = NoNode}
<1>1. PICK n \in T : \A k \in T : n <= k
  <2>1. T \in SUBSET Nat /\ MaxNodeList \in T
    OBVIOUS
  <2> HIDE DEF T
  <2> QED
    BY <2>1, LeastNat
<1>2. ASSUME NEW i \in 1..n
      PROVE  list[i] # NoNode
  <2>1. i - 1 \in 0..MaxNodeList /\ i - 1 < n /\ (i - 1) + 1 = i
    OBVIOUS
  <2>2. i - 1 \notin T
    BY <1>1, <2>1
  <2> QED
    BY <2>1, <2>2
<1>3. IsPrefixLength(list, n)
  BY <1>2 DEF IsPrefixLength
<1> QED
  BY <1>3 DEF PrefixLength

\* A compact list has its free entries behind the counted ones.
LEMMA CompactAfterPrefix ==
    ASSUME NEW S, NEW list \in NodeLists(S), Compact(list),
           NEW i \in Entry, i > PrefixLength(list)
    PROVE  list[i] = NoNode
<1> DEFINE n == PrefixLength(list)
<1>1. n \in 0..MaxNodeList /\ IsPrefixLength(list, n)
  BY PrefixLengthExists
<1> HIDE DEF n
<1>2. n + 1 \in Entry /\ n < MaxNodeList /\ n + 1 <= i
  BY <1>1, NodeListAssumption DEF Entry, n
<1>3. list[n + 1] = NoNode
  BY <1>1, <1>2 DEF IsPrefixLength
<1> QED
  BY <1>2, <1>3 DEF Compact, Entry

\* nodelist_append makes a list of nodes of two.
LEMMA AppendType ==
    ASSUME NEW S, NEW target \in NodeLists(S), NEW append \in NodeLists(S)
    PROVE  nodelist_append(target, append) \in NodeLists(S)
<1> DEFINE t == PrefixLength(target)
           a == PrefixLength(append)
<1>1. t \in 0..MaxNodeList /\ a \in 0..MaxNodeList
  BY PrefixLengthExists
<1> HIDE DEF t, a
<1>2. \A i \in Entry : t < i /\ i <= t + a => i - t \in Entry
  BY <1>1, NodeListAssumption DEF Entry
<1> QED
  BY <1>2 DEF nodelist_append, NodeLists, t, a

\* Only what lies in front of a free entry of the second list gets into the first.
LEMMA AppendWithin ==
    ASSUME NEW S, NEW target \in NodeLists(S), NEW R, NEW append \in NodeLists(R),
           NEW n \in 0..MaxNodeList,
           \A i \in 1..n : append[i] \in S \cup {NoNode},
           n < MaxNodeList => append[n + 1] = NoNode
    PROVE  nodelist_append(target, append) \in NodeLists(S)
<1> DEFINE t == PrefixLength(target)
           a == PrefixLength(append)
<1>1. t \in 0..MaxNodeList /\ a \in 0..MaxNodeList /\ IsPrefixLength(append, a)
  BY PrefixLengthExists
<1> HIDE DEF t, a
<1>2. a <= n
  <2> SUFFICES ASSUME a > n PROVE FALSE
    BY <1>1
  <2>1. n < MaxNodeList /\ n + 1 \in 1..a
    BY <1>1, NodeListAssumption
  <2> QED
    BY <1>1, <2>1 DEF IsPrefixLength
<1>3. \A i \in Entry : t < i /\ i <= t + a => i - t \in 1..n
  BY <1>1, <1>2, NodeListAssumption DEF Entry
<1> QED
  BY <1>3 DEF nodelist_append, NodeLists, t, a

\* It keeps a compact list compact.
LEMMA AppendKeepsCompact ==
    ASSUME NEW S, NoNode \notin S,
           NEW target \in NodeLists(S), Compact(target),
           NEW append \in NodeLists(S)
    PROVE  Compact(nodelist_append(target, append))
<1> DEFINE t == PrefixLength(target)
           a == PrefixLength(append)
           result == nodelist_append(target, append)
<1>1. t \in 0..MaxNodeList /\ IsPrefixLength(target, t)
  BY PrefixLengthExists
<1>2. a \in 0..MaxNodeList /\ IsPrefixLength(append, a)
  BY PrefixLengthExists
<1>3. \A i \in Entry : i > t => target[i] = NoNode
  BY CompactAfterPrefix
<1>4. result = [i \in Entry |-> IF t < i /\ i <= t + a THEN append[i - t]
                                                     ELSE target[i]]
  BY DEF nodelist_append
<1> HIDE DEF t, a, result
<1> USE NodeListAssumption
<1>5. \A i \in Entry : t < i /\ i <= t + a => i - t \in Entry /\ i - t \in 1..a
  BY <1>1, <1>2 DEF Entry
<1>6. ASSUME NEW i \in Entry, NEW j \in Entry, i < j, result[i] = NoNode
      PROVE  result[j] = NoNode
  <2>1. i > t
    <3>1. i <= t => target[i] # NoNode
      BY <1>1 DEF IsPrefixLength, Entry
    <3> QED
      BY <1>1, <1>4, <1>6, <3>1 DEF Entry
  <2>2. i > t + a
    <3>1. i <= t + a => append[i - t] # NoNode
      BY <1>2, <1>5, <2>1 DEF IsPrefixLength
    <3> QED
      BY <1>1, <1>2, <1>4, <1>6, <2>1, <3>1 DEF Entry
  <2>3. j > t + a /\ j > t
    BY <1>1, <1>2, <1>6, <2>1, <2>2 DEF Entry
  <2> QED
    BY <1>1, <1>2, <1>3, <1>4, <2>3 DEF Entry
<1> QED
  BY <1>6 DEF Compact, result

\* The list fits: everything that was counted in it is listed afterwards.  It does
\* not: no entry is left free.
LEMMA AppendLists ==
    ASSUME NEW S, NoNode \notin S,
           NEW target \in NodeLists(S), Compact(target),
           NEW append \in NodeLists(S)
    PROVE  LET result == nodelist_append(target, append) IN
           /\ Listed(target) \subseteq Listed(result)
           /\ \/ \A i \in 1..PrefixLength(append) : append[i] \in Listed(result)
              \/ PrefixLength(result) = MaxNodeList
<1> DEFINE t == PrefixLength(target)
           a == PrefixLength(append)
           result == nodelist_append(target, append)
<1>1. t \in 0..MaxNodeList /\ IsPrefixLength(target, t)
  BY PrefixLengthExists
<1>2. a \in 0..MaxNodeList /\ IsPrefixLength(append, a)
  BY PrefixLengthExists
<1>3. \A i \in Entry : i > t => target[i] = NoNode
  BY CompactAfterPrefix
<1>4. result = [i \in Entry |-> IF t < i /\ i <= t + a THEN append[i - t]
                                                     ELSE target[i]]
  BY DEF nodelist_append
<1>5. result \in NodeLists(S)
  BY AppendType
<1>6. PrefixLength(result) \in 0..MaxNodeList /\ IsPrefixLength(result, PrefixLength(result))
  BY <1>5, PrefixLengthExists
<1> HIDE DEF t, a, result
<1> USE NodeListAssumption
<1>7. ASSUME NEW n \in Listed(target)
      PROVE  n \in Listed(result)
  <2>1. PICK i \in Entry : n = target[i] /\ n # NoNode
    BY DEF Listed
  <2>2. i <= t
    BY <1>1, <1>3, <2>1 DEF Entry
  <2>3. result[i] = n
    BY <1>1, <1>4, <2>1, <2>2 DEF Entry
  <2> QED
    BY <2>1, <2>3 DEF Listed
<1>8. CASE t + a <= MaxNodeList
  <2>1. ASSUME NEW i \in 1..a
        PROVE  append[i] \in Listed(result)
    <3>1. t + i \in Entry /\ t < t + i /\ t + i <= t + a /\ (t + i) - t = i
      BY <1>1, <1>2, <1>8 DEF Entry
    <3>2. result[t + i] = append[i] /\ append[i] # NoNode
      BY <1>2, <1>4, <3>1 DEF IsPrefixLength
    <3> QED
      BY <3>1, <3>2 DEF Listed
  <2> QED
    BY <1>7, <2>1 DEF a, result
<1>9. CASE t + a > MaxNodeList
  <2>1. ASSUME NEW i \in Entry
        PROVE  result[i] # NoNode
    <3>1. CASE i <= t
      BY <1>1, <1>4, <3>1 DEF IsPrefixLength, Entry
    <3>2. CASE i > t
      <4>1. i - t \in 1..a /\ i <= t + a
        BY <1>1, <1>2, <1>9, <3>2 DEF Entry
      <4> QED
        BY <1>2, <1>4, <3>2, <4>1 DEF IsPrefixLength
    <3> QED
      BY <1>1, <3>1, <3>2 DEF Entry
  <2>2. PrefixLength(result) = MaxNodeList
    <3> DEFINE n == PrefixLength(result)
    <3>1. n < MaxNodeList => n + 1 \in Entry
      BY <1>6 DEF Entry
    <3> QED
      BY <1>6, <2>1, <3>1 DEF IsPrefixLength
  <2> QED
    BY <1>7, <2>2 DEF result
<1> QED
  BY <1>1, <1>2, <1>8, <1>9

\* nodelist_add makes a list of a list.
LEMMA AddType ==
    ASSUME NEW S, NEW list \in NodeLists(S), NEW node \in S
    PROVE  nodelist_add(list, node) \in NodeLists(S)
BY DEF nodelist_add, NodeLists

\* nodelist_add keeps a compact list compact, and one without repetitions so.
LEMMA AddKeepsList ==
    ASSUME NEW S, NoNode \notin S,
           NEW list \in NodeLists(S), Compact(list), NEW node \in S
    PROVE  /\ Compact(nodelist_add(list, node))
           /\ Distinct(list) => Distinct(nodelist_add(list, node))
<1> DEFINE free == {i \in Entry : list[i] = NoNode}
           first == CHOOSE i \in free : \A j \in free : i <= j
<1>1. CASE nodelist_find(list, node) \/ free = {}
  BY <1>1 DEF nodelist_add
<1>2. CASE ~nodelist_find(list, node) /\ free # {}
  <2>1. first \in free /\ \A j \in free : first <= j
    <3>1. free \in SUBSET Nat
      BY DEF Entry
    <3> HIDE DEF free
    <3> QED
      BY <1>2, <3>1, LeastNat
  <2>2. nodelist_add(list, node) = [list EXCEPT ![first] = node]
    BY <1>2 DEF nodelist_add
  <2> HIDE DEF first
  <2>3. Compact(nodelist_add(list, node))
    BY <2>1, <2>2, NodeListAssumption DEF Compact, NodeLists, Entry
  <2>4. Distinct(list) => Distinct(nodelist_add(list, node))
    BY <1>2, <2>1, <2>2 DEF Distinct, NodeLists, nodelist_find
  <2> QED
    BY <2>3, <2>4
<1> QED
  BY <1>1, <1>2

USE TransceiverAssumption

-----------------------------------------------------------------------------
(* Types.                                                                  *)

\* The process starts with values of the right types.
LEMMA InitType == Init => TypeOK
<1> SUFFICES ASSUME Init PROVE TypeOK
  OBVIOUS
<1>1. EmptyList \in NodeLists(Node)
  BY DEF EmptyList, NodeLists
<1>2. Listed(InitialWhitelist) \subseteq Node
  BY DEF Listed, NodeLists
<1>3. packet_queue \in Queues
  BY EmptyQueueStores DEF Init
<1>4. ipc_in \in Seq(IpcPacket) /\ ipc_out \in Seq(IpcMessage)
  BY DEF Init
<1>5. stats \in [total : Nat, rejected : Nat]
  BY DEF Init, NoStats
<1>6. clock \in 1..MaxClock /\ next_status \in Nat
  BY DEF Init
<1>7. /\ pc = "setup" /\ arrived = NoPacket
      /\ running \in BOOLEAN /\ interrupted \in BOOLEAN
  BY Zenon DEF Init
<1>8. /\ sent \subseteq Message /\ air \subseteq Packet
      /\ ipc_open \in BOOLEAN /\ commands \in 0..MaxCommands /\ ipc_read \in Nat
  BY DEF Init
<1>9. /\ whitelist \in NodeLists(Node) /\ comlist \in NodeLists(Node)
      /\ ipc_rx_buf \in NodeLists(Node) /\ requested \subseteq Node
  BY <1>1, <1>2 DEF Init
<1> QED
  BY <1>3, <1>4, <1>5, <1>6, <1>7, <1>8, <1>9 DEF TypeOK

\* NoPacket stands for no packet.
LEMMA NoPacketIsNone == NoPacket \notin Packet
<1> SUFFICES ASSUME NoPacket \in Packet PROVE FALSE
  OBVIOUS
<1>1. NoPacket.msg \in Nat
  BY PacketFields, PacketAssumption
<1>2. NoPacket.msg = -1
  BY DEF NoPacket
<1> QED
  BY <1>1, <1>2

\* A packet that arrived is one of a node.
LEMMA ArrivedPacket ==
    TypeOK /\ pc = "ieee" => arrived \in Packet /\ src(arrived) \in Node
BY PacketFields DEF TypeOK

\* Counting a fragment keeps the counters numbers.
LEMMA CountType ==
    ASSUME TypeOK, NEW rejected \in BOOLEAN
    PROVE  CountFragment(rejected) \in [total : Nat, rejected : Nat]
BY DEF TypeOK, CountFragment

\* Sending appends a message, or ends the process.
LEMMA SendType ==
    ASSUME ipc_out \in Seq(IpcMessage), NEW message \in IpcMessage, NEW next,
           SendToMessenger(message, next)
    PROVE  ipc_out' \in Seq(IpcMessage) /\ pc' \in {next, "exit"}
BY DEF SendToMessenger

\* A report carries the counters in the fields of an IPC message.
LEMMA StatusMessageType == TypeOK => StatusMessage \in IpcMessage
<1> SUFFICES ASSUME TypeOK PROVE StatusMessage \in IpcMessage
  OBVIOUS
<1>1. nodelist_count(whitelist) \in Nat
  <2>1. IsFiniteSet(Entry)
    BY NodeListAssumption, FS_Interval DEF Entry
  <2>2. {i \in Entry : whitelist[i] # NoNode} \in SUBSET Entry
    OBVIOUS
  <2>3. IsFiniteSet({i \in Entry : whitelist[i] # NoNode})
    BY <2>1, <2>2, FS_Subset
  <2> QED
    BY <2>3, FS_CardinalityType DEF nodelist_count
<1>2. Listed(comlist) \in SUBSET Node
  BY DEF Listed, NodeLists, TypeOK
<1>3. /\ stats.total \in Nat /\ stats.rejected \in Nat /\ clock \in Nat
  BY DEF TypeOK
<1> QED
  BY <1>1, <1>2, <1>3 DEF StatusMessage, IpcMessage

\* A command is received into the buffer as a list.
LEMMA ReceivedType ==
    ASSUME NEW buffer \in NodeLists(Node), NEW list \in Seq(Node)
    PROVE  Received(buffer, list) \in NodeLists(Node)
BY DEF Received, NodeLists

\* No step leaves the types.
LEMMA StepType == TypeOK /\ [Next]_vars => TypeOK'
<1> SUFFICES ASSUME TypeOK, [Next]_vars PROVE TypeOK'
  OBVIOUS
<1> USE DEF TypeOK
<1>1. CASE LoopHead
  BY <1>1 DEF LoopHead, lists, radio, ipc
<1>2. CASE SelectRadio
  BY <1>2, NoPacketIsNone DEF SelectRadio, lists, radio, ipc
<1>3. CASE SelectIpcOrTimeout
  BY <1>3 DEF SelectIpcOrTimeout, lists, radio, ipc
<1>4. CASE ReceiveIpcFails
  BY <1>4 DEF ReceiveIpcFails, lists, radio, ipc
<1>5. CASE ReceiveNodelist
  <2> DEFINE list == Head(ipc_in).list
             buffer == Received(ipc_rx_buf, list)
  <2>1. list \in Seq(Node)
    BY <1>5 DEF ReceiveNodelist, IpcPacket, Nodelist, Forwarded
  <2>2. buffer \in NodeLists(Node)
    BY <2>1, ReceivedType
  <2>3. EmptyList \in NodeLists(Node)
    BY DEF EmptyList, NodeLists
  <2> HIDE DEF buffer
  <2>4. nodelist_append(whitelist, buffer) \in NodeLists(Node)
    BY <2>2, AppendType
  <2>5. /\ ipc_rx_buf' = buffer
        /\ whitelist' = IF list = <<>> THEN EmptyList ELSE nodelist_append(whitelist, buffer)
    BY <1>5 DEF ReceiveNodelist, buffer
  <2>6. requested' \subseteq Node
    BY <1>5, <2>1 DEF ReceiveNodelist
  <2> QED
    BY <1>5, <2>2, <2>3, <2>4, <2>5, <2>6 DEF ReceiveNodelist, AfterIpc, lists, radio, ipc
<1>6. CASE ReceiveForwarded
  BY <1>6 DEF ReceiveForwarded, AfterIpc, lists, radio, ipc
<1>7. CASE ReceiveRadioFails
  BY <1>7 DEF ReceiveRadioFails, lists, radio, ipc
<1>8. CASE ReceiveRejected
  <2>1. src(arrived) \in Node
    BY <1>8, ArrivedPacket DEF ReceiveRejected
  <2>2. nodelist_add(comlist, src(arrived)) \in NodeLists(Node)
    BY <2>1, AddType
  <2>3. CountFragment(TRUE) \in [total : Nat, rejected : Nat]
    BY CountType
  <2> QED
    BY <1>8, <2>2, <2>3 DEF ReceiveRejected, lists, radio, ipc
<1>9. CASE ReceiveWhole
  <2> DEFINE data == [b \in 1..data_size(arrived) |-> <<arrived.msg, b>>]
             message == DataMessage(src(arrived), data, clock)
  <2>1. arrived \in Packet /\ src(arrived) \in Node
    BY <1>9, ArrivedPacket DEF ReceiveWhole
  <2>2. data \in Seq(Byte)
    <3>1. arrived.msg \in Message /\ data_size(arrived) \in Nat
      BY <2>1, PacketFields
    <3>2. data \in [1..data_size(arrived) -> Byte]
      BY <3>1 DEF Byte
    <3> HIDE DEF data
    <3> DEFINE l == data_size(arrived)
    <3>3. l \in Nat /\ data \in [1..l -> Byte]
      BY <3>1, <3>2
    <3> HIDE DEF l
    <3> QED
      BY <3>3
  <2> HIDE DEF data
  <2>3. message \in IpcMessage
    BY <2>1, <2>2 DEF DataMessage, IpcMessage
  <2>4. SendToMessenger(message, "status")
    BY <1>9 DEF ReceiveWhole, data
  <2> HIDE DEF message
  <2>5. ipc_out' \in Seq(IpcMessage) /\ pc' \in {"status", "exit"}
    BY <2>3, <2>4, SendType
  <2>6. CountFragment(FALSE) \in [total : Nat, rejected : Nat]
    BY CountType
  <2> QED
    BY <1>9, <2>5, <2>6 DEF ReceiveWhole, lists, radio, ipc
<1>10. CASE ReceiveFragment
  <2> DEFINE node  == src(arrived)
             id    == packet_id(arrived)
             queue == add_to_queue(packet_queue, arrived, clock)
             slots == Collected(queue, node, id)
             message == DataMessage(node, MergedData(queue, slots),
                                    CollectedTime(queue, slots))
  <2>1. arrived \in Packet /\ node \in Node
    BY <1>10, ArrivedPacket DEF ReceiveFragment
  <2>2. queue \in Queues
    BY <2>1, AddKeeps
  <2>3. after_collect(queue, node, id) \in Queues
    BY <2>2, ClearKeeps DEF after_collect
  <2>4. collects(queue, node, id) => message \in IpcMessage
    <3> HIDE DEF queue, node, id
    <3>1. collects(queue, node, id) =>
            /\ MergedData(queue, slots) \in Seq(Byte)
            /\ CollectedTime(queue, slots) \in Nat
      BY <2>2, CollectType DEF Byte
    <3> HIDE DEF slots
    <3> QED
      BY <2>1, <3>1 DEF DataMessage, IpcMessage
  <2>5. /\ packet_queue' = IF IsLast(arrived) THEN after_collect(queue, node, id)
                                              ELSE queue
        /\ IF IsLast(arrived) /\ collects(queue, node, id)
           THEN SendToMessenger(message, "status")
           ELSE pc' = "status" /\ UNCHANGED ipc_out
    BY <1>10 DEF ReceiveFragment
  <2> HIDE DEF node, id, queue, slots, message
  <2>6. ipc_out' \in Seq(IpcMessage) /\ pc' \in {"status", "exit"}
    BY <2>4, <2>5, SendType
  <2>7. packet_queue' \in Queues
    BY <2>2, <2>3, <2>5
  <2>8. CountFragment(FALSE) \in [total : Nat, rejected : Nat]
    BY CountType
  <2> QED
    BY <1>10, <2>6, <2>7, <2>8 DEF ReceiveFragment, lists, radio, ipc
<1>11. CASE StatusReport
  <2>1. ipc_out' \in Seq(IpcMessage) /\ pc' \in {"loop", "exit"}
    BY <1>11, StatusMessageType, SendType DEF StatusReport
  <2> QED
    BY <1>11, <2>1 DEF StatusReport, NoStats, lists, radio, ipc
<1>12. CASE NoStatusDue
  BY <1>12 DEF NoStatusDue, lists, radio, ipc
<1>13. CASE \E m \in Message : NodeSends(m)
  <2>1. PICK m \in Message : NodeSends(m)
    BY <1>13
  <2>2. Fragments(m) \subseteq Packet
    BY DEF Packet
  <2> QED
    BY <2>1, <2>2 DEF NodeSends, process, lists, ipc
<1>14. CASE \E p \in air : PacketLost(p)
  BY <1>14 DEF PacketLost, process, lists, ipc
<1>15. CASE \E packet \in IpcPacket : MessengerSends(packet)
  BY <1>15 DEF MessengerSends, process, lists, radio
<1>16. CASE MessengerReads
  BY <1>16 DEF MessengerReads, process, lists, radio
<1>21. CASE MessengerCloses
  BY <1>21 DEF MessengerCloses, process, lists, radio
<1>17. CASE Interrupt
  BY <1>17 DEF Interrupt, lists, radio, ipc
<1>18. CASE Tick
  BY <1>18 DEF Tick, process, lists, radio, ipc
<1>19. CASE Setup
  <2>1. running' \in BOOLEAN
    <3>1. CASE ipc_open
      BY <1>19, <3>1, Zenon DEF Setup
    <3>2. CASE ~ipc_open
      BY <1>19, <3>2, Zenon DEF Setup
    <3> QED
      BY <3>1, <3>2
  <2>4. next_status' \in Nat
    BY <1>19 DEF Setup
  <2>2. pc' \in {"loop", "exit"} /\ arrived' = NoPacket
    BY <1>19 DEF Setup
  <2>3. UNCHANGED <<lists, stats, packet_queue, clock, radio, arrived, ipc, ipc_out>>
    BY <1>19 DEF Setup
  <2> QED
    BY <2>1, <2>2, <2>3, <2>4 DEF lists, radio, ipc
<1>20. CASE UNCHANGED vars
  BY <1>20 DEF vars, lists, radio, ipc
<1> QED
  BY <1>1, <1>2, <1>3, <1>4, <1>5, <1>6, <1>7, <1>8, <1>9, <1>10, <1>11, <1>12,
     <1>13, <1>14, <1>15, <1>16, <1>17, <1>18, <1>19, <1>20, <1>21
  DEF Next, Loop, Environment, Exited

\* Type correctness of the transceiver.
THEOREM TypeCorrect == Spec => []TypeOK
BY InitType, StepType, PTL DEF Spec

-----------------------------------------------------------------------------
(* The node lists.  That a list is compact is what makes counting up to its *)
(* first free entry count all its nodes, so all three properties rest on it. *)

ListInv == TypeOK /\ ListsCompact /\ ComlistDistinct /\ RequestedAreListed

\* A cleared list is compact, and lists no node twice.
LEMMA EmptyListKeeps ==
    /\ EmptyList \in NodeLists(Node)
    /\ Compact(EmptyList)
    /\ Distinct(EmptyList)
BY DEF EmptyList, NodeLists, Compact, Distinct

\* All entries of a list that was received are counted in the buffer.
LEMMA ReceivedPrefix ==
    ASSUME NEW buffer \in NodeLists(Node), NEW list \in Seq(Node),
           Len(list) <= MaxNodeList
    PROVE  /\ PrefixLength(Received(buffer, list)) >= Len(list)
           /\ \A i \in 1..Len(list) : Received(buffer, list)[i] = list[i]
<1> DEFINE result == Received(buffer, list)
           n == PrefixLength(result)
<1> USE NodeListAssumption
<1>1. result \in NodeLists(Node)
  BY ReceivedType
<1>2. n \in 0..MaxNodeList /\ IsPrefixLength(result, n)
  BY <1>1, PrefixLengthExists
<1>3. \A i \in 1..Len(list) : result[i] = list[i] /\ list[i] \in Node
  BY DEF Received, Entry
<1>4. n < MaxNodeList => result[n + 1] = NoNode
  BY <1>2 DEF IsPrefixLength
<1>5. n >= Len(list)
  <2> HIDE DEF result, n
  <2> SUFFICES ASSUME n < Len(list) PROVE FALSE
    BY <1>2
  <2>1. n + 1 \in 1..Len(list) /\ n < MaxNodeList
    BY <1>2
  <2> QED
    BY <2>1, <1>3, <1>4
<1> QED
  BY <1>3, <1>5

\* The process starts with compact lists.
LEMMA InitLists == Init => ListInv
<1> SUFFICES ASSUME Init PROVE ListInv
  OBVIOUS
<1>1. TypeOK
  BY InitType
<1>2. ListsCompact
  BY EmptyListKeeps DEF Init, ListsCompact
<1>3. ComlistDistinct
  BY EmptyListKeeps DEF Init, ComlistDistinct
<1>4. RequestedAreListed
  BY DEF Init, RequestedAreListed
<1> QED
  BY <1>1, <1>2, <1>3, <1>4 DEF ListInv

\* Only a list command and a rejected packet write a list.
LEMMA StepLists == ListInv /\ [Next]_vars => ListInv'
<1> SUFFICES ASSUME ListInv, [Next]_vars PROVE ListInv'
  OBVIOUS
<1> USE DEF ListInv
<1>1. TypeOK'
  BY StepType
<1>2. CASE ReceiveNodelist
  <2> DEFINE list == Head(ipc_in).list
             buffer == Received(ipc_rx_buf, list)
             result == nodelist_append(whitelist, buffer)
  <2>1. list \in Seq(Node) /\ Len(list) <= MaxNodeList
    <3>1. Head(ipc_in) \in IpcPacket /\ Head(ipc_in).id = "nodelist"
      BY <1>2 DEF ReceiveNodelist, TypeOK
    <3>2. PICK l \in NodelistCommands : Head(ipc_in) = Nodelist(l)
      BY <3>1 DEF IpcPacket, Forwarded
    <3> QED
      BY <3>2 DEF Nodelist
  <2>2. /\ whitelist' = IF list = <<>> THEN EmptyList ELSE result
        /\ requested' = IF list = <<>> THEN {}
                        ELSE requested \cup {list[i] : i \in DOMAIN list}
        /\ comlist' = comlist
    BY <1>2 DEF ReceiveNodelist
  <2>3. whitelist \in NodeLists(Node) /\ ipc_rx_buf \in NodeLists(Node)
    BY DEF TypeOK
  <2>4. Compact(whitelist) /\ Compact(comlist) /\ Distinct(comlist)
    BY DEF ListsCompact, ComlistDistinct
  <2>5. buffer \in NodeLists(Node)
    BY <2>1, <2>3, ReceivedType
  <2>6. /\ PrefixLength(buffer) >= Len(list)
        /\ \A i \in 1..Len(list) : buffer[i] = list[i]
    BY <2>1, <2>3, ReceivedPrefix
  <2>7. DOMAIN list = 1..Len(list)
    BY <2>1
  <2> HIDE DEF list, buffer
  <2>8. Compact(result)
    BY <2>3, <2>4, <2>5, AppendKeepsCompact
  <2>9. /\ Listed(whitelist) \subseteq Listed(result)
        /\ \/ \A i \in 1..PrefixLength(buffer) : buffer[i] \in Listed(result)
           \/ PrefixLength(result) = MaxNodeList
    BY <2>3, <2>4, <2>5, AppendLists
  <2> HIDE DEF result
  <2>10. ListsCompact' /\ ComlistDistinct'
    BY <2>2, <2>4, <2>8, EmptyListKeeps DEF ListsCompact, ComlistDistinct
  <2>11. RequestedAreListed'
    <3>1. CASE list = <<>>
      BY <3>1, <2>2 DEF RequestedAreListed
    <3>2. CASE list # <<>> /\ PrefixLength(whitelist) = MaxNodeList
      <4>1. \A i \in Entry : whitelist[i] # NoNode
        BY <3>2, <2>3, PrefixLengthExists DEF IsPrefixLength, Entry
      <4>2. result = whitelist
        BY <3>2, <2>3, <2>5, PrefixLengthExists, NodeListAssumption
        DEF result, nodelist_append, NodeLists, Entry
      <4> QED
        BY <3>2, <4>2, <2>2 DEF RequestedAreListed
    <3>3. CASE list # <<>> /\ requested \subseteq Listed(whitelist)
      <4>1. CASE PrefixLength(result) = MaxNodeList
        BY <3>3, <4>1, <2>2 DEF RequestedAreListed
      <4>2. CASE \A i \in 1..PrefixLength(buffer) : buffer[i] \in Listed(result)
        <5>1. PrefixLength(buffer) \in Nat /\ Len(list) \in Nat
          BY <2>1, <2>5, PrefixLengthExists, NodeListAssumption
        <5>2. \A i \in 1..Len(list) : list[i] \in Listed(result)
          BY <5>1, <4>2, <2>6
        <5> QED
          BY <5>2, <3>3, <2>2, <2>7, <2>9 DEF RequestedAreListed
      <4> QED
        BY <4>1, <4>2, <2>9
    <3> QED
      BY <3>1, <3>2, <3>3 DEF RequestedAreListed
  <2> QED
    BY <1>1, <2>10, <2>11
<1>3. CASE ReceiveRejected
  <2>1. comlist \in NodeLists(Node) /\ src(arrived) \in Node
    BY <1>3, ArrivedPacket DEF ReceiveRejected, TypeOK
  <2>2. /\ Compact(nodelist_add(comlist, src(arrived)))
        /\ Distinct(nodelist_add(comlist, src(arrived)))
    BY <2>1, AddKeepsList DEF ListsCompact, ComlistDistinct
  <2> QED
    BY <1>1, <1>3, <2>2
    DEF ReceiveRejected, ListsCompact, ComlistDistinct, RequestedAreListed
<1>4. CASE UNCHANGED <<whitelist, comlist, requested>>
  BY <1>1, <1>4 DEF ListsCompact, ComlistDistinct, RequestedAreListed
<1>5. ReceiveNodelist \/ ReceiveRejected \/ UNCHANGED <<whitelist, comlist, requested>>
  BY DEF Next, Loop, Environment, Exited, Setup, LoopHead, SelectRadio,
     SelectIpcOrTimeout, ReceiveIpcFails, ReceiveForwarded, ReceiveRadioFails,
     ReceiveWhole, ReceiveFragment, StatusReport, NoStatusDue, NodeSends,
     PacketLost, MessengerSends, MessengerReads, MessengerCloses, Interrupt, Tick, process, lists, vars
<1> QED
  BY <1>2, <1>3, <1>4, <1>5

\* The lists stay compact, so nodelist_append and the whitelist log lose no node.
THEOREM ListsStayCompact == Spec => []ListsCompact
<1>1. ListInv => ListsCompact
  BY DEF ListInv
<1> QED
  BY <1>1, InitLists, StepLists, PTL DEF Spec

\* comlist never holds a node twice.
THEOREM ComlistStaysDistinct == Spec => []ComlistDistinct
<1>1. ListInv => ComlistDistinct
  BY DEF ListInv
<1> QED
  BY <1>1, InitLists, StepLists, PTL DEF Spec

\* A node that was added and not cleared since is whitelisted, unless the list is
\* full, whatever the buffer still held of earlier commands.
THEOREM RequestedStayListed == Spec => []RequestedAreListed
<1>1. ListInv => RequestedAreListed
  BY DEF ListInv
<1> QED
  BY <1>1, InitLists, StepLists, PTL DEF Spec

\* All lists that byteport-messenger sends are equally long, except the empty one.
SameLengthLists ==
    \A list, other \in NodelistCommands \ {<<>>} : Len(list) = Len(other)

\* If it forwards messages as well, a list ends where a message has zeros.
ShortLists ==
    ForwardsMessages => \A list \in NodelistCommands : Len(list) < MessageFields

\* The entry of the buffer behind the last one of such a list is free.
NothingBehind ==
    \A list \in NodelistCommands \ {<<>>} : \A i \in Entry :
      i = Len(list) + 1 => ipc_rx_buf[i] = NoNode

\* A list of nodes of a set is one that lists no others.
LEMMA ListsOf ==
    ASSUME NEW list \in NodeLists(Node), NEW S
    PROVE  list \in NodeLists(S) <=> Listed(list) \subseteq S
BY DEF NodeLists, Listed

\* Neither a list command nor a forwarded message leaves anything behind.
LEMMA StepBehind ==
    ASSUME SameLengthLists, ShortLists, TypeOK, NothingBehind, ListedAreRequested, [Next]_vars
    PROVE  TypeOK' /\ NothingBehind' /\ ListedAreRequested'
<1>1. TypeOK'
  BY StepType
<1>2. CASE ReceiveNodelist
  <2> DEFINE list == Head(ipc_in).list
             buffer == Received(ipc_rx_buf, list)
             result == nodelist_append(whitelist, buffer)
  <2>1. list \in NodelistCommands /\ list \in Seq(Node)
    <3>1. Head(ipc_in) \in IpcPacket /\ Head(ipc_in).id = "nodelist"
      BY <1>2 DEF ReceiveNodelist, TypeOK
    <3>2. PICK l \in NodelistCommands : Head(ipc_in) = Nodelist(l)
      BY <3>1 DEF IpcPacket, Forwarded
    <3> QED
      BY <3>2, TransceiverAssumption DEF Nodelist
  <2>2. /\ whitelist' = IF list = <<>> THEN EmptyList ELSE result
        /\ requested' = IF list = <<>> THEN {}
                        ELSE requested \cup {list[i] : i \in DOMAIN list}
        /\ ipc_rx_buf' = buffer
    BY <1>2 DEF ReceiveNodelist
  <2>3. /\ whitelist \in NodeLists(Node) /\ ipc_rx_buf \in NodeLists(Node)
        /\ buffer \in NodeLists(Node)
    BY <2>1, ReceivedType DEF TypeOK
  <2>4. \A i \in Entry : buffer[i] = IF i \in 1..Len(list) THEN list[i] ELSE ipc_rx_buf[i]
    BY <2>1 DEF Received
  <2>5. DOMAIN list = 1..Len(list) /\ (list = <<>> => Len(list) = 0) /\ Len(list) \in Nat
    BY <2>1
  <2> HIDE DEF list, buffer
  <2>6. NothingBehind'
    <3> SUFFICES ASSUME NEW l \in NodelistCommands \ {<<>>}, NEW i \in Entry, i = Len(l) + 1
                 PROVE  buffer[i] = NoNode
      BY <2>2 DEF NothingBehind
    <3>1. ipc_rx_buf[i] = NoNode
      BY DEF NothingBehind
    <3>2. list = <<>> \/ Len(l) = Len(list)
      BY <2>1 DEF SameLengthLists
    <3>3. i \notin 1..Len(list)
      BY <2>5, <3>2
    <3> QED
      BY <2>4, <3>1, <3>3
  <2>7. CASE list = <<>>
    BY <1>1, <2>2, <2>6, <2>7 DEF ListedAreRequested, Listed, EmptyList
  <2>8. CASE list # <<>>
    <3> DEFINE S == requested'
    <3>1. \A i \in 1..Len(list) : buffer[i] \in S
      <4>1. Len(list) <= MaxNodeList
        BY <2>1, TransceiverAssumption
      <4>2. \A i \in 1..Len(list) : i \in Entry /\ list[i] \in S
        BY <2>2, <2>5, <2>8, <4>1, NodeListAssumption DEF Entry
      <4> QED
        BY <2>4, <4>2
    <3>2. Len(list) < MaxNodeList => buffer[Len(list) + 1] = NoNode
      <4> SUFFICES ASSUME Len(list) < MaxNodeList PROVE buffer[Len(list) + 1] = NoNode
        OBVIOUS
      <4>1. Len(list) + 1 \in Entry /\ Len(list) + 1 \notin 1..Len(list)
        BY <2>5, NodeListAssumption DEF Entry
      <4> QED
        BY <2>1, <2>4, <2>8, <4>1 DEF NothingBehind
    <3>3. Len(list) \in 0..MaxNodeList
      BY <2>1, <2>5, TransceiverAssumption, NodeListAssumption
    <3>4. whitelist \in NodeLists(S)
      <4>1. Listed(whitelist) \subseteq S
        BY <2>2, <2>8 DEF ListedAreRequested
      <4> QED
        BY <2>3, <4>1, ListsOf
    <3> HIDE DEF S
    <3>5. result \in NodeLists(S) /\ result \in NodeLists(Node)
      BY <2>3, <3>1, <3>2, <3>3, <3>4, AppendWithin, AppendType
    <3> HIDE DEF result
    <3>6. Listed(result) \subseteq requested'
      BY <3>5, ListsOf DEF S
    <3> QED
      BY <1>1, <2>2, <2>6, <2>8, <3>6 DEF ListedAreRequested
  <2> QED
    BY <2>7, <2>8
<1>3. CASE ReceiveForwarded
  <2>1. ForwardsMessages
    <3>1. Head(ipc_in) \in IpcPacket /\ Head(ipc_in).id = "message"
      BY <1>3 DEF ReceiveForwarded, TypeOK
    <3> QED
      BY <3>1 DEF IpcPacket, Nodelist
  <2>2. NothingBehind'
    <3> SUFFICES ASSUME NEW l \in NodelistCommands \ {<<>>}, NEW i \in Entry, i = Len(l) + 1
                 PROVE  ipc_rx_buf'[i] = NoNode
      BY DEF NothingBehind
    <3>1. Len(l) \in Nat \ {0} /\ Len(l) < MessageFields
      <4>1. l \in Seq(Node) /\ l # <<>>
        BY TransceiverAssumption
      <4> QED
        BY <2>1, <4>1 DEF ShortLists
    <3>2. 1 < i /\ i <= MessageFields
      BY <3>1, TransceiverAssumption
    <3> QED
      BY <1>3, <3>2 DEF ReceiveForwarded
  <2> QED
    BY <1>1, <1>3, <2>2 DEF ReceiveForwarded, ListedAreRequested
<1>4. CASE UNCHANGED <<whitelist, ipc_rx_buf, requested>>
  BY <1>1, <1>4 DEF NothingBehind, ListedAreRequested
<1>5. \/ ReceiveNodelist \/ ReceiveForwarded
      \/ UNCHANGED <<whitelist, ipc_rx_buf, requested>>
  BY DEF Next, Loop, Environment, Exited, Setup, LoopHead, SelectRadio,
     SelectIpcOrTimeout, ReceiveIpcFails, ReceiveRadioFails, ReceiveRejected,
     ReceiveWhole, ReceiveFragment, StatusReport, NoStatusDue, NodeSends,
     PacketLost, MessengerSends, MessengerReads, MessengerCloses, Interrupt, Tick, process, lists, vars
<1> QED
  BY <1>2, <1>3, <1>4, <1>5

\* As long as all lists are equally long, say of one node each, and end in front of
\* the bytes of a forwarded message, the buffer that is not cleared does no harm: only
\* nodes that were added since the last clear are listed.
THEOREM EquallyLongListsAreExact ==
    ASSUME SameLengthLists, ShortLists
    PROVE  Spec => []ListedAreRequested
<1>1. Init => TypeOK /\ NothingBehind /\ ListedAreRequested
  BY InitType DEF Init, NothingBehind, ListedAreRequested, EmptyList
<1>2. TypeOK /\ NothingBehind /\ ListedAreRequested /\ [Next]_vars
        => TypeOK' /\ NothingBehind' /\ ListedAreRequested'
  BY StepBehind
<1> QED
  BY <1>1, <1>2, PTL DEF Spec

-----------------------------------------------------------------------------
(* The queue.                                                              *)

\* No fragment in the queue is from the future, so all of them are older than the
\* time from which clean_queue starts its search.
QueueTimes ==
    \A i \in Slot : ~IsFree(packet_queue, i) => packet_queue[i].timestamp <= clock

QueueInv == TypeOK /\ QueueTimes

\* What the queue holds after a fragment was received.
LEMMA FragmentQueue ==
    ASSUME TypeOK, ReceiveFragment
    PROVE  LET queue == add_to_queue(packet_queue, arrived, clock) IN
           /\ packet_queue \in Queues /\ arrived \in Packet /\ clock \in Nat \ {0}
           /\ queue \in Queues
           /\ \/ packet_queue' = queue
              \/ packet_queue' = Clear(queue, Collected(queue, src(arrived), packet_id(arrived)))
<1>1. packet_queue \in Queues /\ arrived \in Packet /\ clock \in Nat \ {0}
  BY ArrivedPacket DEF ReceiveFragment, TypeOK
<1>2. add_to_queue(packet_queue, arrived, clock) \in Queues
  BY <1>1, AddKeeps
<1> QED
  BY <1>1, <1>2 DEF ReceiveFragment, after_collect

\* The process starts with an empty queue.
LEMMA InitQueue == Init => QueueInv
<1> SUFFICES ASSUME Init PROVE QueueInv
  OBVIOUS
<1>1. \A i \in Slot : IsFree(packet_queue, i)
  BY DEF Init, EmptyQueue, IsFree, FreeSlot
<1> QED
  BY <1>1, InitType DEF QueueInv, QueueTimes

\* Only a fragment that arrives changes the queue.
LEMMA StepQueue == QueueInv /\ [Next]_vars => QueueInv'
<1> SUFFICES ASSUME QueueInv, [Next]_vars PROVE QueueInv'
  OBVIOUS
<1> USE DEF QueueInv
<1>1. TypeOK'
  BY StepType
<1>2. CASE ReceiveFragment
  <2> DEFINE queue == add_to_queue(packet_queue, arrived, clock)
             slots == Collected(queue, src(arrived), packet_id(arrived))
  <2>1. /\ packet_queue \in Queues /\ arrived \in Packet /\ clock \in Nat \ {0}
        /\ packet_queue' = queue \/ packet_queue' = Clear(queue, slots)
        /\ clock' = clock
    BY <1>2, FragmentQueue DEF ReceiveFragment
  <2>2. \A i \in Slot : ~IsFree(queue, i) => queue[i].timestamp <= clock
    BY <2>1, AddTimes DEF QueueTimes
  <2> HIDE DEF queue, slots
  <2>3. \A i \in Slot : ~IsFree(packet_queue', i) =>
          ~IsFree(queue, i) /\ packet_queue'[i] = queue[i]
    BY <2>1 DEF Clear, IsFree, FreeSlot
  <2> QED
    BY <1>1, <2>1, <2>2, <2>3 DEF QueueTimes
<1>3. CASE UNCHANGED packet_queue /\ (clock' = clock \/ clock' = clock + 1)
  <2> SUFFICES ASSUME NEW i \in Slot, ~IsFree(packet_queue, i)
               PROVE  packet_queue[i].timestamp <= clock'
    BY <1>1, <1>3 DEF QueueTimes, IsFree
  <2>1. packet_queue[i].timestamp \in Nat /\ clock \in Nat
    BY SlotFields DEF TypeOK
  <2> QED
    BY <1>3, <2>1 DEF QueueTimes
<1>4. ReceiveFragment \/ (UNCHANGED packet_queue /\ (clock' = clock \/ clock' = clock + 1))
  BY DEF Next, Loop, Environment, Exited, Setup, LoopHead, SelectRadio,
     SelectIpcOrTimeout, ReceiveIpcFails, ReceiveNodelist, ReceiveForwarded,
     ReceiveRadioFails, ReceiveRejected, ReceiveWhole, StatusReport, NoStatusDue,
     NodeSends, PacketLost, MessengerSends, MessengerReads, MessengerCloses, Interrupt, Tick, process, vars
<1> QED
  BY <1>2, <1>3, <1>4

\* A full queue frees slots when a fragment arrives: clean_queue finds the oldest.
LEMMA FullQueueFrees ==
    ASSUME QueueInv, ReceiveFragment, \A i \in Slot : ~IsFree(packet_queue, i)
    PROVE  \E i \in Slot : IsFree(packet_queue', i)
<1> DEFINE queue == add_to_queue(packet_queue, arrived, clock)
           slots == Collected(queue, src(arrived), packet_id(arrived))
<1>1. /\ packet_queue \in Queues
      /\ packet_queue' = queue \/ packet_queue' = Clear(queue, slots)
  BY FragmentQueue DEF QueueInv
<1>2. queue = clean_queue(packet_queue)
  BY DEF add_to_queue
<1>3. \A i \in Slot : packet_queue[i].timestamp < EndOfTime
  <2> SUFFICES ASSUME NEW i \in Slot PROVE packet_queue[i].timestamp < EndOfTime
    OBVIOUS
  <2>1. /\ packet_queue[i].timestamp \in Nat /\ packet_queue[i].timestamp <= clock
        /\ clock \in 1..MaxClock
    BY SlotFields DEF QueueInv, QueueTimes, TypeOK
  <2> QED
    BY <2>1, QueueAssumption
<1>4. PICK i \in Slot : IsFree(queue, i)
  BY <1>1, <1>2, <1>3, CleanFrees
<1> HIDE DEF queue, slots
<1> QED
  BY <1>1, <1>4 DEF Clear, IsFree, FreeSlot

\* A queue full of fragments whose messages will never be complete does not stop
\* the relay: the next fragment makes room in it.
THEOREM FullQueueMakesRoom == Spec => FullQueueRecovers
<1>1. QueueInv /\ [Next]_vars =>
        [ReceiveFragment /\ (\A i \in Slot : ~IsFree(packet_queue, i))
         => \E i \in Slot : IsFree(packet_queue', i)]_vars
  BY FullQueueFrees
<1> QED
  BY <1>1, InitQueue, StepQueue, PTL DEF Spec, FullQueueRecovers

\* Messages of one node with one packet_id are of one length.
SameLength ==
    \A m, k \in Message :
      Source[m] = Source[k] /\ PacketId[m] = PacketId[k] => TotalSize[m] = TotalSize[k]

\* Packets that leave the queue leave with all others of their message.
LEMMA LeaveTogether ==
    ASSUME SameLength, TypeOK, ReceiveFragment,
           NEW i \in Slot, ~IsFree(packet_queue, i), IsFree(packet_queue', i),
           NEW j \in Slot, ~IsFree(packet_queue, j), ~IsFree(packet_queue', j),
           src(packet_queue[i].packet) = src(packet_queue[j].packet),
           packet_id(packet_queue[i].packet) = packet_id(packet_queue[j].packet)
    PROVE  FALSE
<1> DEFINE queue == add_to_queue(packet_queue, arrived, clock)
           node == src(arrived)
           id == packet_id(arrived)
           slots == Collected(queue, node, id)
<1>1. /\ packet_queue \in Queues /\ arrived \in Packet /\ clock \in Nat \ {0}
      /\ queue \in Queues
      /\ packet_queue' = queue \/ packet_queue' = Clear(queue, slots)
  BY FragmentQueue
<1>2. /\ j \in Matching(packet_queue, src(packet_queue[i].packet),
                        packet_id(packet_queue[i].packet))
      /\ i \in Matching(packet_queue, src(packet_queue[j].packet),
                        packet_id(packet_queue[j].packet))
  BY DEF Matching
<1>3. queue[i] = packet_queue[i] \/ IsFree(queue, j)
  BY <1>1, <1>2, AddRemovesWhole
<1>4. queue[j] = packet_queue[j] \/ IsFree(queue, i)
  BY <1>1, <1>2, AddRemovesWhole
<1>5. slots \in {{}, Matching(queue, node, id)}
  <2>1. ASSUME NEW k \in Matching(queue, node, id), NEW l \in Matching(queue, node, id)
        PROVE  total_size(queue[k].packet) = total_size(queue[l].packet)
    <3>1. /\ queue[k].packet \in Packet /\ queue[l].packet \in Packet
          /\ src(queue[k].packet) = src(queue[l].packet)
          /\ packet_id(queue[k].packet) = packet_id(queue[l].packet)
      BY <1>1, <2>1, CollectedSlots
    <3>2. queue[k].packet.msg \in Message /\ queue[l].packet.msg \in Message
      BY <3>1, PacketFields
    <3> QED
      BY <3>1, <3>2 DEF SameLength, src, packet_id, total_size
  <2> HIDE DEF queue, node, id
  <2> QED
    BY <1>1, <2>1, CollectsAllOrNone
<1> HIDE DEF queue, node, id, slots
<1>6. ~IsFree(queue, j)
  BY <1>1 DEF Clear, IsFree, FreeSlot
<1>7. queue[i] = packet_queue[i] /\ ~IsFree(queue, i)
  BY <1>3, <1>6 DEF IsFree
<1>8. queue[j] = packet_queue[j]
  BY <1>4, <1>7
<1>9. packet_queue' = Clear(queue, slots) /\ i \in slots
  BY <1>1, <1>7 DEF Clear, IsFree
<1>10. j \in slots
  BY <1>5, <1>6, <1>7, <1>8, <1>9 DEF Matching
<1> QED
  BY <1>9, <1>10 DEF Clear, IsFree, FreeSlot

\* Neither clean_queue nor collect_from_queue leaves a part of a message behind that
\* would never be complete, unless a node gives two messages of different lengths
\* the same packet_id.
THEOREM MessagesLeaveWhole == ASSUME SameLength PROVE Spec => RemovedTogether
<1> DEFINE Together ==
      \A i, j \in Slot :
        /\ ~IsFree(packet_queue, i) /\ IsFree(packet_queue', i)
        /\ ~IsFree(packet_queue, j) /\ ~IsFree(packet_queue', j)
        => \/ src(packet_queue[i].packet) # src(packet_queue[j].packet)
           \/ packet_id(packet_queue[i].packet) # packet_id(packet_queue[j].packet)
<1>1. TypeOK /\ [Next]_vars => [Together]_vars
  <2> SUFFICES ASSUME TypeOK, [Next]_vars PROVE Together \/ UNCHANGED vars
    OBVIOUS
  <2>1. CASE ReceiveFragment
    BY <2>1, LeaveTogether
  <2>2. CASE UNCHANGED packet_queue
    BY <2>2 DEF IsFree
  <2> QED
    BY <2>1, <2>2 DEF Next, Loop, Environment, Exited, Setup, LoopHead, SelectRadio,
       SelectIpcOrTimeout, ReceiveIpcFails, ReceiveNodelist, ReceiveForwarded,
       ReceiveRadioFails, ReceiveRejected, ReceiveWhole, StatusReport, NoStatusDue,
       NodeSends, PacketLost, MessengerSends, MessengerReads, MessengerCloses, Interrupt, Tick, process,
       vars
<1> QED
  BY <1>1, InitType, StepType, PTL DEF Spec, RemovedTogether
-----------------------------------------------------------------------------
(* The counters.                                                           *)

\* The radio brings each packet once, and byteport-messenger keeps its end open.
NothingUncounted ==
    Faults \cap {"loss", "duplicate", "radio_error", "peer_close"} = {}

SentPackets == UNION {Fragments(m) : m \in sent}

CountInv ==
    /\ TypeOK
    /\ ipc_open
    /\ IsFiniteSet(SentPackets) /\ air \subseteq SentPackets
    /\ IsFiniteSet(Counted)
    /\ EveryArrivalCounted

\* The packets that report i counts, t of them.
Pairs(i, t) == {<<i, j>> : j \in 1..t}

\* A report counts as many packets as its total says.
LEMMA PairsCount ==
    ASSUME NEW i, NEW t \in Nat
    PROVE  IsFiniteSet(Pairs(i, t)) /\ Cardinality(Pairs(i, t)) = t
<1> USE DEF Pairs
<1> DEFINE pairs == {<<i, j>> : j \in 1..t}
           f == [j \in 1..t |-> <<i, j>>]
<1>1. f \in Bijection(1..t, pairs)
  <2>1. \A j \in 1..t : f[j] = <<i, j>> /\ f[j] \in pairs
    OBVIOUS
  <2>2. f \in [1..t -> pairs]
    BY <2>1
  <2>3. \A j, k \in 1..t : f[j] = f[k] => j = k
    BY <2>1
  <2>4. \A x \in pairs : \E j \in 1..t : f[j] = x
    BY <2>1
  <2> HIDE DEF f, pairs
  <2> QED
    BY <2>2, <2>3, <2>4 DEF Bijection, Injection, Surjection, IsInjective
<1>2. ExistsBijection(1..t, pairs)
  BY <1>1 DEF ExistsBijection
<1>3. IsFiniteSet(1..t) /\ Cardinality(1..t) = t
  <2>1. 1 \in Int /\ t \in Int
    OBVIOUS
  <2> QED
    BY <2>1, FS_Interval
<1> HIDE DEF pairs
<1> QED
  BY <1>2, <1>3, FS_Bijection DEF pairs

\* Sets with nothing in common count together.
LEMMA CountsAdd ==
    ASSUME NEW S, NEW T, IsFiniteSet(S), IsFiniteSet(T), S \cap T = {}
    PROVE  /\ IsFiniteSet(S \cup T)
           /\ Cardinality(S \cup T) = Cardinality(S) + Cardinality(T)
           /\ Cardinality(S) \in Nat /\ Cardinality(T) \in Nat
<1>1. /\ IsFiniteSet(S \cup T)
      /\ Cardinality(S \cup T) = Cardinality(S) + Cardinality(T) - Cardinality(S \cap T)
  BY FS_Union
<1>2. Cardinality(S) \in Nat /\ Cardinality(T) \in Nat
  BY FS_CardinalityType
<1>3. Cardinality(S \cap T) = 0
  BY FS_EmptySet
<1> QED
  BY <1>1, <1>2, <1>3

\* What is put out adds to the count what it reports, if it is a report.
LEMMA CountedGrows ==
    ASSUME ipc_out \in Seq(IpcMessage), IsFiniteSet(Counted), NEW message \in IpcMessage,
           ipc_out' = Append(ipc_out, message)
    PROVE  /\ IsFiniteSet(Counted')
           /\ Cardinality(Counted') = Cardinality(Counted)
                + (IF message.kind = "status" THEN message.total ELSE 0)
<1> DEFINE n == Len(ipc_out)
           news == {<<n + 1, j>> : j \in 1..message.total}
<1>1. /\ n \in Nat /\ Len(ipc_out') = n + 1 /\ ipc_out'[n + 1] = message
      /\ \A i \in 1..n : ipc_out'[i] = ipc_out[i]
      /\ Cardinality(Counted) \in Nat
  BY FS_CardinalityType
<1>2. \A i : i \in 1..(n + 1) <=> i \in 1..n \/ i = n + 1
  <2> HIDE DEF n
  <2> QED
    BY <1>1
<1>3. n + 1 \notin 1..n
  <2> HIDE DEF n
  <2> QED
    BY <1>1
<1> HIDE DEF n
<1>4. CASE message.kind = "status"
  <2>1. message.total \in Nat
    BY <1>4 DEF IpcMessage
  <2>2. Reports' = Reports \cup {n + 1}
    BY <1>1, <1>2, <1>4 DEF Reports, n
  <2>3. \A i \in Reports : i \in 1..n /\ ipc_out'[i] = ipc_out[i]
    BY <1>1 DEF Reports, n
  <2>4. Counted' = Counted \cup news
    BY <1>1, <2>2, <2>3 DEF Counted
  <2>5. Counted \cap news = {}
    BY <1>3, <2>3 DEF Counted
  <2>6. IsFiniteSet(news) /\ Cardinality(news) = message.total
    <3>1. news = Pairs(n + 1, message.total)
      BY DEF Pairs
    <3> HIDE DEF news
    <3> QED
      BY <2>1, <3>1, PairsCount
  <2> HIDE DEF news
  <2> QED
    BY <1>4, <2>4, <2>5, <2>6, CountsAdd
<1>5. CASE message.kind # "status"
  <2>1. Reports' = Reports
    BY <1>1, <1>2, <1>5 DEF Reports, n
  <2>2. Counted' = Counted
    BY <1>1, <2>1 DEF Counted, Reports, n
  <2> QED
    BY <1>1, <1>5, <2>2
<1> QED
  BY <1>4, <1>5

\* A message of a node was put out, or nothing: the reports stay as they are.
LEMMA NothingReported ==
    ASSUME CountInv,
           \/ UNCHANGED ipc_out
           \/ \E x \in IpcMessage : x.kind = "data" /\ ipc_out' = Append(ipc_out, x)
    PROVE  IsFiniteSet(Counted') /\ Cardinality(Counted') = Cardinality(Counted)
<1>1. CASE UNCHANGED ipc_out
  <2>1. Counted' = Counted
    BY <1>1 DEF Counted, Reports
  <2> QED
    BY <2>1 DEF CountInv
<1>2. ASSUME NEW x \in IpcMessage, x.kind = "data", ipc_out' = Append(ipc_out, x)
      PROVE  IsFiniteSet(Counted') /\ Cardinality(Counted') = Cardinality(Counted)
  <2>1. /\ IsFiniteSet(Counted')
        /\ Cardinality(Counted') = Cardinality(Counted) + 0
    BY <1>2, CountedGrows DEF CountInv, TypeOK
  <2>2. Cardinality(Counted) \in Nat
    BY FS_CardinalityType DEF CountInv
  <2> QED
    BY <2>1, <2>2
<1> QED
  BY <1>1, <1>2

\* A message of a node that is sent to byteport-messenger is one for it.
LEMMA DataPutOut ==
    ASSUME TypeOK, TypeOK', ipc_open, NEW next,
           \E node, data, time : SendToMessenger(DataMessage(node, data, time), next)
    PROVE  \E x \in IpcMessage : x.kind = "data" /\ ipc_out' = Append(ipc_out, x)
<1>1. PICK node, data, time : SendToMessenger(DataMessage(node, data, time), next)
  OBVIOUS
<1> DEFINE x == DataMessage(node, data, time)
<1>2. ipc_out' = Append(ipc_out, x) /\ x.kind = "data"
  BY <1>1 DEF SendToMessenger, DataMessage
<1> HIDE DEF x
<1>3. x \in IpcMessage
  <2>1. /\ ipc_out \in Seq(IpcMessage) /\ ipc_out' \in Seq(IpcMessage)
    BY DEF TypeOK
  <2>2. Len(ipc_out') = Len(ipc_out) + 1 /\ ipc_out'[Len(ipc_out) + 1] = x
    BY <1>2, <2>1
  <2> QED
    BY <2>1, <2>2
<1> QED
  BY <1>2, <1>3

\* A message has finitely many packets.
LEMMA FragmentsFinite ==
    ASSUME NEW m \in Message
    PROVE  IsFiniteSet(Fragments(m))
<1> DEFINE n == tot_frags(m)
           f == [k \in 0..n |-> [msg |-> m, no |-> k]]
<1>1. n \in Nat
  BY DivMod, PacketAssumption DEF tot_frags
<1> HIDE DEF n
<1>2. IsFiniteSet(0..n)
  BY <1>1, FS_Interval
<1>3. f \in Surjection(0..n, Fragments(m))
  BY DEF Surjection, Fragments, n
<1> QED
  BY <1>2, <1>3, FS_Surjection

\* Nothing was sent, counted or reported at the start.
LEMMA InitCount == Init => CountInv
<1> SUFFICES ASSUME Init PROVE CountInv
  OBVIOUS
<1>1. SentPackets = {} /\ Counted = {} /\ air = {}
  BY DEF Init, SentPackets, Counted, Reports
<1>2. IsFiniteSet({}) /\ Cardinality({}) = 0
  BY FS_EmptySet
<1>3. EveryArrivalCounted
  <2>1. stats.total = 0 /\ arrived = NoPacket
    BY DEF Init, NoStats
  <2>2. UNION {Fragments(m) : m \in sent} = {}
    BY <1>1 DEF SentPackets
  <2> QED
    <3>1. /\ Cardinality(Counted) = 0 /\ Cardinality(air) = 0
          /\ Cardinality(UNION {Fragments(m) : m \in sent}) = 0
      BY <1>1, <1>2, <2>2
    <3> QED
      BY <2>1, <3>1 DEF EveryArrivalCounted
<1> QED
  BY <1>1, <1>2, <1>3, InitType DEF Init, CountInv

\* The numbers that EveryArrivalCounted adds up.
LEMMA CountNumbers ==
    ASSUME CountInv
    PROVE  /\ Cardinality(Counted) \in Nat /\ stats.total \in Nat
           /\ IsFiniteSet(air) /\ Cardinality(air) \in Nat
           /\ Cardinality(SentPackets) \in Nat
           /\ Cardinality(Counted) + stats.total
                = Cardinality(SentPackets) - Cardinality(air)
                  - (IF arrived = NoPacket THEN 0 ELSE 1)
<1>1. IsFiniteSet(air)
  BY FS_Subset DEF CountInv
<1> QED
  BY <1>1, FS_CardinalityType DEF CountInv, TypeOK, EveryArrivalCounted, SentPackets

\* A step counts what it takes from the air, and a report resets what it carries.
LEMMA StepCount == NothingUncounted /\ CountInv /\ [Next]_vars => CountInv'
<1> SUFFICES ASSUME NothingUncounted, CountInv, [Next]_vars PROVE CountInv'
  OBVIOUS
<1>1. TypeOK'
  BY StepType DEF CountInv
<1>2. TypeOK /\ ipc_open
  BY DEF CountInv
<1>3. /\ Cardinality(Counted) \in Nat /\ stats.total \in Nat
      /\ IsFiniteSet(air) /\ Cardinality(air) \in Nat
      /\ Cardinality(SentPackets) \in Nat
      /\ Cardinality(Counted) + stats.total
           = Cardinality(SentPackets) - Cardinality(air)
             - (IF arrived = NoPacket THEN 0 ELSE 1)
  BY CountNumbers
\* A packet that is handled is counted.
<1>4. ASSUME UNCHANGED <<sent, air, ipc_open>>, arrived # NoPacket, arrived' = NoPacket,
             \E rejected \in BOOLEAN : stats' = CountFragment(rejected),
             \/ UNCHANGED ipc_out
             \/ \E x \in IpcMessage : x.kind = "data" /\ ipc_out' = Append(ipc_out, x)
      PROVE  CountInv'
  <2>1. IsFiniteSet(Counted') /\ Cardinality(Counted') = Cardinality(Counted)
    BY <1>4, NothingReported
  <2>2. stats'.total = stats.total + 1 /\ SentPackets' = SentPackets
    BY <1>4 DEF CountFragment, SentPackets
  <2>3. EveryArrivalCounted'
    BY <1>3, <1>4, <2>1, <2>2 DEF EveryArrivalCounted, SentPackets
  <2> QED
    BY <1>1, <1>4, <2>1, <2>2, <2>3 DEF CountInv
<1>5. CASE UNCHANGED <<sent, air, ipc_open, arrived, stats, ipc_out>>
  <2>1. IsFiniteSet(Counted') /\ Cardinality(Counted') = Cardinality(Counted)
    BY <1>5, NothingReported
  <2>2. SentPackets' = SentPackets
    BY <1>5 DEF SentPackets
  <2>3. EveryArrivalCounted'
    BY <1>3, <1>5, <2>1, <2>2 DEF EveryArrivalCounted, SentPackets
  <2> QED
    BY <1>1, <1>5, <2>1, <2>2, <2>3 DEF CountInv
<1>6. CASE ReceiveRejected
  <2>1. \E rejected \in BOOLEAN : stats' = CountFragment(rejected)
    BY <1>6 DEF ReceiveRejected
  <2> QED
    BY <1>2, <1>4, <1>6, <2>1 DEF ReceiveRejected, TypeOK, radio, ipc
<1>7. CASE ReceiveWhole
  <2>1. \E rejected \in BOOLEAN : stats' = CountFragment(rejected)
    BY <1>7 DEF ReceiveWhole
  <2>2. \E data, time : SendToMessenger(DataMessage(src(arrived), data, time), "status")
    BY <1>7 DEF ReceiveWhole
  <2>3. \E x \in IpcMessage : x.kind = "data" /\ ipc_out' = Append(ipc_out, x)
    BY <1>1, <1>2, <2>2, DataPutOut
  <2> QED
    BY <1>2, <1>4, <1>7, <2>1, <2>3 DEF ReceiveWhole, TypeOK, radio, ipc
<1>8. CASE ReceiveFragment
  <2>1. \E rejected \in BOOLEAN : stats' = CountFragment(rejected)
    BY <1>8 DEF ReceiveFragment
  <2>2. \/ UNCHANGED ipc_out
        \/ \E data, time : SendToMessenger(DataMessage(src(arrived), data, time), "status")
    BY <1>8 DEF ReceiveFragment
  <2>3. \/ UNCHANGED ipc_out
        \/ \E x \in IpcMessage : x.kind = "data" /\ ipc_out' = Append(ipc_out, x)
    BY <1>1, <1>2, <2>2, DataPutOut
  <2> QED
    BY <1>2, <1>4, <1>8, <2>1, <2>3 DEF ReceiveFragment, TypeOK, radio, ipc
<1>9. CASE StatusReport
  <2>1. /\ ipc_out' = Append(ipc_out, StatusMessage) /\ stats'.total = 0
        /\ UNCHANGED <<sent, air, arrived, ipc_open>>
    BY <1>2, <1>9 DEF StatusReport, SendToMessenger, NoStats, radio, ipc
  <2>2. StatusMessage \in IpcMessage /\ StatusMessage.kind = "status"
        /\ StatusMessage.total = stats.total
    BY <1>2, StatusMessageType DEF StatusMessage
  <2>3. /\ IsFiniteSet(Counted')
        /\ Cardinality(Counted') = Cardinality(Counted) + stats.total
    BY <1>2, <2>1, <2>2, CountedGrows DEF CountInv, TypeOK
  <2>4. SentPackets' = SentPackets
    BY <2>1 DEF SentPackets
  <2>5. EveryArrivalCounted'
    BY <1>3, <2>1, <2>3, <2>4 DEF EveryArrivalCounted, SentPackets
  <2> QED
    BY <1>1, <2>1, <2>3, <2>4, <2>5 DEF CountInv
<1>10. CASE SelectRadio
  <2>1. PICK p \in air : arrived' = p /\ air' = air \ {p}
    BY <1>10 DEF SelectRadio, NothingUncounted
  <2>2. /\ arrived = NoPacket /\ p # NoPacket
        /\ UNCHANGED <<sent, ipc_open, stats, ipc_out>>
    BY <1>2, <1>10, NoPacketIsNone DEF SelectRadio, TypeOK, ipc
  <2>3. IsFiniteSet(Counted') /\ Cardinality(Counted') = Cardinality(Counted)
    BY <2>2, NothingReported
  <2>4. Cardinality(air') = Cardinality(air) - 1
    BY <1>3, <2>1, FS_RemoveElement
  <2>5. SentPackets' = SentPackets /\ air' \subseteq SentPackets
    BY <2>1, <2>2 DEF SentPackets, CountInv
  <2>6. EveryArrivalCounted'
    BY <1>3, <2>1, <2>2, <2>3, <2>4, <2>5 DEF EveryArrivalCounted, SentPackets
  <2> QED
    BY <1>1, <2>2, <2>3, <2>5, <2>6 DEF CountInv
<1>11. CASE \E m \in Message : NodeSends(m)
  <2>1. PICK m \in Message : NodeSends(m)
    BY <1>11
  <2>2. /\ m \notin sent /\ sent' = sent \cup {m} /\ air' = air \cup Fragments(m)
        /\ UNCHANGED <<ipc_open, stats, arrived, ipc_out>>
    BY <2>1 DEF NodeSends, process, ipc
  <2>3. IsFiniteSet(Counted') /\ Cardinality(Counted') = Cardinality(Counted)
    BY <2>2, NothingReported
  <2>4. IsFiniteSet(Fragments(m))
    BY FragmentsFinite
  <2>5. SentPackets' = SentPackets \cup Fragments(m)
    BY <2>2 DEF SentPackets
  <2>6. SentPackets \cap Fragments(m) = {}
    BY <2>2 DEF SentPackets, Fragments
  <2>7. IsFiniteSet(SentPackets) /\ air \subseteq SentPackets /\ air \cap Fragments(m) = {}
    BY <2>6 DEF CountInv
  <2>8. /\ IsFiniteSet(SentPackets') /\ air' \subseteq SentPackets'
        /\ Cardinality(SentPackets') = Cardinality(SentPackets) + Cardinality(Fragments(m))
        /\ Cardinality(air') = Cardinality(air) + Cardinality(Fragments(m))
        /\ Cardinality(Fragments(m)) \in Nat
    BY <1>3, <2>2, <2>4, <2>5, <2>6, <2>7, CountsAdd
  <2>9. EveryArrivalCounted'
    BY <1>3, <2>2, <2>3, <2>8 DEF EveryArrivalCounted, SentPackets
  <2> QED
    BY <1>1, <1>2, <2>2, <2>3, <2>8, <2>9 DEF CountInv
<1>12. \/ ReceiveRejected \/ ReceiveWhole \/ ReceiveFragment \/ StatusReport \/ SelectRadio
       \/ \E m \in Message : NodeSends(m)
       \/ UNCHANGED <<sent, air, ipc_open, arrived, stats, ipc_out>>
  BY <1>2 DEF NothingUncounted, Next, Loop, Environment, Exited, Setup, LoopHead,
     SelectIpcOrTimeout, ReceiveIpcFails, ReceiveNodelist, ReceiveForwarded,
     ReceiveRadioFails, NoStatusDue, PacketLost, MessengerSends, MessengerReads, MessengerCloses,
     Interrupt, Tick, process, radio, ipc, vars
<1> QED
  BY <1>5, <1>6, <1>7, <1>8, <1>9, <1>10, <1>11, <1>12

\* The counters in the status reports and those of the minute that runs add up to
\* the packets that arrived: the reset after a report drops no packet and the next
\* report repeats none.
THEOREM ArrivalsAddUp == ASSUME NothingUncounted PROVE Spec => []EveryArrivalCounted
<1>1. CountInv => EveryArrivalCounted
  BY DEF CountInv
<1>2. CountInv /\ [Next]_vars => CountInv'
  BY StepCount
<1> QED
  BY <1>1, <1>2, InitCount, PTL DEF Spec

-----------------------------------------------------------------------------
(* What the other end of the socket sees of a step.                        *)

\* The whitelist, and what it is made of, change only when a packet is received.
LEMMA ListCases ==
    ASSUME Loop \/ Interrupt \/ Tick \/ \E m \in Message : NodeSends(m)
    PROVE  \/ UNCHANGED <<ipc_in, requested, whitelist, ipc_rx_buf>>
           \/ ReceiveNodelist \/ ReceiveForwarded
<1> USE DEF lists, radio, ipc, process
<1>1. CASE Interrupt \/ Tick \/ \E m \in Message : NodeSends(m)
  BY <1>1 DEF Interrupt, Tick, NodeSends
<1>2. CASE Setup \/ LoopHead \/ SelectRadio \/ SelectIpcOrTimeout \/ ReceiveIpcFails
  BY <1>2 DEF Setup, LoopHead, SelectRadio, SelectIpcOrTimeout, ReceiveIpcFails
<1>3. CASE ReceiveRadioFails \/ ReceiveRejected \/ ReceiveWhole \/ ReceiveFragment
  BY <1>3 DEF ReceiveRadioFails, ReceiveRejected, ReceiveWhole, ReceiveFragment
<1>4. CASE StatusReport \/ NoStatusDue
  BY <1>4 DEF StatusReport, NoStatusDue
<1> QED
  BY <1>1, <1>2, <1>3, <1>4 DEF Loop

\* Where the lists end at the latest: behind the array, or at the zeros of a message.
Reach == IF ForwardsMessages THEN MessageFields ELSE MaxNodeList + 1

\* What a list can be followed by in the buffer, up to there: nodes of S, and a free
\* entry at the end.  The first entry is in every list, so it does not matter.
BufferOf(buffer, S) ==
    \A i \in Entry : 1 < i =>
      /\ i < Reach => buffer[i] \in S \cup {NoNode}
      /\ i = Reach => buffer[i] = NoNode

\* Only nodes of lists that were received get into the whitelist.
LEMMA ListsStayIn ==
    ASSUME ShortLists, NEW S, TypeOK, whitelist \in NodeLists(S), BufferOf(ipc_rx_buf, S),
           ReceiveNodelist \/ ReceiveForwarded,
           \A i \in 1..Len(Head(ipc_in).list) : Head(ipc_in).list[i] \in S
    PROVE  whitelist' \in NodeLists(S) /\ BufferOf(ipc_rx_buf', S)
<1>1. Head(ipc_in) \in IpcPacket /\ ipc_rx_buf \in NodeLists(Node)
  BY DEF ReceiveNodelist, ReceiveForwarded, TypeOK
<1>2. CASE ReceiveForwarded
  <2>1. ForwardsMessages
    BY <1>1, <1>2 DEF ReceiveForwarded, IpcPacket, Nodelist
  <2>2. \A i \in Entry : 1 < i /\ i <= Reach => ipc_rx_buf'[i] = NoNode
    BY <1>2, <2>1 DEF ReceiveForwarded, Reach
  <2>3. Reach \in Nat
    BY <2>1 DEF Reach
  <2>4. BufferOf(ipc_rx_buf', S)
    BY <2>2, <2>3 DEF BufferOf, Entry
  <2> QED
    BY <1>2, <2>4 DEF ReceiveForwarded
<1>3. CASE ReceiveNodelist
  <2> DEFINE list == Head(ipc_in).list
             buffer == Received(ipc_rx_buf, list)
             n == IF Reach <= MaxNodeList THEN Reach - 1 ELSE MaxNodeList
  <2>1. list \in NodelistCommands /\ list \in Seq(Node) /\ Len(list) \in Nat
    <3>1. PICK l \in NodelistCommands : Head(ipc_in) = Nodelist(l)
      BY <1>1, <1>3 DEF ReceiveNodelist, IpcPacket, Forwarded
    <3> QED
      BY <3>1 DEF Nodelist
  <2>2. Reach \in Nat /\ Len(list) < Reach /\ Len(list) <= MaxNodeList
    BY <2>1, NodeListAssumption DEF Reach, ShortLists
  <2>3. \A i \in Entry : buffer[i] = IF i \in 1..Len(list) THEN list[i] ELSE ipc_rx_buf[i]
    BY <2>1 DEF Received
  <2>4. /\ ipc_rx_buf' = buffer
        /\ whitelist' = IF list = <<>> THEN EmptyList ELSE nodelist_append(whitelist, buffer)
    BY <1>3 DEF ReceiveNodelist
  <2>5. buffer \in NodeLists(Node)
    BY <1>1, <2>1, ReceivedType
  <2>6. \A i \in 1..Len(list) : list[i] \in S
    OBVIOUS
  <2> HIDE DEF buffer, list
  <2>7. BufferOf(ipc_rx_buf', S)
    <3> SUFFICES ASSUME NEW i \in Entry, 1 < i
                 PROVE  /\ i < Reach => buffer[i] \in S \cup {NoNode}
                        /\ i = Reach => buffer[i] = NoNode
      BY <2>4 DEF BufferOf
    <3>1. CASE i \in 1..Len(list)
      BY <2>1, <2>2, <2>3, <2>6, <3>1
    <3>2. CASE i \notin 1..Len(list)
      BY <2>3, <3>2 DEF BufferOf
    <3> QED
      BY <3>1, <3>2
  <2>8. CASE list = <<>>
    <3>1. EmptyList \in NodeLists(S)
      BY DEF EmptyList, NodeLists
    <3> QED
      BY <2>4, <2>7, <2>8, <3>1
  <2>9. CASE list # <<>>
    <3>1. Len(list) >= 1
      BY <2>1, <2>9
    <3>2. n \in 0..MaxNodeList /\ n >= 1
      BY <2>2, <3>1, NodeListAssumption
    <3>3. \A i \in 1..n : buffer[i] \in S \cup {NoNode}
      <4> SUFFICES ASSUME NEW i \in 1..n PROVE buffer[i] \in S \cup {NoNode}
        OBVIOUS
      <4>1. i \in Entry /\ i < Reach
        BY <2>2, <3>2, NodeListAssumption DEF Entry
      <4>2. CASE i = 1
        BY <2>3, <2>6, <2>1, <3>1, <4>1, <4>2
      <4>3. CASE i # 1
        BY <2>4, <2>7, <4>1, <4>3 DEF BufferOf, Entry
      <4> QED
        BY <4>2, <4>3
    <3>4. n < MaxNodeList => buffer[n + 1] = NoNode
      <4> SUFFICES ASSUME n < MaxNodeList PROVE buffer[n + 1] = NoNode
        OBVIOUS
      <4>1. n + 1 = Reach /\ n + 1 \in Entry /\ 1 < n + 1
        BY <2>2, <3>2, NodeListAssumption DEF Entry
      <4> QED
        BY <2>4, <2>7, <4>1 DEF BufferOf
    <3> HIDE DEF n
    <3>5. nodelist_append(whitelist, buffer) \in NodeLists(S)
      BY <2>5, <3>2, <3>3, <3>4, AppendWithin
    <3> QED
      BY <2>4, <2>7, <2>9, <3>5
  <2> QED
    BY <2>8, <2>9
<1> QED
  BY <1>2, <1>3

\* Something is put out by a process that goes on, and the message of a node only if
\* the node is in the whitelist.
LEMMA PutOut ==
    ASSUME TypeOK, TypeOK', Loop, ~UNCHANGED ipc_out
    PROVE  /\ pc' # "exit"
           /\ UNCHANGED whitelist
           /\ \E x \in IpcMessage :
                /\ ipc_out' = Append(ipc_out, x)
                /\ x.kind = "data" => nodelist_find(whitelist, x.source) /\ x.source \in Node
<1>1. ASSUME NEW message, NEW next \in {"status", "loop"}, SendToMessenger(message, next),
             message.kind = "data" => nodelist_find(whitelist, message.source)
      PROVE  /\ pc' # "exit"
             /\ \E x \in IpcMessage :
                  /\ ipc_out' = Append(ipc_out, x)
                  /\ x.kind = "data" => nodelist_find(whitelist, x.source) /\ x.source \in Node
  <2>1. ipc_out' = Append(ipc_out, message) /\ pc' = next
    BY <1>1 DEF SendToMessenger
  <2>2. ipc_out' \in Seq(IpcMessage) /\ ipc_out \in Seq(IpcMessage)
    BY DEF TypeOK
  <2>3. message \in IpcMessage
    <3>1. Len(ipc_out') = Len(ipc_out) + 1 /\ ipc_out'[Len(ipc_out) + 1] = message
      BY <2>1, <2>2
    <3> QED
      BY <2>2, <3>1
  <2>4. message.kind = "data" => message.source \in Node
    BY <2>3 DEF IpcMessage
  <2> QED
    BY <1>1, <2>1, <2>3, <2>4
<1>2. CASE ReceiveWhole
  <2> DEFINE data == [b \in 1..data_size(arrived) |-> <<arrived.msg, b>>]
  <2>1. /\ SendToMessenger(DataMessage(src(arrived), data, clock), "status")
        /\ nodelist_find(whitelist, src(arrived)) /\ UNCHANGED whitelist
    BY <1>2 DEF ReceiveWhole, lists
  <2> HIDE DEF data
  <2>2. DataMessage(src(arrived), data, clock).source = src(arrived)
    BY DEF DataMessage
  <2> QED
    BY <1>1, <2>1, <2>2
<1>3. CASE ReceiveFragment
  <2>1. /\ UNCHANGED ipc_out \/ \E data, time :
             SendToMessenger(DataMessage(src(arrived), data, time), "status")
        /\ nodelist_find(whitelist, src(arrived)) /\ UNCHANGED whitelist
    BY <1>3 DEF ReceiveFragment, lists
  <2>2. PICK data, time : SendToMessenger(DataMessage(src(arrived), data, time), "status")
    BY <2>1
  <2>3. DataMessage(src(arrived), data, time).source = src(arrived)
    BY DEF DataMessage
  <2> QED
    BY <1>1, <2>1, <2>2, <2>3
<1>4. CASE StatusReport
  <2>1. SendToMessenger(StatusMessage, "loop") /\ UNCHANGED whitelist
    BY <1>4 DEF StatusReport, lists
  <2>2. StatusMessage.kind # "data"
    BY DEF StatusMessage
  <2> QED
    BY <1>1, <2>1, <2>2
<1>5. CASE Setup \/ LoopHead \/ SelectRadio \/ SelectIpcOrTimeout \/ ReceiveIpcFails
             \/ ReceiveNodelist \/ ReceiveForwarded \/ ReceiveRadioFails
             \/ ReceiveRejected \/ NoStatusDue
  BY <1>5 DEF Setup, LoopHead, SelectRadio, SelectIpcOrTimeout, ReceiveIpcFails,
     ReceiveNodelist, ReceiveForwarded, ReceiveRadioFails, ReceiveRejected, NoStatusDue
<1> QED
  BY <1>2, <1>3, <1>4, <1>5 DEF Loop

-----------------------------------------------------------------------------
(* Where the bytes of a message are from.                                  *)

\* All packets on their way are of messages that were sent.
PacketsSent ==
    /\ \A p \in air \cup Stored(packet_queue) : p.msg \in sent
    /\ arrived # NoPacket => arrived.msg \in sent

SourceInv == TypeOK /\ PacketsSent /\ BytesFromSource

\* Each byte put together is one of a packet of the source and the packet_id.
LEMMA MergedBytes ==
    ASSUME NEW queue \in Queues, NEW node, NEW id, collects(queue, node, id)
    PROVE  LET data == MergedData(queue, Collected(queue, node, id)) IN
           \A b \in DOMAIN data :
             \/ data[b] = Hole
             \/ \E p \in Stored(queue) :
                  src(p) = node /\ packet_id(p) = id /\ data[b] = <<p.msg, b>>
<1> DEFINE slots == Collected(queue, node, id)
           data == MergedData(queue, slots)
<1> SUFFICES ASSUME NEW b \in DOMAIN data, data[b] # Hole
             PROVE  \E p \in Stored(queue) :
                      src(p) = node /\ packet_id(p) = id /\ data[b] = <<p.msg, b>>
  OBVIOUS
<1> DEFINE covering == {i \in slots : b \in Bytes(queue[i].packet)}
           last == CHOOSE i \in covering : \A j \in covering : j <= i
<1>1. data[b] = IF covering = {} THEN Hole ELSE <<queue[last].packet.msg, b>>
  BY DEF MergedData
<1>2. covering # {} /\ data[b] = <<queue[last].packet.msg, b>>
  BY <1>1
<1>3. covering \in SUBSET Slot
  BY CollectedSlots
<1>4. last \in covering
  BY <1>2, <1>3, LastCovering
<1> HIDE DEF last, data
<1>5. /\ last \in Slot /\ ~IsFree(queue, last)
      /\ src(queue[last].packet) = node /\ packet_id(queue[last].packet) = id
  BY <1>4, CollectedSlots
<1>6. queue[last].packet \in Stored(queue)
  BY <1>5 DEF Stored
<1> QED
  BY <1>2, <1>5, <1>6

\* What was passed on is still from its source when a message is appended that is
\* from its source too.
LEMMA SourceGrows ==
    ASSUME BytesFromSource, ipc_out \in Seq(IpcMessage), sent' = sent,
           NEW x \in IpcMessage, ipc_out' = Append(ipc_out, x),
           x.kind = "data" => \E id \in 0..255 : FromSource(x, id)
    PROVE  BytesFromSource'
<1> DEFINE From(message, messages) ==
             \E id \in 0..255 : \A b \in DOMAIN message.data :
               \/ message.data[b] = Hole
               \/ \E m \in messages : /\ Source[m] = message.source /\ PacketId[m] = id
                                     /\ message.data[b] = <<m, b>>
<1>1. \A i \in 1..Len(ipc_out) : ipc_out[i].kind = "data" => From(ipc_out[i], sent)
  BY DEF BytesFromSource, FromSource
<1>2. x.kind = "data" => From(x, sent)
  BY DEF FromSource
<1>3. BytesFromSource' <=>
        \A i \in 1..Len(ipc_out') : ipc_out'[i].kind = "data" => From(ipc_out'[i], sent')
  BY DEF BytesFromSource, FromSource
<1> HIDE DEF From
<1>4. \A i \in 1..Len(ipc_out') :
        (i \in 1..Len(ipc_out) /\ ipc_out'[i] = ipc_out[i]) \/ ipc_out'[i] = x
  OBVIOUS
<1> QED
  BY <1>1, <1>2, <1>3, <1>4

\* Nothing has been passed on at the start.
LEMMA InitSource == Init => SourceInv
<1> SUFFICES ASSUME Init PROVE SourceInv
  OBVIOUS
<1>1. PacketsSent
  BY EmptyQueueStores DEF Init, PacketsSent
<1>2. BytesFromSource
  BY DEF Init, BytesFromSource
<1> QED
  BY <1>1, <1>2, InitType DEF SourceInv

\* A node that sends changes nothing that was passed on.
LEMMA SourceKept ==
    ASSUME BytesFromSource, UNCHANGED ipc_out, sent \subseteq sent'
    PROVE  BytesFromSource'
<1> DEFINE From(message, messages) ==
             \E id \in 0..255 : \A b \in DOMAIN message.data :
               \/ message.data[b] = Hole
               \/ \E m \in messages : /\ Source[m] = message.source /\ PacketId[m] = id
                                     /\ message.data[b] = <<m, b>>
<1>1. \A i \in 1..Len(ipc_out) : ipc_out[i].kind = "data" => From(ipc_out[i], sent)
  BY DEF BytesFromSource, FromSource
<1>2. BytesFromSource' <=>
        \A i \in 1..Len(ipc_out') : ipc_out'[i].kind = "data" => From(ipc_out'[i], sent')
  BY DEF BytesFromSource, FromSource
<1>3. \A message : From(message, sent) => From(message, sent')
  OBVIOUS
<1> HIDE DEF From
<1> QED
  BY <1>1, <1>2, <1>3

\* The packets on their way stay those of messages sent when some move from the air
\* to the process or the queue.
LEMMA SentPacketsMove ==
    ASSUME TypeOK, PacketsSent, sent \subseteq sent', air' \subseteq air,
           Stored(packet_queue') \subseteq Stored(packet_queue) \cup {arrived},
           pc = "ieee" \/ UNCHANGED packet_queue,
           arrived' \in {arrived, NoPacket} \cup air
    PROVE  PacketsSent'
<1>1. \A p \in air' : p.msg \in sent'
  BY DEF PacketsSent
<1>2. \A p \in Stored(packet_queue') : p.msg \in sent'
  BY DEF PacketsSent, TypeOK
<1>3. arrived' # NoPacket => arrived'.msg \in sent'
  BY DEF PacketsSent
<1> QED
  BY <1>1, <1>2, <1>3 DEF PacketsSent

\* A packet that is a whole message is passed on with the bytes its node gave it.
LEMMA WholeFromSource ==
    ASSUME SourceInv, ReceiveWhole, TypeOK'
    PROVE  BytesFromSource'
<1> DEFINE m == arrived.msg
           data == [b \in 1..data_size(arrived) |-> <<m, b>>]
           x == DataMessage(src(arrived), data, clock)
<1>1. /\ m \in sent /\ arrived \in Packet /\ Source[m] = src(arrived)
      /\ PacketId[m] \in 0..255
  BY ArrivedPacket, PacketFields, NoPacketIsNone
     DEF ReceiveWhole, SourceInv, PacketsSent, src, packet_id
<1>2. UNCHANGED sent /\ ipc_out \in Seq(IpcMessage)
  BY DEF ReceiveWhole, radio, SourceInv, TypeOK
<1>3. SendToMessenger(x, "status")
  BY DEF ReceiveWhole
<1>4. FromSource(x, PacketId[m])
  BY <1>1 DEF FromSource, DataMessage
<1> HIDE DEF x
<1>5. CASE ipc_out' = Append(ipc_out, x)
  <2>1. x \in IpcMessage
    BY <1>2, <1>5 DEF TypeOK
  <2> QED
    BY <1>1, <1>2, <1>4, <1>5, <2>1, SourceGrows DEF SourceInv
<1>6. CASE UNCHANGED ipc_out
  BY <1>2, <1>6, SourceKept DEF SourceInv
<1> QED
  BY <1>3, <1>5, <1>6 DEF SendToMessenger

\* A message put together has the bytes of packets in the queue, or of the fragment
\* that completes it.
LEMMA FragmentFromSource ==
    ASSUME SourceInv, ReceiveFragment, TypeOK'
    PROVE  BytesFromSource' /\ PacketsSent'
<1> DEFINE node == src(arrived)
           id == packet_id(arrived)
           queue == add_to_queue(packet_queue, arrived, clock)
           slots == Collected(queue, node, id)
           data == MergedData(queue, slots)
           x == DataMessage(node, data, CollectedTime(queue, slots))
<1>1. /\ packet_queue \in Queues /\ arrived \in Packet /\ clock \in Nat \ {0}
      /\ queue \in Queues
      /\ packet_queue' = queue \/ packet_queue' = Clear(queue, slots)
  BY FragmentQueue DEF SourceInv
<1>2. Stored(queue) \subseteq Stored(packet_queue) \cup {arrived}
  BY <1>1, AddKeeps
<1>3. arrived # NoPacket /\ arrived.msg \in sent
  BY <1>1, NoPacketIsNone DEF SourceInv, PacketsSent
<1>4. \A p \in Stored(queue) : p.msg \in sent
  BY <1>2, <1>3 DEF SourceInv, PacketsSent
<1>5. /\ UNCHANGED <<sent, air>> /\ ipc_out \in Seq(IpcMessage) /\ arrived' = NoPacket
      /\ pc = "ieee"
  BY DEF ReceiveFragment, radio, SourceInv, TypeOK
<1>6. \/ UNCHANGED ipc_out
      \/ collects(queue, node, id) /\ ipc_out' = Append(ipc_out, x)
  BY DEF ReceiveFragment, SendToMessenger
<1>7. /\ node \in Node /\ id \in 0..255
      /\ \A p \in Stored(queue) : src(p) = Source[p.msg] /\ packet_id(p) = PacketId[p.msg]
  BY <1>1, PacketFields DEF src, packet_id
<1> HIDE DEF queue, node, id
<1>8. Stored(packet_queue') \subseteq Stored(packet_queue) \cup {arrived}
  BY <1>1, <1>2, ClearKeeps
<1>9. PacketsSent'
  BY <1>5, <1>8, SentPacketsMove DEF SourceInv
<1>10. CASE collects(queue, node, id) /\ ipc_out' = Append(ipc_out, x)
  <2>1. x.kind = "data" /\ x.source = node /\ x.data = data
    BY DEF DataMessage
  <2> HIDE DEF x
  <2>2. \A b \in DOMAIN data :
          \/ data[b] = Hole
          \/ \E p \in Stored(queue) :
               src(p) = node /\ packet_id(p) = id /\ data[b] = <<p.msg, b>>
    BY <1>1, <1>10, MergedBytes
  <2> HIDE DEF data
  <2>3. FromSource(x, id)
    BY <1>4, <1>7, <2>1, <2>2 DEF FromSource
  <2>4. x \in IpcMessage
    BY <1>5, <1>10 DEF TypeOK
  <2> QED
    BY <1>5, <1>7, <1>9, <1>10, <2>3, <2>4, SourceGrows DEF SourceInv
<1>11. CASE UNCHANGED ipc_out
  BY <1>5, <1>9, <1>11, SourceKept DEF SourceInv
<1> QED
  BY <1>6, <1>9, <1>10, <1>11

\* Every step keeps what is known of where packets and bytes are from.
LEMMA StepSource == SourceInv /\ [Next]_vars => SourceInv'
<1> SUFFICES ASSUME SourceInv, [Next]_vars PROVE SourceInv'
  OBVIOUS
<1>1. TypeOK' /\ TypeOK
  BY StepType DEF SourceInv
<1>2. CASE ReceiveFragment
  BY <1>1, <1>2, FragmentFromSource DEF SourceInv
<1>3. CASE ReceiveWhole
  <2>1. UNCHANGED <<sent, air, packet_queue>> /\ arrived' = NoPacket
    BY <1>3 DEF ReceiveWhole, radio
  <2>2. PacketsSent'
    BY <1>1, <2>1, SentPacketsMove DEF SourceInv
  <2> QED
    BY <1>1, <1>3, <2>2, WholeFromSource DEF SourceInv
<1>4. CASE StatusReport
  <2>1. UNCHANGED <<sent, air, packet_queue, arrived>>
    BY <1>4 DEF StatusReport, radio
  <2>2. PacketsSent'
    BY <1>1, <2>1, SentPacketsMove DEF SourceInv
  <2>3. ipc_out' = Append(ipc_out, StatusMessage) \/ UNCHANGED ipc_out
    BY <1>4 DEF StatusReport, SendToMessenger
  <2>4. StatusMessage \in IpcMessage /\ StatusMessage.kind # "data"
    BY <1>1, StatusMessageType DEF StatusMessage
  <2>5. ipc_out \in Seq(IpcMessage)
    BY <1>1 DEF TypeOK
  <2>6. BytesFromSource'
    BY <2>1, <2>3, <2>4, <2>5, SourceGrows, SourceKept DEF SourceInv
  <2> QED
    BY <1>1, <2>2, <2>6 DEF SourceInv
<1>5. CASE \E m \in Message : NodeSends(m)
  <2>1. PICK m \in Message : NodeSends(m)
    BY <1>5
  <2>2. /\ sent' = sent \cup {m} /\ air' = air \cup Fragments(m)
        /\ UNCHANGED <<packet_queue, arrived, ipc_out>>
    BY <2>1 DEF NodeSends, process
  <2>3. \A p \in Fragments(m) : p.msg = m
    BY DEF Fragments
  <2>4. PacketsSent'
    BY <2>2, <2>3 DEF SourceInv, PacketsSent
  <2> QED
    BY <1>1, <2>2, <2>4, SourceKept DEF SourceInv
<1>6. CASE \/ Setup \/ LoopHead \/ SelectRadio \/ SelectIpcOrTimeout \/ ReceiveIpcFails
           \/ ReceiveNodelist \/ ReceiveForwarded \/ ReceiveRadioFails
           \/ ReceiveRejected \/ NoStatusDue
           \/ \E p \in air : PacketLost(p)
           \/ \E packet \in IpcPacket : MessengerSends(packet)
           \/ MessengerReads \/ MessengerCloses \/ Interrupt \/ Tick \/ UNCHANGED vars
  <2>1. /\ UNCHANGED <<sent, packet_queue, ipc_out>> /\ air' \subseteq air
        /\ arrived' \in {arrived, NoPacket} \cup air
    BY <1>6 DEF Setup, LoopHead, SelectRadio, SelectIpcOrTimeout, ReceiveIpcFails,
       ReceiveNodelist, ReceiveForwarded, ReceiveRadioFails, ReceiveRejected, NoStatusDue,
       PacketLost, MessengerSends, MessengerReads, MessengerCloses, Interrupt, Tick, process, radio, vars
  <2>2. PacketsSent'
    BY <1>1, <2>1, SentPacketsMove DEF SourceInv
  <2> QED
    BY <1>1, <2>1, <2>2, SourceKept DEF SourceInv
<1> QED
  BY <1>2, <1>3, <1>4, <1>5, <1>6 DEF Next, Loop, Environment, Exited

\* Whatever happens to packets on the radio and in the queue, a message that leaves
\* for byteport-messenger has bytes of the node it names only, each at its place.
THEOREM BytesComeFromSource == Spec => []BytesFromSource
<1>1. Init => SourceInv
  BY InitSource
<1>2. SourceInv /\ [Next]_vars => SourceInv'
  BY StepSource
<1>3. SourceInv => BytesFromSource
  BY DEF SourceInv
<1> QED
  BY <1>1, <1>2, <1>3, PTL DEF Spec
=============================================================================
