----------------------------- MODULE Transceiver -----------------------------
(***************************************************************************)
(* The i8-transceiver process: the main loop of i8-transceiver.c, between  *)
(* the radio (or the UDP socket of the test mode) on one side and the Unix *)
(* socket to byteport-messenger on the other.                              *)
(*                                                                         *)
(* One turn of the loop waits in select, then handles at most one packet   *)
(* from byteport-messenger, then at most one packet from the radio, then   *)
(* sends a status report if one is due.  pc says which of these is next.   *)
(*                                                                         *)
(* The environment sends messages, loses, duplicates and reorders packets, *)
(* sends commands, closes the socket and interrupts the process, as far as *)
(* the constant Faults lets it.                                            *)
(***************************************************************************)
EXTENDS PacketQueue, NodeList, Sequences

CONSTANTS
    InitialWhitelist,  \* all free, or the test node's address in test mode
    StatusDelay,       \* STATUS_DELAY, 60 s
    NodelistCommands,  \* the lists byteport-messenger sends; the empty one clears
    ForwardsMessages,  \* whether it also forwards messages for nodes
    MessageFields,     \* entries of a list that take the room of source and time, 8
    Faults,            \* what the environment may do, see FaultKinds
    MaxClock,          \* bound: the clock stops there
    MaxCommands,       \* bound: packets that byteport-messenger sends
    OutCapacity        \* bound: packets that the socket to it holds

FaultKinds == {"loss", "duplicate", "reorder", "radio_error",
               "interrupt", "peer_close", "slow_peer"}

ASSUME TransceiverAssumption ==
    /\ NoNode \notin Node
    /\ InitialWhitelist \in NodeLists(Node)
    /\ Compact(InitialWhitelist)
    /\ StatusDelay \in Nat
    /\ NodelistCommands \subseteq Seq(Node)
    /\ \A list \in NodelistCommands : Len(list) <= MaxNodeList
    /\ ForwardsMessages \in BOOLEAN
    /\ MessageFields \in Nat
    /\ Faults \subseteq FaultKinds
    /\ MaxClock \in Nat \ {0}
    /\ MaxClock < EndOfTime
    /\ MaxCommands \in Nat
    /\ OutCapacity \in Nat \ {0}

VARIABLES
    \* the process
    pc,            \* where in the main loop
    running,
    whitelist,
    comlist,
    ipc_rx_buf,    \* what the list area of ipc_rx_buf holds since the last packets
    stats,
    packet_queue,
    next_status,
    \* its environment
    clock,         \* time(NULL)
    sent,          \* the messages the nodes have sent
    air,           \* their packets that have not arrived yet
    arrived,       \* the packet that select found in the radio's socket, or NoPacket
    ipc_in,        \* packets from byteport-messenger, not received yet
    ipc_open,      \* byteport-messenger has its end of the socket open
    commands,      \* how many packets it has sent
    ipc_read,      \* how many packets it has read, if it may be slow to read them
    ipc_out,       \* everything sent to byteport-messenger
    requested,     \* history: the nodes it has listed since it last cleared the list
    interrupted    \* history: SIGINT was handled

lists == <<whitelist, comlist, ipc_rx_buf, requested>>
radio == <<sent, air, interrupted>>
ipc == <<ipc_in, ipc_open, commands, ipc_read>>
vars == <<pc, running, lists, stats, packet_queue, next_status, clock, radio,
          arrived, ipc, ipc_out>>

NoPacket == [msg |-> -1, no |-> 0]
NoStats == [total |-> 0, rejected |-> 0]

Nodelist(list) == [id |-> "nodelist", list |-> list]
Forwarded == [id |-> "message", list |-> <<>>]
IpcPacket == {Nodelist(list) : list \in NodelistCommands} \cup
             (IF ForwardsMessages THEN {Forwarded} ELSE {})

DataMessage(node, data, time) ==
    [kind |-> "data", source |-> node, data |-> data, time |-> time]
StatusMessage ==
    [kind |-> "status", total |-> stats.total, rejected |-> stats.rejected,
     whitelisted |-> nodelist_count(whitelist), communicating |-> Listed(comlist),
     time |-> clock]

Init ==
    /\ pc = "setup"
    /\ running = TRUE
    /\ whitelist = InitialWhitelist
    /\ comlist = EmptyList
    /\ ipc_rx_buf = EmptyList
    /\ stats = NoStats
    /\ packet_queue = EmptyQueue
    /\ clock = 1
    /\ next_status = 0
    /\ sent = {}
    /\ air = {}
    /\ arrived = NoPacket
    /\ ipc_in = <<>>
    /\ ipc_open = TRUE
    /\ commands = 0
    /\ ipc_read = 0
    /\ ipc_out = <<>>
    /\ requested = Listed(InitialWhitelist)
    /\ interrupted = FALSE

-----------------------------------------------------------------------------
(* The main loop.                                                          *)

\* The sockets are set up, with SIGINT handled already; the loop is entered.
Setup ==
    /\ pc = "setup"
    /\ IF ipc_open
       THEN /\ next_status' = clock + StatusDelay
            /\ running' = TRUE
            /\ pc' = "loop"
       ELSE /\ pc' = "exit"
            /\ UNCHANGED <<next_status, running>>
    /\ UNCHANGED <<lists, stats, packet_queue, clock, radio, arrived, ipc, ipc_out>>

\* Variant for model checking: the loop does not look at running.
LoopHead_forever ==
    /\ pc = "loop"
    /\ pc' = "select"
    /\ UNCHANGED <<running, lists, stats, packet_queue, next_status, clock,
                   radio, arrived, ipc, ipc_out>>

\* while(running)
LoopHead ==
    /\ pc = "loop"
    /\ pc' = IF running THEN "select" ELSE "exit"
    /\ UNCHANGED <<running, lists, stats, packet_queue, next_status, clock,
                   radio, arrived, ipc, ipc_out>>

\* The end of the peer is readable as well: recv returns 0.
IpcReadable == ipc_in # <<>> \/ ~ipc_open

\* Packets of one node arrive in order, unless the environment reorders them.
MayArrive(p) == "reorder" \in Faults \/ ~\E q \in air : SentBefore(q, p)

\* select finds a packet on the radio's socket, and possibly one from ipc.
SelectRadio ==
    /\ pc = "select"
    /\ \E p \in air :
        /\ MayArrive(p)
        /\ arrived' = p
        /\ \/ air' = air \ {p}
           \/ "duplicate" \in Faults /\ air' = air
    /\ pc' = IF IpcReadable THEN "ipc" ELSE "ieee"
    /\ UNCHANGED <<running, lists, stats, packet_queue, next_status, clock,
                   sent, interrupted, ipc, ipc_out>>

\* select finds a packet from ipc only, or returns after a second with nothing.
SelectIpcOrTimeout ==
    /\ pc = "select"
    /\ pc' = IF IpcReadable THEN "ipc" ELSE "status"
    /\ UNCHANGED <<running, lists, stats, packet_queue, next_status, clock,
                   radio, arrived, ipc, ipc_out>>

AfterIpc == IF arrived = NoPacket THEN "status" ELSE "ieee"

\* recv finds the socket closed, or reset: the process leaves the loop at once.
ReceiveIpcFails ==
    /\ pc = "ipc"
    /\ ~ipc_open
    /\ running' = FALSE
    /\ pc' = "exit"
    /\ UNCHANGED <<lists, stats, packet_queue, next_status, clock, radio,
                   arrived, ipc, ipc_out>>

\* Variant for model checking: the count is taken for the last index.
Received_but_last(buffer, list) ==
    [i \in Entry |-> IF i \in 1..(Len(list) - 1) THEN list[i] ELSE buffer[i]]

\* The entries of a list overwrite as many entries of the static buffer; those
\* behind them keep what an earlier packet left there.
Received(buffer, list) ==
    [i \in Entry |-> IF i \in DOMAIN list THEN list[i] ELSE buffer[i]]

ReceiveNodelist ==
    /\ pc = "ipc"
    /\ ipc_in # <<>>
    /\ LET packet == Head(ipc_in)
           buffer == Received(ipc_rx_buf, packet.list)
       IN  /\ packet.id = "nodelist"
           /\ ipc_rx_buf' = buffer
           /\ whitelist' = IF packet.list = <<>> THEN EmptyList
                           ELSE nodelist_append(whitelist, buffer)
           /\ requested' = IF packet.list = <<>> THEN {}
                           ELSE requested \cup {packet.list[i] : i \in DOMAIN packet.list}
    /\ ipc_in' = Tail(ipc_in)
    /\ pc' = AfterIpc
    /\ UNCHANGED <<running, comlist, stats, packet_queue, next_status, clock,
                   radio, arrived, ipc_open, commands, ipc_read,
                   ipc_out>>

\* A message for a node is only logged, but it comes into the same buffer.  Of its
\* source, an address of 16 digits in a field of 64 bytes, the second half is the
\* first entry of the list area and zeros are the entries behind it, as its time of
\* 0 is; its length and its bytes follow, which may read as any addresses.
ReceiveForwarded ==
    /\ pc = "ipc"
    /\ ipc_in # <<>>
    /\ Head(ipc_in).id = "message"
    /\ ipc_rx_buf' \in NodeLists(Node)
    /\ \A i \in Entry : 1 < i /\ i <= MessageFields => ipc_rx_buf'[i] = NoNode
    /\ ipc_in' = Tail(ipc_in)
    /\ pc' = AfterIpc
    /\ UNCHANGED <<running, whitelist, comlist, requested, stats, packet_queue,
                   next_status, clock, radio, arrived, ipc_open, commands, ipc_read,
                   ipc_out>>

SocketFull == "slow_peer" \in Faults /\ Len(ipc_out) - ipc_read >= OutCapacity

\* ipc_message_to_bm, and what follows it.  A send to a full socket waits, and goes
\* on waiting after a SIGINT; one to a closed socket raises SIGPIPE, for which the
\* process has no handler.
SendToMessenger(message, next) ==
    IF ipc_open THEN /\ ~SocketFull
                     /\ ipc_out' = Append(ipc_out, message)
                     /\ pc' = next
                ELSE /\ pc' = "exit"
                     /\ UNCHANGED ipc_out

CountFragment(rejected) ==
    [total |-> stats.total + 1,
     rejected |-> IF rejected THEN stats.rejected + 1 ELSE stats.rejected]

\* recvfrom fails: the loop ends, after the status report.
ReceiveRadioFails ==
    /\ pc = "ieee"
    /\ "radio_error" \in Faults
    /\ running' = FALSE
    /\ arrived' = NoPacket
    /\ pc' = "status"
    /\ UNCHANGED <<lists, stats, packet_queue, next_status, clock, radio, ipc,
                   ipc_out>>

\* The source is not whitelisted: it is noted in comlist, the packet dropped.
ReceiveRejected ==
    /\ pc = "ieee"
    /\ ~nodelist_find(whitelist, src(arrived))
    /\ stats' = CountFragment(TRUE)
    /\ comlist' = nodelist_add(comlist, src(arrived))
    /\ arrived' = NoPacket
    /\ pc' = "status"
    /\ UNCHANGED <<running, whitelist, ipc_rx_buf, requested, packet_queue,
                   next_status, clock, radio, ipc, ipc_out>>

\* A packet that is a whole message is passed on with the time of day.
ReceiveWhole ==
    /\ pc = "ieee"
    /\ nodelist_find(whitelist, src(arrived))
    /\ ~Fragmented(arrived)
    /\ stats' = CountFragment(FALSE)
    /\ arrived' = NoPacket
    /\ LET data == [b \in 1..data_size(arrived) |-> <<arrived.msg, b>>]
       IN  SendToMessenger(DataMessage(src(arrived), data, clock), "status")
    /\ UNCHANGED <<running, lists, packet_queue, next_status, clock, radio, ipc>>

\* A fragment is queued; the last one, by its offset, has the message put
\* together and passed on if all its bytes were found.
ReceiveFragment ==
    /\ pc = "ieee"
    /\ nodelist_find(whitelist, src(arrived))
    /\ Fragmented(arrived)
    /\ stats' = CountFragment(FALSE)
    /\ arrived' = NoPacket
    /\ LET node  == src(arrived)
           id    == packet_id(arrived)
           queue == add_to_queue(packet_queue, arrived, clock)
           slots == Collected(queue, node, id)
       IN  /\ packet_queue' = IF IsLast(arrived) THEN after_collect(queue, node, id)
                                                 ELSE queue
           /\ IF IsLast(arrived) /\ collects(queue, node, id)
              THEN SendToMessenger(DataMessage(node, MergedData(queue, slots),
                                               CollectedTime(queue, slots)), "status")
              ELSE pc' = "status" /\ UNCHANGED ipc_out
    /\ UNCHANGED <<running, lists, next_status, clock, radio, ipc>>

\* Variant for model checking: the counters are not reset.
StatusReport_keeps_counting ==
    /\ pc = "status"
    /\ clock > next_status
    /\ next_status' = clock + StatusDelay
    /\ SendToMessenger(StatusMessage, "loop")
    /\ UNCHANGED <<running, lists, stats, packet_queue, clock, radio, arrived, ipc>>

\* The counters restart with every report.
StatusReport ==
    /\ pc = "status"
    /\ clock > next_status
    /\ next_status' = clock + StatusDelay
    /\ SendToMessenger(StatusMessage, "loop")
    /\ stats' = NoStats
    /\ UNCHANGED <<running, lists, packet_queue, clock, radio, arrived, ipc>>

NoStatusDue ==
    /\ pc = "status"
    /\ clock <= next_status
    /\ pc' = "loop"
    /\ UNCHANGED <<running, lists, stats, packet_queue, next_status, clock,
                   radio, arrived, ipc, ipc_out>>

Loop ==
    \/ Setup
    \/ LoopHead
    \/ SelectRadio
    \/ SelectIpcOrTimeout
    \/ ReceiveIpcFails
    \/ ReceiveNodelist
    \/ ReceiveForwarded
    \/ ReceiveRadioFails
    \/ ReceiveRejected
    \/ ReceiveWhole
    \/ ReceiveFragment
    \/ StatusReport
    \/ NoStatusDue

-----------------------------------------------------------------------------
(* The environment.                                                        *)

process == <<running, lists, stats, packet_queue, next_status, ipc_out>>

\* A node sends its next message, one packet after the other.  What it sends
\* before the socket is there is not counted.
NodeSends(m) ==
    /\ pc # "setup"
    /\ m \notin sent
    /\ \A k \in Message : Source[k] = Source[m] /\ k < m => k \in sent
    /\ sent' = sent \cup {m}
    /\ air' = air \cup Fragments(m)
    /\ UNCHANGED <<pc, process, clock, interrupted, arrived, ipc>>

PacketLost(p) ==
    /\ "loss" \in Faults
    /\ p \in air
    /\ air' = air \ {p}
    /\ UNCHANGED <<pc, process, clock, sent, interrupted, arrived, ipc>>

MessengerSends(packet) ==
    /\ ipc_open
    /\ commands < MaxCommands
    /\ commands' = commands + 1
    /\ ipc_in' = Append(ipc_in, packet)
    /\ UNCHANGED <<pc, process, clock, radio, arrived, ipc_open, ipc_read>>

MessengerReads ==
    /\ "slow_peer" \in Faults
    /\ ipc_read < Len(ipc_out)
    /\ ipc_read' = ipc_read + 1
    /\ UNCHANGED <<pc, process, clock, radio, arrived, ipc_in, ipc_open, commands>>

MessengerCloses ==
    /\ "peer_close" \in Faults
    /\ ipc_open
    /\ ipc_open' = FALSE
    /\ UNCHANGED <<pc, process, clock, radio, arrived, ipc_in, commands, ipc_read>>

\* SIGINT.  It makes a select that has started fail, and the loop start again.
Interrupt ==
    /\ "interrupt" \in Faults
    /\ pc # "exit"
    /\ running' = FALSE
    /\ interrupted' = TRUE
    /\ pc' \in IF pc = "select" THEN {"select", "loop"} ELSE {pc}
    /\ UNCHANGED <<lists, stats, packet_queue, next_status, ipc_out, clock,
                   sent, air, arrived, ipc>>

\* It is about to send, or may be, and must wait for the peer to read.
SendWaits == ipc_open /\ SocketFull /\ pc \in {"ieee", "status"}

\* A process that waits in send has asked for the time before.
Tick ==
    /\ clock < MaxClock
    /\ ~SendWaits
    /\ clock' = clock + 1
    /\ UNCHANGED <<pc, process, radio, arrived, ipc>>

Environment ==
    \/ \E m \in Message : NodeSends(m)
    \/ \E p \in air : PacketLost(p)
    \/ \E packet \in IpcPacket : MessengerSends(packet)
    \/ MessengerReads
    \/ MessengerCloses
    \/ Interrupt
    \/ Tick

\* The process has ended; nothing restarts it.
Exited == pc = "exit" /\ UNCHANGED vars

Next == Loop \/ Environment \/ Exited

Spec == Init /\ [][Next]_vars

\* The process is scheduled, and a packet in the air arrives in the end.  Nothing is
\* assumed of byteport-messenger, so a send to it may wait for ever.
FairSpec == Spec /\ WF_vars(Loop) /\ SF_vars(SelectRadio)

-----------------------------------------------------------------------------
(* Properties.                                                             *)

Byte == (Message \X Nat) \cup {Hole}
IpcMessage ==
    [kind : {"data"}, source : Node, data : Seq(Byte), time : Nat] \cup
    [kind : {"status"}, total : Nat, rejected : Nat, whitelisted : Nat,
     communicating : SUBSET Node, time : Nat]

\* Every variable keeps its type, and nothing waits in arrived except between
\* select and the handling of the radio.
TypeOK ==
    /\ pc \in {"setup", "loop", "select", "ipc", "ieee", "status", "exit"}
    /\ running \in BOOLEAN
    /\ interrupted \in BOOLEAN
    /\ whitelist \in NodeLists(Node)
    /\ comlist \in NodeLists(Node)
    /\ ipc_rx_buf \in NodeLists(Node)
    /\ requested \subseteq Node
    /\ stats \in [total : Nat, rejected : Nat]
    /\ packet_queue \in Queues
    /\ next_status \in Nat
    /\ clock \in 1..MaxClock
    /\ sent \subseteq Message
    /\ air \subseteq Packet
    /\ arrived \in Packet \cup {NoPacket}
    /\ pc \in {"setup", "loop", "select", "status"} => arrived = NoPacket
    /\ arrived = NoPacket => pc # "ieee"
    /\ ipc_in \in Seq(IpcPacket)
    /\ ipc_open \in BOOLEAN
    /\ commands \in 0..MaxCommands
    /\ ipc_read \in Nat
    /\ ipc_out \in Seq(IpcMessage)

\* What byteport-messenger gets for a message of a node.
Content == [m \in Message |-> [source |-> Source[m], data |-> Payload(m)]]
Report == [source |-> NoNode, data |-> <<>>]
Relayed ==
    [i \in 1..Len(ipc_out) |->
        IF ipc_out[i].kind = "data"
        THEN [source |-> ipc_out[i].source, data |-> ipc_out[i].data]
        ELSE Report]

Relays(message, m) ==
    message.kind = "data" /\ message.source = Source[m] /\ message.data = Payload(m)
IsRelayed(m) == \E i \in 1..Len(ipc_out) : Relays(ipc_out[i], m)

FirstFragment(m) == [msg |-> m, no |-> 0]

Lossy == INSTANCE LossyRelay WITH offered <- sent, relayed <- Relayed

\* The transceiver is a lossy relay: whatever packets get lost or overtake each
\* other and whatever the queue has to drop, each message that leaves for
\* byteport-messenger is one a node sent, byte for byte, and leaves only once.
\* It is so when the radio duplicates nothing and no node uses a packet_id twice.
RelaysLossily == Lossy!Spec

\* Every packet of a message sent is at one place at most, and a message that was
\* relayed left none of its bytes behind for collect_from_queue to find again
\* (its first packet stands for them).  This is what makes it a lossy relay.
OnePlace ==
    /\ \A p \in air \cup Stored(packet_queue) : p.msg \in sent
    /\ arrived # NoPacket => arrived.msg \in sent /\ arrived \notin air \cup Stored(packet_queue)
    /\ air \cap Stored(packet_queue) = {}
    /\ StoredOnce(packet_queue)
    /\ \A m \in Message : IsRelayed(m) =>
         /\ m \in sent
         /\ FirstFragment(m) \notin air \cup Stored(packet_queue) \cup {arrived}

\* A full queue never stays full: the fragment that finds no slot makes
\* clean_queue free some, so the queue cannot be blocked by messages whose last
\* fragments were lost.
FullQueueRecovers ==
    [][(ReceiveFragment /\ \A i \in Slot : ~IsFree(packet_queue, i))
        => \E i \in Slot : IsFree(packet_queue', i)]_vars

\* Fragments of one message leave the queue together: neither clean_queue nor
\* collect_from_queue leaves part of a message behind.  It is so when messages of
\* one node with one packet_id are of one size.
RemovedTogether ==
    [][\A i, j \in Slot :
        /\ ~IsFree(packet_queue, i) /\ IsFree(packet_queue', i)
        /\ ~IsFree(packet_queue, j) /\ ~IsFree(packet_queue', j)
        => \/ src(packet_queue[i].packet) # src(packet_queue[j].packet)
           \/ packet_id(packet_queue[i].packet) # packet_id(packet_queue[j].packet)]_vars

\* The messages of one node leave in the order in which it sent them, none left
\* out, even when packet_ids repeat: the radio loses and reorders nothing and
\* the queue has room.
RelaysInOrder ==
    \A i \in 1..Len(ipc_out) : \A m \in sent :
      Relays(ipc_out[i], m) =>
        \A k \in sent : Source[k] = Source[m] /\ k < m =>
          \E j \in 1..(i - 1) : Relays(ipc_out[j], k)

\* Under the same conditions the relay catches up with the nodes again and again:
\* no message sent stays behind for ever, unless the process is told to stop, or
\* waits for ever in send because byteport-messenger has ceased to read.
EverySentRelayed ==
    []<>(~running \/ \A m \in sent : IsRelayed(m)) \/ <>[]SendWaits

\* The counts in the status reports and the count since the last one add up to
\* the packets that arrived: none is counted twice or left out when a report
\* resets the counters.
Reports == {i \in 1..Len(ipc_out) : ipc_out[i].kind = "status"}
Counted == UNION {{<<i, j>> : j \in 1..ipc_out[i].total} : i \in Reports}
EveryArrivalCounted ==
    Cardinality(Counted) + stats.total
      = Cardinality(UNION {Fragments(m) : m \in sent}) - Cardinality(air)
        - (IF arrived = NoPacket THEN 0 ELSE 1)

\* SIGINT, a failing radio and a byteport-messenger that closes its end make the
\* process leave the loop, wherever in it they find it.  Only a send for which
\* byteport-messenger leaves no room keeps it, even from a SIGINT, and for as long as
\* that does not read.
Stops ==
    ((pc # "setup" /\ ~running) \/ ~ipc_open ~> pc = "exit") \/ <>[]SendWaits

\* A handled SIGINT stops the process.  (Not one that comes before the loop: the
\* assignment in front of it undoes what the handler did.)
InterruptStops == interrupted ~> pc = "exit"

\* No list has a free entry before a used one: nodelist_append and the whitelist
\* log count up to the first free entry, and would lose the nodes behind it.
ListsCompact == Compact(whitelist) /\ Compact(comlist)

\* comlist holds a node once, so the status report counts nodes, not packets.
ComlistDistinct == Distinct(comlist)

\* Every node that byteport-messenger added since it last cleared the whitelist is
\* in it, except when there is no entry left.
RequestedAreListed ==
    requested \subseteq Listed(whitelist) \/ PrefixLength(whitelist) = MaxNodeList

\* What a list command is for: only nodes that were added since the last clear
\* are whitelisted.
ListedAreRequested == Listed(whitelist) \subseteq requested

\* collect_from_queue assembles complete messages: no byte that is passed on is
\* one that no fragment brought.
CompleteMessages ==
    \A i \in 1..Len(ipc_out) :
      ipc_out[i].kind = "data" =>
        \A b \in DOMAIN ipc_out[i].data : ipc_out[i].data[b] # Hole

\* Nothing of another node gets into a message: it carries the address of the node
\* that sent all its bytes, each at the place the node gave it, in messages of one
\* packet_id.  It is so whatever packets the radio loses, duplicates or reorders,
\* and however often packet_ids repeat (which may mix messages of the same node).
FromSource(message, id) ==
    \A b \in DOMAIN message.data :
      \/ message.data[b] = Hole
      \/ \E m \in sent : /\ Source[m] = message.source /\ PacketId[m] = id
                        /\ message.data[b] = <<m, b>>
BytesFromSource ==
    \A i \in 1..Len(ipc_out) :
      ipc_out[i].kind = "data" => \E id \in 0..255 : FromSource(ipc_out[i], id)
=============================================================================
