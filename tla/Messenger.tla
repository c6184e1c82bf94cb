------------------------------ MODULE Messenger ------------------------------
(***************************************************************************)
(* byteport-messenger, the daemon mode of byteport-stomp-client.c: it      *)
(* serves one i8-transceiver at a time, opens two STOMP connections for    *)
(* it, one to write and one to subscribe, and forwards in both directions  *)
(* until one of the three connections fails; then it closes all of them    *)
(* and waits for the next transceiver.                                     *)
(*                                                                         *)
(* pc says where in start_server, and in what it calls, the process is.    *)
(* Only SIGINT, which sets gs_die, can come between two steps of it; the   *)
(* broker and the transceivers take steps of their own.                    *)
(***************************************************************************)
EXTENDS Naturals, Sequences

CONSTANTS
    I8Packet,      \* what the transceivers send, in order: [id, length]
    ReportLengths, \* the lengths of their status reports
    Command,       \* the bodies of the frames in the subscribed queue, in order
    Gateway,       \* gateway_id
    NoCmd,         \* stands for a body without a cmd field
    MaxFields,     \* ARRAY_LENGTH(data), 100
    StepSize,      \* step_size, 16
    MaxAddress,    \* the largest number that strtoll returns, 2^63 - 1
    MaxParts,      \* bound: frames made of a packet, packets made of a frame
    MaxSessions,   \* bound: transceivers that connect
    MaxOutages,    \* bound: failures of the broker or of a connection to it
    IpcCapacity    \* bound: packets in the socket of a transceiver

Session == 1..MaxSessions
Connection == {"write", "subscribe"}

\* A body has the values of its uid and data fields, and its cmd field.  A data
\* value is the list of numbers it is read as where a list is expected.
Bodies == [uid : Seq(Nat), data : Seq(Seq(Nat)),
           cmd : {NoCmd, "clear_whitelist", "add_to_whitelist", "other"}]

ASSUME MessengerAssumption ==
    /\ I8Packet \in Seq([id : {"message", "nodelist"}, length : Nat])
    /\ ReportLengths \subseteq Nat /\ ReportLengths # {}
    /\ Command \in Seq(Bodies)
    /\ Gateway \in Nat
    /\ NoCmd \notin {"clear_whitelist", "add_to_whitelist", "other"}
    /\ MaxFields \in Nat \ {0}
    /\ StepSize \in Nat \ {0}
    /\ MaxAddress \in Nat \ {0}
    /\ MaxParts \in Nat \ {0}
    /\ MaxSessions \in Nat
    /\ MaxOutages \in Nat
    /\ IpcCapacity \in Nat \ {0}
    /\ \A k \in 1..Len(I8Packet) :
         I8Packet[k].id = "nodelist" => I8Packet[k].length <= MaxParts * StepSize
    /\ \A k \in 1..Len(Command) : Len(Command[k].uid) <= MaxParts

VARIABLES
    \* the process
    pc,
    gs_die,
    current,       \* the session that is served, or 0
    conn,          \* write_connection and subscribe_connection
    ready,         \* the set that select returned
    input_data,    \* the data area of input_buffer, up to the last byte received
    frames,        \* what receive_from_i8 has yet to write
    packets,       \* what receive_from_server has yet to send
    \* its environment
    broker_up,
    outages,
    subscribe_in,  \* frames that the broker has sent and the process has not read
    peer,          \* the transceivers' ends of their sockets
    served,        \* how many of them were accepted
    i8_in,         \* packets that they have sent and the process has not read
    \* history
    sent,          \* sent[k] is the session in which I8Packet[k] was sent
    pushed,        \* pushed[k] is the session in which the broker sent Command[k]
    published,     \* frames written to a connection that was open
    forwarded      \* packets sent to a transceiver

session == <<current, served>>
buffers == <<input_data, frames, packets>>
broker == <<broker_up, outages>>
peers == <<peer, i8_in, sent>>
outside == <<broker, peers, subscribe_in, pushed>>
output == <<published, forwarded>>
vars == <<pc, gs_die, session, conn, ready, buffers, outside, output>>

-----------------------------------------------------------------------------
(* What is made of a packet and of a frame.                                *)

Report == 0
Stale == 0
EndOfText == Len(I8Packet) + 1
PacketLength(k) == I8Packet[k].length
IsList(k) == k # Report /\ I8Packet[k].id = "nodelist"

\* What a packet brings into the data area.  A message of a node ends with the zero
\* that the node sends with it, the text of a status report does not; a list gets
\* there with its ninth entry.
Lengths(k) == IF k = Report THEN ReportLengths ELSE {PacketLength(k)}
Brought(k, n) ==
    IF IsList(k) THEN [i \in 1..(IF n > 8 THEN n - 8 ELSE 0) |-> k]
    ELSE IF k = Report THEN [i \in 1..n |-> k]
    ELSE Append([i \in 1..n |-> k], EndOfText)

\* It is received over what the buffer held before.
Overwrite(data, bytes) ==
    [i \in 1..(IF Len(bytes) > Len(data) THEN Len(bytes) ELSE Len(data)) |->
       IF i <= Len(bytes) THEN bytes[i] ELSE data[i]]

\* The data is printed up to the first zero.  Behind what was received are zeros.
IsText(data, n) ==
    /\ \A i \in 1..n : data[i] # EndOfText
    /\ n < Len(data) => data[n + 1] = EndOfText
Printed(data) == SubSeq(data, 1, CHOOSE n \in 0..Len(data) : IsText(data, n))

\* Variant for model checking: the outer loop runs up to and with list_len.
ListFrameCount_up_to(n) == n \div StepSize + 1

ListFrameCount(n) == (n + StepSize - 1) \div StepSize

\* Every frame of a list has step_size entries: the inner loop compares i, which
\* it does not change, with list_len.
ListFrames(k) ==
    LET n == PacketLength(k)
    IN [p \in 1..ListFrameCount(n) |->
          [packet |-> k, part |-> p,
           text |-> [j \in 1..StepSize |->
                       IF (p - 1) * StepSize + j <= n THEN k ELSE Stale]]]

FramesFor(k, text) ==
    IF IsList(k) THEN ListFrames(k)
    ELSE <<[packet |-> k, part |-> 1, text |-> text]>>

Fields(values) ==
    SubSeq(values, 1, IF Len(values) > MaxFields THEN MaxFields ELSE Len(values))

\* strtoll: a number that is too large becomes the largest one.
Saturated(number) == IF number > MaxAddress THEN MaxAddress ELSE number

\* A list with an entry that is no number, or 0, is ignored as a whole.
send_whitelist(k, list) ==
    IF \E i \in 1..Len(list) : list[i] = 0 THEN <<>>
    ELSE <<[command |-> k, part |-> 1, id |-> "nodelist", to |-> Gateway,
            content |-> [i \in 1..Len(list) |-> Saturated(list[i])]]>>

\* Variant for model checking: the loop over the fields runs downwards.
MessagePackets_backwards(k, uid, data) ==
    [i \in 1..Len(uid) |->
       [command |-> k, part |-> Len(uid) + 1 - i, id |-> "message",
        to |-> uid[Len(uid) + 1 - i], content |-> data[Len(uid) + 1 - i]]]

MessagePackets(k, uid, data) ==
    [i \in 1..Len(uid) |->
       [command |-> k, part |-> i, id |-> "message", to |-> uid[i],
        content |-> data[i]]]

\* A command that is not known is treated like a message for a node.
PacketsFor(k) ==
    LET uid == Fields(Command[k].uid)
        data == Fields(Command[k].data)
        cmd == Command[k].cmd
        toGateway == Len(uid) > 0 /\ uid[1] = Gateway
    IN IF Len(uid) = 0 \/ (toGateway /\ (Len(uid) # 1 \/ cmd = NoCmd)) THEN <<>>
       ELSE IF toGateway /\ cmd = "clear_whitelist" THEN send_whitelist(k, <<>>)
       ELSE IF Len(data) # Len(uid) THEN <<>>
       ELSE IF toGateway /\ cmd = "add_to_whitelist" THEN send_whitelist(k, data[1])
       ELSE MessagePackets(k, uid, data)

Init ==
    /\ pc = "head"
    /\ gs_die = FALSE
    /\ current = 0
    /\ conn = [c \in Connection |-> "none"]
    /\ ready = {}
    /\ input_data = <<>>
    /\ frames = <<>>
    /\ packets = <<>>
    /\ broker_up = TRUE
    /\ outages = 0
    /\ subscribe_in = <<>>
    /\ peer = [s \in Session |-> "absent"]
    /\ served = 0
    /\ i8_in = [s \in Session |-> <<>>]
    /\ sent = <<>>
    /\ pushed = <<>>
    /\ published = <<>>
    /\ forwarded = <<>>

-----------------------------------------------------------------------------
(* The process: start_server.                                              *)

\* The outer loop looks at gs_die, then uninstalls the signal handler.
OuterLoop ==
    /\ pc = "head"
    /\ pc' = IF gs_die THEN "exit" ELSE "uninstall"
    /\ UNCHANGED <<gs_die, session, conn, ready, buffers, outside, output>>

Uninstall ==
    /\ pc = "uninstall"
    /\ pc' = "accept"
    /\ UNCHANGED <<gs_die, session, conn, ready, buffers, outside, output>>

\* A transceiver is accepted, which may have closed its end already.
Accept ==
    /\ pc = "accept"
    /\ served < MaxSessions
    /\ peer[served + 1] # "absent"
    /\ served' = served + 1
    /\ current' = served + 1
    /\ pc' = "connect write"
    /\ UNCHANGED <<gs_die, conn, ready, buffers, outside, output>>

Connecting == [write |-> "connect write", subscribe |-> "connect subscribe"]
LoggingIn == [write |-> "login write", subscribe |-> "login subscribe"]
AfterLogin == [write |-> "connect subscribe", subscribe |-> "subscribe"]

\* bm_connect: tried again, every 10 seconds, until the broker accepts.
Connect(c) ==
    /\ pc = Connecting[c]
    /\ broker_up
    /\ conn' = [conn EXCEPT ![c] = "open"]
    /\ pc' = LoggingIn[c]
    /\ UNCHANGED <<gs_die, session, ready, buffers, outside, output>>

\* CONNECT is written and the answer read.  A connection that fails meanwhile is
\* disconnected, and bm_connect starts again.
Login(c) ==
    /\ pc = LoggingIn[c]
    /\ \/ /\ conn[c] = "open"
          /\ pc' = AfterLogin[c]
          /\ UNCHANGED conn
       \/ /\ conn[c] = "broken"
          /\ conn' = [conn EXCEPT ![c] = "none"]
          /\ pc' = Connecting[c]
       \/ /\ conn[c] = "broken"       \* SIGPIPE
          /\ pc' = "exit"
          /\ UNCHANGED conn
    /\ UNCHANGED <<gs_die, session, ready, buffers, outside, output>>

\* stomp_write on a connection the broker has closed: the first bytes are lost
\* without an error, later ones get an error, and with it the signal SIGPIPE.
Outcomes == {"sent", "lost", "error", "SIGPIPE"}
WriteMeets(c, outcome) ==
    \/ conn[c] = "open" /\ outcome = "sent"
    \/ conn[c] = "broken" /\ outcome \in {"lost", "error", "SIGPIPE"}

Subscribe ==
    /\ pc = "subscribe"
    /\ \E outcome \in Outcomes :
         /\ WriteMeets("subscribe", outcome)
         /\ pc' = CASE outcome \in {"sent", "lost"} -> "check"
                    [] outcome = "error" -> "disconnect"
                    [] outcome = "SIGPIPE" -> "exit"
    /\ UNCHANGED <<gs_die, session, conn, ready, buffers, outside, output>>

\* Variant for model checking: the inner loop does not look at gs_die.
InnerLoop_forever ==
    /\ pc = "check"
    /\ pc' = "select"
    /\ UNCHANGED <<gs_die, session, conn, ready, buffers, outside, output>>

\* The inner loop looks at gs_die.
InnerLoop ==
    /\ pc = "check"
    /\ pc' = IF gs_die THEN "disconnect" ELSE "select"
    /\ UNCHANGED <<gs_die, session, conn, ready, buffers, outside, output>>

\* Variant for model checking: select is asked about the broker's socket only.
Readable_server_only ==
    {x \in {"server"} : subscribe_in # <<>> \/ conn["subscribe"] = "broken"}

\* select has no timeout.  A socket that was closed is readable too.
Readable ==
    {x \in {"server", "i8"} :
       \/ x = "server" /\ (subscribe_in # <<>> \/ conn["subscribe"] = "broken")
       \/ x = "i8" /\ (i8_in[current] # <<>> \/ peer[current] = "closed")}
AfterServer(set) == IF "i8" \in set THEN "i8" ELSE "check"
Select ==
    /\ pc = "select"
    /\ Readable # {}
    /\ ready' = Readable
    /\ pc' = IF "server" \in Readable THEN "server" ELSE "i8"
    /\ UNCHANGED <<gs_die, session, conn, buffers, outside, output>>

\* Variant for model checking: what was received behind the frame is dropped.
ReceiveFromServer_drops_rest ==
    /\ pc = "server"
    /\ IF subscribe_in = <<>>
       THEN /\ pc' = "disconnect"
            /\ UNCHANGED packets
       ELSE /\ packets' = PacketsFor(Head(subscribe_in))
            /\ pc' = "forward"
    /\ subscribe_in' = <<>>
    /\ UNCHANGED <<gs_die, session, conn, ready, input_data, frames, broker, peers,
                   pushed, output>>

\* receive_from_server: a frame is read and taken apart.
ReceiveFromServer ==
    /\ pc = "server"
    /\ IF subscribe_in = <<>>
       THEN /\ pc' = "disconnect"
            /\ UNCHANGED <<subscribe_in, packets>>
       ELSE /\ packets' = PacketsFor(Head(subscribe_in))
            /\ subscribe_in' = Tail(subscribe_in)
            /\ pc' = "forward"
    /\ UNCHANGED <<gs_die, session, conn, ready, input_data, frames, broker,
                   peers, pushed, output>>

\* One packet after the other is sent.  The transceiver may have closed its end:
\* then a list gets an error, and a message, sent without MSG_NOSIGNAL, SIGPIPE.
Forward ==
    /\ pc = "forward"
    /\ \/ /\ packets = <<>>
          /\ pc' = AfterServer(ready)
          /\ UNCHANGED <<packets, forwarded>>
       \/ /\ packets # <<>>
          /\ peer[current] = "open"
          /\ forwarded' = Append(forwarded, Head(packets))
          /\ packets' = Tail(packets)
          /\ UNCHANGED pc
       \/ /\ packets # <<>>
          /\ peer[current] = "closed"
          /\ pc' = IF Head(packets).id = "nodelist" THEN "disconnect" ELSE "exit"
          /\ UNCHANGED <<packets, forwarded>>
    /\ UNCHANGED <<gs_die, session, conn, ready, input_data, frames, outside,
                   published>>

\* Variant for model checking: reading nothing is not taken for the end.
ReceiveFromI8_misses_end ==
    /\ pc = "i8"
    /\ IF i8_in[current] = <<>>
       THEN /\ pc' = "check"
            /\ UNCHANGED <<input_data, frames, i8_in>>
       ELSE LET k == Head(i8_in[current])
            IN /\ \E n \in Lengths(k) : input_data' = Overwrite(input_data, Brought(k, n))
               /\ frames' = FramesFor(k, Printed(input_data'))
               /\ i8_in' = [i8_in EXCEPT ![current] = Tail(@)]
               /\ pc' = "publish"
    /\ UNCHANGED <<gs_die, session, conn, ready, packets, broker, peer, sent,
                   subscribe_in, pushed, output>>

\* receive_from_i8: a packet is read, and made into frames.
ReceiveFromI8 ==
    /\ pc = "i8"
    /\ IF i8_in[current] = <<>>
       THEN /\ pc' = "disconnect"
            /\ UNCHANGED <<input_data, frames, i8_in>>
       ELSE LET k == Head(i8_in[current])
            IN /\ \E n \in Lengths(k) : input_data' = Overwrite(input_data, Brought(k, n))
               /\ frames' = FramesFor(k, Printed(input_data'))
               /\ i8_in' = [i8_in EXCEPT ![current] = Tail(@)]
               /\ pc' = "publish"
    /\ UNCHANGED <<gs_die, session, conn, ready, packets, broker, peer, sent,
                   subscribe_in, pushed, output>>

\* Variants for model checking: the loop over the list does not advance; it ends
\* with the first frame.
Unwritten_all(outcome) == frames
Unwritten_none(outcome) ==
    IF outcome \in {"sent", "lost"} THEN <<>> ELSE frames

Unwritten(outcome) ==
    IF outcome \in {"sent", "lost"} THEN Tail(frames) ELSE frames

\* The frames are written.  Those of status reports are not recorded.
Publish ==
    /\ pc = "publish"
    /\ \/ /\ frames = <<>>
          /\ pc' = "check"
          /\ UNCHANGED <<frames, published>>
       \/ /\ frames # <<>>
          /\ \E outcome \in Outcomes :
               /\ WriteMeets("write", outcome)
               /\ pc' = CASE outcome \in {"sent", "lost"} -> "publish"
                          [] outcome = "error" -> "disconnect"
                          [] outcome = "SIGPIPE" -> "exit"
               /\ frames' = Unwritten(outcome)
               /\ published' = IF outcome = "sent" /\ Head(frames).packet # Report
                               THEN Append(published, Head(frames)) ELSE published
    /\ UNCHANGED <<gs_die, session, conn, ready, input_data, packets, outside,
                   forwarded>>

\* Variant for model checking: the subscription is left open.
Disconnect_keeps_subscription ==
    /\ pc = "disconnect"
    /\ current' = 0
    /\ conn' = [conn EXCEPT !["write"] = "none"]
    /\ subscribe_in' = subscribe_in
    /\ frames' = <<>>
    /\ packets' = <<>>
    /\ ready' = {}
    /\ pc' = "head"
    /\ UNCHANGED <<gs_die, served, input_data, broker, peers, pushed, output>>

\* All three connections are closed, whatever was on its way.
Disconnect ==
    /\ pc = "disconnect"
    /\ current' = 0
    /\ conn' = [c \in Connection |-> "none"]
    /\ subscribe_in' = <<>>
    /\ frames' = <<>>
    /\ packets' = <<>>
    /\ ready' = {}
    /\ pc' = "head"
    /\ UNCHANGED <<gs_die, served, input_data, broker, peers, pushed, output>>

Process ==
    \/ OuterLoop \/ Uninstall \/ Accept \/ Subscribe \/ InnerLoop \/ Select
    \/ ReceiveFromServer \/ Forward \/ ReceiveFromI8 \/ Publish \/ Disconnect
    \/ \E c \in Connection : Connect(c) \/ Login(c)

-----------------------------------------------------------------------------
(* The environment.                                                        *)

\* SIGINT.  With the handler uninstalled it ends the process; a select that is
\* waiting returns, one that is not yet waiting does not.
Interrupt ==
    /\ \/ /\ pc = "accept"
          /\ pc' = "exit"
          /\ UNCHANGED gs_die
       \/ /\ pc \notin {"accept", "exit"}
          /\ ~gs_die
          /\ gs_die' = TRUE
          /\ pc' \in IF pc = "select" /\ Readable = {} THEN {"select", "check"} ELSE {pc}
    /\ UNCHANGED <<session, conn, ready, buffers, outside, output>>

\* The broker stops, and with it its connections, or one connection fails.  What
\* it has sent before may be discarded.
Breaks(cs) ==
    /\ outages < MaxOutages
    /\ outages' = outages + 1
    /\ conn' = [c \in Connection |->
                  IF c \in cs /\ conn[c] = "open" THEN "broken" ELSE conn[c]]
    /\ subscribe_in' \in IF conn'["subscribe"] = "broken" THEN {subscribe_in, <<>>}
                         ELSE {subscribe_in}
    /\ UNCHANGED <<pc, gs_die, session, ready, buffers, peers, pushed, output>>
BrokerStops == broker_up /\ broker_up' = FALSE /\ Breaks(Connection)
ConnectionFails(c) == conn[c] = "open" /\ Breaks({c}) /\ UNCHANGED broker_up
BrokerStarts ==
    /\ ~broker_up
    /\ broker_up' = TRUE
    /\ UNCHANGED <<pc, gs_die, session, conn, ready, buffers, outages, peers,
                   subscribe_in, pushed, output>>

\* The broker sends the next frame of the queue to its subscriber.
Subscribed ==
    pc \in {"check", "select", "server", "forward", "i8", "publish", "disconnect"}
BrokerSends ==
    /\ Subscribed
    /\ conn["subscribe"] = "open"
    /\ Len(pushed) < Len(Command)
    /\ pushed' = Append(pushed, current)
    /\ subscribe_in' = Append(subscribe_in, Len(pushed) + 1)
    /\ UNCHANGED <<pc, gs_die, session, conn, ready, buffers, broker, peers,
                   output>>

\* A transceiver starts when the one before has ended.  It connects without
\* waiting for accept, and may send at once.
PeerStarts(s) ==
    /\ pc # "exit"
    /\ peer[s] = "absent"
    /\ s > 1 => peer[s - 1] = "closed"
    /\ peer' = [peer EXCEPT ![s] = "open"]
    /\ UNCHANGED <<pc, gs_die, session, conn, ready, buffers, broker, i8_in,
                   sent, subscribe_in, pushed, output>>

PeerEnds(s) ==
    /\ peer[s] = "open"
    /\ peer' = [peer EXCEPT ![s] = "closed"]
    /\ UNCHANGED <<pc, gs_die, session, conn, ready, buffers, broker, i8_in,
                   sent, subscribe_in, pushed, output>>

\* Its end is open, and so is the end of the process, or will be accepted.
CanSend(s) ==
    /\ pc # "exit"
    /\ peer[s] = "open"
    /\ s = current \/ s > served
    /\ Len(i8_in[s]) < IpcCapacity

PeerSends(s) ==
    /\ CanSend(s)
    /\ Len(sent) < Len(I8Packet)
    /\ sent' = Append(sent, s)
    /\ i8_in' = [i8_in EXCEPT ![s] = Append(@, Len(sent) + 1)]
    /\ UNCHANGED <<pc, gs_die, session, conn, ready, buffers, broker, peer,
                   subscribe_in, pushed, output>>

\* A status report, which it sends every minute.
PeerReports(s) ==
    /\ CanSend(s)
    /\ i8_in' = [i8_in EXCEPT ![s] = Append(@, Report)]
    /\ UNCHANGED <<pc, gs_die, session, conn, ready, buffers, broker, peer,
                   sent, subscribe_in, pushed, output>>

Environment ==
    \/ Interrupt \/ BrokerStops \/ BrokerStarts \/ BrokerSends
    \/ \E c \in Connection : ConnectionFails(c)
    \/ \E s \in Session : PeerStarts(s) \/ PeerEnds(s) \/ PeerSends(s) \/ PeerReports(s)

Exited == pc = "exit" /\ UNCHANGED vars

Next == Process \/ Environment \/ Exited

Spec == Init /\ [][Next]_vars

\* The process runs; a broker that is down comes up again; a transceiver that
\* runs reports every minute.
FairSpec ==
    /\ Spec
    /\ WF_vars(Process)
    /\ WF_vars(BrokerStarts)
    /\ \A s \in Session : WF_vars(PeerReports(s))

-----------------------------------------------------------------------------
(* Properties.                                                             *)

Places == {"head", "uninstall", "accept", "connect write", "login write",
           "connect subscribe", "login subscribe", "subscribe", "exit"}
          \cup {"check", "select", "server", "forward", "i8", "publish", "disconnect"}
Frame == [packet : 0..Len(I8Packet), part : 1..MaxParts, text : Seq(0..Len(I8Packet))]
Packet == [command : 1..Len(Command), part : 1..MaxParts,
           id : {"message", "nodelist"}, to : Nat, content : Seq(Nat)]

TypeOK ==
    /\ pc \in Places
    /\ gs_die \in BOOLEAN
    /\ served \in 0..MaxSessions
    /\ current \in {0, served}
    /\ conn \in [Connection -> {"none", "open", "broken"}]
    /\ ready \subseteq {"server", "i8"}
    /\ input_data \in Seq(0..EndOfText)
    /\ frames \in Seq(Frame)
    /\ packets \in Seq(Packet)
    /\ broker_up \in BOOLEAN
    /\ outages \in 0..MaxOutages
    /\ subscribe_in \in Seq(1..Len(Command))
    /\ peer \in [Session -> {"absent", "open", "closed"}]
    /\ i8_in \in [Session -> Seq(0..Len(I8Packet))]
    /\ sent \in Seq(Session) /\ Len(sent) <= Len(I8Packet)
    /\ pushed \in Seq(Session) /\ Len(pushed) <= Len(Command)
    /\ published \in Seq(Frame)
    /\ forwarded \in Seq(Packet)

\* Number of a part of packet or command k, in the order in which they are made.
Item(k, part) == (k - 1) * MaxParts + part

\* In both directions the daemon keeps order and repeats nothing, across broken
\* connections and new sessions: nothing that was taken out of a socket is sent
\* again after a failure.
Up == INSTANCE OrderedRelay WITH
        offered <- Len(sent) * MaxParts,
        delivered <- [i \in 1..Len(published) |->
                        Item(published[i].packet, published[i].part)]
Down == INSTANCE OrderedRelay WITH
          offered <- Len(pushed) * MaxParts,
          delivered <- [i \in 1..Len(forwarded) |->
                          Item(forwarded[i].command, forwarded[i].part)]
PublishesInOrder == Up!Spec
ForwardsInOrder == Down!Spec

Among(x, seq) == \E i \in 1..Len(seq) : seq[i] = x

\* While no connection to the broker is broken, every packet that the served
\* transceiver sent is still in its socket, or all of its frames were written or
\* are about to be: none is lost in between.
PacketsAccounted ==
    (current # 0 /\ \A c \in Connection : conn[c] # "broken") =>
      \A k \in 1..Len(sent) : sent[k] = current =>
        \/ Among(k, i8_in[current])
        \/ \A f \in {FramesFor(k, <<>>)[p] : p \in 1..Len(FramesFor(k, <<>>))} :
             \E g \in {frames[i] : i \in 1..Len(frames)}
                        \cup {published[i] : i \in 1..Len(published)} :
               g.packet = k /\ g.part = f.part

\* While the subscription holds, every frame that the broker sent in this session
\* is unread, or all packets made of it were sent or are about to be.
CommandsAccounted ==
    (current # 0 /\ conn["subscribe"] # "broken") =>
      \A k \in 1..Len(pushed) : pushed[k] = current =>
        \/ Among(k, subscribe_in)
        \/ \A i \in 1..Len(PacketsFor(k)) :
             Among(PacketsFor(k)[i], packets \o forwarded)

\* Sessions do not mix: what the broker sent to one transceiver's session is never
\* forwarded to another one, and what a transceiver sent is published in its own
\* session or not at all, however a session ends and whatever was on its way then.
SessionsSeparate ==
    [][/\ forwarded' # forwarded =>
            pushed[forwarded'[Len(forwarded')].command] = current
       /\ published' # published =>
            sent[published'[Len(published')].packet] = current]_vars

\* SIGINT ends the process, or leaves it where a second one does: waiting for a
\* transceiver.  In the inner loop this takes a packet that wakes select, in
\* bm_connect a broker that answers, and in a send a transceiver that reads: here it
\* always does, and Gateway has the case in which it does not.  (gs_die is never
\* taken back.)
Stops == []<>(gs_die => pc \in {"exit", "accept"})

\* No transceiver waits for ever to be accepted, or then for the daemon to be
\* connected to the broker, whatever happened to the session before.
Waits(s) ==
    /\ peer[s] = "open" /\ pc # "exit"
    /\ \/ served < s
       \/ /\ current = s
          /\ pc \in {"connect write", "login write", "connect subscribe",
                    "login subscribe", "subscribe"}
WaitingIsServed == \A s \in Session : []<>~Waits(s)

\* A connection that fails is reported to the loop, which ends the session; the
\* daemon itself ends only when it is told to.
EndsOnlyWhenTold == [][pc \notin {"accept", "exit"} /\ pc' = "exit" => gs_die]_vars

\* What is published of a status report is its own text.
ReportsIntact ==
    \A i \in 1..Len(frames) : frames[i].packet = Report =>
      \A j \in 1..Len(frames[i].text) : frames[i].text[j] = Report
=============================================================================
