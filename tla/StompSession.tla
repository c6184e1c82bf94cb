----------------------------- MODULE StompSession -----------------------------
(***************************************************************************)
(* A process of byteport-stomp-client and a broker at the two ends of one  *)
(* STOMP connection, byte by byte: stomp_connect, the login of bm_connect, *)
(* stomp_write, stomp_read and stomp_disconnect.                           *)
(*                                                                         *)
(* The process sends messages and ends (send_message; each process that    *)
(* start_bombing forks), or subscribes and reads what comes (the           *)
(* subscription of the daemon).  Sockets hold SocketSize bytes, deliver    *)
(* them in parts of any size, and may break at any time.                   *)
(***************************************************************************)
EXTENDS StompFrame

CONSTANTS
    Modes,            \* of "message", "bomber" and "subscriber"
    ConnectFrame,
    SendFrames,       \* what start_bombing sends; send_message sends the first
    SubscribeFrame,
    ConnectedFrame,   \* the answers of the broker to a login
    ErrorFrame,
    MessageFrames,    \* what the broker sends to a subscriber
    BrokerEnd,        \* what it writes behind the body of a frame
    SocketSize,       \* bound: bytes in a socket
    MaxBreaks         \* bound: connections that break or are refused

ASSUME StompSessionAssumption ==
    /\ Modes \subseteq {"message", "bomber", "subscriber"}
    /\ {ConnectFrame, SubscribeFrame, ConnectedFrame, ErrorFrame} \subseteq Frame
    /\ SendFrames \in Seq(Frame) /\ SendFrames # <<>>
    /\ MessageFrames \in Seq(Frame)
    /\ BrokerEnd \in {<<Zero>>, <<Zero, NewLine>>}
    /\ SocketSize \in Nat \ {0}
    /\ MaxBreaks \in Nat

VARIABLES
    \* the process
    mode,
    pc,
    done,           \* frames of its program that it has begun to write
    unsent,         \* the buffers that stomp_write has yet to write
    reader,         \* stomp_read
    \* the connection
    link,
    up,             \* bytes to the broker
    down,           \* bytes to the process
    breaks,
    \* the broker
    broker_reader,
    answer,         \* bytes that it has yet to write
    subscribed,
    refused,        \* it has refused the login
    offered,        \* frames that it has sent to the subscriber
    \* history, of this connection
    written_up, read_up, written_down, read_down

process == <<mode, pc, done, unsent, reader>>
broker == <<broker_reader, answer, subscribed, refused, offered>>
history == <<written_up, read_up, written_down, read_down>>
vars == <<process, link, up, down, breaks, broker, history>>

Program ==
    CASE mode = "message" -> <<SendFrames[1]>>
      [] mode = "bomber" -> SendFrames
      [] mode = "subscriber" -> <<SubscribeFrame>>

Init ==
    /\ mode \in Modes
    /\ pc = "connect"
    /\ done = 0
    /\ unsent = <<>>
    /\ reader = Start
    /\ link = "none"
    /\ up = <<>>
    /\ down = <<>>
    /\ breaks = 0
    /\ broker_reader = Start
    /\ answer = <<>>
    /\ subscribed = FALSE
    /\ refused = FALSE
    /\ offered = 0
    /\ written_up = <<>>
    /\ read_up = <<>>
    /\ written_down = <<>>
    /\ read_down = <<>>

-----------------------------------------------------------------------------
(* The process.                                                            *)

Connect ==
    /\ pc = "connect"
    /\ link' = "open"
    /\ pc' = "login"
    /\ UNCHANGED <<mode, done, unsent, reader, up, down, breaks, broker, history>>

Begin(frame) ==
    /\ unsent' = Pieces(frame, WriterEnd)
    /\ written_up' = Append(written_up, FrameMeant(frame))

Login ==
    /\ pc = "login"
    /\ Begin(ConnectFrame)
    /\ pc' = "write login"
    /\ UNCHANGED <<mode, done, reader, link, up, down, breaks, broker, read_up,
                   written_down, read_down>>

\* The next frame of the program; then the subscriber waits, and the others
\* disconnect.
NextFrame ==
    /\ pc = "ready"
    /\ IF done < Len(Program)
       THEN /\ Begin(Program[done + 1])
            /\ done' = done + 1
            /\ pc' = "write"
       ELSE /\ pc' = IF mode = "subscriber" THEN "select" ELSE "close"
            /\ UNCHANGED <<done, unsent, written_up>>
    /\ UNCHANGED <<mode, reader, link, up, down, breaks, broker, read_up,
                   written_down, read_down>>

\* Variant for model checking: the answer to the login is not awaited.
AfterWrite_no_answer == "ready"

AfterWrite == IF pc = "write login" THEN "read login" ELSE "ready"
Writing == pc \in {"write login", "write"}

\* Variants for model checking: what a send has left over is not sent; a buffer of
\* which nothing is left is not taken away.
Advance_whole(pieces, n) == Tail(pieces)
Advance_keeps_empty(pieces, n) ==
    <<SubSeq(Head(pieces), n + 1, Len(Head(pieces)))>> \o Tail(pieces)

\* n bytes of the first buffer were sent.
Advance(pieces, n) ==
    IF n = Len(Head(pieces)) THEN Tail(pieces)
    ELSE <<SubSeq(Head(pieces), n + 1, Len(Head(pieces)))>> \o Tail(pieces)

\* stomp_write_buffer: a send takes as many bytes as the socket has room for.
WriteBuffer ==
    /\ Writing
    /\ link = "open"
    /\ \E n \in 1..Len(Head(unsent)) :
         /\ Len(up) + n <= SocketSize
         /\ up' = up \o SubSeq(Head(unsent), 1, n)
         /\ unsent' = Advance(unsent, n)
    /\ pc' = IF unsent' = <<>> THEN AfterWrite ELSE pc
    /\ UNCHANGED <<mode, done, reader, link, down, breaks, broker, history>>

\* On a broken connection the first bytes are lost without an error, later ones
\* get an error, and with it SIGPIPE.  bm_connect and the daemon disconnect and
\* start again; send_message and start_bombing exit.
WriteBroken ==
    /\ Writing
    /\ link = "broken"
    /\ \/ /\ unsent' = Tail(unsent)
          /\ pc' = IF unsent' = <<>> THEN AfterWrite ELSE pc
       \/ /\ unsent' = <<>>
          /\ pc' = IF pc = "write login" \/ mode = "subscriber" THEN "disconnect"
                   ELSE "exit"
       \/ /\ unsent' = <<>>
          /\ pc' = "exit"
    /\ UNCHANGED <<mode, done, reader, link, up, down, breaks, broker, history>>

\* select finds the connection of the subscriber readable.
Select ==
    /\ pc = "select"
    /\ down # <<>> \/ link = "broken"
    /\ pc' = "read"
    /\ UNCHANGED <<mode, done, unsent, reader, link, up, down, breaks, broker, history>>

Reading == pc \in {"read login", "read"}

\* Variant for model checking: the loop is left with the first frame.
AfterRead_once == IF pc = "read login" THEN "ready" ELSE "close"

AfterRead == IF pc = "read login" THEN "ready" ELSE "select"

\* stomp_read: one recv, and what it means for the frame.  bm_connect takes any
\* frame for an answer to its login.
Read ==
    /\ Reading
    /\ \E n \in Wanted(reader) :
         /\ n <= Len(down)
         /\ down' = SubSeq(down, n + 1, Len(down))
         /\ LET r == Receive(reader, SubSeq(down, 1, n))
            IN /\ reader' = IF r.phase \in {"done", "error"} THEN Start ELSE r
               /\ pc' = CASE r.phase = "done" -> AfterRead
                          [] r.phase = "error" -> "disconnect"
                          [] OTHER -> pc
               /\ read_down' = IF r.phase = "done" THEN Append(read_down, FrameRead(r))
                               ELSE read_down
    /\ UNCHANGED <<mode, done, unsent, link, up, breaks, broker, written_up, read_up,
                   written_down>>

\* Variant for model checking: reading nothing is not taken for the end.
ReadFails_misses_end ==
    /\ Reading
    /\ link = "broken"
    /\ down = <<>>
    /\ UNCHANGED vars

\* recv returns the end of the connection, or an error.
ReadFails ==
    /\ Reading
    /\ link = "broken"
    /\ down = <<>>
    /\ reader' = Start
    /\ pc' = "disconnect"
    /\ UNCHANGED <<mode, done, unsent, link, up, down, breaks, broker, history>>

\* stomp_disconnect after a failure: a new connection is made.  (The daemon makes
\* it for its next session.)
Disconnect ==
    /\ pc = "disconnect"
    /\ pc' = "connect"
    /\ done' = 0
    /\ link' = "none"
    /\ up' = <<>> /\ down' = <<>> /\ answer' = <<>>
    /\ broker_reader' = Start
    /\ subscribed' = FALSE
    /\ refused' = FALSE
    /\ written_up' = <<>> /\ read_up' = <<>>
    /\ written_down' = <<>> /\ read_down' = <<>>
    /\ UNCHANGED <<mode, unsent, reader, breaks, offered>>

\* stomp_disconnect at the end.  A socket closed with something unread resets the
\* connection, and what the broker has not read yet may be discarded.
Close ==
    /\ pc = "close"
    /\ pc' = "exit"
    /\ link' = IF link = "open" THEN "closed" ELSE link
    /\ up' \in IF down # <<>> \/ answer # <<>>
               THEN {SubSeq(up, 1, n) : n \in 0..Len(up)} ELSE {up}
    /\ down' = <<>>
    /\ answer' = <<>>
    /\ UNCHANGED <<mode, done, unsent, reader, breaks, broker_reader, subscribed,
                   refused, offered, history>>

Process ==
    \/ Connect \/ Login \/ NextFrame \/ WriteBuffer \/ WriteBroken \/ Select
    \/ Read \/ ReadFails \/ Disconnect \/ Close
-----------------------------------------------------------------------------
(* The broker, as far as the process can tell.                             *)

\* It skips newlines between frames: stomp_write leaves one behind each.
Skips(r, byte) == r.phase = "command" /\ r.line = <<>> /\ byte = NewLine

\* What it does with a frame: it answers a login, or refuses it.
React(frame) ==
    \/ /\ frame.command = <<ConnectFrame.command>>
       /\ answer' = FlattenSeq(Pieces(ConnectedFrame, BrokerEnd))
       /\ written_down' = Append(written_down, FrameMeant(ConnectedFrame))
       /\ UNCHANGED <<subscribed, refused, breaks>>
    \/ /\ frame.command = <<ConnectFrame.command>>
       /\ breaks < MaxBreaks
       /\ breaks' = breaks + 1
       /\ refused' = TRUE
       /\ answer' = FlattenSeq(Pieces(ErrorFrame, BrokerEnd))
       /\ written_down' = Append(written_down, FrameMeant(ErrorFrame))
       /\ UNCHANGED subscribed
    \/ /\ frame.command = <<SubscribeFrame.command>>
       /\ subscribed' = TRUE
       /\ UNCHANGED <<answer, written_down, refused, breaks>>
    \/ /\ frame.command \notin {<<ConnectFrame.command>>, <<SubscribeFrame.command>>}
       /\ UNCHANGED <<answer, written_down, subscribed, refused, breaks>>

\* It closes the connection when it cannot read a frame.
BrokerReads ==
    /\ link \in {"open", "closed"}
    /\ up # <<>>
    /\ ~refused
    /\ up' = Tail(up)
    /\ LET r == Receive(broker_reader, <<Head(up)>>)
       IN IF Skips(broker_reader, Head(up))
          THEN UNCHANGED <<broker_reader, answer, written_down, subscribed, refused,
                           breaks, read_up, link>>
          ELSE IF r.phase = "done"
          THEN /\ broker_reader' = Start
               /\ read_up' = Append(read_up, FrameRead(r))
               /\ React(FrameRead(r))
               /\ UNCHANGED link
          ELSE /\ broker_reader' = IF r.phase = "error" THEN Start ELSE r
               /\ link' = IF r.phase = "error" THEN "broken" ELSE link
               /\ UNCHANGED <<answer, written_down, subscribed, refused, breaks, read_up>>
    /\ UNCHANGED <<process, down, offered, written_up, read_down>>

BrokerSends ==
    /\ subscribed
    /\ link = "open"
    /\ answer = <<>>
    /\ offered < Len(MessageFrames)
    /\ offered' = offered + 1
    /\ answer' = FlattenSeq(Pieces(MessageFrames[offered + 1], BrokerEnd))
    /\ written_down' = Append(written_down, FrameMeant(MessageFrames[offered + 1]))
    /\ UNCHANGED <<process, link, up, down, breaks, broker_reader, subscribed, refused,
                   written_up, read_up, read_down>>

BrokerWrites ==
    /\ link = "open"
    /\ \E n \in 1..Len(answer) :
         /\ Len(down) + n <= SocketSize
         /\ down' = down \o SubSeq(answer, 1, n)
         /\ answer' = SubSeq(answer, n + 1, Len(answer))
    /\ UNCHANGED <<process, link, up, breaks, broker_reader, subscribed, refused,
                   offered, history>>

\* After it has refused a login it closes the connection, with its answer written
\* or not.
BrokerCloses ==
    /\ refused
    /\ link = "open"
    /\ link' = "broken"
    /\ up' = <<>>
    /\ answer' = <<>>
    /\ UNCHANGED <<process, down, breaks, broker_reader, subscribed, refused, offered,
                   history>>

\* The connection fails; of what is on its way a part may still arrive.
LinkBreaks ==
    /\ link = "open"
    /\ breaks < MaxBreaks
    /\ breaks' = breaks + 1
    /\ link' = "broken"
    /\ up' = <<>>
    /\ down' \in {SubSeq(down, 1, n) : n \in 0..Len(down)}
    /\ answer' = <<>>
    /\ UNCHANGED <<process, broker_reader, subscribed, refused, offered, history>>

Broker == BrokerReads \/ BrokerSends \/ BrokerWrites \/ BrokerCloses

\* The process has ended, or waits in select for a broker that has no more to say.
Quiet ==
    /\ pc = "exit" \/ (pc = "select" /\ down = <<>> /\ offered = Len(MessageFrames))
    /\ UNCHANGED vars

Next == Process \/ Broker \/ LinkBreaks \/ Quiet

Spec == Init /\ [][Next]_vars

\* Process and broker are scheduled; each action waits only for the other side.
FairSpec == Spec /\ WF_vars(Process) /\ WF_vars(Broker)

-----------------------------------------------------------------------------
(* What the theorems about it assume of the frames and of the broker.      *)

\* The frames of both sides.
AllFrames ==
    {ConnectFrame, SubscribeFrame, ConnectedFrame, ErrorFrame}
    \cup {SendFrames[i] : i \in 1..Len(SendFrames)}
    \cup {MessageFrames[i] : i \in 1..Len(MessageFrames)}

\* No frame says that its body is longer than it is.
LengthsFit == \A frame \in AllFrames : frame.body_length <= Len(frame.body)

\* The frames of both sides can be told apart.
AllWellFormed == \A frame \in AllFrames : WellFormed(frame)

\* The process logs in once on a connection.
OneLogin ==
    /\ SubscribeFrame.command # ConnectFrame.command
    /\ \A i \in 1..Len(SendFrames) : SendFrames[i].command # ConnectFrame.command

\* The broker ends its frames with a zero and nothing else.  stomp_read does not leave
\* out the newline that stomp_write puts behind one.
BrokerEndsWithZero == BrokerEnd = <<Zero>>

-----------------------------------------------------------------------------
(* Properties.                                                             *)

Places == {"connect", "login", "write login", "read login", "ready", "write",
           "select", "read", "disconnect", "close", "exit"}
Reader == [phase : Phases \ {"done", "error"}, line : Seq(Int), command : Seq(Int),
           headers : SUBSET [key : Seq(Int), value : Seq(Int)], need : Nat,
           body : Seq(Int)]
Frames == [command : Seq(Int), headers : SUBSET [key : Seq(Int), value : Seq(Int)],
           body : Seq(Int)]

\* Types; and a reader between two frames holds nothing of either.
TypeOK ==
    /\ mode \in Modes
    /\ pc \in Places
    /\ done \in 0..Len(Program)
    /\ unsent \in Seq(Seq(Int)) /\ (unsent # <<>> => Writing)
    /\ \A i \in 1..Len(unsent) : unsent[i] # <<>>
    /\ {reader, broker_reader} \subseteq Reader
    /\ reader # Start => Reading
    /\ link \in {"none", "open", "broken", "closed"}
    /\ up \in Seq(Int) /\ Len(up) <= SocketSize
    /\ down \in Seq(Int) /\ Len(down) <= SocketSize
    /\ breaks \in 0..MaxBreaks
    /\ answer \in Seq(Int)
    /\ subscribed \in BOOLEAN /\ refused \in BOOLEAN
    /\ offered \in 0..Len(MessageFrames)
    /\ {written_up, read_up, written_down, read_down} \subseteq Seq(Frames)

\* In both directions the frames read are those written, whole and in order,
\* however the bytes are cut into parts and wherever a connection breaks: no part
\* of a frame is taken for a frame, and nothing of one connection turns up in the
\* next.  (Downwards this is for a broker that ends its frames with a zero alone,
\* BrokerEndsWithZero; so is what follows.)
UpChannel == INSTANCE FrameChannel WITH written <- written_up, read <- read_up
DownChannel == INSTANCE FrameChannel WITH written <- written_down, read <- read_down
UpIsAChannel == UpChannel!Spec
DownIsAChannel == DownChannel!Spec

\* stomp_read fails only when the connection does: however the bytes of a frame are
\* cut, it never takes a part of a length, a header or a body for something that it
\* cannot read.  (Between the frames there is nothing here that it could stumble over:
\* a newline behind the zero makes it fail.)
FailsOnlyWhenBroken ==
    [][pc' = "disconnect" /\ pc # "disconnect" => link = "broken"]_vars

\* A stomp_read that select has started comes back: the daemon, which serves no
\* transceiver meanwhile, waits for the rest of a frame and not for the next one.
\* (With a newline behind each frame it would.)
ReadReturns == Reading ~> ~Reading

\* What send_message and start_bombing have sent when they end arrives, although
\* they close the connection at once, if the login was accepted.  (A newline left
\* unread behind the answer would make the close a reset.)
SentArrives == (link = "closed" /\ ~refused) ~> read_up = written_up

\* On a connection that holds, the subscriber reads all that the broker sends it.
MessagesArrive ==
    \A n \in 1..(Len(MessageFrames) + 1) :
      Len(written_down) >= n ~> (Len(read_down) >= n \/ link \in {"broken", "none"})
=============================================================================
