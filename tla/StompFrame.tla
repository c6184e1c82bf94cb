------------------------------ MODULE StompFrame ------------------------------
(***************************************************************************)
(* The frames of libstomp, stomp.c: what stomp_write puts into a socket    *)
(* for a frame, and what stomp_read makes of the bytes it receives.        *)
(*                                                                         *)
(* A byte that means something to the format is a number of its own.  A    *)
(* command, a name, a value and a part of a body are one number each, and  *)
(* so are the digits of a length: only where a text ends matters here.     *)
(***************************************************************************)
EXTENDS Integers, SequencesExt

Zero == 0
NewLine == 10
Colon == 58
ContentLength == 99          \* the name of the header

\* apr_itoa and atoi: a length is written as one negative number.
Itoa(n) == -1 - n
Atoi(value) == IF value # <<>> /\ value[1] < 0 THEN -1 - value[1] ELSE 0

\* Headers come in the order in which the hash table lists them.  A frame without
\* headers has no table.
Headers == Seq([key : Nat, value : Seq(Nat)])
Frame == [command : Nat, headers : Headers, body : Seq(Nat), body_length : Int]

\* Of an empty text there is nothing to send.
Piece(text) == IF text = <<>> THEN <<>> ELSE <<text>>
HeaderPieces(key, value) == <<<<key>>, <<Colon>>>> \o Piece(value) \o <<<<NewLine>>>>

\* strlen
UpToZero(text) ==
    IF \E i \in 1..Len(text) : text[i] = Zero
    THEN SubSeq(text, 1, SelectInSeq(text, LAMBDA b : b = Zero) - 1)
    ELSE text

HasLength(frame) == frame.headers # <<>> /\ frame.body_length >= 0
BodyWritten(frame) ==
    IF frame.body_length < 0 THEN UpToZero(frame.body)
    ELSE SubSeq(frame.body, 1, frame.body_length)

\* The buffers that stomp_write hands to stomp_write_buffer one after the other.
Pieces(frame, end) ==
    <<<<frame.command>>, <<NewLine>>>>
    \o FlattenSeq([i \in 1..Len(frame.headers) |->
                     HeaderPieces(frame.headers[i].key, frame.headers[i].value)])
    \o (IF HasLength(frame)
        THEN HeaderPieces(ContentLength, <<Itoa(frame.body_length)>>) ELSE <<>>)
    \o <<<<NewLine>>>>
    \o Piece(BodyWritten(frame))
    \o <<end>>

\* What stomp_write puts behind the body.
WriterEnd == <<Zero, NewLine>>

-----------------------------------------------------------------------------
(* stomp_read, as a machine that is fed what recv returns.                 *)

Phases == {"command", "headers", "body", "end", "text", "done", "error"}
Start == [phase |-> "command", line |-> <<>>, command |-> <<>>, headers |-> {},
          need |-> 0, body |-> <<>>]

\* A later header of the same name replaces the earlier one.
SetHeader(headers, key, value) ==
    {h \in headers : h.key # key} \cup {[key |-> key, value |-> value]}

\* The line is cut at its first colon.
HeaderLine(r) ==
    IF ~Contains(r.line, Colon) THEN [r EXCEPT !.phase = "error"]
    ELSE LET c == SelectInSeq(r.line, LAMBDA b : b = Colon)
         IN [r EXCEPT !.line = <<>>,
                      !.headers = SetHeader(@, SubSeq(r.line, 1, c - 1),
                                            SubSeq(r.line, c + 1, Len(r.line)))]

\* Variant for model checking: the length is not looked at.
EndOfHeaders_no_length(r) == [r EXCEPT !.phase = "text"]

\* An empty line ends the headers: the length, if there is one, says how to go on.
EndOfHeaders(r) ==
    LET lengths == {h \in r.headers : h.key = <<ContentLength>>}
        n == Atoi((CHOOSE h \in lengths : TRUE).value)
    IN IF lengths = {} THEN [r EXCEPT !.phase = "text"]
       ELSE [r EXCEPT !.phase = IF n = 0 THEN "end" ELSE "body", !.need = n]

\* A line ends with a newline, or with a zero.
ReadLine(r, byte) ==
    IF byte \notin {NewLine, Zero} THEN [r EXCEPT !.line = Append(@, byte)]
    ELSE IF r.phase = "command"
    THEN [r EXCEPT !.command = r.line, !.line = <<>>, !.phase = "headers"]
    ELSE IF r.line = <<>> THEN EndOfHeaders(r) ELSE HeaderLine(r)

\* Variant for model checking: one recv is taken to have brought the whole body.
ReadBody_once(r, chunk) ==
    [r EXCEPT !.body = @ \o chunk, !.need = 0, !.phase = "end"]

\* The body is received in as many parts as it takes.
ReadBody(r, chunk) ==
    [r EXCEPT !.body = @ \o chunk, !.need = @ - Len(chunk),
              !.phase = IF r.need = Len(chunk) THEN "end" ELSE "body"]

ReadEnd(r, byte) == [r EXCEPT !.phase = IF byte = Zero THEN "done" ELSE "error"]

ReadText(r, byte) ==
    IF byte = Zero THEN [r EXCEPT !.phase = "done"]
    ELSE [r EXCEPT !.body = Append(@, byte)]

\* How many bytes a recv may return: the body is asked for at once, the rest byte
\* by byte.
Wanted(r) == IF r.phase = "body" THEN 1..r.need ELSE {1}

Receive(r, chunk) ==
    CASE r.phase \in {"command", "headers"} -> ReadLine(r, chunk[1])
      [] r.phase = "body" -> ReadBody(r, chunk)
      [] r.phase = "end" -> ReadEnd(r, chunk[1])
      [] r.phase = "text" -> ReadText(r, chunk[1])

\* The frame a reader has read, and the frame a writer meant.
FrameRead(r) == [command |-> r.command, headers |-> r.headers, body |-> r.body]
FrameMeant(frame) ==
    [command |-> <<frame.command>>,
     headers |-> {[key |-> <<frame.headers[i].key>>, value |-> frame.headers[i].value] :
                    i \in 1..Len(frame.headers)}
                 \cup (IF HasLength(frame)
                       THEN {[key |-> <<ContentLength>>, value |-> <<Itoa(frame.body_length)>>]}
                       ELSE {}),
     body |-> frame.body]

-----------------------------------------------------------------------------
(* What a frame must be to arrive as it was meant.                         *)

\* Bytes that do not end a line.
Plain(text) == \A i \in 1..Len(text) : text[i] \notin {Zero, NewLine}

\* Frames whose parts stomp_read can tell apart: no text has a byte that ends it,
\* no two headers one name, and a body with zeros has its length.  stomp_write adds
\* the header content-length itself.
WellFormed(frame) ==
    /\ frame \in Frame
    /\ frame.command \notin {Zero, NewLine}
    /\ \A i \in 1..Len(frame.headers) :
         /\ frame.headers[i].key \notin {Zero, NewLine, Colon, ContentLength}
         /\ Plain(frame.headers[i].value)
         /\ \A j \in 1..Len(frame.headers) :
              frame.headers[i].key = frame.headers[j].key => i = j
    /\ frame.body_length < 0 \/ frame.body_length = Len(frame.body)
    /\ ~HasLength(frame) => \A i \in 1..Len(frame.body) : frame.body[i] # Zero
=============================================================================
