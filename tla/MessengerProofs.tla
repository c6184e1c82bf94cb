--------------------------- MODULE MessengerProofs ---------------------------
(***************************************************************************)
(* Theorems about Messenger, for every value of its constants: whatever    *)
(* the transceivers and the broker send, however often connections break   *)
(* and sessions follow each other.                                         *)
(***************************************************************************)
EXTENDS Messenger, NatLemmas

-----------------------------------------------------------------------------
(* What is made of a packet and of a frame.                                *)

\* The constants that count.
LEMMA Numbers ==
    /\ MaxParts \in Nat \ {0} /\ StepSize \in Nat \ {0} /\ MaxFields \in Nat \ {0}
    /\ MaxSessions \in Nat /\ MaxOutages \in Nat /\ IpcCapacity \in Nat \ {0}
    /\ ReportLengths \subseteq Nat /\ MaxAddress \in Nat \ {0} /\ Gateway \in Nat
    /\ Len(I8Packet) \in Nat /\ Len(Command) \in Nat
BY MessengerAssumption

\* The length of a packet.
LEMMA LengthType ==
    ASSUME NEW k \in 1..Len(I8Packet)
    PROVE  PacketLength(k) \in Nat
<1> DEFINE R == [id : {"message", "nodelist"}, length : Nat]
<1>1. I8Packet \in Seq(R)
  BY MessengerAssumption
<1>2. I8Packet[k] \in R
  <2> HIDE DEF R
  <2> QED
    BY <1>1
<1> QED
  BY <1>2 DEF PacketLength

\* A counter below its bound.
LEMMA NextNumber ==
    ASSUME NEW m \in Nat, NEW n \in 0..m, n < m
    PROVE  n + 1 \in 0..m /\ n + 1 \in 1..m
OBVIOUS

\* Taking the first element of a sequence.
LEMMA RestType ==
    ASSUME NEW S, NEW q \in Seq(S), q # <<>>
    PROVE  Head(q) \in S /\ Tail(q) \in Seq(S)
OBVIOUS

\* Adding an element to a sequence.
LEMMA AppendType ==
    ASSUME NEW S, NEW q \in Seq(S), NEW e \in S
    PROVE  Append(q, e) \in Seq(S) /\ Len(Append(q, e)) = Len(q) + 1
OBVIOUS

\* What a packet brings is made of it, and of the zero of a message.
LEMMA BroughtType ==
    ASSUME NEW k \in 0..Len(I8Packet), NEW n \in Lengths(k)
    PROVE  n \in Nat /\ Brought(k, n) \in Seq(0..EndOfText)
<1>1. n \in Nat
  <2>1. CASE k = Report
    BY <2>1, Numbers DEF Lengths
  <2>2. CASE k # Report
    <3>1. k \in 1..Len(I8Packet)
      BY <2>2, Numbers DEF Report
    <3> QED
      BY <2>2, <3>1, LengthType DEF Lengths
  <2> QED
    BY <2>1, <2>2
<1>2. k \in 0..EndOfText /\ EndOfText \in 0..EndOfText
  BY Numbers DEF EndOfText
<1>3. \A m \in Nat : [i \in 1..m |-> k] \in Seq(0..EndOfText)
  BY <1>2
<1>4. (IF n > 8 THEN n - 8 ELSE 0) \in Nat
  BY <1>1
<1>5. Append([i \in 1..n |-> k], EndOfText) \in Seq(0..EndOfText)
  BY <1>1, <1>2, <1>3, AppendType
<1> QED
  BY <1>1, <1>3, <1>4, <1>5 DEF Brought

\* What is written over a sequence comes first, what is left of it behind.
LEMMA OverwriteType ==
    ASSUME NEW S, NEW data \in Seq(S), NEW bytes \in Seq(S)
    PROVE  /\ Overwrite(data, bytes) \in Seq(S)
           /\ Len(Overwrite(data, bytes)) >= Len(bytes)
           /\ \A i \in 1..Len(bytes) : Overwrite(data, bytes)[i] = bytes[i]
<1> DEFINE n == Len(bytes)
           m == IF n > Len(data) THEN n ELSE Len(data)
           d == [i \in 1..m |-> IF i <= n THEN bytes[i] ELSE data[i]]
<1>1. n \in Nat /\ m \in Nat /\ m >= n
  OBVIOUS
<1>2. \A i \in 1..m : (IF i <= n THEN bytes[i] ELSE data[i]) \in S
  BY <1>1
<1>3. Overwrite(data, bytes) = d
  BY DEF Overwrite
<1> HIDE DEF m, n
<1>4. d \in Seq(S) /\ Len(d) = m
  BY <1>1, <1>2
<1>5. \A i \in 1..n : d[i] = bytes[i]
  BY <1>1
<1> QED
  BY <1>1, <1>3, <1>4, <1>5 DEF n

\* The text before the first zero is there, ...
LEMMA TextExists ==
    ASSUME NEW data \in Seq(0..EndOfText)
    PROVE  \E n \in 0..Len(data) : IsText(data, n)
<1> DEFINE Z == {i \in 1..Len(data) : data[i] = EndOfText}
<1>0. Len(data) \in Nat
  OBVIOUS
<1>1. CASE Z = {}
  <2>1. IsText(data, Len(data))
    BY <1>0, <1>1 DEF IsText
  <2> QED
    BY <1>0, <2>1
<1>2. CASE Z # {}
  <2>1. PICK z \in Z : \A i \in Z : z <= i
    <3>1. Z \in SUBSET Nat
      BY <1>0
    <3> HIDE DEF Z
    <3> QED
      BY <1>2, <3>1, LeastNat
  <2>2. z - 1 \in 0..Len(data) /\ z \in 1..Len(data) /\ data[z] = EndOfText
    BY <1>0, <2>1
  <2>3. \A i \in 1..(z - 1) : data[i] # EndOfText
    <3>1. \A i \in 1..(z - 1) : i \in 1..Len(data) /\ ~(z <= i)
      BY <1>0, <2>2
    <3> QED
      BY <2>1, <3>1
  <2>4. IsText(data, z - 1)
    BY <2>2, <2>3 DEF IsText
  <2> QED
    BY <2>2, <2>4
<1> QED
  BY <1>1, <1>2

\* ... and it is the only one.
LEMMA TextOnce ==
    ASSUME NEW data \in Seq(0..EndOfText), NEW m \in 0..Len(data), NEW n \in 0..Len(data),
           IsText(data, m), IsText(data, n)
    PROVE  m = n
<1>1. Len(data) \in Nat /\ m \in Nat /\ n \in Nat
  OBVIOUS
<1>2. CASE m < n
  <2>1. m + 1 \in 1..n /\ m < Len(data)
    BY <1>1, <1>2
  <2> QED
    BY <2>1 DEF IsText
<1>3. CASE n < m
  <2>1. n + 1 \in 1..m /\ n < Len(data)
    BY <1>1, <1>3
  <2> QED
    BY <2>1 DEF IsText
<1> QED
  BY <1>1, <1>2, <1>3

\* The beginning of a sequence.
LEMMA PrefixType ==
    ASSUME NEW S, NEW q \in Seq(S), NEW n \in Nat, n <= Len(q)
    PROVE  SubSeq(q, 1, n) = [i \in 1..n |-> q[i]] /\ \A i \in 1..n : q[i] \in S
OBVIOUS

\* What is printed has no zero.
LEMMA PrintedType ==
    ASSUME NEW data \in Seq(0..EndOfText)
    PROVE  Printed(data) \in Seq(0..Len(I8Packet))
<1> DEFINE n == CHOOSE m \in 0..Len(data) : IsText(data, m)
<1>1. n \in 0..Len(data) /\ IsText(data, n)
  BY TextExists
<1>2. Printed(data) = SubSeq(data, 1, n)
  BY DEF Printed
<1> HIDE DEF n
<1>3. n \in Nat /\ n <= Len(data)
  BY <1>1
<1>4. SubSeq(data, 1, n) = [i \in 1..n |-> data[i]] /\ \A i \in 1..n : data[i] \in 0..EndOfText
  BY <1>3, PrefixType
<1>5. \A i \in 1..n : data[i] # EndOfText
  BY <1>1 DEF IsText
<1>6. \A i \in 1..n : data[i] \in 0..Len(I8Packet)
  BY <1>4, <1>5, Numbers DEF EndOfText
<1> QED
  BY <1>2, <1>3, <1>4, <1>6

\* A message that is received is printed whole, whatever the buffer held.
LEMMA MessagePrinted ==
    ASSUME NEW k \in 1..Len(I8Packet), ~IsList(k), NEW n \in Lengths(k),
           NEW data \in Seq(0..EndOfText)
    PROVE  Printed(Overwrite(data, Brought(k, n))) = [j \in 1..I8Packet[k].length |-> k]
<1> DEFINE b == Brought(k, n)
           d == Overwrite(data, b)
<1>1. k # Report /\ k \in 0..Len(I8Packet) /\ k # EndOfText
  BY Numbers DEF Report, EndOfText
<1>2. n = I8Packet[k].length
  BY <1>1 DEF Lengths, PacketLength
<1>3. n \in Nat /\ b \in Seq(0..EndOfText)
  BY <1>1, BroughtType
<1>4. b = Append([i \in 1..n |-> k], EndOfText)
  BY <1>1 DEF Brought
<1>5. Len(b) = n + 1 /\ b[n + 1] = EndOfText /\ \A i \in 1..n : b[i] = k
  BY <1>3, <1>4
<1> HIDE DEF b
<1>6. /\ d \in Seq(0..EndOfText)
      /\ Len(d) >= Len(b)
      /\ \A i \in 1..Len(b) : d[i] = b[i]
  BY <1>3, OverwriteType
<1> HIDE DEF d
<1>7. n \in Nat /\ Len(d) \in Nat /\ n < Len(d)
  BY <1>3, <1>5, <1>6
<1>8. d[n + 1] = EndOfText /\ \A i \in 1..n : d[i] = k
  <2>1. n \in Nat /\ Len(b) = n + 1 /\ \A i \in 1..Len(b) : d[i] = b[i]
    BY <1>3, <1>5, <1>6
  <2> QED
    BY <1>5, <2>1
<1>9. n \in 0..Len(d) /\ IsText(d, n)
  BY <1>1, <1>7, <1>8 DEF IsText
<1>10. (CHOOSE m \in 0..Len(d) : IsText(d, m)) = n
  BY <1>6, <1>9, TextOnce
<1>11. Printed(d) = SubSeq(d, 1, n)
  BY <1>10 DEF Printed
<1>12. SubSeq(d, 1, n) = [j \in 1..n |-> d[j]]
  BY <1>6, <1>7, PrefixType
<1> QED
  BY <1>2, <1>8, <1>11, <1>12 DEF b, d

\* A list makes no more frames than MaxParts, as its length is bounded.
LEMMA ListFrameCountBound ==
    ASSUME NEW k \in 1..Len(I8Packet), IsList(k)
    PROVE  ListFrameCount(PacketLength(k)) \in 0..MaxParts
<1> DEFINE n == PacketLength(k)
           q == (n + StepSize - 1) \div StepSize
<1>1. /\ n \in Nat /\ StepSize \in Nat \ {0} /\ MaxParts \in Nat \ {0}
      /\ n <= MaxParts * StepSize
  <2>1. PacketLength(k) = I8Packet[k].length
    BY DEF PacketLength
  <2>2. I8Packet[k].id = "nodelist"
    BY DEF IsList
  <2>3. I8Packet[k].length <= MaxParts * StepSize
    BY <2>2, MessengerAssumption
  <2>4. n \in Nat
    BY Numbers, LengthType
  <2> QED
    BY <2>1, <2>3, <2>4, Numbers
<1>2. n + StepSize - 1 \in Nat
  BY <1>1
<1>3. q \in Nat /\ n + StepSize - 1 >= q * StepSize
  <2> DEFINE t == n + StepSize - 1
  <2>1. t \div StepSize \in Nat /\ t % StepSize \in 0..(StepSize - 1)
        /\ t = (t \div StepSize) * StepSize + (t % StepSize)
    <3>1. t \in Nat
      BY <1>2
    <3> HIDE DEF t
    <3> QED
      BY <1>1, <3>1, DivMod
  <2>2. (t \div StepSize) * StepSize \in Nat
    <3>1. \A a, b \in Nat : a * b \in Nat
      OBVIOUS
    <3> HIDE DEF t
    <3> QED
      BY <2>1, <1>1, <3>1
  <2>3. q = t \div StepSize
    OBVIOUS
  <2> HIDE DEF t, q
  <2>4. t >= q * StepSize
    BY <2>1, <2>2, <2>3, <1>1
  <2> QED
    BY <2>1, <2>3, <2>4 DEF t
<1>4. q <= MaxParts
  <2> SUFFICES ASSUME MaxParts < q PROVE FALSE
    BY <1>1, <1>3
  <2>1. MaxParts * StepSize + StepSize <= q * StepSize
    <3> HIDE DEF q
    <3> QED BY <1>1, <1>3, Multiples
  <2>2. MaxParts * StepSize \in Nat /\ q * StepSize \in Nat
    BY <1>1, <1>3
  <2> HIDE DEF q
  <2> QED
    BY <1>1, <1>3, <2>1, <2>2
<1> QED
  BY <1>3, <1>4 DEF ListFrameCount

\* The frames of a packet are frames of that packet, numbered from 1.
LEMMA FramesType ==
    ASSUME NEW k \in 0..Len(I8Packet), NEW text \in Seq(0..Len(I8Packet))
    PROVE  /\ FramesFor(k, text) \in Seq(Frame)
           /\ \A i \in 1..Len(FramesFor(k, text)) :
                FramesFor(k, text)[i].packet = k /\ FramesFor(k, text)[i].part = i
<1>1. CASE IsList(k)
  <2> DEFINE c == ListFrameCount(PacketLength(k))
             entries(p) == [j \in 1..StepSize |->
                IF (p - 1) * StepSize + j <= PacketLength(k) THEN k ELSE Stale]
             f(p) == [packet |-> k, part |-> p, text |-> entries(p)]
  <2>1. c \in 0..MaxParts
    BY <1>1, ListFrameCountBound DEF IsList, Report
  <2>2. MaxParts \in Nat /\ StepSize \in Nat
    BY MessengerAssumption
  <2>3. \A p : entries(p) \in Seq(0..Len(I8Packet))
    BY <2>2 DEF Stale
  <2>4. \A p \in 1..c : f(p) \in Frame
    <3> SUFFICES ASSUME NEW p \in 1..c PROVE f(p) \in Frame
      OBVIOUS
    <3>1. p \in 1..MaxParts
      BY <2>1, <2>2
    <3>2. entries(p) \in Seq(0..Len(I8Packet))
      BY <2>3
    <3> HIDE DEF entries
    <3> QED
      BY <3>1, <3>2 DEF Frame
  <2>5. FramesFor(k, text) = [p \in 1..c |-> f(p)]
    BY <1>1 DEF FramesFor, ListFrames
  <2> HIDE DEF c, f
  <2>6. [p \in 1..c |-> f(p)] \in Seq(Frame) /\ Len([p \in 1..c |-> f(p)]) = c
    BY <2>1, <2>2, <2>4
  <2>7. \A p : f(p).packet = k /\ f(p).part = p
    BY DEF f
  <2> QED
    BY <2>1, <2>2, <2>5, <2>6, <2>7
<1>2. CASE ~IsList(k)
  <2> DEFINE f == [packet |-> k, part |-> 1, text |-> text]
  <2>1. f \in Frame
    BY MessengerAssumption DEF Frame
  <2>2. FramesFor(k, text) = <<f>>
    BY <1>2 DEF FramesFor
  <2> HIDE DEF f
  <2> QED
    BY <2>1, <2>2 DEF f
<1> QED
  BY <1>1, <1>2

\* Cutting a body to MaxFields values.
LEMMA FieldsType ==
    ASSUME NEW S, NEW values \in Seq(S)
    PROVE  Fields(values) \in Seq(S) /\ Len(Fields(values)) <= Len(values)
BY Numbers DEF Fields

\* The fields of a body.
LEMMA BodyType ==
    ASSUME NEW k \in 1..Len(Command)
    PROVE  /\ Command[k].uid \in Seq(Nat) /\ Len(Command[k].uid) <= MaxParts
           /\ Command[k].data \in Seq(Seq(Nat))
<1>1. Command \in Seq(Bodies) /\ Len(Command[k].uid) <= MaxParts
  BY MessengerAssumption
<1>2. Command[k] \in Bodies
  BY <1>1
<1> QED
  BY <1>1, <1>2 DEF Bodies

\* A list for the transceiver is one packet or none.
LEMMA WhitelistType ==
    ASSUME NEW k \in 1..Len(Command), NEW list \in Seq(Nat)
    PROVE  /\ send_whitelist(k, list) \in Seq(Packet)
           /\ \A i \in 1..Len(send_whitelist(k, list)) :
                /\ send_whitelist(k, list)[i].command = k
                /\ send_whitelist(k, list)[i].part = i
<1> DEFINE content == [i \in 1..Len(list) |-> Saturated(list[i])]
           p == [command |-> k, part |-> 1, id |-> "nodelist", to |-> Gateway,
                 content |-> content]
<1>1. p \in Packet /\ p.command = k /\ p.part = 1
  <2>1. \A i \in 1..Len(list) : Saturated(list[i]) \in Nat
    BY Numbers DEF Saturated
  <2>2. content \in Seq(Nat)
    BY <2>1
  <2> HIDE DEF content
  <2> QED
    BY <2>2, Numbers DEF Packet
<1>2. send_whitelist(k, list) = <<>> \/ send_whitelist(k, list) = <<p>>
  BY DEF send_whitelist
<1> HIDE DEF p
<1>3. CASE send_whitelist(k, list) = <<>>
  BY <1>3
<1>4. CASE send_whitelist(k, list) = <<p>>
  BY <1>1, <1>4
<1> QED
  BY <1>2, <1>3, <1>4

\* Messages for nodes are numbered in the order of their fields.
LEMMA MessagesType ==
    ASSUME NEW k \in 1..Len(Command),
           NEW uid \in Seq(Nat), Len(uid) <= MaxParts,
           NEW data \in Seq(Seq(Nat)), Len(data) = Len(uid)
    PROVE  /\ MessagePackets(k, uid, data) \in Seq(Packet)
           /\ \A i \in 1..Len(MessagePackets(k, uid, data)) :
                /\ MessagePackets(k, uid, data)[i].command = k
                /\ MessagePackets(k, uid, data)[i].part = i
<1> DEFINE p(i) == [command |-> k, part |-> i, id |-> "message", to |-> uid[i],
                    content |-> data[i]]
           n == Len(uid)
<1>1. n \in Nat /\ \A i \in 1..n : uid[i] \in Nat /\ i \in 1..MaxParts
  BY Numbers
<1>2. \A i \in 1..n : data[i] \in Seq(Nat)
  OBVIOUS
<1>3. \A i \in 1..n : p(i) \in Packet
  BY <1>1, <1>2 DEF Packet
<1>4. \A i : p(i).command = k /\ p(i).part = i
  OBVIOUS
<1>5. MessagePackets(k, uid, data) = [i \in 1..n |-> p(i)]
  BY DEF MessagePackets
<1> HIDE DEF p, n
<1> QED
  BY <1>1, <1>3, <1>4, <1>5

\* The packets made of a frame belong to it and are numbered from 1.
LEMMA PacketsType ==
    ASSUME NEW k \in 1..Len(Command)
    PROVE  /\ PacketsFor(k) \in Seq(Packet)
           /\ \A i \in 1..Len(PacketsFor(k)) :
                PacketsFor(k)[i].command = k /\ PacketsFor(k)[i].part = i
<1> DEFINE uid == Fields(Command[k].uid)
           data == Fields(Command[k].data)
           Good(seq) == /\ seq \in Seq(Packet)
                        /\ \A i \in 1..Len(seq) : seq[i].command = k /\ seq[i].part = i
<1>1. /\ uid \in Seq(Nat) /\ Len(uid) <= MaxParts
      /\ data \in Seq(Seq(Nat))
  <2>1. /\ uid \in Seq(Nat) /\ Len(uid) <= Len(Command[k].uid)
        /\ data \in Seq(Seq(Nat))
    BY BodyType, FieldsType
  <2> QED
    BY <2>1, BodyType, Numbers
<1>2. Good(<<>>)
  OBVIOUS
<1>3. Good(send_whitelist(k, <<>>))
  <2>1. <<>> \in Seq(Nat)
    OBVIOUS
  <2> QED
    BY <2>1, WhitelistType
<1>4. Len(data) = Len(uid) => Good(MessagePackets(k, uid, data))
  BY <1>1, MessagesType
<1>5. Len(data) = Len(uid) /\ Len(uid) # 0 => Good(send_whitelist(k, data[1]))
  <2> SUFFICES ASSUME Len(data) = Len(uid), Len(uid) # 0
               PROVE  Good(send_whitelist(k, data[1]))
    OBVIOUS
  <2>1. data[1] \in Seq(Nat)
    BY <1>1
  <2> QED
    BY <2>1, WhitelistType
<1> HIDE DEF uid, data, Good
<1>6. PacketsFor(k) = <<>>
      \/ PacketsFor(k) = send_whitelist(k, <<>>)
      \/ (Len(data) = Len(uid) /\ Len(uid) # 0
          /\ PacketsFor(k) \in {send_whitelist(k, data[1]), MessagePackets(k, uid, data)})
  BY DEF PacketsFor, uid, data
<1>7. Good(PacketsFor(k))
  BY <1>2, <1>3, <1>4, <1>5, <1>6
<1> QED
  BY <1>7 DEF Good

-----------------------------------------------------------------------------
(* Types, and what holds at each place of the process.                     *)

\* A session is served from Accept to Disconnect; buffers and sockets are in use
\* only then, and each of the two buffers only while it is worked off.
Phases ==
    /\ pc \in {"head", "uninstall", "accept"} =>
         current = 0 /\ conn = [c \in Connection |-> "none"]
    /\ pc \notin {"head", "uninstall", "accept", "exit"} => current \in Session
    /\ pc \notin {"publish", "disconnect", "exit"} => frames = <<>>
    /\ pc \notin {"forward", "disconnect", "exit"} => packets = <<>>
    /\ ~Subscribed /\ pc # "exit" => subscribe_in = <<>>

TypeInv == TypeOK /\ Phases

\* The invariant of types and phases holds at first, ...
LEMMA InitType == Init => TypeInv
<1> SUFFICES ASSUME Init PROVE TypeInv
  OBVIOUS
<1> USE Numbers DEF Init
<1>1. /\ pc \in Places /\ gs_die \in BOOLEAN /\ broker_up \in BOOLEAN
      /\ ready \subseteq {"server", "i8"}
  BY DEF Places
<1>2. /\ served \in 0..MaxSessions /\ current \in {0, served} /\ outages \in 0..MaxOutages
  OBVIOUS
<1>3. /\ conn \in [Connection -> {"none", "open", "broken"}]
      /\ peer \in [Session -> {"absent", "open", "closed"}]
  OBVIOUS
<1>4. i8_in \in [Session -> Seq(0..Len(I8Packet))]
  OBVIOUS
<1>5. /\ input_data \in Seq(0..EndOfText) /\ frames \in Seq(Frame)
      /\ packets \in Seq(Packet) /\ subscribe_in \in Seq(1..Len(Command))
      /\ published \in Seq(Frame) /\ forwarded \in Seq(Packet)
  OBVIOUS
<1>6. /\ sent \in Seq(Session) /\ Len(sent) <= Len(I8Packet)
      /\ pushed \in Seq(Session) /\ Len(pushed) <= Len(Command)
  OBVIOUS
<1>7. Phases
  BY DEF Phases, Subscribed
<1> QED
  BY <1>1, <1>2, <1>3, <1>4, <1>5, <1>6, <1>7 DEF TypeInv, TypeOK

\* ... and every step keeps it.
LEMMA StepType == TypeInv /\ [Next]_vars => TypeInv'
<1> SUFFICES ASSUME TypeInv, [Next]_vars PROVE TypeInv'
  OBVIOUS
<1>0. /\ served \in 0..MaxSessions /\ outages \in 0..MaxOutages
      /\ subscribe_in \in Seq(1..Len(Command))
      /\ i8_in \in [Session -> Seq(0..Len(I8Packet))]
      /\ sent \in Seq(Session) /\ Len(sent) <= Len(I8Packet)
      /\ pushed \in Seq(Session) /\ Len(pushed) <= Len(Command)
      /\ Subscribed => current \in Session
  BY DEF TypeInv, TypeOK, Phases, Subscribed
<1> USE DEF TypeInv, TypeOK, Phases, Subscribed, Places, session, buffers,
        broker, peers, outside, output
<1>1. CASE OuterLoop
  BY <1>1 DEF OuterLoop
<1>2. CASE Uninstall
  BY <1>2 DEF Uninstall
<1>3. CASE Accept
  <2> HIDE DEF TypeInv, TypeOK, Phases, Subscribed, Places
  <2>1. /\ served' = served + 1 /\ current' = served + 1 /\ pc' = "connect write"
        /\ UNCHANGED <<gs_die, conn, ready, buffers, outside, output>>
        /\ served < MaxSessions
    BY <1>3 DEF Accept
  <2>2. served' \in 0..MaxSessions /\ current' = served' /\ current' \in Session
    <3>1. served + 1 \in 0..MaxSessions /\ served + 1 \in 1..MaxSessions
      BY <1>0, <2>1, Numbers, NextNumber
    <3> QED
      BY <2>1, <3>1 DEF Session
  <2> USE DEF TypeInv, TypeOK, Phases, Subscribed, Places
  <2> HIDE DEF Session
  <2>3. TypeOK'
    BY <2>1, <2>2
  <2>4. Phases'
    BY <1>3, <2>1, <2>2 DEF Accept
  <2> QED
    BY <2>3, <2>4
<1>4. CASE Subscribe
  BY <1>4 DEF Subscribe, Outcomes, WriteMeets
<1>5. CASE InnerLoop
  BY <1>5 DEF InnerLoop
<1>6. CASE Select
  BY <1>6 DEF Select, Readable
<1>7. CASE ReceiveFromServer
  <2>1. CASE subscribe_in = <<>>
    BY <1>7, <2>1 DEF ReceiveFromServer
  <2>2. CASE subscribe_in # <<>>
    <3>1. /\ Head(subscribe_in) \in 1..Len(Command)
          /\ Tail(subscribe_in) \in Seq(1..Len(Command))
      BY <2>2, RestType
    <3>2. PacketsFor(Head(subscribe_in)) \in Seq(Packet)
      BY <3>1, PacketsType
    <3>3. /\ packets' = PacketsFor(Head(subscribe_in))
          /\ subscribe_in' = Tail(subscribe_in)
          /\ pc = "server" /\ pc' = "forward"
          /\ UNCHANGED <<gs_die, session, conn, ready, input_data, frames, broker,
                         peers, pushed, output>>
      BY <1>7, <2>2 DEF ReceiveFromServer
    <3>4. packets' \in Seq(Packet) /\ subscribe_in' \in Seq(1..Len(Command))
      BY <3>1, <3>2, <3>3
    <3> QED
      BY <3>3, <3>4
  <2> QED
    BY <2>1, <2>2
<1>8. CASE Forward
  <2>1. CASE packets = <<>>
    BY <1>8, <2>1 DEF Forward, AfterServer
  <2>2. CASE packets # <<>>
    <3>1. Head(packets) \in Packet /\ Tail(packets) \in Seq(Packet)
      BY <2>2, RestType
    <3>2. Append(forwarded, Head(packets)) \in Seq(Packet)
      BY <3>1, AppendType
    <3>3. /\ pc = "forward" /\ pc' \in {"forward", "disconnect", "exit"}
          /\ packets' \in {packets, Tail(packets)}
          /\ forwarded' \in {forwarded, Append(forwarded, Head(packets))}
          /\ UNCHANGED <<gs_die, session, conn, ready, input_data, frames, outside,
                         published>>
      BY <1>8, <2>2 DEF Forward
    <3>4. packets' \in Seq(Packet) /\ forwarded' \in Seq(Packet)
      BY <3>1, <3>2, <3>3
    <3>5. pc' = "forward" \/ pc' \in {"disconnect", "exit"}
      BY <3>3
    <3> QED
      BY <3>3, <3>4
  <2> QED
    BY <2>1, <2>2
<1>9. CASE ReceiveFromI8
  <2>1. CASE i8_in[current] = <<>>
    BY <1>9, <2>1 DEF ReceiveFromI8
  <2>2. CASE i8_in[current] # <<>>
    <3> DEFINE k == Head(i8_in[current])
               text == Printed(input_data')
    <3>1. current \in Session /\ i8_in[current] \in Seq(0..Len(I8Packet))
      BY <1>9 DEF ReceiveFromI8
    <3>2. k \in 0..Len(I8Packet) /\ Tail(i8_in[current]) \in Seq(0..Len(I8Packet))
      BY <2>2, <3>1, RestType
    <3>3. input_data' \in Seq(0..EndOfText) /\ text \in Seq(0..Len(I8Packet))
      <4>1. PICK n \in Lengths(k) : input_data' = Overwrite(input_data, Brought(k, n))
        BY <1>9, <2>2 DEF ReceiveFromI8
      <4>2. input_data \in Seq(0..EndOfText)
        OBVIOUS
      <4> HIDE DEF k
      <4>3. input_data' \in Seq(0..EndOfText)
        BY <3>2, <4>1, <4>2, BroughtType, OverwriteType
      <4> QED
        BY <4>3, PrintedType
    <3>4. FramesFor(k, text) \in Seq(Frame)
      BY <3>2, <3>3, FramesType
    <3>5. /\ frames' = FramesFor(k, text)
          /\ i8_in' = [i8_in EXCEPT ![current] = Tail(i8_in[current])]
          /\ pc = "i8" /\ pc' = "publish"
          /\ UNCHANGED <<gs_die, session, conn, ready, packets, broker, peer, sent,
                         subscribe_in, pushed, output>>
      BY <1>9, <2>2 DEF ReceiveFromI8
    <3> HIDE DEF k, text
    <3>6. i8_in' \in [Session -> Seq(0..Len(I8Packet))]
      BY <3>2, <3>5
    <3> QED
      BY <3>3, <3>4, <3>5, <3>6
  <2> QED
    BY <2>1, <2>2
<1>10. CASE Publish
  <2>1. CASE frames = <<>>
    BY <1>10, <2>1 DEF Publish
  <2>2. CASE frames # <<>>
    <3>1. Head(frames) \in Frame /\ Tail(frames) \in Seq(Frame)
      BY <2>2, RestType
    <3>2. Append(published, Head(frames)) \in Seq(Frame)
      BY <3>1, AppendType
    <3>3. /\ pc = "publish" /\ pc' \in {"publish", "disconnect", "exit"}
          /\ UNCHANGED <<gs_die, session, conn, ready, input_data, packets, outside,
                         forwarded>>
          /\ frames' \in {frames, Tail(frames)}
          /\ published' \in {published, Append(published, Head(frames))}
      BY <1>10, <2>2 DEF Publish, Outcomes, Unwritten
    <3>4. frames' \in Seq(Frame) /\ published' \in Seq(Frame)
      BY <3>1, <3>2, <3>3
    <3> QED
      BY <3>3, <3>4
  <2> QED
    BY <2>1, <2>2
<1>11. CASE Disconnect
  BY <1>11 DEF Disconnect
<1>12. ASSUME NEW c \in Connection, Connect(c)
       PROVE  TypeInv'
  <2>1. conn' \in [Connection -> {"none", "open", "broken"}]
    BY <1>12 DEF Connect
  <2>2. UNCHANGED <<gs_die, session, ready, buffers, outside, output>>
    BY <1>12 DEF Connect
  <2>3. \/ pc = "connect write" /\ pc' = "login write"
        \/ pc = "connect subscribe" /\ pc' = "login subscribe"
    <3>1. CASE c = "write"
      BY <1>12, <3>1 DEF Connect, Connecting, LoggingIn
    <3>2. CASE c = "subscribe"
      BY <1>12, <3>2 DEF Connect, Connecting, LoggingIn
    <3> QED
      BY <3>1, <3>2 DEF Connection
  <2> QED
    BY <2>1, <2>2, <2>3
<1>13. ASSUME NEW c \in Connection, Login(c)
       PROVE  TypeInv'
  <2>1. conn' \in [Connection -> {"none", "open", "broken"}]
    BY <1>13 DEF Login
  <2>2. UNCHANGED <<gs_die, session, ready, buffers, outside, output>>
    BY <1>13 DEF Login
  <2>3. /\ pc \in {"login write", "login subscribe"}
        /\ pc' \in {"connect write", "connect subscribe", "subscribe", "exit"}
    <3>1. CASE c = "write"
      BY <1>13, <3>1 DEF Login, Connecting, LoggingIn, AfterLogin
    <3>2. CASE c = "subscribe"
      BY <1>13, <3>2 DEF Login, Connecting, LoggingIn, AfterLogin
    <3> QED
      BY <3>1, <3>2 DEF Connection
  <2> QED
    BY <2>1, <2>2, <2>3
<1>14. CASE Interrupt
  BY <1>14 DEF Interrupt
<1>15. ASSUME NEW cs, Breaks(cs), broker_up' \in BOOLEAN
       PROVE  TypeInv'
  <2>1. conn' = [c \in Connection |->
                  IF c \in cs /\ conn[c] = "open" THEN "broken" ELSE conn[c]]
    BY <1>15 DEF Breaks
  <2>2. conn' \in [Connection -> {"none", "open", "broken"}]
    BY <2>1
  <2>3. conn = [c \in Connection |-> "none"] => conn' = conn
    BY <2>1
  <2> HIDE DEF TypeInv, TypeOK, Phases, Subscribed, Places
  <2>4. subscribe_in' \in {subscribe_in, <<>>}
    BY <1>15 DEF Breaks
  <2>5. outages' \in 0..MaxOutages
    BY <1>0, <1>15, Numbers DEF Breaks
  <2>6. UNCHANGED <<pc, gs_die, session, ready, buffers, peers, pushed, output>>
    BY <1>15 DEF Breaks
  <2>7. subscribe_in' \in Seq(1..Len(Command))
    <3>1. <<>> \in Seq(1..Len(Command))
      OBVIOUS
    <3> QED
      BY <1>0, <2>4, <3>1
  <2> USE DEF TypeInv, TypeOK, Phases, Subscribed, Places
  <2> QED
    BY <1>15, <2>2, <2>3, <2>4, <2>5, <2>6, <2>7
<1>16. CASE BrokerStarts
  BY <1>16 DEF BrokerStarts
<1>17. CASE BrokerSends
  <2> HIDE DEF TypeInv, TypeOK, Phases, Subscribed, Places
  <2>1. /\ Subscribed /\ Len(pushed) < Len(Command)
        /\ pushed' = Append(pushed, current)
        /\ subscribe_in' = Append(subscribe_in, Len(pushed) + 1)
        /\ UNCHANGED <<pc, gs_die, session, conn, ready, buffers, broker, peers, output>>
    BY <1>17 DEF BrokerSends
  <2>2. current \in Session /\ Len(pushed) \in Nat
    BY <1>0, <2>1
  <2>3. pushed' \in Seq(Session) /\ Len(pushed') = Len(pushed) + 1
    BY <1>0, <2>1, <2>2, AppendType
  <2>4. Len(pushed) + 1 \in 1..Len(Command)
    BY <2>1, <2>2, Numbers
  <2>5. subscribe_in' \in Seq(1..Len(Command))
    BY <1>0, <2>1, <2>4, AppendType
  <2>6. Len(pushed') <= Len(Command)
    BY <2>2, <2>3, <2>4, Numbers
  <2> USE DEF TypeInv, TypeOK, Phases, Subscribed, Places
  <2> QED
    BY <2>1, <2>3, <2>5, <2>6
<1>18. ASSUME NEW s \in Session, PeerStarts(s) \/ PeerEnds(s)
       PROVE  TypeInv'
  BY <1>18 DEF PeerStarts, PeerEnds
<1>19. ASSUME NEW s \in Session, PeerSends(s)
       PROVE  TypeInv'
  <2> HIDE DEF TypeInv, TypeOK, Phases, Subscribed, Places
  <2>1. /\ Len(sent) < Len(I8Packet) /\ sent' = Append(sent, s)
        /\ i8_in' = [i8_in EXCEPT ![s] = Append(i8_in[s], Len(sent) + 1)]
        /\ UNCHANGED <<pc, gs_die, session, conn, ready, buffers, broker, peer,
                       subscribe_in, pushed, output>>
    BY <1>19 DEF PeerSends
  <2>2. Len(sent) + 1 \in 1..Len(I8Packet) /\ i8_in[s] \in Seq(0..Len(I8Packet))
    BY <1>0, <2>1, Numbers
  <2>3. sent' \in Seq(Session) /\ Len(sent') = Len(sent) + 1
    BY <1>0, <2>1, AppendType
  <2>4. Append(i8_in[s], Len(sent) + 1) \in Seq(0..Len(I8Packet))
    BY <2>2, AppendType
  <2>5. i8_in' \in [Session -> Seq(0..Len(I8Packet))]
    BY <1>0, <2>1, <2>4
  <2>6. Len(sent') <= Len(I8Packet)
    BY <1>0, <2>1, <2>2, <2>3, Numbers
  <2> USE DEF TypeInv, TypeOK, Phases, Subscribed, Places
  <2> QED
    BY <2>1, <2>3, <2>5, <2>6
<1>20. ASSUME NEW s \in Session, PeerReports(s)
       PROVE  TypeInv'
  <2> HIDE DEF TypeInv, TypeOK, Phases, Subscribed, Places
  <2>1. i8_in[s] \in Seq(0..Len(I8Packet)) /\ 0 \in 0..Len(I8Packet)
    BY <1>0, Numbers
  <2>2. Append(i8_in[s], 0) \in Seq(0..Len(I8Packet))
    BY <2>1, AppendType
  <2>3. i8_in' \in [Session -> Seq(0..Len(I8Packet))]
    BY <1>0, <1>20, <2>2 DEF PeerReports, Report
  <2>4. UNCHANGED <<pc, gs_die, session, conn, ready, buffers, broker, peer, sent,
                   subscribe_in, pushed, output>>
    BY <1>20 DEF PeerReports
  <2> USE DEF TypeInv, TypeOK, Phases, Subscribed, Places
  <2> QED
    BY <2>3, <2>4
<1>21. CASE UNCHANGED vars
  BY <1>21 DEF vars
<1> QED
  BY <1>1, <1>2, <1>3, <1>4, <1>5, <1>6, <1>7, <1>8, <1>9, <1>10, <1>11, <1>12,
     <1>13, <1>14, <1>15, <1>16, <1>17, <1>18, <1>19, <1>20, <1>21
     DEF Next, Process, Environment, Exited, BrokerStops, ConnectionFails

\* The state is of its type.
THEOREM TypeCorrect == Spec => []TypeOK
<1>1. TypeInv => TypeOK
  BY DEF TypeInv
<1> QED
  BY <1>1, InitType, StepType, PTL DEF Spec

-----------------------------------------------------------------------------
(* Numbers of items.                                                       *)

\* Item orders by the packet or command first, then by the part.
LEMMA ItemOrder ==
    ASSUME NEW k \in Nat \ {0}, NEW l \in Nat \ {0},
           NEW p \in 1..MaxParts, NEW q \in 1..MaxParts
    PROVE  /\ Item(k, p) \in Nat \ {0}
           /\ k <= l => Item(k, p) <= l * MaxParts
           /\ k < l => Item(k, p) < Item(l, q)
           /\ k = l /\ p < q => Item(k, p) < Item(l, q)
<1>1. /\ MaxParts \in Nat \ {0} /\ k - 1 \in Nat /\ l - 1 \in Nat
      /\ p \in Nat /\ q \in Nat /\ 1 <= p /\ 1 <= q /\ p <= MaxParts
  BY Numbers
<1> DEFINE a == (k - 1) * MaxParts
           b == (l - 1) * MaxParts
           c == l * MaxParts
<1>2. a \in Nat /\ b \in Nat /\ c \in Nat
  <2>1. \A x, y \in Nat : x * y \in Nat
    OBVIOUS
  <2> QED
    BY <1>1, <2>1
<1>3. k < l => a + MaxParts <= b
  <2>1. k < l => k - 1 < l - 1
    OBVIOUS
  <2> QED
    BY <1>1, <2>1, Multiples
<1>4. k <= l => a + MaxParts <= c
  <2>1. k <= l => k - 1 < l
    OBVIOUS
  <2> QED
    BY <1>1, <2>1, Multiples
<1>5. Item(k, p) = a + p /\ Item(l, q) = b + q /\ (k = l => a = b)
  BY DEF Item
<1> HIDE DEF a, b, c
<1>6. /\ a + p \in Nat \ {0}
      /\ k <= l => a + p <= c
      /\ k < l => a + p < b + q
      /\ k = l /\ p < q => a + p < b + q
  BY <1>1, <1>2, <1>3, <1>4, <1>5
<1> QED
  BY <1>5, <1>6 DEF c

-----------------------------------------------------------------------------
(* From the broker to the transceivers.                                    *)

CommandItem(p) == Item(p.command, p.part)
ForwardedItems == [i \in 1..Len(forwarded) |-> Item(forwarded[i].command, forwarded[i].part)]

\* Frames are read in the order in which they were sent, ...
UnreadInOrder ==
    \A i \in 1..Len(subscribe_in) :
      /\ subscribe_in[i] <= Len(pushed)
      /\ \A j \in 1..Len(subscribe_in) : i < j => subscribe_in[i] < subscribe_in[j]

\* ... what was made of one comes before those that are unread, ...
ReadBefore ==
    \A i \in 1..Len(subscribe_in) :
      /\ \A j \in 1..Len(packets) : packets[j].command < subscribe_in[i]
      /\ \A j \in 1..Len(forwarded) : forwarded[j].command < subscribe_in[i]

\* ... and what was sent before what is about to be.
PacketsInOrder ==
    \A i \in 1..Len(packets) :
      /\ packets[i].command <= Len(pushed)
      /\ \A j \in 1..Len(packets) :
           i < j => CommandItem(packets[i]) < CommandItem(packets[j])
      /\ \A j \in 1..Len(forwarded) : CommandItem(forwarded[j]) < CommandItem(packets[i])

ForwardedKnown ==
    \A i \in 1..Len(forwarded) : forwarded[i].command <= Len(pushed)

DownInv == UnreadInOrder /\ ReadBefore /\ PacketsInOrder /\ ForwardedKnown

\* What a step does to the frames and packets on their way, given the types.
DownDropped ==
    /\ subscribe_in' \in {subscribe_in, <<>>} /\ packets' \in {packets, <<>>}
    /\ UNCHANGED <<pushed, forwarded>>
DownRead ==
    /\ subscribe_in # <<>>
    /\ packets' = PacketsFor(Head(subscribe_in))
    /\ subscribe_in' = Tail(subscribe_in)
    /\ UNCHANGED <<pushed, forwarded>>
DownSent ==
    /\ packets # <<>>
    /\ forwarded' = Append(forwarded, Head(packets))
    /\ packets' = Tail(packets)
    /\ UNCHANGED <<pushed, subscribe_in>>
DownPushed ==
    /\ pushed' = Append(pushed, current) /\ current \in Session
    /\ subscribe_in' = Append(subscribe_in, Len(pushed) + 1)
    /\ UNCHANGED <<packets, forwarded>>

\* Every step of the daemon and its environment is of one of these kinds.
LEMMA DownCases ==
    ASSUME TypeInv, [Next]_vars
    PROVE  DownDropped \/ DownRead \/ DownSent \/ DownPushed
<1> USE DEF session, buffers, broker, peers, outside, output, DownDropped
<1>1. CASE OuterLoop \/ Uninstall \/ Accept \/ Subscribe \/ InnerLoop \/ Select
  BY <1>1 DEF OuterLoop, Uninstall, Accept, Subscribe, InnerLoop, Select
<1>2. CASE ReceiveFromServer
  BY <1>2 DEF ReceiveFromServer, DownRead
<1>3. CASE Forward
  BY <1>3 DEF Forward, DownSent
<1>4. CASE ReceiveFromI8
  BY <1>4 DEF ReceiveFromI8
<1>5. CASE Publish
  BY <1>5 DEF Publish
<1>6. CASE Disconnect
  BY <1>6 DEF Disconnect
<1>7. CASE \E c \in Connection : Connect(c) \/ Login(c)
  BY <1>7 DEF Connect, Login
<1>8. CASE Interrupt \/ BrokerStarts \/ UNCHANGED vars
  BY <1>8 DEF Interrupt, BrokerStarts, vars
<1>9. CASE \E cs : Breaks(cs)
  BY <1>9 DEF Breaks
<1>10. CASE BrokerSends
  BY <1>10 DEF BrokerSends, DownPushed, TypeInv, Phases, Subscribed
<1>11. CASE \E s \in Session : PeerStarts(s) \/ PeerEnds(s) \/ PeerSends(s) \/ PeerReports(s)
  BY <1>11 DEF PeerStarts, PeerEnds, PeerSends, PeerReports
<1> QED
  BY <1>1, <1>2, <1>3, <1>4, <1>5, <1>6, <1>7, <1>8, <1>9, <1>10, <1>11
     DEF Next, Process, Environment, Exited, BrokerStops, ConnectionFails

\* The types of the sequences in both states.
LEMMA DownTypes ==
    ASSUME TypeInv
    PROVE  /\ subscribe_in \in Seq(1..Len(Command)) /\ packets \in Seq(Packet)
           /\ forwarded \in Seq(Packet) /\ Len(pushed) \in Nat
           /\ pushed \in Seq(Session)
BY DEF TypeInv, TypeOK

\* Packets made of commands are ordered as their numbers are.
LEMMA CommandItemOrder ==
    ASSUME NEW x \in Packet, NEW y \in Packet
    PROVE  /\ CommandItem(x) \in Nat \ {0}
           /\ x.command \in Nat \ {0}
           /\ x.command < y.command => CommandItem(x) < CommandItem(y)
           /\ x.command = y.command /\ x.part < y.part => CommandItem(x) < CommandItem(y)
           /\ \A n \in Nat : x.command <= n => CommandItem(x) <= n * MaxParts
<1>1. /\ x.command \in 1..Len(Command) /\ y.command \in 1..Len(Command)
      /\ x.part \in 1..MaxParts /\ y.part \in 1..MaxParts
  BY DEF Packet
<1>2. x.command \in Nat \ {0} /\ y.command \in Nat \ {0}
  BY <1>1, Numbers
<1>3. ASSUME NEW n \in Nat, x.command <= n
      PROVE  CommandItem(x) <= n * MaxParts
  <2>1. n \in Nat \ {0}
    BY <1>2, <1>3
  <2> QED
    BY <1>1, <1>2, <1>3, <2>1, ItemOrder DEF CommandItem
<1> QED
  BY <1>1, <1>2, <1>3, ItemOrder DEF CommandItem

\* The order holds at first, ...
LEMMA DownInit == Init => DownInv
BY DEF Init, DownInv, UnreadInOrder, ReadBefore, PacketsInOrder, ForwardedKnown

\* ... and every step keeps it.
LEMMA DownStep ==
    ASSUME TypeInv, TypeInv', DownInv, [Next]_vars
    PROVE  DownInv'
<1> USE DEF DownInv, UnreadInOrder, ReadBefore, PacketsInOrder, ForwardedKnown
<1>0. DownDropped \/ DownRead \/ DownSent \/ DownPushed
  BY DownCases
<1>1. CASE DownDropped
  BY <1>1 DEF DownDropped
<1>2. CASE DownRead
  <2> DEFINE k == Head(subscribe_in)
  <2>1. /\ k \in 1..Len(Command) /\ packets' = PacketsFor(k) /\ k = subscribe_in[1]
        /\ Len(subscribe_in') = Len(subscribe_in) - 1
        /\ \A i \in 1..Len(subscribe_in') : subscribe_in'[i] = subscribe_in[i + 1]
        /\ 1 \in 1..Len(subscribe_in) /\ Len(subscribe_in) \in Nat
        /\ UNCHANGED <<pushed, forwarded>>
    BY <1>2, DownTypes DEF DownRead
  <2>2. /\ packets' \in Seq(Packet)
        /\ \A i \in 1..Len(packets') : packets'[i].command = k /\ packets'[i].part = i
    BY <2>1, PacketsType
  <2> HIDE DEF k
  <2>3. \A i \in 1..Len(subscribe_in') : i + 1 \in 1..Len(subscribe_in) /\ 1 < i + 1
    BY <2>1
  <2>4. UnreadInOrder'
    <3> SUFFICES ASSUME NEW i \in 1..Len(subscribe_in')
                 PROVE  /\ subscribe_in'[i] <= Len(pushed')
                        /\ \A j \in 1..Len(subscribe_in') :
                             i < j => subscribe_in'[i] < subscribe_in'[j]
      OBVIOUS
    <3>1. subscribe_in'[i] = subscribe_in[i + 1] /\ i + 1 \in 1..Len(subscribe_in)
      BY <2>1, <2>3
    <3>2. ASSUME NEW j \in 1..Len(subscribe_in'), i < j
          PROVE  subscribe_in'[i] < subscribe_in'[j]
      <4>1. subscribe_in'[j] = subscribe_in[j + 1] /\ j + 1 \in 1..Len(subscribe_in)
        BY <2>1, <2>3
      <4>2. i + 1 < j + 1
        BY <2>1, <3>2
      <4> QED
        BY <3>1, <4>1, <4>2
    <3> QED
      BY <2>1, <3>1, <3>2
  <2>5. ReadBefore'
    BY <2>1, <2>2, <2>3
  <2>6. PacketsInOrder'
    <3> SUFFICES ASSUME NEW i \in 1..Len(packets')
                 PROVE  /\ packets'[i].command <= Len(pushed')
                        /\ \A j \in 1..Len(packets') :
                             i < j => CommandItem(packets'[i]) < CommandItem(packets'[j])
                        /\ \A j \in 1..Len(forwarded') :
                             CommandItem(forwarded'[j]) < CommandItem(packets'[i])
      BY DEF CommandItem
    <3>1. packets'[i] \in Packet /\ packets'[i].command = k /\ packets'[i].part = i
      BY <2>2
    <3>2. packets'[i].command <= Len(pushed')
      BY <2>1, <3>1
    <3>3. ASSUME NEW j \in 1..Len(packets'), i < j
          PROVE  CommandItem(packets'[i]) < CommandItem(packets'[j])
      <4>1. packets'[j] \in Packet /\ packets'[j].command = k /\ packets'[j].part = j
        BY <2>2
      <4> QED
        BY <3>1, <3>3, <4>1, CommandItemOrder
    <3>4. ASSUME NEW j \in 1..Len(forwarded')
          PROVE  CommandItem(forwarded'[j]) < CommandItem(packets'[i])
      <4>1. forwarded'[j] \in Packet /\ forwarded'[j].command < k
        BY <2>1, DownTypes
      <4> QED
        BY <3>1, <4>1, CommandItemOrder
    <3> QED
      BY <3>2, <3>3, <3>4
  <2>7. ForwardedKnown'
    BY <2>1
  <2> QED
    BY <2>4, <2>5, <2>6, <2>7
<1>3. CASE DownSent
  <2> DEFINE n == Len(packets)
             m == Len(forwarded)
  <2>1. /\ n \in Nat /\ m \in Nat /\ 1 \in 1..n
        /\ Len(packets') = n - 1 /\ Len(forwarded') = m + 1
        /\ \A i \in 1..(n - 1) : packets'[i] = packets[i + 1]
        /\ \A i \in 1..m : forwarded'[i] = forwarded[i]
        /\ forwarded'[m + 1] = packets[1]
        /\ UNCHANGED <<pushed, subscribe_in>>
    BY <1>3, DownTypes DEF DownSent
  <2>2. \A i \in 1..(n - 1) : i + 1 \in 1..n /\ 1 < i + 1
    BY <2>1
  <2>3. \A i \in 1..(m + 1) : i \in 1..m \/ i = m + 1
    BY <2>1
  <2> HIDE DEF n, m
  <2>4. UnreadInOrder'
    BY <2>1
  <2>5. ReadBefore'
    <3> SUFFICES ASSUME NEW i \in 1..Len(subscribe_in)
                 PROVE  /\ \A j \in 1..(n - 1) : packets'[j].command < subscribe_in[i]
                        /\ \A j \in 1..(m + 1) : forwarded'[j].command < subscribe_in[i]
      BY <2>1
    <3>1. \A j \in 1..(n - 1) : packets'[j].command < subscribe_in[i]
      BY <2>1, <2>2 DEF n
    <3>2. ASSUME NEW j \in 1..(m + 1) PROVE forwarded'[j].command < subscribe_in[i]
      <4>1. CASE j \in 1..m
        BY <2>1, <4>1 DEF m
      <4>2. CASE j = m + 1
        BY <2>1, <4>2 DEF n
      <4> QED
        BY <2>3, <4>1, <4>2
    <3> QED
      BY <3>1, <3>2
  <2>6. PacketsInOrder'
    <3> SUFFICES ASSUME NEW i \in 1..(n - 1)
                 PROVE  /\ packets'[i].command <= Len(pushed)
                        /\ \A j \in 1..(n - 1) :
                             i < j => CommandItem(packets'[i]) < CommandItem(packets'[j])
                        /\ \A j \in 1..(m + 1) :
                             CommandItem(forwarded'[j]) < CommandItem(packets'[i])
      BY <2>1 DEF CommandItem
    <3>1. packets'[i] = packets[i + 1] /\ i + 1 \in 1..n /\ 1 < i + 1
      BY <2>1, <2>2
    <3>2. ASSUME NEW j \in 1..(n - 1), i < j
          PROVE  CommandItem(packets'[i]) < CommandItem(packets'[j])
      <4>1. packets'[j] = packets[j + 1] /\ j + 1 \in 1..n /\ i + 1 < j + 1
        BY <2>1, <2>2, <3>2
      <4> QED
        BY <3>1, <4>1 DEF n
    <3>3. ASSUME NEW j \in 1..(m + 1)
          PROVE  CommandItem(forwarded'[j]) < CommandItem(packets'[i])
      <4>1. CASE j \in 1..m
        BY <2>1, <3>1, <4>1 DEF n, m
      <4>2. CASE j = m + 1
        BY <2>1, <3>1, <4>2 DEF n
      <4> QED
        BY <2>3, <4>1, <4>2
    <3> QED
      BY <3>1, <3>2, <3>3 DEF n
  <2>7. ForwardedKnown'
    BY <2>1, <2>2, <2>3 DEF n, m
  <2> QED
    BY <2>4, <2>5, <2>6, <2>7
<1>4. CASE DownPushed
  <2> DEFINE n == Len(subscribe_in)
             m == Len(pushed)
  <2>1. /\ n \in Nat /\ m \in Nat
        /\ Len(pushed') = m + 1 /\ Len(subscribe_in') = n + 1
        /\ \A i \in 1..n : subscribe_in'[i] = subscribe_in[i] /\ subscribe_in[i] \in Nat
        /\ subscribe_in'[n + 1] = m + 1
        /\ UNCHANGED <<packets, forwarded>>
    <3>1. /\ subscribe_in \in Seq(Nat) /\ n \in Nat /\ m \in Nat
      BY DownTypes
    <3>2. /\ pushed' = Append(pushed, current) /\ subscribe_in' = Append(subscribe_in, m + 1)
          /\ UNCHANGED <<packets, forwarded>>
      BY <1>4 DEF DownPushed
    <3>3. Len(pushed') = m + 1
      BY DownTypes, <3>2
    <3> HIDE DEF m
    <3> QED
      BY <3>1, <3>2, <3>3
  <2>2. \A i \in 1..(n + 1) : i \in 1..n \/ i = n + 1
    BY <2>1
  <2>3. /\ \A i \in 1..Len(packets) : packets[i].command \in Nat
        /\ \A i \in 1..Len(forwarded) : forwarded[i].command \in Nat
    BY DownTypes, CommandItemOrder
  <2> HIDE DEF n, m
  <2>4. UnreadInOrder'
    <3>1. \A i \in 1..n : subscribe_in[i] <= m
      BY DEF n, m
    <3>2. \A i, j \in 1..n : i < j => subscribe_in[i] < subscribe_in[j]
      BY DEF n
    <3>3. \A i \in 1..(n + 1) : subscribe_in'[i] <= m + 1
      BY <2>1, <2>2, <3>1
    <3>4. ASSUME NEW i \in 1..(n + 1), NEW j \in 1..(n + 1), i < j
          PROVE  subscribe_in'[i] < subscribe_in'[j]
      <4>1. i \in 1..n /\ (j \in 1..n \/ j = n + 1)
        BY <2>1, <3>4
      <4>2. subscribe_in'[i] = subscribe_in[i] /\ subscribe_in[i] \in Nat
        BY <2>1, <4>1
      <4>3. CASE j \in 1..n
        <5>1. subscribe_in'[j] = subscribe_in[j]
          BY <2>1, <4>3
        <5> QED
          BY <3>2, <3>4, <4>1, <4>2, <4>3, <5>1
      <4>4. CASE j = n + 1
        <5>1. subscribe_in'[j] = m + 1 /\ subscribe_in[i] <= m
          BY <2>1, <3>1, <4>1, <4>4
        <5> QED
          BY <2>1, <4>2, <5>1
      <4> QED
        BY <4>1, <4>3, <4>4
    <3> QED
      BY <2>1, <3>3, <3>4
  <2>5. ReadBefore'
    <3> SUFFICES ASSUME NEW i \in 1..(n + 1)
                 PROVE  /\ \A j \in 1..Len(packets) :
                             packets[j].command < subscribe_in'[i]
                        /\ \A j \in 1..Len(forwarded) :
                             forwarded[j].command < subscribe_in'[i]
      BY <2>1
    <3>1. CASE i \in 1..n
      BY <2>1, <3>1 DEF n
    <3>2. CASE i = n + 1
      <4>1. subscribe_in'[i] = m + 1
        BY <2>1, <3>2
      <4> QED
        BY <2>1, <2>3, <4>1 DEF m
    <3> QED
      BY <2>2, <3>1, <3>2
  <2>6. PacketsInOrder'
    BY <2>1, <2>3 DEF n, m, CommandItem
  <2>7. ForwardedKnown'
    BY <2>1, <2>3 DEF n, m
  <2> QED
    BY <2>4, <2>5, <2>6, <2>7
<1> QED
  BY <1>0, <1>1, <1>2, <1>3, <1>4

\* The steps of the relay that a step of the daemon can be.
LEMMA DownRefines ==
    ASSUME TypeInv, DownInv, [Next]_vars
    PROVE  [Down!Next]_<<Len(pushed) * MaxParts, ForwardedItems>>
<1> DEFINE offered == Len(pushed) * MaxParts
<1>0. DownDropped \/ DownRead \/ DownSent \/ DownPushed
  BY DownCases
<1>1. CASE DownDropped \/ DownRead
  <2>1. UNCHANGED <<pushed, forwarded>>
    BY <1>1 DEF DownDropped, DownRead
  <2>2. UNCHANGED <<offered, ForwardedItems>>
    BY <2>1 DEF ForwardedItems, Item
  <2> QED
    BY <2>2
<1>2. CASE DownSent
  <2> DEFINE n == Len(forwarded)
             x == Head(packets)
             k == CommandItem(x)
  <2>1. /\ packets # <<>> /\ forwarded' = Append(forwarded, x) /\ UNCHANGED pushed
        /\ n \in Nat /\ x \in Packet /\ x = packets[1] /\ 1 \in 1..Len(packets)
    BY <1>2, DownTypes, RestType DEF DownSent
  <2>2. Len(pushed) \in Nat
    BY DownTypes
  <2>3. k \in 1..offered
    <3>1. x.command <= Len(pushed)
      BY <2>1 DEF DownInv, PacketsInOrder
    <3>2. k \in Nat \ {0} /\ k <= offered
      BY <2>1, <2>2, <3>1, CommandItemOrder
    <3>3. offered \in Nat
      <4>1. \A a, b \in Nat : a * b \in Nat
        OBVIOUS
      <4> QED
        BY <4>1, <2>2, Numbers
    <3> HIDE DEF k, offered
    <3> QED
      BY <3>2, <3>3
  <2>4. \A i \in 1..n : CommandItem(forwarded[i]) < k
    BY <2>1 DEF DownInv, PacketsInOrder
  <2> HIDE DEF x
  <2>5. ForwardedItems = [i \in 1..n |-> CommandItem(forwarded[i])]
    BY DEF ForwardedItems, CommandItem
  <2>6. ForwardedItems' = Append(ForwardedItems, k)
    <3> DEFINE F(y) == CommandItem(y)
    <3>1. ForwardedItems = [i \in 1..Len(forwarded) |-> F(forwarded[i])]
      BY DEF ForwardedItems, CommandItem
    <3>2. ForwardedItems' = [i \in 1..Len(forwarded') |-> F(forwarded'[i])]
      BY DEF ForwardedItems, CommandItem, Item
    <3>3. F(x) = k
      OBVIOUS
    <3>4. forwarded \in Seq(Packet) /\ x \in Packet /\ forwarded' = Append(forwarded, x)
      BY <2>1, DownTypes
    <3> HIDE DEF F, k, n
    <3> QED
      BY <3>1, <3>2, <3>3, <3>4
  <2> HIDE DEF n, k
  <2>7. \A i \in 1..Len(ForwardedItems) : ForwardedItems[i] < k
    BY <2>1, <2>4, <2>5
  <2>8. Down!Deliver
    <3>1. UNCHANGED offered
      BY <2>1
    <3> HIDE DEF offered
    <3> QED
      BY <2>3, <2>6, <2>7, <3>1 DEF Down!Deliver, ForwardedItems, offered
  <2> QED
    BY <2>8 DEF Down!Next
<1>3. CASE DownPushed
  <2>1. Len(pushed') = Len(pushed) + 1 /\ Len(pushed) \in Nat /\ UNCHANGED forwarded
    BY <1>3, DownTypes DEF DownPushed
  <2>2. offered' \in Nat /\ offered' > offered
    <3>1. MaxParts \in Nat \ {0}
      BY Numbers
    <3>2. \A a \in Nat : \A b \in Nat \ {0} : (a + 1) * b \in Nat /\ (a + 1) * b > a * b
      OBVIOUS
    <3> QED
      BY <2>1, <3>1, <3>2
  <2>3. UNCHANGED ForwardedItems
    BY <2>1 DEF ForwardedItems, Item
  <2>4. Down!Offer
    BY <2>2, <2>3 DEF Down!Offer, ForwardedItems
  <2> QED
    BY <2>4 DEF Down!Next
<1> QED
  BY <1>0, <1>1, <1>2, <1>3

\* What the daemon sends to the transceivers, it sends in the order of the queue
\* and once, across broken connections and sessions.
THEOREM ForwardingImplementsOrderedRelay == Spec => ForwardsInOrder
<1>1. Init => TypeInv /\ DownInv /\ Down!Init
  <2>1. Init => Down!Init
    BY Numbers DEF Init, Down!Init
  <2> QED
    BY <2>1, InitType, DownInit
<1>2. TypeInv /\ DownInv /\ [Next]_vars =>
        /\ TypeInv' /\ DownInv'
        /\ [Down!Next]_<<Len(pushed) * MaxParts, ForwardedItems>>
  BY StepType, DownStep, DownRefines
<1> QED
  BY <1>1, <1>2, PTL DEF Spec, ForwardsInOrder, Down!Spec, ForwardedItems

-----------------------------------------------------------------------------
(* From the transceivers to the broker.                                    *)

FrameItem(f) == Item(f.packet, f.part)
PublishedItems == [i \in 1..Len(published) |-> Item(published[i].packet, published[i].part)]

\* Transceivers follow each other, and one that has not started has sent nothing.
PeersInOrder ==
    \A s, t \in Session : s < t /\ peer[t] # "absent" => peer[s] = "closed"
AbsentSilent == \A s \in Session : peer[s] = "absent" => i8_in[s] = <<>>

\* Their packets are in the sockets in the order in which they were sent, also
\* from one session to the next.
SocketsKnown ==
    \A s \in Session : \A i \in 1..Len(i8_in[s]) : i8_in[s][i] <= Len(sent)
SocketsInOrder ==
    \A s, t \in Session : \A i \in 1..Len(i8_in[s]) : \A j \in 1..Len(i8_in[t]) :
      (s < t \/ (s = t /\ i < j)) /\ i8_in[s][i] # Report /\ i8_in[t][j] # Report =>
        i8_in[s][i] < i8_in[t][j]

\* What can still be read was sent after all that was made into frames.
ReadAhead ==
    \A s \in Session : s = current \/ s > served =>
      \A i \in 1..Len(i8_in[s]) : i8_in[s][i] # Report =>
        /\ \A j \in 1..Len(published) : published[j].packet < i8_in[s][i]
        /\ \A j \in 1..Len(frames) : frames[j].packet < i8_in[s][i]

FramesInOrder ==
    \A i \in 1..Len(frames) :
      /\ frames[i].packet <= Len(sent)
      /\ frames[i].packet # Report =>
           /\ \A j \in 1..Len(published) : FrameItem(published[j]) < FrameItem(frames[i])
           /\ \A j \in 1..Len(frames) : i < j => FrameItem(frames[i]) < FrameItem(frames[j])

PublishedKnown ==
    \A i \in 1..Len(published) :
      published[i].packet # Report /\ published[i].packet <= Len(sent)

UpInv == /\ PeersInOrder /\ AbsentSilent /\ SocketsKnown /\ SocketsInOrder
         /\ ReadAhead /\ FramesInOrder /\ PublishedKnown

\* What a step does to the packets and frames on their way, given the types.
UpDropped ==
    /\ frames' \in {frames, <<>>}
    /\ \/ UNCHANGED session
       \/ current' = 0 /\ UNCHANGED served
       \/ served' = served + 1 /\ current' = served'
    /\ UNCHANGED <<peers, published>>
UpPeer(s) ==
    /\ \/ /\ peer[s] = "absent" /\ (s > 1 => peer[s - 1] = "closed")
          /\ peer' = [peer EXCEPT ![s] = "open"]
       \/ peer[s] = "open" /\ peer' = [peer EXCEPT ![s] = "closed"]
    /\ UNCHANGED <<session, frames, i8_in, sent, published>>
UpRead ==
    /\ current \in Session /\ i8_in[current] # <<>>
    /\ \E text \in Seq(0..Len(I8Packet)) :
         frames' = FramesFor(Head(i8_in[current]), text)
    /\ i8_in' = [i8_in EXCEPT ![current] = Tail(i8_in[current])]
    /\ UNCHANGED <<session, peer, sent, published>>
UpWritten ==
    /\ frames # <<>>
    /\ frames' = Tail(frames)
    /\ \/ UNCHANGED published
       \/ Head(frames).packet # Report /\ published' = Append(published, Head(frames))
    /\ UNCHANGED <<session, peers>>
UpSent(s) ==
    /\ peer[s] = "open"
    /\ \/ i8_in' = [i8_in EXCEPT ![s] = Append(i8_in[s], Len(sent) + 1)]
          /\ sent' = Append(sent, s)
       \/ i8_in' = [i8_in EXCEPT ![s] = Append(i8_in[s], Report)] /\ UNCHANGED sent
    /\ UNCHANGED <<session, peer, frames, published>>

\* Every step of the daemon and its environment is of one of these kinds.
LEMMA UpCases ==
    ASSUME TypeInv, [Next]_vars
    PROVE  UpDropped \/ UpRead \/ UpWritten \/ \E s \in Session : UpPeer(s) \/ UpSent(s)
<1> USE DEF session, buffers, broker, peers, outside, output, UpDropped
<1>1. CASE OuterLoop \/ Uninstall \/ Accept \/ Subscribe \/ InnerLoop \/ Select
  BY <1>1 DEF OuterLoop, Uninstall, Accept, Subscribe, InnerLoop, Select
<1>2. CASE ReceiveFromServer
  BY <1>2 DEF ReceiveFromServer
<1>3. CASE Forward
  BY <1>3 DEF Forward
<1>4. CASE ReceiveFromI8
  <2>1. CASE i8_in[current] = <<>>
    BY <1>4, <2>1 DEF ReceiveFromI8
  <2>2. CASE i8_in[current] # <<>>
    <3> DEFINE k == Head(i8_in[current])
               text == Printed(input_data')
    <3>1. current \in Session /\ i8_in[current] \in Seq(0..Len(I8Packet))
      BY <1>4 DEF ReceiveFromI8, TypeInv, TypeOK, Phases
    <3>2. text \in Seq(0..Len(I8Packet))
      <4>1. input_data' \in Seq(0..EndOfText)
        BY StepType DEF TypeInv, TypeOK
      <4> QED
        BY <4>1, PrintedType
    <3>3. /\ frames' = FramesFor(k, text)
          /\ i8_in' = [i8_in EXCEPT ![current] = Tail(i8_in[current])]
          /\ UNCHANGED <<session, peer, sent, published>>
      BY <1>4, <2>2 DEF ReceiveFromI8
    <3> HIDE DEF text
    <3> QED
      BY <2>2, <3>1, <3>2, <3>3 DEF UpRead
  <2> QED
    BY <2>1, <2>2
<1>5. CASE Publish
  <2>1. CASE frames = <<>>
    BY <1>5, <2>1 DEF Publish
  <2>2. CASE frames # <<>>
    BY <1>5, <2>2 DEF Publish, Outcomes, Unwritten, UpWritten
  <2> QED
    BY <2>1, <2>2
<1>6. CASE Disconnect
  BY <1>6 DEF Disconnect
<1>7. CASE \E c \in Connection : Connect(c) \/ Login(c)
  BY <1>7 DEF Connect, Login
<1>8. CASE Interrupt \/ BrokerStarts \/ BrokerSends \/ UNCHANGED vars
  BY <1>8 DEF Interrupt, BrokerStarts, BrokerSends, vars
<1>9. CASE \E cs : Breaks(cs)
  BY <1>9 DEF Breaks
<1>10. CASE \E s \in Session : PeerStarts(s) \/ PeerEnds(s)
  BY <1>10 DEF PeerStarts, PeerEnds, UpPeer
<1>11. CASE \E s \in Session : PeerSends(s) \/ PeerReports(s)
  BY <1>11 DEF PeerSends, PeerReports, CanSend, UpSent
<1> QED
  BY <1>1, <1>2, <1>3, <1>4, <1>5, <1>6, <1>7, <1>8, <1>9, <1>10, <1>11
     DEF Next, Process, Environment, Exited, BrokerStops, ConnectionFails

\* The types of the sequences on the way to the broker.
LEMMA UpTypes ==
    ASSUME TypeInv
    PROVE  /\ i8_in \in [Session -> Seq(0..Len(I8Packet))]
           /\ \A s \in Session : i8_in[s] \in Seq(0..Len(I8Packet))
           /\ \A s \in Session : Len(i8_in[s]) \in Nat
           /\ \A s \in Session : \A i \in 1..Len(i8_in[s]) : i8_in[s][i] \in Nat
           /\ frames \in Seq(Frame) /\ published \in Seq(Frame)
           /\ Len(sent) \in Nat /\ sent \in Seq(Session)
           /\ peer \in [Session -> {"absent", "open", "closed"}]
           /\ served \in 0..MaxSessions /\ current \in {0, served}
<1>1. /\ i8_in \in [Session -> Seq(0..Len(I8Packet))]
      /\ frames \in Seq(Frame) /\ published \in Seq(Frame) /\ sent \in Seq(Session)
      /\ peer \in [Session -> {"absent", "open", "closed"}]
      /\ served \in 0..MaxSessions /\ current \in {0, served}
  BY DEF TypeInv, TypeOK
<1>2. \A s \in Session : i8_in[s] \in Seq(0..Len(I8Packet))
  BY <1>1
<1>3. \A s \in Session : \A i \in 1..Len(i8_in[s]) : i8_in[s][i] \in 0..Len(I8Packet)
  BY <1>2
<1> QED
  BY <1>1, <1>2, <1>3, Numbers

\* Frames made of packets are ordered as their numbers are.
LEMMA FrameItemOrder ==
    ASSUME NEW x \in Frame, NEW y \in Frame, x.packet # Report, y.packet # Report
    PROVE  /\ FrameItem(x) \in Nat \ {0}
           /\ x.packet \in Nat \ {0}
           /\ x.packet < y.packet => FrameItem(x) < FrameItem(y)
           /\ x.packet = y.packet /\ x.part < y.part => FrameItem(x) < FrameItem(y)
           /\ \A n \in Nat : x.packet <= n => FrameItem(x) <= n * MaxParts
<1>1. /\ x.packet \in 0..Len(I8Packet) /\ y.packet \in 0..Len(I8Packet)
      /\ x.part \in 1..MaxParts /\ y.part \in 1..MaxParts
  BY DEF Frame
<1>2. x.packet \in Nat \ {0} /\ y.packet \in Nat \ {0}
  BY <1>1, Numbers DEF Report
<1>3. ASSUME NEW n \in Nat, x.packet <= n
      PROVE  FrameItem(x) <= n * MaxParts
  <2>1. n \in Nat \ {0}
    BY <1>2, <1>3
  <2> QED
    BY <1>1, <1>2, <1>3, <2>1, ItemOrder DEF FrameItem
<1> QED
  BY <1>1, <1>2, <1>3, ItemOrder DEF FrameItem

\* The order holds at first, ...
LEMMA UpInit == Init => UpInv
BY DEF Init, UpInv, PeersInOrder, AbsentSilent, SocketsKnown, SocketsInOrder, ReadAhead,
       FramesInOrder, PublishedKnown

\* ... and is kept when frames are dropped and sessions follow each other, ...
LEMMA UpDroppedStep == ASSUME TypeInv, UpInv, UpDropped PROVE UpInv'
<1> USE DEF UpInv, peers
<1>1. UNCHANGED <<i8_in, sent, peer, published>> /\ frames' \in {frames, <<>>}
  BY DEF UpDropped
<1>2. PeersInOrder' /\ AbsentSilent' /\ SocketsKnown' /\ SocketsInOrder'
  BY <1>1 DEF PeersInOrder, AbsentSilent, SocketsKnown, SocketsInOrder
<1>3. \A s \in Session : s = current' \/ s > served' => s = current \/ s > served
  <2>1. served \in Nat
    BY UpTypes, Numbers
  <2>2. \A s \in Session : s \in Nat \ {0}
    BY Numbers DEF Session
  <2> QED
    BY <2>1, <2>2 DEF UpDropped, session
<1>4. ReadAhead'
  BY <1>1, <1>3 DEF ReadAhead
<1>5. FramesInOrder' /\ PublishedKnown'
  BY <1>1 DEF FramesInOrder, PublishedKnown, FrameItem
<1> QED
  BY <1>2, <1>4, <1>5

\* ... when a transceiver starts or ends, ...
LEMMA UpPeerStep ==
    ASSUME TypeInv, UpInv, NEW s \in Session, UpPeer(s)
    PROVE  UpInv'
<1> USE DEF UpInv
<1>1. UNCHANGED <<session, frames, i8_in, sent, published>>
  BY DEF UpPeer
<1>2. SocketsKnown' /\ SocketsInOrder' /\ ReadAhead' /\ FramesInOrder' /\ PublishedKnown'
  BY <1>1 DEF SocketsKnown, SocketsInOrder, ReadAhead, FramesInOrder, PublishedKnown,
              FrameItem, session
<1>3. peer \in [Session -> {"absent", "open", "closed"}]
  BY UpTypes
<1>4. AbsentSilent'
  BY <1>1, <1>3 DEF UpPeer, AbsentSilent
<1>5. PeersInOrder'
  <2> SUFFICES ASSUME NEW t \in Session, NEW u \in Session, t < u, peer'[u] # "absent"
               PROVE  peer'[t] = "closed"
    BY DEF PeersInOrder
  <2>1. s \in Nat \ {0} /\ t \in Nat \ {0} /\ u \in Nat \ {0} /\ s <= MaxSessions
    BY Numbers DEF Session
  <2>2. CASE peer[s] = "absent" /\ (s > 1 => peer[s - 1] = "closed")
             /\ peer' = [peer EXCEPT ![s] = "open"]
    <3>1. CASE u = s
      <4>1. t = s - 1 \/ t < s - 1
        BY <2>1, <3>1
      <4>2. s > 1 /\ s - 1 \in Session
        BY <2>1, <3>1, Numbers DEF Session
      <4>3. peer[t] = "closed"
        BY <2>2, <4>1, <4>2 DEF PeersInOrder
      <4> QED
        BY <1>3, <2>2, <4>3
    <3>2. CASE u # s
      BY <1>3, <2>2, <3>2 DEF PeersInOrder
    <3> QED
      BY <3>1, <3>2
  <2>3. CASE peer[s] = "open" /\ peer' = [peer EXCEPT ![s] = "closed"]
    BY <1>3, <2>3 DEF PeersInOrder
  <2> QED
    BY <2>2, <2>3 DEF UpPeer
<1> QED
  BY <1>2, <1>4, <1>5

\* ... when a packet is read, ...
LEMMA UpReadStep == ASSUME TypeInv, UpInv, UpRead PROVE UpInv'
<1> USE DEF UpInv
<1> DEFINE c == current
           k == Head(i8_in[c])
<1>1. /\ c \in Session /\ c = served /\ Len(i8_in[c]) \in Nat \ {0}
      /\ k = i8_in[c][1] /\ k \in 0..Len(I8Packet) /\ 1 \in 1..Len(i8_in[c])
      /\ i8_in' \in [Session -> Seq(0..Len(I8Packet))]
      /\ Len(i8_in'[c]) = Len(i8_in[c]) - 1
      /\ \A i \in 1..Len(i8_in'[c]) : i8_in'[c][i] = i8_in[c][i + 1]
      /\ \A s \in Session \ {c} : i8_in'[s] = i8_in[s]
      /\ UNCHANGED <<session, peer, sent, published>>
  <2>1. c \in Session /\ i8_in[c] # <<>> /\ i8_in[c] \in Seq(0..Len(I8Packet))
        /\ i8_in' = [i8_in EXCEPT ![c] = Tail(i8_in[c])]
        /\ UNCHANGED <<session, peer, sent, published>>
    BY UpTypes DEF UpRead
  <2>2. c = served
    <3>1. c # 0
      BY <2>1, Numbers DEF Session
    <3> QED
      BY <3>1, UpTypes
  <2>3. i8_in'[c] = Tail(i8_in[c]) /\ \A s \in Session \ {c} : i8_in'[s] = i8_in[s]
    BY <2>1, UpTypes
  <2>4. /\ Len(i8_in[c]) \in Nat \ {0} /\ k = i8_in[c][1] /\ 1 \in 1..Len(i8_in[c])
        /\ Len(Tail(i8_in[c])) = Len(i8_in[c]) - 1
        /\ \A i \in 1..Len(Tail(i8_in[c])) : Tail(i8_in[c])[i] = i8_in[c][i + 1]
    BY <2>1
  <2>5. k \in 0..Len(I8Packet) /\ Tail(i8_in[c]) \in Seq(0..Len(I8Packet))
    BY <2>1, RestType
  <2>6. i8_in' \in [Session -> Seq(0..Len(I8Packet))]
    BY <2>1, <2>5, UpTypes
  <2> QED
    BY <2>1, <2>2, <2>3, <2>4, <2>5, <2>6
<1>2. /\ frames' \in Seq(Frame)
      /\ \A i \in 1..Len(frames') : frames'[i].packet = k /\ frames'[i].part = i
  BY <1>1, FramesType DEF UpRead
<1> HIDE DEF c, k
\* Every packet that is left was there before, one further behind.
<1> DEFINE was(s, i) == IF s = c THEN i + 1 ELSE i
<1>3. \A s \in Session : \A i \in 1..Len(i8_in'[s]) :
        /\ was(s, i) \in 1..Len(i8_in[s]) /\ i8_in'[s][i] = i8_in[s][was(s, i)]
        /\ s = c => 1 < was(s, i)
  <2> SUFFICES ASSUME NEW s \in Session, NEW i \in 1..Len(i8_in'[s])
               PROVE  /\ was(s, i) \in 1..Len(i8_in[s])
                      /\ i8_in'[s][i] = i8_in[s][was(s, i)]
                      /\ s = c => 1 < was(s, i)
    OBVIOUS
  <2>1. CASE s = c
    <3>1. i8_in'[s][i] = i8_in[s][i + 1] /\ i + 1 \in 1..Len(i8_in[s]) /\ 1 < i + 1
      BY <1>1, <2>1
    <3> QED
      BY <2>1, <3>1
  <2>2. CASE s # c
    BY <1>1, <2>2
  <2> QED
    BY <2>1, <2>2
<1>4. \A s \in Session : \A i, j \in Nat : i < j => was(s, i) < was(s, j)
  OBVIOUS
<1> HIDE DEF was
<1>5. PeersInOrder' /\ AbsentSilent'
  <2>1. PeersInOrder'
    BY <1>1 DEF PeersInOrder
  <2>2. ASSUME NEW s \in Session, peer'[s] = "absent" PROVE i8_in'[s] = <<>>
    <3>1. i8_in[s] = <<>>
      BY <1>1, <2>2 DEF AbsentSilent
    <3>2. s # c
      BY <1>1, <3>1
    <3> QED
      BY <1>1, <3>1, <3>2
  <2> QED
    BY <2>1, <2>2 DEF AbsentSilent
<1>6. SocketsKnown'
  BY <1>1, <1>3 DEF SocketsKnown
<1>7. SocketsInOrder'
  <2> SUFFICES ASSUME NEW s \in Session, NEW t \in Session,
                      NEW i \in 1..Len(i8_in'[s]), NEW j \in 1..Len(i8_in'[t]),
                      s < t \/ (s = t /\ i < j),
                      i8_in'[s][i] # Report, i8_in'[t][j] # Report
               PROVE  i8_in'[s][i] < i8_in'[t][j]
    BY DEF SocketsInOrder, Report
  <2>1. s < t \/ (s = t /\ was(s, i) < was(t, j))
    <3>1. i \in Nat /\ j \in Nat
      OBVIOUS
    <3> QED
      BY <1>4, <3>1
  <2> QED
    BY <1>3, <2>1 DEF SocketsInOrder
<1>8. ReadAhead'
  <2> SUFFICES ASSUME NEW s \in Session, s = c \/ s > served,
                      NEW i \in 1..Len(i8_in'[s]), i8_in'[s][i] # Report
               PROVE  /\ \A j \in 1..Len(published) : published[j].packet < i8_in'[s][i]
                      /\ \A j \in 1..Len(frames') : frames'[j].packet < i8_in'[s][i]
    BY <1>1 DEF ReadAhead, Report, session, c
  <2> DEFINE w == was(s, i)
  <2>1. /\ w \in 1..Len(i8_in[s]) /\ i8_in'[s][i] = i8_in[s][w]
        /\ s = c => 1 < w
    BY <1>3
  <2> HIDE DEF w
  <2>2. \A j \in 1..Len(published) : published[j].packet < i8_in'[s][i]
    BY <2>1 DEF ReadAhead, c
  <2>3. k < i8_in[s][w]
    <3>1. CASE k = Report
      <4>1. i8_in[s][w] \in Nat
        BY <2>1, UpTypes
      <4> QED
        BY <2>1, <3>1, <4>1 DEF Report
    <3>2. CASE k # Report
      <4>1. c < s \/ (c = s /\ 1 < w)
        BY <1>1, <2>1
      <4>2. i8_in[c][1] # Report /\ i8_in[s][w] # Report
        BY <1>1, <2>1, <3>2
      <4> QED
        BY <1>1, <2>1, <4>1, <4>2 DEF SocketsInOrder
    <3> QED
      BY <3>1, <3>2
  <2> QED
    BY <1>2, <2>1, <2>2, <2>3
<1>9. FramesInOrder'
  <2> SUFFICES ASSUME NEW i \in 1..Len(frames')
               PROVE  /\ frames'[i].packet <= Len(sent)
                      /\ frames'[i].packet # Report =>
                         /\ \A j \in 1..Len(published) :
                              FrameItem(published[j]) < FrameItem(frames'[i])
                         /\ \A j \in 1..Len(frames') :
                              i < j => FrameItem(frames'[i]) < FrameItem(frames'[j])
    BY <1>1 DEF FramesInOrder, FrameItem, Report
  <2>1. frames'[i] \in Frame /\ frames'[i].packet = k /\ frames'[i].part = i
    BY <1>2
  <2>2. k <= Len(sent)
    BY <1>1 DEF SocketsKnown
  <2>3. ASSUME k # Report, NEW j \in 1..Len(published)
        PROVE  FrameItem(published[j]) < FrameItem(frames'[i])
    <3>1. published[j] \in Frame /\ published[j].packet # Report
      BY UpTypes DEF PublishedKnown
    <3>2. published[j].packet < k
      BY <1>1, <2>3 DEF ReadAhead, c
    <3> QED
      BY <2>1, <2>3, <3>1, <3>2, FrameItemOrder
  <2>4. ASSUME k # Report, NEW j \in 1..Len(frames'), i < j
        PROVE  FrameItem(frames'[i]) < FrameItem(frames'[j])
    <3>1. frames'[j] \in Frame /\ frames'[j].packet = k /\ frames'[j].part = j
      BY <1>2
    <3> QED
      BY <2>1, <2>4, <3>1, FrameItemOrder
  <2> QED
    BY <2>1, <2>2, <2>3, <2>4
<1>10. PublishedKnown'
  BY <1>1 DEF PublishedKnown, Report
<1> QED
  BY <1>5, <1>6, <1>7, <1>8, <1>9, <1>10

\* ... when a frame is written, ...
LEMMA UpWrittenStep == ASSUME TypeInv, UpInv, UpWritten PROVE UpInv'
<1> USE DEF UpInv
<1> DEFINE n == Len(frames)
           m == Len(published)
<1>1. /\ n \in Nat /\ m \in Nat /\ 1 \in 1..n /\ frames[1] \in Frame
      /\ Len(frames') = n - 1 /\ \A i \in 1..(n - 1) : frames'[i] = frames[i + 1]
      /\ UNCHANGED <<session, peer, i8_in, sent>>
  BY UpTypes DEF UpWritten, peers
<1>2. \A i \in 1..(n - 1) : i + 1 \in 1..n /\ 1 < i + 1
  BY <1>1
\* A frame that is published was published before or was the first to be written.
<1>3. /\ Len(published') \in Nat
      /\ \A j \in 1..Len(published') :
           \/ j \in 1..m /\ published'[j] = published[j]
           \/ published'[j] = frames[1] /\ frames[1].packet # Report
  <2>1. CASE UNCHANGED published
    BY <1>1, <2>1
  <2>2. CASE Head(frames).packet # Report /\ published' = Append(published, Head(frames))
    <3>1. published \in Seq(Frame) /\ frames[1] = Head(frames)
      BY UpTypes DEF UpWritten
    <3>2. /\ Len(published') = m + 1 /\ published'[m + 1] = frames[1]
          /\ \A j \in 1..m : published'[j] = published[j]
      BY <2>2, <3>1
    <3>3. \A j \in 1..(m + 1) : j \in 1..m \/ j = m + 1
      <4>1. m \in Nat
        BY <1>1
      <4> HIDE DEF m
      <4> QED
        BY <4>1
    <3> HIDE DEF m
    <3> QED
      BY <1>1, <2>2, <3>1, <3>2, <3>3
  <2> QED
    BY <2>1, <2>2 DEF UpWritten
<1> HIDE DEF n, m
<1>4. PeersInOrder' /\ AbsentSilent' /\ SocketsKnown' /\ SocketsInOrder'
  BY <1>1 DEF PeersInOrder, AbsentSilent, SocketsKnown, SocketsInOrder
<1>5. ReadAhead'
  <2> SUFFICES ASSUME NEW s \in Session, s = current \/ s > served,
                      NEW i \in 1..Len(i8_in[s]), i8_in[s][i] # Report
               PROVE  /\ \A j \in 1..Len(published') : published'[j].packet < i8_in[s][i]
                      /\ \A j \in 1..(n - 1) : frames'[j].packet < i8_in[s][i]
    BY <1>1 DEF ReadAhead, Report, session
  <2>1. /\ \A j \in 1..m : published[j].packet < i8_in[s][i]
        /\ \A j \in 1..n : frames[j].packet < i8_in[s][i]
    BY DEF ReadAhead, n, m
  <2> QED
    BY <1>1, <1>2, <1>3, <2>1
<1>6. FramesInOrder'
  <2> SUFFICES ASSUME NEW i \in 1..(n - 1)
               PROVE  /\ frames'[i].packet <= Len(sent)
                      /\ frames'[i].packet # Report =>
                         /\ \A j \in 1..Len(published') :
                              FrameItem(published'[j]) < FrameItem(frames'[i])
                         /\ \A j \in 1..(n - 1) :
                              i < j => FrameItem(frames'[i]) < FrameItem(frames'[j])
    BY <1>1 DEF FramesInOrder, FrameItem, Report
  <2>1. frames'[i] = frames[i + 1] /\ i + 1 \in 1..n /\ 1 < i + 1
    BY <1>1, <1>2
  <2>2. frames'[i].packet <= Len(sent)
    BY <2>1 DEF FramesInOrder, n
  <2>3. ASSUME frames'[i].packet # Report, NEW j \in 1..Len(published')
        PROVE  FrameItem(published'[j]) < FrameItem(frames'[i])
    <3>1. CASE j \in 1..m /\ published'[j] = published[j]
      BY <2>1, <2>3, <3>1 DEF FramesInOrder, n, m
    <3>2. CASE published'[j] = frames[1] /\ frames[1].packet # Report
      BY <1>1, <2>1, <2>3, <3>2 DEF FramesInOrder, n
    <3> QED
      BY <1>3, <3>1, <3>2
  <2>4. ASSUME frames'[i].packet # Report, NEW j \in 1..(n - 1), i < j
        PROVE  FrameItem(frames'[i]) < FrameItem(frames'[j])
    <3>1. frames'[j] = frames[j + 1] /\ j + 1 \in 1..n /\ i + 1 < j + 1
      BY <1>1, <1>2, <2>4
    <3> QED
      BY <2>1, <2>4, <3>1 DEF FramesInOrder, n
  <2> QED
    BY <2>2, <2>3, <2>4
<1>7. PublishedKnown'
  <2> SUFFICES ASSUME NEW j \in 1..Len(published')
               PROVE  published'[j].packet # Report /\ published'[j].packet <= Len(sent)
    BY <1>1 DEF PublishedKnown, Report
  <2>1. CASE j \in 1..m /\ published'[j] = published[j]
    BY <2>1 DEF PublishedKnown, m
  <2>2. CASE published'[j] = frames[1] /\ frames[1].packet # Report
    BY <1>1, <2>2 DEF FramesInOrder, n
  <2> QED
    BY <1>3, <2>1, <2>2
<1> QED
  BY <1>4, <1>5, <1>6, <1>7

\* ... and when a transceiver sends: its packet is the last of all.
LEMMA UpSentStep ==
    ASSUME TypeInv, TypeInv', UpInv, NEW p \in Session, UpSent(p)
    PROVE  UpInv'
<1> USE DEF UpInv
<1> DEFINE n == Len(sent)
           k == IF UNCHANGED sent THEN Report ELSE n + 1
<1>1. /\ peer[p] = "open" /\ UNCHANGED <<session, peer, frames, published>>
      /\ n \in Nat /\ Len(sent') \in Nat /\ n <= Len(sent')
      /\ k \in Nat /\ (k = Report \/ k = n + 1) /\ k <= Len(sent')
      /\ i8_in' = [i8_in EXCEPT ![p] = Append(i8_in[p], k)]
  <2>1. n \in Nat /\ sent \in Seq(Session)
    BY UpTypes
  <2>2. CASE UNCHANGED sent
    <3>1. i8_in' = [i8_in EXCEPT ![p] = Append(i8_in[p], Report)]
      <4>1. Append(sent, p) # sent
        <5>1. Len(Append(sent, p)) = n + 1
          BY <2>1
        <5> QED
          BY <2>1, <5>1
      <4> QED
        BY <2>2, <4>1 DEF UpSent
    <3> QED
      BY <2>1, <2>2, <3>1 DEF UpSent, Report
  <2>3. CASE ~ UNCHANGED sent
    <3>1. /\ i8_in' = [i8_in EXCEPT ![p] = Append(i8_in[p], n + 1)]
          /\ sent' = Append(sent, p)
      BY <2>3 DEF UpSent
    <3>2. Len(sent') = n + 1
      BY <2>1, <3>1
    <3> QED
      BY <2>1, <2>3, <3>1, <3>2 DEF UpSent
  <2> QED
    BY <2>2, <2>3
<1> HIDE DEF k
\* A packet in a socket was there before, or is the one that was sent.
<1>2. \A s \in Session : \A i \in 1..Len(i8_in'[s]) :
        \/ i \in 1..Len(i8_in[s]) /\ i8_in'[s][i] = i8_in[s][i]
        \/ s = p /\ i = Len(i8_in[p]) + 1 /\ i8_in'[s][i] = k
  <2> SUFFICES ASSUME NEW s \in Session, NEW i \in 1..Len(i8_in'[s])
               PROVE  \/ i \in 1..Len(i8_in[s]) /\ i8_in'[s][i] = i8_in[s][i]
                      \/ s = p /\ i = Len(i8_in[p]) + 1 /\ i8_in'[s][i] = k
    OBVIOUS
  <2>1. CASE s # p
    <3>1. i8_in'[s] = i8_in[s]
      BY <1>1, <2>1, UpTypes
    <3> QED
      BY <3>1
  <2>2. CASE s = p
    <3>1. i8_in'[s] = Append(i8_in[p], k) /\ i8_in[p] \in Seq(0..Len(I8Packet))
      BY <1>1, <2>2, UpTypes
    <3> QED
      BY <2>2, <3>1
  <2> QED
    BY <2>1, <2>2
\* No session after that of the sender has begun.
<1>3. \A s \in Session : s > p => i8_in[s] = <<>>
  <2>1. \A s \in Session : s > p => peer[s] = "absent"
    BY <1>1 DEF PeersInOrder, Session
  <2> QED
    BY <2>1 DEF AbsentSilent
<1>4. \A s \in Session : \A i \in 1..Len(i8_in[s]) : i8_in[s][i] <= n /\ i8_in[s][i] \in Nat
  BY UpTypes DEF SocketsKnown
<1>5. PeersInOrder'
  BY <1>1 DEF PeersInOrder
<1>6. AbsentSilent'
  <2> SUFFICES ASSUME NEW s \in Session, peer[s] = "absent"
               PROVE  i8_in'[s] = <<>>
    BY <1>1 DEF AbsentSilent
  <2>1. s # p
    BY <1>1
  <2> QED
    BY <1>1, <2>1, UpTypes DEF AbsentSilent
<1>7. SocketsKnown'
  <2> SUFFICES ASSUME NEW s \in Session, NEW i \in 1..Len(i8_in'[s])
               PROVE  i8_in'[s][i] <= Len(sent')
    BY DEF SocketsKnown
  <2>1. i8_in'[s][i] = k \/ (i8_in'[s][i] <= n /\ i8_in'[s][i] \in Nat)
    BY <1>2, <1>4
  <2> HIDE DEF n
  <2> QED
    BY <1>1, <2>1
<1>8. SocketsInOrder'
  <2> SUFFICES ASSUME NEW s \in Session, NEW t \in Session,
                      NEW i \in 1..Len(i8_in'[s]), NEW j \in 1..Len(i8_in'[t]),
                      s < t \/ (s = t /\ i < j),
                      i8_in'[s][i] # Report, i8_in'[t][j] # Report
               PROVE  i8_in'[s][i] < i8_in'[t][j]
    BY DEF SocketsInOrder, Report
  <2>1. CASE i \in 1..Len(i8_in[s]) /\ i8_in'[s][i] = i8_in[s][i]
    <3>1. CASE j \in 1..Len(i8_in[t]) /\ i8_in'[t][j] = i8_in[t][j]
      BY <2>1, <3>1 DEF SocketsInOrder
    <3>2. CASE i8_in'[t][j] = k
      <4>1. i8_in[s][i] <= n /\ i8_in[s][i] \in Nat /\ k = n + 1
        BY <1>1, <1>4, <2>1, <3>2
      <4> QED
        BY <1>1, <2>1, <3>2, <4>1
    <3> QED
      BY <1>2, <3>1, <3>2
  <2>2. CASE s = p /\ i = Len(i8_in[p]) + 1 /\ i8_in'[s][i] = k
    <3>1. Len(i8_in[p]) \in Nat
      BY UpTypes
    <3>2. CASE j \in 1..Len(i8_in[t])
      <4>1. t # p
        <5> SUFFICES ASSUME t = p PROVE FALSE
          OBVIOUS
        <5>1. ~(s < t)
          BY <2>2 DEF Session
        <5>2. i < j /\ j <= Len(i8_in[p]) /\ i = Len(i8_in[p]) + 1
          BY <2>2, <3>2, <5>1
        <5> QED
          BY <3>1, <3>2, <5>2
      <4>2. t > p
        BY <2>2, <4>1 DEF Session
      <4>3. i8_in[t] = <<>>
        BY <1>3, <4>2
      <4> QED
        BY <3>2, <4>3
    <3>3. CASE t = p /\ j = Len(i8_in[p]) + 1
      BY <2>2, <3>1, <3>3 DEF Session
    <3> QED
      BY <1>2, <3>2, <3>3
  <2> QED
    BY <1>2, <2>1, <2>2
<1>9. ReadAhead'
  <2> SUFFICES ASSUME NEW s \in Session, s = current \/ s > served,
                      NEW i \in 1..Len(i8_in'[s]), i8_in'[s][i] # Report
               PROVE  /\ \A j \in 1..Len(published) : published[j].packet < i8_in'[s][i]
                      /\ \A j \in 1..Len(frames) : frames[j].packet < i8_in'[s][i]
    BY <1>1 DEF ReadAhead, Report, session
  <2>1. CASE i \in 1..Len(i8_in[s]) /\ i8_in'[s][i] = i8_in[s][i]
    BY <2>1 DEF ReadAhead
  <2>2. CASE i8_in'[s][i] = k
    <3>1. k = n + 1
      BY <1>1, <2>2
    <3>2. \A x \in Frame : x.packet \in Nat
      BY Numbers DEF Frame
    <3>3. ASSUME NEW j \in 1..Len(published) PROVE published[j].packet < k
      <4>1. published[j].packet \in Nat /\ published[j].packet <= n
        BY <3>2, UpTypes DEF PublishedKnown
      <4> QED
        BY <1>1, <3>1, <4>1
    <3>4. ASSUME NEW j \in 1..Len(frames) PROVE frames[j].packet < k
      <4>1. frames[j].packet \in Nat /\ frames[j].packet <= n
        BY <3>2, UpTypes DEF FramesInOrder
      <4> QED
        BY <1>1, <3>1, <4>1
    <3> QED
      BY <2>2, <3>3, <3>4
  <2> QED
    BY <1>2, <2>1, <2>2
<1>10. FramesInOrder' /\ PublishedKnown'
  <2>1. \A x \in Frame : x.packet \in Nat
    BY Numbers DEF Frame
  <2>2. /\ \A j \in 1..Len(published) : published[j].packet \in Nat
        /\ \A j \in 1..Len(frames) : frames[j].packet \in Nat
    BY <2>1, UpTypes
  <2>3. FramesInOrder'
    BY <1>1, <2>2 DEF FramesInOrder, FrameItem, Report
  <2>4. PublishedKnown'
    BY <1>1, <2>2 DEF PublishedKnown, Report
  <2> QED
    BY <2>3, <2>4
<1> QED
  BY <1>5, <1>6, <1>7, <1>8, <1>9, <1>10

\* So every step keeps it.
LEMMA UpStep ==
    ASSUME TypeInv, TypeInv', UpInv, [Next]_vars
    PROVE  UpInv'
BY UpCases, UpDroppedStep, UpReadStep, UpWrittenStep, UpPeerStep, UpSentStep

\* The steps of the relay that a step of the daemon can be.
LEMMA UpRefines ==
    ASSUME TypeInv, UpInv, [Next]_vars
    PROVE  [Up!Next]_<<Len(sent) * MaxParts, PublishedItems>>
<1> DEFINE offered == Len(sent) * MaxParts
<1>0. UpDropped \/ UpRead \/ UpWritten \/ \E s \in Session : UpPeer(s) \/ UpSent(s)
  BY UpCases
<1>1. CASE UNCHANGED <<sent, published>>
  <2>1. UNCHANGED <<offered, PublishedItems>>
    BY <1>1 DEF PublishedItems, Item
  <2> QED
    BY <2>1
<1>2. CASE /\ frames # <<>> /\ Head(frames).packet # Report
           /\ published' = Append(published, Head(frames)) /\ UNCHANGED sent
  <2> DEFINE n == Len(published)
             x == Head(frames)
             k == FrameItem(x)
  <2>1. /\ published' = Append(published, x) /\ UNCHANGED sent /\ x.packet # Report
        /\ n \in Nat /\ x \in Frame /\ x = frames[1] /\ 1 \in 1..Len(frames)
    BY <1>2, UpTypes, RestType
  <2>2. Len(sent) \in Nat
    BY UpTypes
  <2>3. k \in 1..offered
    <3>1. x.packet <= Len(sent)
      BY <2>1 DEF UpInv, FramesInOrder
    <3>2. k \in Nat \ {0} /\ k <= offered
      BY <2>1, <2>2, <3>1, FrameItemOrder
    <3>3. offered \in Nat
      <4>1. \A a, b \in Nat : a * b \in Nat
        OBVIOUS
      <4> QED
        BY <4>1, <2>2, Numbers
    <3> HIDE DEF k, offered
    <3> QED
      BY <3>2, <3>3
  <2>4. \A i \in 1..n : FrameItem(published[i]) < k
    BY <2>1 DEF UpInv, FramesInOrder
  <2> HIDE DEF x
  <2>5. PublishedItems = [i \in 1..n |-> FrameItem(published[i])]
    BY DEF PublishedItems, FrameItem
  <2>6. PublishedItems' = Append(PublishedItems, k)
    <3> DEFINE F(y) == FrameItem(y)
    <3>1. PublishedItems = [i \in 1..Len(published) |-> F(published[i])]
      BY DEF PublishedItems, FrameItem
    <3>2. PublishedItems' = [i \in 1..Len(published') |-> F(published'[i])]
      BY DEF PublishedItems, FrameItem, Item
    <3>3. F(x) = k
      OBVIOUS
    <3>4. published \in Seq(Frame) /\ x \in Frame /\ published' = Append(published, x)
      BY <2>1, UpTypes
    <3> HIDE DEF F, k, n
    <3> QED
      BY <3>1, <3>2, <3>3, <3>4
  <2> HIDE DEF n, k
  <2>7. \A i \in 1..Len(PublishedItems) : PublishedItems[i] < k
    BY <2>1, <2>4, <2>5
  <2>8. Up!Deliver
    <3>1. UNCHANGED offered
      BY <2>1
    <3> HIDE DEF offered
    <3> QED
      BY <2>3, <2>6, <2>7, <3>1 DEF Up!Deliver, PublishedItems, offered
  <2> QED
    BY <2>8 DEF Up!Next
<1>3. CASE UNCHANGED published /\ \E s \in Session : sent' = Append(sent, s)
  <2>1. Len(sent') = Len(sent) + 1 /\ Len(sent) \in Nat /\ UNCHANGED published
    BY <1>3, UpTypes
  <2>2. offered' \in Nat /\ offered' > offered
    <3>1. MaxParts \in Nat \ {0}
      BY Numbers
    <3>2. \A a \in Nat : \A b \in Nat \ {0} : (a + 1) * b \in Nat /\ (a + 1) * b > a * b
      OBVIOUS
    <3> QED
      BY <2>1, <3>1, <3>2
  <2>3. UNCHANGED PublishedItems
    BY <2>1 DEF PublishedItems, Item
  <2>4. Up!Offer
    BY <2>2, <2>3 DEF Up!Offer, PublishedItems
  <2> QED
    BY <2>4 DEF Up!Next
<1> QED
  BY <1>0, <1>1, <1>2, <1>3 DEF UpDropped, UpRead, UpWritten, UpPeer, UpSent, peers

\* What the daemon publishes of the transceivers' packets, it publishes in the
\* order in which they were sent and once, across broken connections and sessions.
THEOREM PublishingImplementsOrderedRelay == Spec => PublishesInOrder
<1>1. Init => TypeInv /\ UpInv /\ Up!Init
  <2>1. Init => Up!Init
    BY Numbers DEF Init, Up!Init
  <2> QED
    BY <2>1, InitType, UpInit
<1>2. TypeInv /\ UpInv /\ [Next]_vars =>
        /\ TypeInv' /\ UpInv'
        /\ [Up!Next]_<<Len(sent) * MaxParts, PublishedItems>>
  BY StepType, UpStep, UpRefines
<1> QED
  BY <1>1, <1>2, PTL DEF Spec, PublishesInOrder, Up!Spec, PublishedItems
-----------------------------------------------------------------------------
(* Nothing is lost between reading and writing.                            *)

\* From Accept until the subscription is written nothing is read.
Opening == {"connect write", "login write", "connect subscribe", "login subscribe",
            "subscribe"}

\* A packet that was sent in a session that is not yet served, or whose connections
\* are not yet open, is still in its socket: a connection that broke meanwhile is
\* opened again without a loss.
NotYetRead ==
    \A s \in Session : s > served \/ (s = current /\ pc \in Opening) =>
      \A k \in 1..Len(sent) : sent[k] = s => Among(k, i8_in[s])

\* Nor has the broker sent a frame in such a session.
NotYetTold ==
    \A k \in 1..Len(pushed) :
      pushed[k] <= served /\ (pc \in Opening => pushed[k] # current)

HasFrame(k, p) ==
    \/ \E i \in 1..Len(frames) : frames[i].packet = k /\ frames[i].part = p
    \/ \E i \in 1..Len(published) : published[i].packet = k /\ published[i].part = p

\* As long as no connection is broken, a packet of the served transceiver is in its
\* socket, or its frames are in the buffer or were published, ...
PacketsHeld ==
    (current # 0 /\ \A c \in Connection : conn[c] # "broken") =>
      \A k \in 1..Len(sent) : sent[k] = current =>
        \/ Among(k, i8_in[current])
        \/ \A p \in 1..Len(FramesFor(k, <<>>)) : HasFrame(k, p)

\* ... and as long as the subscription is not, so are the broker's frames.
CommandsHeld ==
    (current # 0 /\ conn["subscribe"] # "broken") =>
      \A k \in 1..Len(pushed) : pushed[k] = current =>
        \/ Among(k, subscribe_in)
        \/ \A i \in 1..Len(PacketsFor(k)) :
             Among(PacketsFor(k)[i], packets) \/ Among(PacketsFor(k)[i], forwarded)

AccountInv == NotYetRead /\ NotYetTold /\ PacketsHeld /\ CommandsHeld

\* What a step does to the places where packets, frames and commands are.
Stays ==
    /\ UNCHANGED <<session, i8_in, sent, frames, published, pushed, packets, forwarded>>
    /\ subscribe_in' = subscribe_in \/ conn'["subscribe"] = "broken"
    /\ pc' \in Opening => pc \in Opening
    /\ \/ pc \in Opening
       \/ \A c \in Connection : conn[c] = "broken" => conn'[c] = "broken"
Begins ==
    /\ pc = "accept" /\ served' = served + 1 /\ current' = served + 1
    /\ UNCHANGED <<i8_in, sent, frames, published, subscribe_in, pushed, packets, forwarded>>
Ends ==
    /\ current' = 0 /\ pc' \notin Opening
    /\ UNCHANGED <<served, i8_in, sent, published, pushed, forwarded>>
Serving ==
    pc \notin Opening /\ pc' \notin Opening /\ UNCHANGED <<session, conn>>
Takes ==
    /\ Serving /\ packets = <<>> /\ DownRead
    /\ UNCHANGED <<i8_in, sent, frames, published>>
Sends ==
    /\ Serving /\ DownSent
    /\ UNCHANGED <<i8_in, sent, frames, published>>
Reads ==
    /\ Serving /\ frames = <<>> /\ UpRead
    /\ UNCHANGED <<subscribe_in, pushed, packets, forwarded>>
Writes ==
    /\ Serving /\ UpWritten
    /\ \/ published' = Append(published, Head(frames))
       \/ Head(frames).packet = Report
       \/ conn["write"] = "broken"
    /\ UNCHANGED <<subscribe_in, pushed, packets, forwarded>>
Grows(s) ==
    /\ s = current \/ s > served
    /\ UNCHANGED <<pc, conn>> /\ UpSent(s)
    /\ UNCHANGED <<subscribe_in, pushed, packets, forwarded>>
Told ==
    /\ Serving /\ DownPushed
    /\ UNCHANGED <<i8_in, sent, frames, published>>

\* Every step of the daemon and its environment is of one of these kinds.
LEMMA AccountCases ==
    ASSUME TypeInv, [Next]_vars
    PROVE  \/ Stays \/ Begins \/ Ends \/ Takes \/ Sends \/ Reads \/ Writes \/ Told
           \/ \E s \in Session : Grows(s)
<1> USE DEF session, buffers, broker, peers, outside, output, Opening
<1>1. CASE OuterLoop \/ Uninstall \/ InnerLoop \/ Select
  BY <1>1 DEF OuterLoop, Uninstall, InnerLoop, Select, Stays
<1>2. CASE Subscribe
  BY <1>2 DEF Subscribe, Outcomes, Stays
<1>3. CASE Accept
  BY <1>3 DEF Accept, Begins
<1>4. CASE ReceiveFromServer
  <2>1. CASE subscribe_in = <<>>
    BY <1>4, <2>1 DEF ReceiveFromServer, Stays
  <2>2. CASE subscribe_in # <<>>
    BY <1>4, <2>2 DEF ReceiveFromServer, Takes, Serving, DownRead, TypeInv, Phases
  <2> QED
    BY <2>1, <2>2
<1>5. CASE Forward
  <2>1. CASE packets # <<>> /\ peer[current] = "open"
    BY <1>5, <2>1 DEF Forward, Sends, Serving, DownSent
  <2>2. CASE ~(packets # <<>> /\ peer[current] = "open")
    BY <1>5, <2>2 DEF Forward, AfterServer, Stays
  <2> QED
    BY <2>1, <2>2
<1>6. CASE ReceiveFromI8
  <2>1. CASE i8_in[current] = <<>>
    BY <1>6, <2>1 DEF ReceiveFromI8, Stays
  <2>2. CASE i8_in[current] # <<>>
    <3> DEFINE k == Head(i8_in[current])
               text == Printed(input_data')
    <3>1. current \in Session /\ frames = <<>> /\ i8_in[current] \in Seq(0..Len(I8Packet))
      BY <1>6 DEF ReceiveFromI8, TypeInv, TypeOK, Phases
    <3>2. text \in Seq(0..Len(I8Packet))
      <4>1. input_data' \in Seq(0..EndOfText)
        BY StepType DEF TypeInv, TypeOK
      <4> QED
        BY <4>1, PrintedType
    <3>3. /\ frames' = FramesFor(k, text)
          /\ i8_in' = [i8_in EXCEPT ![current] = Tail(i8_in[current])]
          /\ pc = "i8" /\ pc' = "publish"
          /\ UNCHANGED <<session, conn, peer, sent, published>>
          /\ UNCHANGED <<subscribe_in, pushed, packets, forwarded>>
      BY <1>6, <2>2 DEF ReceiveFromI8
    <3> HIDE DEF text
    <3>4. UpRead
      BY <2>2, <3>1, <3>2, <3>3 DEF UpRead
    <3> QED
      BY <3>1, <3>3, <3>4 DEF Reads, Serving
  <2> QED
    BY <2>1, <2>2
<1>7. CASE Publish
  <2>1. CASE frames = <<>>
    BY <1>7, <2>1 DEF Publish, Stays
  <2>2. CASE frames # <<>>
    <3>1. PICK outcome \in Outcomes :
             /\ WriteMeets("write", outcome)
             /\ pc' = CASE outcome \in {"sent", "lost"} -> "publish"
                        [] outcome = "error" -> "disconnect"
                        [] outcome = "SIGPIPE" -> "exit"
             /\ frames' = Unwritten(outcome)
             /\ published' = IF outcome = "sent" /\ Head(frames).packet # Report
                             THEN Append(published, Head(frames)) ELSE published
      BY <1>7, <2>2 DEF Publish
    <3>2. pc = "publish" /\ pc' \in {"publish", "disconnect", "exit"}
      BY <1>7, <3>1 DEF Publish, Outcomes
    <3>3. UNCHANGED <<session, conn, peers, subscribe_in, pushed, packets, forwarded>>
      BY <1>7 DEF Publish
    <3>4. CASE outcome \in {"sent", "lost"}
      BY <2>2, <3>1, <3>2, <3>3, <3>4
         DEF WriteMeets, Unwritten, Writes, Serving, UpWritten
    <3>5. CASE outcome \notin {"sent", "lost"}
      BY <3>1, <3>2, <3>3, <3>5 DEF Unwritten, Stays
    <3> QED
      BY <3>4, <3>5
  <2> QED
    BY <2>1, <2>2
<1>8. CASE Disconnect
  BY <1>8 DEF Disconnect, Ends
<1>9. ASSUME NEW c \in Connection, Connect(c) \/ Login(c)
      PROVE  Stays
  <2>1. UNCHANGED <<session, buffers, outside, output>>
    BY <1>9 DEF Connect, Login
  <2>2. pc \in Opening
    <3>1. CASE c = "write"
      BY <1>9, <3>1 DEF Connect, Login, Connecting, LoggingIn
    <3>2. CASE c = "subscribe"
      BY <1>9, <3>2 DEF Connect, Login, Connecting, LoggingIn
    <3> QED
      BY <3>1, <3>2 DEF Connection
  <2> QED
    BY <2>1, <2>2 DEF Stays
<1>10. CASE Interrupt
  BY <1>10 DEF Interrupt, Stays
<1>11. CASE BrokerStarts \/ UNCHANGED vars
  BY <1>11 DEF BrokerStarts, vars, Stays
<1>12. CASE \E cs : Breaks(cs)
  BY <1>12 DEF Breaks, Stays
<1>13. CASE BrokerSends
  BY <1>13 DEF BrokerSends, DownPushed, TypeInv, Phases, Subscribed, Told, Serving
<1>14. CASE \E s \in Session : PeerStarts(s) \/ PeerEnds(s)
  BY <1>14 DEF PeerStarts, PeerEnds, Stays
<1>15. CASE \E s \in Session : PeerSends(s) \/ PeerReports(s)
  BY <1>15 DEF PeerSends, PeerReports, CanSend, Grows, UpSent
<1> QED
  BY <1>1, <1>2, <1>3, <1>4, <1>5, <1>6, <1>7, <1>8, <1>9, <1>10, <1>11, <1>12,
     <1>13, <1>14, <1>15
     DEF Next, Process, Environment, Exited, BrokerStops, ConnectionFails

\* As many frames are made of a packet whatever the buffer held before.
LEMMA FramesCount ==
    ASSUME NEW k, NEW text
    PROVE  Len(FramesFor(k, text)) = Len(FramesFor(k, <<>>))
<1>1. CASE IsList(k)
  BY <1>1 DEF FramesFor
<1>2. CASE ~IsList(k)
  BY <1>2 DEF FramesFor
<1> QED
  BY <1>1, <1>2

\* What is taken out of a sequence at its head, and what is added at its end.
LEMMA AmongHead ==
    ASSUME NEW S, NEW q \in Seq(S), q # <<>>, NEW x, Among(x, q)
    PROVE  x = Head(q) \/ Among(x, Tail(q))
<1>1. PICK i \in 1..Len(q) : q[i] = x
  BY DEF Among
<1>2. CASE i = 1
  BY <1>1, <1>2
<1>3. CASE i # 1
  <2>1. i - 1 \in 1..Len(Tail(q)) /\ Tail(q)[i - 1] = x
    BY <1>1, <1>3
  <2> QED
    BY <2>1 DEF Among
<1> QED
  BY <1>2, <1>3

\* What is in a sequence stays in it when an element is added.
LEMMA AmongAppend ==
    ASSUME NEW S, NEW q \in Seq(S), NEW e \in S
    PROVE  Among(e, Append(q, e)) /\ \A x : Among(x, q) => Among(x, Append(q, e))
<1>1. Len(q) + 1 \in 1..Len(Append(q, e)) /\ Append(q, e)[Len(q) + 1] = e
  OBVIOUS
<1>2. \A i \in 1..Len(q) : i \in 1..Len(Append(q, e)) /\ Append(q, e)[i] = q[i]
  OBVIOUS
<1> QED
  BY <1>1, <1>2 DEF Among

\* A packet that a transceiver sends is in its socket then, besides those before.
LEMMA GrowsSocket ==
    ASSUME TypeInv, TypeInv', NEW t \in Session, Grows(t), NEW s \in Session
    PROVE  /\ \A x : Among(x, i8_in[s]) => Among(x, i8_in'[s])
           /\ \A k \in 1..Len(sent') :
                sent'[k] = s => (k \in 1..Len(sent) /\ sent[k] = s) \/ Among(k, i8_in'[s])
<1> DEFINE n == Len(sent)
<1>1. i8_in[t] \in Seq(0..Len(I8Packet)) /\ n \in Nat /\ sent \in Seq(Session)
  BY UpTypes
<1>2. CASE UNCHANGED sent
  <2>1. i8_in' = [i8_in EXCEPT ![t] = Append(i8_in[t], Report)]
    <3>1. Append(sent, t) # sent
      <4>1. Len(Append(sent, t)) = n + 1
        BY <1>1
      <4> QED
        BY <1>1, <4>1
    <3> QED
      BY <1>2, <3>1 DEF Grows, UpSent
  <2>2. Report \in 0..Len(I8Packet)
    BY Numbers DEF Report
  <2>3. CASE s = t
    <3>1. i8_in'[s] = Append(i8_in[s], Report)
      BY <2>1, <2>3, UpTypes
    <3> QED
      BY <1>1, <1>2, <2>2, <2>3, <3>1, AmongAppend
  <2>4. CASE s # t
    <3>1. i8_in'[s] = i8_in[s]
      BY <2>1, <2>4, UpTypes
    <3> QED
      BY <1>2, <3>1
  <2> QED
    BY <2>3, <2>4
<1>3. CASE ~ UNCHANGED sent
  <2>1. /\ i8_in' = [i8_in EXCEPT ![t] = Append(i8_in[t], n + 1)]
        /\ sent' = Append(sent, t)
    BY <1>3 DEF Grows, UpSent
  <2>2. n + 1 \in 0..Len(I8Packet)
    <3>1. Len(sent') = n + 1 /\ Len(sent') <= Len(I8Packet)
      BY <1>1, <2>1 DEF TypeInv, TypeOK
    <3> QED
      BY <1>1, <3>1, Numbers
  <2>3. \A k \in 1..Len(sent') : (k \in 1..n /\ sent'[k] = sent[k]) \/ (k = n + 1 /\ sent'[k] = t)
    BY <1>1, <2>1
  <2>4. CASE s = t
    <3>1. i8_in'[s] = Append(i8_in[s], n + 1)
      BY <2>1, <2>4, UpTypes
    <3> HIDE DEF n
    <3>2. Among(n + 1, i8_in'[s]) /\ \A x : Among(x, i8_in[s]) => Among(x, i8_in'[s])
      BY <1>1, <2>2, <2>4, <3>1, AmongAppend
    <3> QED
      BY <2>3, <3>2 DEF n
  <2>5. CASE s # t
    <3>1. i8_in'[s] = i8_in[s]
      BY <2>1, <2>5, UpTypes
    <3> QED
      BY <2>3, <2>5, <3>1
  <2> QED
    BY <2>4, <2>5
<1> QED
  BY <1>2, <1>3

\* The accounts are right at first, ...
LEMMA AccountInit == Init => AccountInv
BY DEF Init, AccountInv, NotYetRead, NotYetTold, PacketsHeld, CommandsHeld

\* The types of what says in which session something was sent.
LEMMA NotYetTypes ==
    ASSUME TypeInv
    PROVE  /\ served \in Nat /\ current \in {0, served} /\ \A s \in Session : s \in Nat \ {0}
           /\ Len(sent) \in Nat /\ \A k \in 1..Len(sent) : sent[k] \in Session
           /\ Len(pushed) \in Nat /\ \A k \in 1..Len(pushed) : pushed[k] \in Session
<1>1. /\ served \in 0..MaxSessions /\ current \in {0, served}
      /\ sent \in Seq(Session) /\ pushed \in Seq(Session)
  BY UpTypes, DownTypes
<1>2. Session \subseteq Nat \ {0}
  BY Numbers DEF Session
<1>3. served \in Nat
  BY <1>1, Numbers
<1> QED
  BY <1>1, <1>2, <1>3

\* ... nothing is read in a session before it is open, ...
LEMMA NotYetReadStep ==
    ASSUME TypeInv, TypeInv', AccountInv, [Next]_vars
    PROVE  NotYetRead'
<1> USE DEF AccountInv
<1> DEFINE Opened(s) == s > served \/ (s = current /\ pc \in Opening)
<1> SUFFICES ASSUME NEW s \in Session, Opened(s)', NEW k \in 1..Len(sent'), sent'[k] = s
             PROVE  Among(k, i8_in'[s])
  BY DEF NotYetRead
<1>0. /\ served \in Nat /\ current \in {0, served} /\ s \in Nat \ {0}
      /\ \A j \in 1..Len(sent) : sent[j] \in Session
  BY NotYetTypes
<1>1. CASE Stays \/ Begins \/ Ends \/ Takes \/ Sends \/ Writes \/ Told
  <2>1. UNCHANGED <<i8_in, sent>>
    BY <1>1 DEF Stays, Begins, Ends, Takes, Sends, Writes, Told, UpWritten, peers
  <2>2. Opened(s)
    BY <1>0, <1>1 DEF Stays, Begins, Ends, Takes, Sends, Writes, Told, Serving, session
  <2> QED
    BY <2>1, <2>2 DEF NotYetRead
<1>2. CASE Reads
  <2>1. Opened(s) /\ s # current /\ UNCHANGED sent
    BY <1>0, <1>2 DEF Reads, Serving, UpRead, session
  <2>2. i8_in'[s] = i8_in[s]
    BY <1>2, <2>1, UpTypes DEF Reads, UpRead
  <2> QED
    BY <2>1, <2>2 DEF NotYetRead
<1>3. ASSUME NEW t \in Session, Grows(t) PROVE Among(k, i8_in'[s])
  <2>1. Opened(s)
    BY <1>3 DEF Grows, UpSent, session
  <2>2. ASSUME k \in 1..Len(sent), sent[k] = s PROVE Among(k, i8_in'[s])
    <3>1. Among(k, i8_in[s])
      BY <2>1, <2>2 DEF NotYetRead
    <3> QED
      BY <1>3, <3>1, GrowsSocket
  <2>3. ASSUME ~(k \in 1..Len(sent) /\ sent[k] = s) PROVE Among(k, i8_in'[s])
    BY <1>3, <2>3, GrowsSocket
  <2> QED
    BY <2>2, <2>3
<1> QED
  BY <1>1, <1>2, <1>3, AccountCases

\* ... nothing is sent to it either, ...
LEMMA NotYetToldStep ==
    ASSUME TypeInv, AccountInv, [Next]_vars
    PROVE  NotYetTold'
<1> USE DEF AccountInv
<1> SUFFICES ASSUME NEW k \in 1..Len(pushed')
             PROVE  pushed'[k] <= served' /\ (pc' \in Opening => pushed'[k] # current')
  BY DEF NotYetTold
<1>0. /\ served \in Nat /\ current \in {0, served} /\ Len(pushed) \in Nat
      /\ \A j \in 1..Len(pushed) : pushed[j] \in Session /\ pushed[j] \in Nat
      /\ current \in Session => current = served
  BY NotYetTypes
<1>1. CASE Stays \/ Begins \/ Ends \/ Takes \/ Sends \/ Reads \/ Writes
           \/ \E s \in Session : Grows(s)
  <2>1. UNCHANGED pushed
    BY <1>1 DEF Stays, Begins, Ends, Takes, Sends, Reads, Writes, Grows, DownRead, DownSent
  <2>2. served' = served \/ (served' = served + 1 /\ current' = served + 1)
    BY <1>1 DEF Stays, Begins, Ends, Takes, Sends, Reads, Writes, Grows, Serving, session,
                UpSent
  <2>3. pc' \in Opening =>
          (pc \in Opening /\ current' = current) \/ current' = served + 1
    BY <1>1 DEF Stays, Begins, Ends, Takes, Sends, Reads, Writes, Grows, Serving, session,
                UpSent
  <2> QED
    BY <1>0, <2>1, <2>2, <2>3 DEF NotYetTold
<1>2. CASE Told
  <2>1. /\ pushed' = Append(pushed, current) /\ current \in Session
        /\ UNCHANGED session /\ pc' \notin Opening /\ pushed \in Seq(Session)
    BY <1>2, DownTypes DEF Told, DownPushed, Serving
  <2>2. pushed'[k] = current \/ (k \in 1..Len(pushed) /\ pushed'[k] = pushed[k])
    BY <2>1
  <2> QED
    BY <1>0, <2>1, <2>2 DEF NotYetTold, session
<1> QED
  BY <1>1, <1>2, AccountCases

\* ... the packets that were sent are held, ...
LEMMA PacketsHeldStep ==
    ASSUME TypeInv, TypeInv', AccountInv, [Next]_vars
    PROVE  PacketsHeld'
<1> USE DEF AccountInv
<1> DEFINE Whole == \A c \in Connection : conn[c] # "broken"
           Held(k) == \/ Among(k, i8_in[current])
                      \/ \A p \in 1..Len(FramesFor(k, <<>>)) : HasFrame(k, p)
<1> SUFFICES ASSUME current' # 0, Whole', NEW k \in 1..Len(sent'), sent'[k] = current'
             PROVE  Held(k)'
  BY DEF PacketsHeld
<1>0. /\ served \in Nat /\ current \in {0, served} /\ \A s \in Session : s \in Nat \ {0}
      /\ Len(sent) \in Nat /\ \A j \in 1..Len(sent) : sent[j] \in Session
  BY NotYetTypes
<1>1. CASE Stays
  <2>1. UNCHANGED <<current, i8_in, sent, frames, published>>
    BY <1>1 DEF Stays, session
  <2>2. Held(k)
    <3>1. CASE pc \in Opening
      BY <2>1, <3>1, <1>0 DEF NotYetRead
    <3>2. CASE Whole
      BY <2>1, <3>2 DEF PacketsHeld
    <3> QED
      BY <1>1, <3>1, <3>2 DEF Stays
  <2> QED
    BY <2>1, <2>2 DEF HasFrame
<1>2. CASE Begins
  <2>1. current' = served + 1 /\ UNCHANGED <<i8_in, sent>> /\ current' > served
    BY <1>0, <1>2 DEF Begins
  <2>2. current' \in Session
    BY <1>0, <2>1
  <2> QED
    BY <2>1, <2>2 DEF NotYetRead
<1>3. CASE Ends
  BY <1>3 DEF Ends
<1>4. CASE Takes \/ Sends \/ Told
  <2>1. UNCHANGED <<current, conn, i8_in, sent, frames, published>>
    BY <1>4 DEF Takes, Sends, Told, Serving, session
  <2>2. Held(k)
    BY <2>1 DEF PacketsHeld
  <2> QED
    BY <2>1, <2>2 DEF HasFrame
<1>5. CASE Reads
  <2> DEFINE h == Head(i8_in[current])
  <2>1. /\ UNCHANGED <<current, conn, sent, published>> /\ frames = <<>>
        /\ current \in Session /\ i8_in[current] # <<>>
        /\ i8_in[current] \in Seq(0..Len(I8Packet))
        /\ i8_in'[current] = Tail(i8_in[current])
    BY <1>5, UpTypes DEF Reads, UpRead, Serving, session
  <2>2. PICK text \in Seq(0..Len(I8Packet)) : frames' = FramesFor(h, text)
    BY <1>5 DEF Reads, UpRead
  <2>3. h \in 0..Len(I8Packet)
    BY <2>1, RestType
  <2>4. /\ Len(frames') = Len(FramesFor(h, <<>>))
        /\ \A i \in 1..Len(frames') : frames'[i].packet = h /\ frames'[i].part = i
    BY <2>2, <2>3, FramesType, FramesCount
  <2>5. Held(k)
    BY <2>1 DEF PacketsHeld
  <2> HIDE DEF h
  <2>6. CASE \A p \in 1..Len(FramesFor(k, <<>>)) : HasFrame(k, p)
    BY <2>1, <2>6 DEF HasFrame
  <2>7. CASE Among(k, i8_in[current])
    <3>1. k = h \/ Among(k, i8_in'[current])
      BY <2>1, <2>7, AmongHead DEF h
    <3>2. k = h => \A p \in 1..Len(FramesFor(k, <<>>)) : HasFrame(k, p)'
      BY <2>4 DEF HasFrame
    <3> QED
      BY <2>1, <3>1, <3>2
  <2> QED
    BY <2>5, <2>6, <2>7
<1>6. CASE Writes
  <2> DEFINE n == Len(frames)
             m == Len(published)
  <2>1. /\ UNCHANGED <<current, conn, i8_in, sent>>
        /\ frames # <<>> /\ frames' = Tail(frames)
        /\ frames \in Seq(Frame) /\ published \in Seq(Frame) /\ k \in Nat \ {0}
    BY <1>0, <1>6, UpTypes DEF Writes, UpWritten, Serving, session, peers
  <2>2. Held(k)
    BY <2>1 DEF PacketsHeld
  <2>3. /\ n \in Nat /\ m \in Nat /\ 1 \in 1..n /\ frames[1] = Head(frames)
        /\ Len(frames') = n - 1 /\ \A i \in 1..(n - 1) : frames'[i] = frames[i + 1]
    BY <2>1
  <2>4. frames[1].packet = k => published' = Append(published, frames[1])
    <3>1. conn["write"] # "broken"
      BY <2>1 DEF Connection
    <3> QED
      BY <1>6, <2>1, <2>3, <3>1 DEF Writes, Report
  <2>5. \A i \in 1..m : i \in 1..Len(published') /\ published'[i] = published[i]
    BY <1>6, <2>1 DEF Writes, UpWritten
  <2>6. frames[1].packet = k =>
          Len(published) + 1 \in 1..Len(published') /\ published'[Len(published) + 1] = frames[1]
    BY <2>1, <2>3, <2>4
  <2> HIDE DEF n, m
  <2>7. ASSUME NEW p, HasFrame(k, p) PROVE HasFrame(k, p)'
    <3>1. CASE \E i \in 1..m : published[i].packet = k /\ published[i].part = p
      BY <2>5, <3>1 DEF HasFrame
    <3>2. CASE \E i \in 1..n : frames[i].packet = k /\ frames[i].part = p
      <4>1. PICK i \in 1..n : frames[i].packet = k /\ frames[i].part = p
        BY <3>2
      <4>2. CASE i = 1
        BY <2>6, <4>1, <4>2 DEF HasFrame
      <4>3. CASE i # 1
        <5>1. i - 1 \in 1..(n - 1) /\ frames'[i - 1] = frames[i]
          BY <2>3, <4>3
        <5> QED
          BY <2>3, <4>1, <5>1 DEF HasFrame
      <4> QED
        BY <4>2, <4>3
    <3> QED
      BY <2>7, <3>1, <3>2 DEF HasFrame, n, m
  <2> QED
    BY <2>1, <2>2, <2>7
<1>7. ASSUME NEW t \in Session, Grows(t) PROVE Held(k)'
  <2>1. UNCHANGED <<current, conn, frames, published>>
    BY <1>7 DEF Grows, UpSent, session
  <2>2. current \in Session
    BY <2>1 DEF TypeInv, TypeOK, Session
  <2>3. CASE k \in 1..Len(sent) /\ sent[k] = current
    <3>1. Held(k)
      BY <2>1, <2>3 DEF PacketsHeld
    <3>2. \A x : Among(x, i8_in[current]) => Among(x, i8_in'[current])
      BY <1>7, <2>2, GrowsSocket
    <3> QED
      BY <2>1, <3>1, <3>2 DEF HasFrame
  <2>4. CASE ~(k \in 1..Len(sent) /\ sent[k] = current)
    BY <1>7, <2>1, <2>2, <2>4, GrowsSocket
  <2> QED
    BY <2>3, <2>4
<1> QED
  BY <1>1, <1>2, <1>3, <1>4, <1>5, <1>6, <1>7, AccountCases

\* ... and so are the frames of the broker.
LEMMA CommandsHeldStep ==
    ASSUME TypeInv, AccountInv, [Next]_vars
    PROVE  CommandsHeld'
<1> USE DEF AccountInv
<1> DEFINE Whole == conn["subscribe"] # "broken"
           Made(x) == Among(x, packets) \/ Among(x, forwarded)
           Held(k) == \/ Among(k, subscribe_in)
                      \/ \A i \in 1..Len(PacketsFor(k)) : Made(PacketsFor(k)[i])
<1> SUFFICES ASSUME current' # 0, Whole', NEW k \in 1..Len(pushed'), pushed'[k] = current'
             PROVE  Held(k)'
  BY DEF CommandsHeld
<1>0. /\ subscribe_in \in Seq(1..Len(Command)) /\ packets \in Seq(Packet)
      /\ forwarded \in Seq(Packet) /\ pushed \in Seq(Session)
      /\ served \in Nat
  BY DownTypes, NotYetTypes
<1>1. CASE Stays
  <2>1. UNCHANGED <<current, subscribe_in, pushed, packets, forwarded>>
    BY <1>1 DEF Stays, session
  <2>2. Whole
    <3>1. pc \notin Opening
      BY <2>1 DEF NotYetTold
    <3>2. "subscribe" \in Connection
      BY DEF Connection
    <3> QED
      BY <1>1, <3>1, <3>2 DEF Stays
  <2> QED
    BY <2>1, <2>2 DEF CommandsHeld
<1>2. CASE Begins
  <2>1. current' = served + 1 /\ UNCHANGED pushed
    BY <1>2 DEF Begins
  <2>2. pushed[k] <= served
    BY <2>1 DEF NotYetTold
  <2> QED
    BY <1>0, <2>1, <2>2
<1>3. CASE Ends
  BY <1>3 DEF Ends
<1>4. CASE Reads \/ Writes \/ \E s \in Session : Grows(s)
  <2>1. UNCHANGED <<current, conn, subscribe_in, pushed, packets, forwarded>>
    BY <1>4 DEF Reads, Writes, Grows, Serving, session, UpSent
  <2> QED
    BY <2>1 DEF CommandsHeld
<1>5. CASE Takes
  <2> DEFINE h == Head(subscribe_in)
  <2>1. /\ UNCHANGED <<current, conn, pushed, forwarded>> /\ packets = <<>>
        /\ subscribe_in # <<>> /\ subscribe_in' = Tail(subscribe_in)
        /\ packets' = PacketsFor(h)
    BY <1>5 DEF Takes, DownRead, Serving, session
  <2>2. Held(k)
    BY <2>1 DEF CommandsHeld
  <2>3. \A x : ~Among(x, <<>>)
    BY DEF Among
  <2>4. Among(k, subscribe_in) => k = h \/ Among(k, subscribe_in')
    BY <1>0, <2>1, AmongHead
  <2>5. k = h => \A i \in 1..Len(PacketsFor(k)) : Among(PacketsFor(k)[i], packets')
    BY <2>1 DEF Among
  <2> HIDE DEF h
  <2> QED
    BY <2>1, <2>2, <2>3, <2>4, <2>5
<1>6. CASE Sends
  <2> DEFINE h == Head(packets)
  <2>1. /\ UNCHANGED <<current, conn, pushed, subscribe_in>>
        /\ packets # <<>> /\ packets' = Tail(packets)
        /\ forwarded' = Append(forwarded, h)
    BY <1>6 DEF Sends, DownSent, Serving, session
  <2>2. Held(k)
    BY <2>1 DEF CommandsHeld
  <2>3. h \in Packet
    BY <1>0, <2>1, RestType
  <2>4. \A x : Among(x, packets) => x = h \/ Among(x, packets')
    BY <1>0, <2>1, AmongHead
  <2>5. Among(h, forwarded') /\ \A x : Among(x, forwarded) => Among(x, forwarded')
    BY <1>0, <2>1, <2>3, AmongAppend
  <2> HIDE DEF h
  <2> QED
    BY <2>1, <2>2, <2>4, <2>5
<1>7. CASE Told
  <2>1. /\ UNCHANGED <<current, conn, packets, forwarded>> /\ current \in Session
        /\ pushed' = Append(pushed, current)
        /\ subscribe_in' = Append(subscribe_in, Len(pushed) + 1)
    BY <1>7 DEF Told, DownPushed, Serving, session
  <2>2. Len(pushed) + 1 \in Nat
    BY <1>0
  <2>3. /\ Among(Len(pushed) + 1, subscribe_in')
        /\ \A x : Among(x, subscribe_in) => Among(x, subscribe_in')
    <3>1. subscribe_in \in Seq(Nat)
      BY <1>0, Numbers
    <3> QED
      BY <2>1, <2>2, <3>1, AmongAppend
  <2>4. k = Len(pushed) + 1 \/ (k \in 1..Len(pushed) /\ pushed[k] = pushed'[k])
    BY <1>0, <2>1
  <2>5. CASE k \in 1..Len(pushed) /\ pushed[k] = pushed'[k]
    <3>1. Held(k)
      BY <2>1, <2>5 DEF CommandsHeld
    <3> QED
      BY <2>1, <2>3, <3>1
  <2> QED
    BY <2>3, <2>4, <2>5
<1> QED
  BY <1>1, <1>2, <1>3, <1>4, <1>5, <1>6, <1>7, AccountCases

\* So every step keeps the accounts.
LEMMA AccountStep ==
    ASSUME TypeInv, TypeInv', AccountInv, [Next]_vars
    PROVE  AccountInv'
BY NotYetReadStep, NotYetToldStep, PacketsHeldStep, CommandsHeldStep DEF AccountInv

\* No packet of a transceiver is lost between its socket and the broker while the
\* connections hold: receive_from_i8 writes all that it made of a packet before it
\* reads again, and what was sent while bm_connect was still busy waits.
THEOREM PacketsNotLost == Spec => []PacketsAccounted
<1>1. TypeInv /\ AccountInv => PacketsAccounted
  <2> SUFFICES ASSUME TypeInv, AccountInv,
                      current # 0, \A c \in Connection : conn[c] # "broken",
                      NEW k \in 1..Len(sent), sent[k] = current, ~Among(k, i8_in[current]),
                      NEW p \in 1..Len(FramesFor(k, <<>>))
               PROVE  \E g \in {frames[i] : i \in 1..Len(frames)}
                                \cup {published[i] : i \in 1..Len(published)} :
                        g.packet = k /\ g.part = FramesFor(k, <<>>)[p].part
    BY DEF PacketsAccounted
  <2>1. HasFrame(k, p)
    BY DEF AccountInv, PacketsHeld
  <2>2. FramesFor(k, <<>>)[p].part = p
    <3>1. k \in 0..Len(I8Packet)
      BY Numbers DEF TypeInv, TypeOK
    <3>2. <<>> \in Seq(0..Len(I8Packet))
      OBVIOUS
    <3> QED
      BY <3>1, <3>2, FramesType
  <2> QED
    BY <2>1, <2>2 DEF HasFrame
<1>2. Init => TypeInv /\ AccountInv
  BY InitType, AccountInit
<1>3. TypeInv /\ AccountInv /\ [Next]_vars => TypeInv' /\ AccountInv'
  BY StepType, AccountStep
<1> QED
  BY <1>1, <1>2, <1>3, PTL DEF Spec

\* No frame of the broker is lost between its connection and the transceiver while
\* the subscription holds, though select may return for both sockets at once.
THEOREM CommandsNotLost == Spec => []CommandsAccounted
<1>1. TypeInv /\ AccountInv => CommandsAccounted
  <2> SUFFICES ASSUME TypeInv, AccountInv,
                      current # 0, conn["subscribe"] # "broken",
                      NEW k \in 1..Len(pushed), pushed[k] = current,
                      ~Among(k, subscribe_in),
                      NEW i \in 1..Len(PacketsFor(k))
               PROVE  Among(PacketsFor(k)[i], packets \o forwarded)
    BY DEF CommandsAccounted
  <2> DEFINE x == PacketsFor(k)[i]
             n == Len(packets)
             m == Len(forwarded)
  <2>1. Among(x, packets) \/ Among(x, forwarded)
    BY DEF AccountInv, CommandsHeld
  <2>2. packets \in Seq(Packet) /\ forwarded \in Seq(Packet)
    BY DownTypes
  <2> HIDE DEF x
  <2>3. ASSUME NEW j \in 1..n, packets[j] = x PROVE Among(x, packets \o forwarded)
    <3>1. j \in 1..Len(packets \o forwarded) /\ (packets \o forwarded)[j] = packets[j]
      BY <2>2
    <3> QED
      BY <2>3, <3>1 DEF Among
  <2>4. ASSUME NEW j \in 1..m, forwarded[j] = x PROVE Among(x, packets \o forwarded)
    <3>1. /\ n + j \in 1..Len(packets \o forwarded)
          /\ (packets \o forwarded)[n + j] = forwarded[j]
      BY <2>2
    <3> QED
      BY <2>4, <3>1 DEF Among
  <2> QED
    BY <2>1, <2>3, <2>4 DEF Among, x
<1>2. Init => TypeInv /\ AccountInv
  BY InitType, AccountInit
<1>3. TypeInv /\ AccountInv /\ [Next]_vars => TypeInv' /\ AccountInv'
  BY StepType, AccountStep
<1> QED
  BY <1>1, <1>2, <1>3, PTL DEF Spec
-----------------------------------------------------------------------------
(* What a session works on is of that session.                             *)

\* The frames that are unread, and the packets that are about to be sent, are of
\* the session that is served: Disconnect leaves none behind.
OfThisSession ==
    /\ \A i \in 1..Len(subscribe_in) : pushed[subscribe_in[i]] = current
    /\ \A i \in 1..Len(packets) : pushed[packets[i].command] = current

\* A packet is one that send_whitelist or the loop over the fields has made.
MadeOf(p) == \E i \in 1..Len(PacketsFor(p.command)) : p = PacketsFor(p.command)[i]
OnlyMade ==
    /\ \A i \in 1..Len(packets) : MadeOf(packets[i])
    /\ \A i \in 1..Len(forwarded) : MadeOf(forwarded[i])

WorkInv == OfThisSession /\ OnlyMade

\* A session ends or begins with nothing at hand.
LEMMA CurrentCases ==
    ASSUME TypeInv, [Next]_vars
    PROVE  UNCHANGED current \/ (subscribe_in' = <<>> /\ packets' = <<>> /\ frames' = <<>>)
<1> USE DEF session, buffers, broker, peers, outside, output
<1>1. CASE OuterLoop \/ Uninstall \/ Subscribe \/ InnerLoop \/ Select
  BY <1>1 DEF OuterLoop, Uninstall, Subscribe, InnerLoop, Select
<1>2. CASE Accept
  BY <1>2 DEF Accept, TypeInv, Phases, Subscribed
<1>3. CASE ReceiveFromServer \/ Forward \/ ReceiveFromI8 \/ Publish
  BY <1>3 DEF ReceiveFromServer, Forward, ReceiveFromI8, Publish
<1>4. CASE Disconnect
  BY <1>4 DEF Disconnect
<1>5. CASE \E c \in Connection : Connect(c) \/ Login(c)
  BY <1>5 DEF Connect, Login
<1>6. CASE Interrupt \/ BrokerStarts \/ BrokerSends \/ UNCHANGED vars
  BY <1>6 DEF Interrupt, BrokerStarts, BrokerSends, vars
<1>7. CASE \E cs : Breaks(cs)
  BY <1>7 DEF Breaks
<1>8. CASE \E s \in Session : PeerStarts(s) \/ PeerEnds(s) \/ PeerSends(s) \/ PeerReports(s)
  BY <1>8 DEF PeerStarts, PeerEnds, PeerSends, PeerReports
<1> QED
  BY <1>1, <1>2, <1>3, <1>4, <1>5, <1>6, <1>7, <1>8
     DEF Next, Process, Environment, Exited, BrokerStops, ConnectionFails

\* Nothing is at hand at first, ...
LEMMA WorkInit == Init => WorkInv
BY DEF Init, WorkInv, OfThisSession, OnlyMade

\* ... and what comes later is of the session that is served.
LEMMA WorkStep ==
    ASSUME TypeInv, TypeInv', DownInv, WorkInv, [Next]_vars
    PROVE  WorkInv'
<1> USE DEF WorkInv, OfThisSession, OnlyMade
<1>0. /\ DownDropped \/ DownRead \/ DownSent \/ DownPushed
      /\ UNCHANGED current \/ (subscribe_in' = <<>> /\ packets' = <<>>)
  BY DownCases, CurrentCases
<1>1. CASE DownDropped
  BY <1>0, <1>1 DEF DownDropped
<1>2. CASE DownRead
  <2> DEFINE k == Head(subscribe_in)
  <2>1. /\ k \in 1..Len(Command) /\ packets' = PacketsFor(k) /\ k = subscribe_in[1]
        /\ Len(subscribe_in') = Len(subscribe_in) - 1
        /\ \A i \in 1..Len(subscribe_in') : subscribe_in'[i] = subscribe_in[i + 1]
        /\ 1 \in 1..Len(subscribe_in) /\ Len(subscribe_in) \in Nat
        /\ UNCHANGED <<pushed, forwarded>>
    BY <1>2, DownTypes DEF DownRead
  <2>2. /\ packets' \in Seq(Packet)
        /\ \A i \in 1..Len(packets') : packets'[i].command = k /\ packets'[i].part = i
    BY <2>1, PacketsType
  <2>3. \A i \in 1..Len(subscribe_in') : i + 1 \in 1..Len(subscribe_in)
    BY <2>1
  <2>4. pushed[k] = current
    BY <2>1
  <2> HIDE DEF k
  <2>5. OfThisSession'
    BY <1>0, <2>1, <2>2, <2>3, <2>4
  <2>6. \A i \in 1..Len(packets') : MadeOf(packets'[i])
    BY <2>1, <2>2 DEF MadeOf
  <2> QED
    BY <2>1, <2>5, <2>6
<1>3. CASE DownSent
  <2> DEFINE x == Head(packets)
  <2>1. /\ x = packets[1] /\ 1 \in 1..Len(packets) /\ Len(packets) \in Nat
        /\ Len(packets') = Len(packets) - 1
        /\ \A i \in 1..Len(packets') : packets'[i] = packets[i + 1]
        /\ forwarded' = Append(forwarded, x)
        /\ UNCHANGED <<pushed, subscribe_in>>
    BY <1>3, DownTypes DEF DownSent
  <2>2. /\ Len(forwarded') = Len(forwarded) + 1 /\ forwarded'[Len(forwarded) + 1] = x
        /\ Len(forwarded) \in Nat
        /\ \A i \in 1..Len(forwarded) : forwarded'[i] = forwarded[i]
    BY <2>1, DownTypes
  <2>3. \A i \in 1..Len(packets') : i + 1 \in 1..Len(packets)
    BY <2>1
  <2>4. MadeOf(x)
    BY <2>1
  <2> HIDE DEF x
  <2>5. OfThisSession'
    <3>1. CASE UNCHANGED current
      <4>1. \A i \in 1..Len(packets') : pushed'[packets'[i].command] = current'
        BY <2>1, <2>3, <3>1
      <4> QED
        BY <2>1, <3>1, <4>1
    <3>2. CASE subscribe_in' = <<>> /\ packets' = <<>>
      BY <3>2
    <3> QED
      BY <1>0, <3>1, <3>2
  <2>6. \A i \in 1..Len(packets') : MadeOf(packets'[i])
    BY <2>1, <2>3
  <2>7. \A i \in 1..Len(forwarded') : MadeOf(forwarded'[i])
    BY <2>2, <2>4
  <2> QED
    BY <2>5, <2>6, <2>7
<1>4. CASE DownPushed
  <2> DEFINE n == Len(pushed)
  <2>1. /\ n \in Nat /\ Len(pushed') = n + 1 /\ pushed'[n + 1] = current
        /\ \A i \in 1..n : pushed'[i] = pushed[i]
        /\ UNCHANGED <<packets, forwarded>>
    BY <1>4, DownTypes DEF DownPushed
  <2>2. /\ Len(subscribe_in') = Len(subscribe_in) + 1 /\ Len(subscribe_in) \in Nat
        /\ subscribe_in'[Len(subscribe_in) + 1] = n + 1
        /\ \A i \in 1..Len(subscribe_in) : subscribe_in'[i] = subscribe_in[i]
    BY <1>4, DownTypes DEF DownPushed
  <2>3. UNCHANGED current
    BY <1>0, <2>2
  <2>4. \A i \in 1..Len(subscribe_in) : subscribe_in[i] \in 1..n
    <3>1. \A i \in 1..Len(subscribe_in) : subscribe_in[i] \in 1..Len(Command)
      BY DownTypes
    <3> QED
      BY <3>1, <2>1, Numbers DEF DownInv, UnreadInOrder
  <2>5. \A i \in 1..Len(packets) : packets[i].command \in 1..n
    <3>1. \A i \in 1..Len(packets) : packets[i] \in Packet
      BY DownTypes
    <3>2. \A i \in 1..Len(packets) : packets[i].command \in 1..Len(Command)
      BY <3>1 DEF Packet
    <3> QED
      BY <3>2, <2>1, Numbers DEF DownInv, PacketsInOrder
  <2> HIDE DEF n
  <2>6. \A i \in 1..Len(subscribe_in') : pushed'[subscribe_in'[i]] = current'
    <3> SUFFICES ASSUME NEW i \in 1..Len(subscribe_in')
                 PROVE  pushed'[subscribe_in'[i]] = current'
      OBVIOUS
    <3>1. CASE i = Len(subscribe_in) + 1
      BY <2>1, <2>2, <2>3, <3>1
    <3>2. CASE i \in 1..Len(subscribe_in)
      BY <2>1, <2>2, <2>3, <2>4, <3>2
    <3> QED
      BY <2>2, <3>1, <3>2
  <2>7. \A i \in 1..Len(packets') : pushed'[packets'[i].command] = current'
    BY <2>1, <2>3, <2>5
  <2> QED
    BY <2>1, <2>6, <2>7
<1> QED
  BY <1>0, <1>1, <1>2, <1>3, <1>4

\* What the transceiver of a session has sent is in its socket, and then in the
\* frames of its session.
SentInSession ==
    /\ \A s \in Session : \A i \in 1..Len(i8_in[s]) :
         i8_in[s][i] # Report => sent[i8_in[s][i]] = s
    /\ \A i \in 1..Len(frames) : frames[i].packet # Report => sent[frames[i].packet] = current

\* A packet is sent by one transceiver, and read and published in its session.
LEMMA SentInSessionStep ==
    ASSUME TypeInv, UpInv, SentInSession, [Next]_vars
    PROVE  SentInSession'
<1>0. /\ UpDropped \/ UpRead \/ UpWritten \/ \E s \in Session : UpPeer(s) \/ UpSent(s)
      /\ UNCHANGED current \/ frames' = <<>>
  BY UpCases, CurrentCases
<1>1. CASE UpDropped \/ \E s \in Session : UpPeer(s)
  <2>1. UNCHANGED <<i8_in, sent>> /\ frames' \in {frames, <<>>}
    BY <1>1 DEF UpDropped, UpPeer, peers
  <2> QED
    BY <1>0, <2>1 DEF SentInSession
<1>2. CASE UpRead
  <2> DEFINE q == i8_in[current]
             k == Head(q)
  <2>1. /\ current \in Session /\ q \in Seq(0..Len(I8Packet)) /\ q # <<>>
        /\ i8_in' = [i8_in EXCEPT ![current] = Tail(q)]
        /\ UNCHANGED <<current, sent>>
    BY <1>2, UpTypes DEF UpRead, session
  <2>2. /\ k = q[1] /\ 1 \in 1..Len(q) /\ k \in 0..Len(I8Packet)
        /\ \A i \in 1..Len(Tail(q)) : Tail(q)[i] = q[i + 1] /\ i + 1 \in 1..Len(q)
    BY <2>1
  <2>3. k # Report => sent[k] = current
    BY <2>1, <2>2 DEF SentInSession
  <2>4. \A i \in 1..Len(frames') : frames'[i].packet = k
    BY <1>2, <2>2, FramesType DEF UpRead
  <2>5. \A s \in Session : i8_in'[s] = IF s = current THEN Tail(q) ELSE i8_in[s]
    BY <2>1, UpTypes
  <2> HIDE DEF k
  <2>6. ASSUME NEW s \in Session, NEW i \in 1..Len(i8_in'[s]), i8_in'[s][i] # Report
        PROVE  sent[i8_in'[s][i]] = s
    <3>1. CASE s = current
      BY <2>1, <2>2, <2>5, <2>6, <3>1 DEF SentInSession
    <3>2. CASE s # current
      BY <2>5, <2>6, <3>2 DEF SentInSession
    <3> QED
      BY <3>1, <3>2
  <2> QED
    BY <2>1, <2>3, <2>4, <2>6 DEF SentInSession
<1>3. CASE UpWritten
  <2>1. /\ UNCHANGED <<i8_in, sent, current>>
        /\ \A i \in 1..Len(frames') : i + 1 \in 1..Len(frames) /\ frames'[i] = frames[i + 1]
    BY <1>3, UpTypes DEF UpWritten, peers, session
  <2> QED
    BY <2>1 DEF SentInSession
<1>4. ASSUME NEW s \in Session, UpSent(s)
      PROVE  SentInSession'
  <2>1. /\ Len(sent) \in Nat /\ UNCHANGED <<current, frames>>
        /\ \A j \in 1..Len(sent) : sent'[j] = sent[j]
    BY <1>4, UpTypes DEF UpSent, session
  <2>2. PICK x : /\ i8_in' = [i8_in EXCEPT ![s] = Append(i8_in[s], x)]
                 /\ x # Report => sent'[x] = s
    BY <1>4, UpTypes DEF UpSent
  <2>3. \A i \in 1..Len(frames) : frames[i].packet # Report => frames[i].packet \in 1..Len(sent)
    <3> SUFFICES ASSUME NEW i \in 1..Len(frames), frames[i].packet # Report
                 PROVE  frames[i].packet \in 1..Len(sent)
      OBVIOUS
    <3>1. frames[i] \in Frame /\ frames[i].packet <= Len(sent)
      BY UpTypes DEF UpInv, FramesInOrder
    <3> QED
      BY <2>1, <3>1, Numbers DEF Frame, Report
  <2>4. ASSUME NEW t \in Session, NEW i \in 1..Len(i8_in[t]), i8_in[t][i] # Report
        PROVE  sent'[i8_in[t][i]] = t
    <3>1. i8_in[t][i] \in 0..Len(I8Packet) /\ i8_in[t][i] <= Len(sent)
      BY UpTypes DEF UpInv, SocketsKnown
    <3>2. i8_in[t][i] \in 1..Len(sent)
      BY <2>1, <2>4, <3>1, Numbers DEF Report
    <3> QED
      BY <2>1, <2>4, <3>2 DEF SentInSession
  <2>5. ASSUME NEW t \in Session, NEW i \in 1..Len(i8_in'[t]), i8_in'[t][i] # Report
        PROVE  sent'[i8_in'[t][i]] = t
    <3>1. CASE t # s
      <4>1. i8_in'[t] = i8_in[t]
        BY <2>2, <3>1, UpTypes
      <4> QED
        BY <2>4, <2>5, <4>1
    <3>2. CASE t = s
      <4>1. i8_in'[s] = Append(i8_in[s], x) /\ i8_in[s] \in Seq(0..Len(I8Packet))
        BY <2>2, UpTypes
      <4>2. CASE i \in 1..Len(i8_in[s])
        <5>1. i8_in'[s][i] = i8_in[s][i]
          BY <4>1, <4>2
        <5> QED
          BY <2>4, <2>5, <3>2, <4>2, <5>1
      <4>3. CASE i = Len(i8_in[s]) + 1
        <5>1. i8_in'[s][i] = x
          BY <4>1, <4>3
        <5> QED
          BY <2>2, <2>5, <3>2, <5>1
      <4> QED
        BY <2>5, <3>2, <4>1, <4>2, <4>3
    <3> QED
      BY <3>1, <3>2
  <2> QED
    BY <2>1, <2>3, <2>5 DEF SentInSession
<1> QED
  BY <1>0, <1>1, <1>2, <1>3, <1>4

\* Sessions do not mix: what is forwarded to a transceiver was pushed in its session,
\* and what is published was sent in the session that publishes it.
THEOREM SessionsStaySeparate == Spec => SessionsSeparate
<1> DEFINE Inv == TypeInv /\ DownInv /\ UpInv /\ WorkInv /\ SentInSession
<1>1. Init => Inv
  BY InitType, DownInit, UpInit, WorkInit DEF Init, SentInSession
<1>2. Inv /\ [Next]_vars => Inv'
  BY StepType, DownStep, UpStep, WorkStep, SentInSessionStep
<1>3. ASSUME Inv, [Next]_vars, forwarded' # forwarded
      PROVE  pushed[forwarded'[Len(forwarded')].command] = current
  <2>1. DownSent
    BY <1>3, DownCases DEF DownDropped, DownRead, DownSent, DownPushed
  <2>2. /\ Head(packets) = packets[1] /\ 1 \in 1..Len(packets)
        /\ forwarded'[Len(forwarded')] = Head(packets)
    BY <2>1, DownTypes, <1>3 DEF DownSent
  <2> QED
    BY <1>3, <2>2 DEF WorkInv, OfThisSession
<1>4. ASSUME Inv, [Next]_vars, published' # published
      PROVE  sent[published'[Len(published')].packet] = current
  <2>1. UpWritten
    BY <1>4, UpCases DEF UpDropped, UpRead, UpPeer, UpSent
  <2>2. /\ Head(frames) = frames[1] /\ 1 \in 1..Len(frames)
        /\ published'[Len(published')] = Head(frames) /\ Head(frames).packet # Report
    BY <2>1, UpTypes, <1>4 DEF UpWritten
  <2> QED
    BY <1>4, <2>2 DEF SentInSession
<1>5. Inv /\ [Next]_vars =>
        [/\ forwarded' # forwarded =>
              pushed[forwarded'[Len(forwarded')].command] = current
         /\ published' # published =>
              sent[published'[Len(published')].packet] = current]_vars
  BY <1>3, <1>4
<1> QED
  BY <1>1, <1>2, <1>5, PTL DEF Spec, SessionsSeparate

\* What was accepted was started before.
AcceptedStarted == served = 0 \/ peer[served] # "absent"

\* A transceiver that was started once stays a peer that was.
LEMMA AcceptedStep ==
    ASSUME TypeInv, AcceptedStarted, [Next]_vars
    PROVE  AcceptedStarted'
<1> USE DEF session, buffers, broker, peers, outside, output
<1>0. /\ peer \in [Session -> {"absent", "open", "closed"}]
      /\ served \in 0..MaxSessions /\ MaxSessions \in Nat
  BY Numbers DEF TypeInv, TypeOK
<1>1. CASE UNCHANGED <<served, peer>>
  BY <1>1 DEF AcceptedStarted
<1>2. CASE Accept
  BY <1>0, <1>2 DEF Accept, AcceptedStarted
<1>3. CASE \E s \in Session : PeerStarts(s) \/ PeerEnds(s)
  <2>1. PICK s \in Session : PeerStarts(s) \/ PeerEnds(s)
    BY <1>3
  <2>2. \E state \in {"open", "closed"} : peer' = [peer EXCEPT ![s] = state]
    BY <2>1 DEF PeerStarts, PeerEnds
  <2>3. \A t \in Session : peer[t] # "absent" => peer'[t] # "absent"
    BY <1>0, <2>2
  <2>4. UNCHANGED served
    BY <2>1 DEF PeerStarts, PeerEnds
  <2> QED
    BY <1>0, <2>3, <2>4 DEF AcceptedStarted, Session
<1>4. CASE OuterLoop \/ Uninstall \/ Subscribe \/ InnerLoop \/ Select \/ Disconnect
  BY <1>1, <1>4 DEF OuterLoop, Uninstall, Subscribe, InnerLoop, Select, Disconnect
<1>5. CASE ReceiveFromServer \/ Forward \/ ReceiveFromI8 \/ Publish
  BY <1>1, <1>5 DEF ReceiveFromServer, Forward, ReceiveFromI8, Publish
<1>6. CASE \E c \in Connection : Connect(c) \/ Login(c)
  BY <1>1, <1>6 DEF Connect, Login
<1>7. CASE Interrupt \/ BrokerStarts \/ BrokerSends \/ UNCHANGED vars
  BY <1>1, <1>7 DEF Interrupt, BrokerStarts, BrokerSends, vars
<1>8. CASE \E cs : Breaks(cs)
  BY <1>1, <1>8 DEF Breaks
<1>9. CASE \E s \in Session : PeerSends(s) \/ PeerReports(s)
  BY <1>1, <1>9 DEF PeerSends, PeerReports
<1> QED
  BY <1>2, <1>3, <1>4, <1>5, <1>6, <1>7, <1>8, <1>9
     DEF Next, Process, Environment, Exited, BrokerStops, ConnectionFails

-----------------------------------------------------------------------------
(* The text of what is published.                                          *)

\* The frame of a message is its only one, and holds its bytes and no others.
Intact(f) ==
    f.packet # Report /\ ~IsList(f.packet) =>
      f.part = 1 /\ f.text = [j \in 1..I8Packet[f.packet].length |-> f.packet]

\* It stays so on the way to the broker.
TextInv ==
    /\ \A i \in 1..Len(frames) : Intact(frames[i])
    /\ \A i \in 1..Len(published) : Intact(published[i])

\* A packet is read over what the buffer holds.
TextRead ==
    /\ current \in Session /\ i8_in[current] # <<>>
    /\ LET k == Head(i8_in[current])
       IN /\ \E n \in Lengths(k) : input_data' = Overwrite(input_data, Brought(k, n))
          /\ frames' = FramesFor(k, Printed(input_data'))
    /\ UNCHANGED published

\* Only reading makes frames.
LEMMA TextCases ==
    ASSUME TypeInv, [Next]_vars
    PROVE  TextRead \/ UpDropped \/ UpWritten \/ \E s \in Session : UpPeer(s) \/ UpSent(s)
<1> USE DEF session, buffers, broker, peers, outside, output, UpDropped
<1>1. CASE OuterLoop \/ Uninstall \/ Accept \/ Subscribe \/ InnerLoop \/ Select
  BY <1>1 DEF OuterLoop, Uninstall, Accept, Subscribe, InnerLoop, Select
<1>2. CASE ReceiveFromServer \/ Forward \/ Disconnect
  BY <1>2 DEF ReceiveFromServer, Forward, Disconnect
<1>3. CASE ReceiveFromI8
  <2>1. CASE i8_in[current] = <<>>
    BY <1>3, <2>1 DEF ReceiveFromI8
  <2>2. CASE i8_in[current] # <<>>
    <3>1. current \in Session
      BY <1>3 DEF ReceiveFromI8, TypeInv, Phases
    <3>2. TextRead
      BY <1>3, <2>2, <3>1 DEF ReceiveFromI8, TextRead
    <3> QED
      BY <3>2
  <2> QED
    BY <2>1, <2>2
<1>4. CASE Publish
  <2>1. UNCHANGED <<session, peers>>
    BY <1>4 DEF Publish
  <2>2. CASE frames = <<>>
    BY <1>4, <2>1, <2>2 DEF Publish
  <2>3. CASE frames # <<>>
    BY <1>4, <2>1, <2>3 DEF Publish, Outcomes, Unwritten, UpWritten
  <2> QED
    BY <2>2, <2>3
<1>5. CASE \E c \in Connection : Connect(c) \/ Login(c)
  BY <1>5 DEF Connect, Login
<1>6. CASE Interrupt \/ BrokerStarts \/ BrokerSends \/ UNCHANGED vars
  BY <1>6 DEF Interrupt, BrokerStarts, BrokerSends, vars
<1>7. CASE \E cs : Breaks(cs)
  BY <1>7 DEF Breaks
<1>8. CASE \E s \in Session : PeerStarts(s) \/ PeerEnds(s)
  BY <1>8 DEF PeerStarts, PeerEnds, UpPeer
<1>9. CASE \E s \in Session : PeerSends(s) \/ PeerReports(s)
  BY <1>9 DEF PeerSends, PeerReports, CanSend, UpSent
<1> QED
  BY <1>1, <1>2, <1>3, <1>4, <1>5, <1>6, <1>7, <1>8, <1>9
     DEF Next, Process, Environment, Exited, BrokerStops, ConnectionFails

\* There are no frames at first, ...
LEMMA TextInit == Init => TextInv
BY DEF Init, TextInv

\* ... what is made of a packet that is read is intact, ...
LEMMA TextReadStep ==
    ASSUME TypeInv, TextInv, TextRead
    PROVE  TextInv'
<1> DEFINE q == i8_in[current]
           k == Head(q)
<1>1. /\ q \in Seq(0..Len(I8Packet)) /\ q # <<>> /\ input_data \in Seq(0..EndOfText)
      /\ Len(I8Packet) \in Nat
  BY Numbers DEF TextRead, TypeInv, TypeOK
<1>2. k \in 0..Len(I8Packet)
  BY <1>1, RestType
<1>3. PICK n \in Lengths(k) : input_data' = Overwrite(input_data, Brought(k, n))
  BY DEF TextRead
<1>4. frames' = FramesFor(k, Printed(input_data')) /\ UNCHANGED published
  BY DEF TextRead
<1> HIDE DEF k, q
<1>5. ASSUME NEW i \in 1..Len(frames') PROVE Intact(frames'[i])
  <2>1. CASE k # Report /\ ~IsList(k)
    <3> DEFINE x == [packet |-> k, part |-> 1, text |-> Printed(input_data')]
    <3>1. k \in 1..Len(I8Packet)
      BY <1>1, <1>2, <2>1 DEF Report
    <3>2. Printed(input_data') = [j \in 1..I8Packet[k].length |-> k]
      BY <1>1, <1>3, <2>1, <3>1, MessagePrinted
    <3>3. frames' = <<x>>
      BY <1>4, <2>1 DEF FramesFor
    <3>4. Intact(x)
      BY <3>2 DEF Intact
    <3> HIDE DEF x
    <3> QED
      BY <1>5, <3>3, <3>4
  <2>2. CASE k = Report \/ IsList(k)
    <3>1. input_data' \in Seq(0..EndOfText)
      BY <1>1, <1>2, <1>3, BroughtType, OverwriteType
    <3>2. frames'[i].packet = k
      BY <1>2, <1>4, <1>5, <3>1, PrintedType, FramesType
    <3> QED
      BY <2>2, <3>2 DEF Intact
  <2> QED
    BY <2>1, <2>2
<1> QED
  BY <1>4, <1>5 DEF TextInv, Intact

\* ... and stays so until it is published.
LEMMA TextStep ==
    ASSUME TypeInv, TextInv, [Next]_vars
    PROVE  TextInv'
<1>1. CASE TextRead
  BY <1>1, TextReadStep
<1>2. CASE UpDropped \/ UpWritten \/ \E s \in Session : UpPeer(s) \/ UpSent(s)
  <2>1. /\ frames' \in {frames, <<>>} \/ (frames # <<>> /\ frames' = Tail(frames))
        /\ \/ UNCHANGED published
           \/ frames # <<>> /\ published' = Append(published, Head(frames))
    BY <1>2 DEF UpDropped, UpWritten, UpPeer, UpSent
  <2>2. \A i \in 1..Len(frames') : Intact(frames'[i])
    <3>1. CASE frames # <<>> /\ frames' = Tail(frames)
      <4>1. \A i \in 1..Len(frames') : i + 1 \in 1..Len(frames) /\ frames'[i] = frames[i + 1]
        BY <3>1, UpTypes
      <4> QED
        BY <4>1 DEF TextInv
    <3>2. CASE frames' \in {frames, <<>>}
      BY <3>2 DEF TextInv
    <3> QED
      BY <2>1, <3>1, <3>2
  <2>3. \A i \in 1..Len(published') : Intact(published'[i])
    <3>1. CASE frames # <<>> /\ published' = Append(published, Head(frames))
      <4>1. /\ Head(frames) = frames[1] /\ 1 \in 1..Len(frames) /\ Len(published) \in Nat
            /\ Len(published') = Len(published) + 1
            /\ published'[Len(published) + 1] = Head(frames)
            /\ \A i \in 1..Len(published) : published'[i] = published[i]
        BY <3>1, UpTypes
      <4>2. Intact(Head(frames))
        BY <4>1 DEF TextInv
      <4> QED
        BY <4>1, <4>2 DEF TextInv
    <3> QED
      BY <2>1, <3>1 DEF TextInv
  <2> QED
    BY <2>2, <2>3 DEF TextInv, Intact
<1> QED
  BY <1>1, <1>2, TextCases

\* A message is published with the bytes it has and no others, whatever the daemon's
\* buffer held before: a tail of an older packet comes behind the message's own zero.
THEOREM MessagesPublishedIntact == Spec => [](\A i \in 1..Len(published) : Intact(published[i]))
<1>1. Init => TypeInv /\ TextInv
  BY InitType, TextInit
<1>2. TypeInv /\ TextInv /\ [Next]_vars => TypeInv' /\ TextInv'
  BY StepType, TextStep
<1>3. TextInv => \A i \in 1..Len(published) : Intact(published[i])
  BY DEF TextInv
<1> QED
  BY <1>1, <1>2, <1>3, PTL DEF Spec

-----------------------------------------------------------------------------
(* What a list is cut into.                                                *)

\* Entry j of frame p, counted from the start of the list.
Entry(p, j) == (p - 1) * StepSize + j

\* The entries of two frames are StepSize apart at least.
LEMMA EntriesApart ==
    ASSUME NEW p \in Nat \ {0}, NEW q \in Nat \ {0}, p < q
    PROVE  /\ (p - 1) * StepSize \in Nat /\ (q - 1) * StepSize \in Nat
           /\ (p - 1) * StepSize + StepSize <= (q - 1) * StepSize
<1>1. p - 1 \in Nat /\ q - 1 \in Nat /\ p - 1 < q - 1 /\ StepSize \in Nat
  BY Numbers
<1>2. \A a, b \in Nat : a * b \in Nat
  OBVIOUS
<1> QED
  BY <1>1, <1>2, Multiples

\* An entry is in one place only.
LEMMA EntryOnce ==
    ASSUME NEW p \in Nat \ {0}, NEW q \in Nat \ {0},
           NEW i \in 1..StepSize, NEW j \in 1..StepSize, Entry(p, i) = Entry(q, j)
    PROVE  p = q /\ i = j
<1>1. \A a, b \in Nat : a * b \in Nat
  OBVIOUS
<1>2. (p - 1) * StepSize \in Nat /\ (q - 1) * StepSize \in Nat /\ StepSize \in Nat
  BY <1>1, Numbers
<1>3. ~(p < q) /\ ~(q < p)
  BY <1>2, EntriesApart DEF Entry
<1>4. p = q
  BY <1>3
<1> QED
  BY <1>2, <1>4 DEF Entry

\* The number of frames is right: the frames before the last are full, the last one
\* has an entry, and none is left over.
LEMMA FrameCount ==
    ASSUME NEW n \in Nat
    PROVE  LET c == ListFrameCount(n)
           IN  /\ c \in Nat /\ n <= c * StepSize /\ c * StepSize <= n + StepSize - 1
               /\ c * StepSize \in Nat
<1> DEFINE t == n + StepSize - 1
           c == t \div StepSize
           r == t % StepSize
<1>1. StepSize \in Nat \ {0} /\ t \in Nat
  BY Numbers
<1>2. c \in Nat /\ r \in 0..(StepSize - 1) /\ t = c * StepSize + r
  <2>1. /\ t \div StepSize \in Nat /\ t % StepSize \in 0..(StepSize - 1)
        /\ t = (t \div StepSize) * StepSize + (t % StepSize)
    <3>1. t \in Nat
      BY <1>1
    <3> HIDE DEF t
    <3> QED
      BY <1>1, <3>1, DivMod
  <2> QED
    BY <2>1
<1>3. c * StepSize \in Nat
  <2>1. \A a, b \in Nat : a * b \in Nat
    OBVIOUS
  <2> HIDE DEF c
  <2> QED
    BY <1>1, <1>2, <2>1
<1>4. ListFrameCount(n) = c
  BY DEF ListFrameCount
<1> HIDE DEF c, r
<1> QED
  BY <1>1, <1>2, <1>3, <1>4

\* A list is cut into frames without losing or repeating an entry: each of its
\* entries is at one place of one frame, each frame has entries of the list, and
\* what is stale comes behind them, in the last frame only.
THEOREM ListsCutWhole ==
    ASSUME NEW k \in 1..Len(I8Packet)
    PROVE  LET n == PacketLength(k)
               c == ListFrameCount(n)
               text(p) == ListFrames(k)[p].text
           IN  /\ \A e \in 1..n : \E p \in 1..c, j \in 1..StepSize :
                    /\ Entry(p, j) = e /\ text(p)[j] = k
                    /\ \A q \in 1..c, i \in 1..StepSize :
                         Entry(q, i) = e => q = p /\ i = j
               /\ \A p \in 1..c : text(p)[1] = k
               /\ \A p \in 1..c, j \in 1..StepSize :
                    text(p)[j] = Stale => p = c /\ Entry(p, j) > n
<1> DEFINE n == PacketLength(k)
           c == ListFrameCount(n)
           S == StepSize
           text(p) == ListFrames(k)[p].text
<1>1. n \in Nat /\ S \in Nat \ {0}
  BY LengthType, Numbers
<1>2. c \in Nat /\ n <= c * S /\ c * S <= n + S - 1 /\ c * S \in Nat
  BY <1>1, FrameCount
<1>3. \A p \in 1..c : \A j \in 1..S :
        text(p)[j] = IF Entry(p, j) <= n THEN k ELSE Stale
  BY DEF ListFrames, Entry
<1> HIDE DEF n, c, text
<1>4. \A p \in 1..c : (p - 1) * S \in Nat /\ (p - 1) * S + S <= c * S
  <2> SUFFICES ASSUME NEW p \in 1..c
               PROVE  (p - 1) * S \in Nat /\ (p - 1) * S + S <= c * S
    OBVIOUS
  <2>1. p - 1 \in Nat /\ p - 1 < c
    BY <1>2
  <2>2. \A a, b \in Nat : a * b \in Nat
    OBVIOUS
  <2> QED
    BY <1>1, <1>2, <2>1, <2>2, Multiples
<1>5. ASSUME NEW e \in 1..n
      PROVE  \E p \in 1..c, j \in 1..S :
               /\ Entry(p, j) = e /\ text(p)[j] = k
               /\ \A q \in 1..c, i \in 1..S : Entry(q, i) = e => q = p /\ i = j
  <2> DEFINE d == e - 1
             p == d \div S + 1
             j == (d % S) + 1
  <2>1. d \in Nat /\ d + 1 = e
    BY <1>1
  <2>2. /\ d \div S \in Nat /\ d % S \in 0..(S - 1)
        /\ d = (d \div S) * S + (d % S)
    <3> HIDE DEF d
    <3> QED
      BY <1>1, <2>1, DivMod
  <2>3. /\ p \in Nat \ {0} /\ p - 1 = d \div S /\ j \in 1..S /\ j - 1 = d % S
    <3> DEFINE a == d \div S
               b == d % S
    <3>1. a \in Nat /\ b \in 0..(S - 1)
      BY <2>2
    <3> HIDE DEF a, b
    <3>2. a + 1 \in Nat \ {0} /\ (a + 1) - 1 = a /\ b + 1 \in 1..S /\ (b + 1) - 1 = b
      BY <1>1, <3>1
    <3> QED
      BY <3>2 DEF a, b
  <2> HIDE DEF p, j
  <2>4. Entry(p, j) = e /\ (p - 1) * S \in Nat
    <3>1. (p - 1) * S \in Nat
      <4>1. \A a, b \in Nat : a * b \in Nat
        OBVIOUS
      <4> QED
        BY <1>1, <2>3, <4>1
    <3>2. d = (p - 1) * S + (j - 1)
      BY <2>2, <2>3
    <3> HIDE DEF d
    <3> QED
      BY <1>1, <2>1, <2>3, <3>1, <3>2 DEF Entry
  <2>5. p \in 1..c
    <3> SUFFICES ASSUME c < p PROVE FALSE
      BY <1>2, <2>3
    <3>1. c * S <= (p - 1) * S
      <4>1. c = p - 1 \/ c < p - 1
        BY <1>2, <2>3
      <4>2. c < p - 1 => c * S + S <= (p - 1) * S
        BY <1>1, <1>2, <2>3, Multiples
      <4> QED
        BY <1>1, <1>2, <2>4, <4>1, <4>2
    <3> QED
      BY <1>1, <1>2, <2>3, <2>4, <3>1 DEF Entry
  <2>6. text(p)[j] = k
    BY <1>1, <1>3, <2>3, <2>4, <2>5
  <2>7. \A q \in 1..c, i \in 1..S : Entry(q, i) = e => q = p /\ i = j
    BY <1>2, <2>3, <2>4, EntryOnce
  <2> QED
    BY <2>3, <2>4, <2>5, <2>6, <2>7
<1>6. ASSUME NEW p \in 1..c PROVE text(p)[1] = k
  <2>1. Entry(p, 1) <= n
    BY <1>1, <1>2, <1>4 DEF Entry
  <2> QED
    BY <1>1, <1>3, <2>1
<1>7. ASSUME NEW p \in 1..c, NEW j \in 1..S, text(p)[j] = Stale
      PROVE  p = c /\ Entry(p, j) > n
  <2>1. ~(Entry(p, j) <= n)
    BY <1>3, <1>7 DEF Stale
  <2>2. Entry(p, j) \in Nat /\ Entry(p, j) <= (p - 1) * S + S /\ (p - 1) * S \in Nat
    BY <1>1, <1>4 DEF Entry
  <2>3. p = c
    <3> SUFFICES ASSUME p < c PROVE FALSE
      BY <1>2
    <3>1. (p - 1) * S + S <= (c - 1) * S /\ (c - 1) * S + S <= c * S
      <4>1. c \in 1..c
        BY <1>2
      <4> QED
        BY <1>2, <1>4, <4>1, EntriesApart
    <3> QED
      BY <1>1, <1>2, <2>1, <2>2, <3>1
  <2> QED
    BY <1>1, <2>1, <2>2, <2>3
<1> QED
  BY <1>5, <1>6, <1>7 DEF n, c, text
=============================================================================
