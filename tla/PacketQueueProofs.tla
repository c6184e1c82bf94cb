-------------------------- MODULE PacketQueueProofs --------------------------
(***************************************************************************)
(* What the functions on packet_queue preserve, and when a message that    *)
(* collect_from_queue puts together is the message that was sent.          *)
(***************************************************************************)
EXTENDS PacketQueue, NatLemmas, SequenceTheorems

USE PacketAssumption

\* The header fields of a packet are numbers, and its bytes lie in its message.
LEMMA PacketFields ==
    ASSUME NEW p \in Packet
    PROVE  /\ p.msg \in Message /\ p.no \in 0..tot_frags(p.msg)
           /\ p = [msg |-> p.msg, no |-> p.no]
           /\ src(p) \in Node /\ packet_id(p) \in 0..255
           /\ total_size(p) \in Nat \ {0} /\ offset(p) \in Nat
           /\ data_size(p) \in 0..PayloadSize
           /\ Bytes(p) \subseteq 1..TotalSize[p.msg]
<1>1. PICK m \in Message : p \in Fragments(m)
  BY DEF Packet
<1>2. PICK k \in 0..tot_frags(m) : p = [msg |-> m, no |-> k]
  BY <1>1 DEF Fragments
<1> DEFINE t == TotalSize[m]
           P == PayloadSize
           d == t \div P
           r == t % P
<1>3. t \in Nat \ {0} /\ P \in Nat \ {0} /\ tot_frags(m) = d
  BY DEF tot_frags
<1>4. d \in Nat /\ r \in 0..(P - 1) /\ t = d * P + r
  BY <1>3, DivMod
<1>5. k \in Nat /\ k <= d
  BY <1>2, <1>3, <1>4
<1>6. /\ offset(p) = k * P
      /\ data_size(p) = IF k = d THEN r ELSE P
  BY <1>2, <1>3 DEF offset, data_size
<1> HIDE DEF t, P, d, r
<1>7. k * P \in Nat /\ (k < d => k * P + P <= d * P)
  <2>1. P \in Nat
    BY <1>3
  <2>2. k * P \in Nat
    BY <1>5, <2>1
  <2> QED
    BY <1>4, <1>5, <2>1, <2>2, Multiples
<1>8. offset(p) + data_size(p) <= t
  <2>1. CASE k = d
    BY <1>3, <1>4, <1>7, <1>6, <2>1
  <2>2. CASE k # d
    <3>1. k * P + P <= d * P
      BY <1>4, <1>5, <1>7, <2>2
    <3>2. d * P \in Nat
      BY <1>3, <1>4
    <3> QED
      BY <1>3, <1>4, <1>7, <1>6, <2>2, <3>1, <3>2
  <2> QED
    BY <2>1, <2>2
<1>9. data_size(p) \in 0..P /\ offset(p) \in Nat
  BY <1>3, <1>4, <1>7, <1>6
<1>10. Bytes(p) \subseteq 1..t
  BY <1>3, <1>8, <1>9 DEF Bytes
<1> QED
  BY <1>2, <1>9, <1>10 DEF src, packet_id, total_size, t, P

\* Two packets of a message have no byte in common.
LEMMA BytesDisjoint ==
    ASSUME NEW p \in Packet, NEW q \in Packet, p.msg = q.msg, p # q,
           NEW b \in Bytes(p)
    PROVE  b \notin Bytes(q)
<1> DEFINE P == PayloadSize
<1>1. /\ p.no \in Nat /\ q.no \in Nat /\ p.no # q.no
      /\ data_size(p) \in 0..P /\ data_size(q) \in 0..P
  BY PacketFields DEF tot_frags
<1>2. /\ offset(p) = p.no * P /\ offset(q) = q.no * P
      /\ P \in Nat
  BY DEF offset
<1> HIDE DEF P
<1>3. /\ p.no < q.no => p.no * P + P <= q.no * P
      /\ q.no < p.no => q.no * P + P <= p.no * P
  BY <1>1, <1>2, Multiples
<1>4. p.no * P \in Nat /\ q.no * P \in Nat
  BY <1>1, <1>2
<1> QED
  BY <1>1, <1>2, <1>3, <1>4 DEF Bytes

\* The first packet of every message carries its first byte.
LEMMA FirstPacket ==
    ASSUME NEW m \in Message
    PROVE  /\ [msg |-> m, no |-> 0] \in Packet
           /\ 1 \in Bytes([msg |-> m, no |-> 0])
<1> DEFINE p == [msg |-> m, no |-> 0]
<1>1. TotalSize[m] = tot_frags(m) * PayloadSize + (TotalSize[m] % PayloadSize)
      /\ tot_frags(m) \in Nat /\ TotalSize[m] \in Nat \ {0}
  BY DivMod DEF tot_frags
<1>2. p \in Packet
  BY <1>1 DEF Packet, Fragments
<1>3. offset(p) = 0
  BY DEF offset
<1>4. data_size(p) \in Nat \ {0}
  <2>1. CASE tot_frags(m) = 0
    BY <1>1, <2>1 DEF data_size
  <2>2. CASE tot_frags(m) # 0
    BY <2>2 DEF data_size
  <2> QED
    BY <2>1, <2>2
<1> QED
  BY <1>2, <1>3, <1>4 DEF Bytes

-----------------------------------------------------------------------------
(* The queue.                                                              *)

\* A slot is free, or holds a packet and the time it came.
LEMMA SlotFields ==
    ASSUME NEW queue \in Queues, NEW i \in Slot
    PROVE  /\ IsFree(queue, i) <=> queue[i] = FreeSlot
           /\ ~IsFree(queue, i) => /\ queue[i] \in Queued
                                  /\ queue[i].packet \in Packet
                                  /\ queue[i].timestamp \in Nat \ {0}
                                  /\ queue[i].packet \in Stored(queue)
BY DEF Queues, Queued, FreeSlot, IsFree, Stored

\* What a queue stores are packets.
LEMMA StoredPackets ==
    ASSUME NEW queue \in Queues
    PROVE  Stored(queue) \subseteq Packet
BY SlotFields DEF Stored

\* The queue at the start stores nothing.
LEMMA EmptyQueueStores ==
    EmptyQueue \in Queues /\ Stored(EmptyQueue) = {} /\ StoredOnce(EmptyQueue)
BY DEF EmptyQueue, Queues, FreeSlot, IsFree, Stored, StoredOnce

\* Clearing slots removes packets and adds none.
LEMMA ClearKeeps ==
    ASSUME NEW queue \in Queues, NEW slots
    PROVE  /\ Clear(queue, slots) \in Queues
           /\ Stored(Clear(queue, slots)) \subseteq Stored(queue)
           /\ StoredOnce(queue) => StoredOnce(Clear(queue, slots))
<1> DEFINE result == Clear(queue, slots)
<1>1. \A i \in Slot : result[i] = IF i \in slots THEN FreeSlot ELSE queue[i]
  BY DEF Clear
<1>2. \A i \in Slot : ~IsFree(result, i) => ~IsFree(queue, i) /\ result[i] = queue[i]
  BY <1>1 DEF IsFree, FreeSlot
<1>3. result \in Queues
  BY DEF Clear, Queues
<1> HIDE DEF result
<1>4. Stored(result) \subseteq Stored(queue)
  BY <1>2 DEF Stored
<1>5. StoredOnce(queue) => StoredOnce(result)
  BY <1>2 DEF StoredOnce
<1> QED
  BY <1>3, <1>4, <1>5 DEF result

\* What is cleared is not stored any more, if it was stored once.
LEMMA ClearRemoves ==
    ASSUME NEW queue \in Queues, StoredOnce(queue), NEW slots,
           NEW i \in Slot, i \in slots, ~IsFree(queue, i)
    PROVE  queue[i].packet \notin Stored(Clear(queue, slots))
<1> DEFINE result == Clear(queue, slots)
<1>1. SUFFICES ASSUME NEW j \in Slot, ~IsFree(result, j),
                      result[j].packet = queue[i].packet
               PROVE  FALSE
  BY DEF Stored
<1>2. j \notin slots /\ result[j] = queue[j] /\ ~IsFree(queue, j)
  BY <1>1 DEF Clear, IsFree, FreeSlot
<1>3. j = i
  BY <1>1, <1>2 DEF StoredOnce
<1> QED
  BY <1>2, <1>3

\* add_to_queue stores the packet or drops it, and stores nothing else.
LEMMA AddKeeps ==
    ASSUME NEW queue \in Queues, NEW p \in Packet, NEW now \in Nat \ {0}
    PROVE  /\ add_to_queue(queue, p, now) \in Queues
           /\ Stored(add_to_queue(queue, p, now)) \subseteq Stored(queue) \cup {p}
           /\ StoredOnce(queue) /\ p \notin Stored(queue)
                => StoredOnce(add_to_queue(queue, p, now))
<1> DEFINE result == add_to_queue(queue, p, now)
           free == {i \in Slot : IsFree(queue, i)}
           first == CHOOSE i \in free : \A j \in free : i <= j
<1>1. CASE free = {}
  <2>1. result = clean_queue(queue)
    BY <1>1 DEF add_to_queue
  <2>2. \E slots : clean_queue(queue) = Clear(queue, slots)
    BY DEF clean_queue, remove_packet
  <2> QED
    BY <2>1, <2>2, ClearKeeps
<1>2. CASE free # {}
  <2>1. result = [queue EXCEPT ![first] = [packet |-> p, timestamp |-> now]]
    BY <1>2 DEF add_to_queue
  <2> HIDE DEF first, result
  <2>2. result \in Queues
    BY <2>1 DEF Queues, Queued
  <2>3. \A i \in Slot : result[i] = IF i = first THEN [packet |-> p, timestamp |-> now]
                                               ELSE queue[i]
    BY <2>1 DEF Queues
  <2>4. \A i \in Slot : /\ i # first => (IsFree(result, i) <=> IsFree(queue, i))
                        /\ i = first => result[i].packet = p
    BY <2>3 DEF IsFree
  <2>5. Stored(result) \subseteq Stored(queue) \cup {p}
    BY <2>3, <2>4 DEF Stored
  <2>6. ASSUME StoredOnce(queue), p \notin Stored(queue)
        PROVE  StoredOnce(result)
    <3>1. SUFFICES ASSUME NEW i \in Slot, NEW j \in Slot,
                          ~IsFree(result, i), ~IsFree(result, j),
                          result[i].packet = result[j].packet, i # j
                   PROVE  FALSE
      BY DEF StoredOnce
    <3>2. CASE i # first /\ j # first
      BY <2>3, <2>4, <2>6, <3>1, <3>2 DEF StoredOnce
    <3>3. CASE i = first
      BY <2>3, <2>4, <2>6, <3>1, <3>3 DEF Stored
    <3>4. CASE j = first
      BY <2>3, <2>4, <2>6, <3>1, <3>4 DEF Stored
    <3> QED
      BY <3>2, <3>3, <3>4
  <2> QED
    BY <2>2, <2>5, <2>6 DEF result
<1> QED
  BY <1>1, <1>2

\* The search for a free slot finds one, if there is one.
LEMMA FirstFree ==
    ASSUME NEW free \in SUBSET Slot, free # {}
    PROVE  (CHOOSE i \in free : \A j \in free : i <= j) \in free
<1>1. free \in SUBSET Nat
  BY DEF Slot
<1>2. \E i \in free : \A j \in free : i <= j
  BY <1>1, LeastNat
<1> QED
  BY <1>2

\* A packet that add_to_queue takes out of the queue, it takes out with all others
\* of its source and packet_id; the rest of the queue stays as it was.
LEMMA AddRemovesWhole ==
    ASSUME NEW queue \in Queues, NEW p \in Packet, NEW now \in Nat \ {0},
           NEW i \in Slot, ~IsFree(queue, i)
    PROVE  LET result == add_to_queue(queue, p, now)
           IN  \/ result[i] = queue[i]
               \/ \A j \in Matching(queue, src(queue[i].packet), packet_id(queue[i].packet)) :
                    IsFree(result, j)
<1> DEFINE result == add_to_queue(queue, p, now)
           free == {j \in Slot : IsFree(queue, j)}
           first == CHOOSE j \in free : \A k \in free : j <= k
<1>1. CASE free = {}
  <2>1. PICK node, id : result = Clear(queue, Matching(queue, node, id))
    BY <1>1 DEF add_to_queue, clean_queue, remove_packet
  <2>2. CASE i \in Matching(queue, node, id)
    <3>1. node = src(queue[i].packet) /\ id = packet_id(queue[i].packet)
      BY <2>2 DEF Matching
    <3>2. \A j \in Matching(queue, node, id) : j \in Slot /\ result[j] = FreeSlot
      BY <2>1 DEF Matching, Clear
    <3> QED
      BY <3>1, <3>2 DEF IsFree, FreeSlot
  <2>3. CASE i \notin Matching(queue, node, id)
    BY <2>1, <2>3 DEF Clear
  <2> QED
    BY <2>2, <2>3
<1>2. CASE free # {}
  <2>1. result = [queue EXCEPT ![first] = [packet |-> p, timestamp |-> now]]
    BY <1>2 DEF add_to_queue
  <2>2. first \in free
    <3> HIDE DEF first
    <3>1. free \in SUBSET Slot
      OBVIOUS
    <3> HIDE DEF free
    <3> QED
      BY <1>2, <3>1, FirstFree DEF first
  <2> HIDE DEF first, result
  <2>3. i # first
    BY <2>2
  <2> QED
    BY <2>1, <2>3 DEF Queues, result
<1> QED
  BY <1>1, <1>2

\* A fragment is queued with the time of day, and no other gets another time.
LEMMA AddTimes ==
    ASSUME NEW queue \in Queues, NEW p \in Packet, NEW now \in Nat \ {0},
           \A i \in Slot : ~IsFree(queue, i) => queue[i].timestamp <= now
    PROVE  LET result == add_to_queue(queue, p, now)
           IN  \A i \in Slot : ~IsFree(result, i) => result[i].timestamp <= now
<1> DEFINE result == add_to_queue(queue, p, now)
           free == {j \in Slot : IsFree(queue, j)}
           first == CHOOSE j \in free : \A k \in free : j <= k
<1>1. CASE free = {}
  <2>1. PICK slots : result = Clear(queue, slots)
    BY <1>1 DEF add_to_queue, clean_queue, remove_packet
  <2> QED
    BY <2>1 DEF Clear, IsFree, FreeSlot
<1>2. CASE free # {}
  <2>1. result = [queue EXCEPT ![first] = [packet |-> p, timestamp |-> now]]
    BY <1>2 DEF add_to_queue
  <2> HIDE DEF first
  <2>2. \A i \in Slot : result[i] = queue[i] \/ result[i].timestamp = now
    BY <2>1 DEF Queues
  <2> QED
    BY <2>2 DEF IsFree
<1> QED
  BY <1>1, <1>2

\* The oldest fragment of a full queue is one of the queue, as long as the clock has
\* not passed EndOfTime, so clean_queue frees the slots of a message.
LEMMA CleanFrees ==
    ASSUME NEW queue \in Queues,
           \A i \in Slot : ~IsFree(queue, i) /\ queue[i].timestamp < EndOfTime
    PROVE  \E i \in Slot : IsFree(clean_queue(queue), i)
<1> DEFINE candidates == {i \in Slot : /\ ~IsFree(queue, i)
                                       /\ queue[i].timestamp < EndOfTime}
           Older(i, j) == \/ queue[i].timestamp < queue[j].timestamp
                          \/ queue[i].timestamp = queue[j].timestamp /\ i <= j
           oldest == CHOOSE i \in candidates : \A j \in candidates : Older(i, j)
           times == {queue[i].timestamp : i \in Slot}
<1>1. candidates = Slot /\ 1 \in Slot
  BY QueueAssumption DEF Slot
<1>2. \A i \in Slot : queue[i].timestamp \in Nat
  BY SlotFields
<1>3. PICK t \in times : \A u \in times : t <= u
  <2>1. times \in SUBSET Nat /\ times # {}
    BY <1>1, <1>2
  <2> HIDE DEF times
  <2> QED
    BY <2>1, LeastNat
<1> DEFINE same == {i \in Slot : queue[i].timestamp = t}
<1>4. PICK k \in same : \A j \in same : k <= j
  <2>1. same \in SUBSET Nat /\ same # {}
    BY <1>3 DEF Slot
  <2> HIDE DEF same
  <2> QED
    BY <2>1, LeastNat
<1>5. \A j \in candidates : Older(k, j)
  <2> SUFFICES ASSUME NEW j \in Slot PROVE Older(k, j)
    BY <1>1
  <2>1. queue[k].timestamp <= queue[j].timestamp
    BY <1>3, <1>4
  <2>2. queue[k].timestamp = queue[j].timestamp => k <= j
    BY <1>4
  <2> QED
    BY <1>2, <1>4, <2>1, <2>2
<1>6. oldest \in Slot
  <2>1. \E i \in candidates : \A j \in candidates : Older(i, j)
    BY <1>1, <1>4, <1>5
  <2> HIDE DEF Older
  <2> QED
    BY <1>1, <2>1
<1>7. clean_queue(queue) = remove_packet(queue, src(queue[oldest].packet),
                                         packet_id(queue[oldest].packet))
  BY DEF clean_queue
<1> HIDE DEF oldest
<1>8. oldest \in Matching(queue, src(queue[oldest].packet), packet_id(queue[oldest].packet))
  BY <1>6 DEF Matching
<1>9. clean_queue(queue)[oldest] = FreeSlot
  BY <1>6, <1>7, <1>8 DEF remove_packet, Clear
<1> QED
  BY <1>6, <1>9 DEF IsFree, FreeSlot

\* The scan of collect_from_queue takes all packets it looks for or, if they are of
\* a message that is too long, none, provided they agree on the length.
LEMMA CollectsAllOrNone ==
    ASSUME NEW queue \in Queues, NEW node, NEW id,
           \A i, j \in Matching(queue, node, id) :
             total_size(queue[i].packet) = total_size(queue[j].packet)
    PROVE  Collected(queue, node, id) \in {{}, Matching(queue, node, id)}
<1> DEFINE matching == Matching(queue, node, id)
<1>1. \A i \in matching : total_size(queue[i].packet) \in Nat
  BY SlotFields, PacketFields DEF Matching
<1>2. CASE \E i \in matching : total_size(queue[i].packet) <= DataBufferSize
  <2>1. \A k \in matching : Fits(queue, matching, k)
    BY <1>1, <1>2 DEF Fits
  <2> QED
    BY <2>1 DEF Collected
<1>3. CASE ~ \E i \in matching : total_size(queue[i].packet) <= DataBufferSize
  <2>1. \A k \in matching : ~Fits(queue, matching, k) /\ k <= k
    BY <1>3 DEF Fits, Matching, Slot
  <2> QED
    BY <2>1 DEF Collected
<1> QED
  BY <1>2, <1>3

-----------------------------------------------------------------------------
(* collect_from_queue.                                                     *)

\* Whatever it collects, the slots are slots with a packet of that source and id.
LEMMA CollectedSlots ==
    ASSUME NEW queue \in Queues, NEW node, NEW id
    PROVE  /\ Collected(queue, node, id) \subseteq Matching(queue, node, id)
           /\ \A i \in Matching(queue, node, id) :
                /\ i \in Slot /\ ~IsFree(queue, i)
                /\ queue[i].packet \in Packet
                /\ queue[i].timestamp \in Nat
                /\ src(queue[i].packet) = node /\ packet_id(queue[i].packet) = id
BY SlotFields DEF Collected, Matching

\* The slot whose byte ends up in the buffer is one that covers the position.
LEMMA LastCovering ==
    ASSUME NEW covering \in SUBSET Slot, covering # {}
    PROVE  (CHOOSE i \in covering : \A j \in covering : j <= i) \in covering
<1>1. covering \in SUBSET Nat /\ QueueSize \in Nat /\ \A i \in covering : i <= QueueSize
  BY QueueAssumption DEF Slot
<1>2. \E i \in covering : \A j \in covering : j <= i
  BY <1>1, GreatestNat
<1> QED
  BY <1>2

\* A message that was put together is a sequence of bytes and holes, with the time
\* of one of its fragments.
LEMMA CollectType ==
    ASSUME NEW queue \in Queues, NEW node, NEW id, collects(queue, node, id)
    PROVE  LET slots == Collected(queue, node, id) IN
           /\ MergedData(queue, slots) \in Seq((Message \X Nat) \cup {Hole})
           /\ CollectedTime(queue, slots) \in Nat
<1> DEFINE slots == Collected(queue, node, id)
           totals == {total_size(queue[i].packet) : i \in slots}
           n == CollectedSize(queue, slots)
<1>1. slots # {} /\ \A i \in slots : /\ i \in Slot /\ queue[i].packet \in Packet
                                    /\ queue[i].timestamp \in Nat
  BY CollectedSlots DEF collects
<1> HIDE DEF slots
<1>2. n \in Nat
  <2>1. totals \in SUBSET Nat /\ totals # {}
    BY <1>1, PacketFields
  <2>2. \E k \in totals : \A l \in totals : k <= l
    <3> HIDE DEF totals
    <3> QED
      BY <2>1, LeastNat
  <2>3. \E k \in totals : \A i \in slots : k <= total_size(queue[i].packet)
    BY <2>2
  <2>4. n \in totals
    BY <2>3 DEF CollectedSize
  <2> QED
    BY <2>1, <2>4
<1>3. ASSUME NEW b \in 1..n
      PROVE  MergedData(queue, slots)[b] \in (Message \X Nat) \cup {Hole}
  <2> DEFINE covering == {i \in slots : b \in Bytes(queue[i].packet)}
             last == CHOOSE i \in covering : \A j \in covering : j <= i
  <2>1. MergedData(queue, slots)[b] = IF covering = {} THEN Hole
                                      ELSE <<queue[last].packet.msg, b>>
    BY DEF MergedData
  <2>2. covering # {} => last \in slots
    <3>1. covering \in SUBSET Slot
      BY <1>1
    <3> QED
      BY <3>1, LastCovering
  <2> HIDE DEF covering, last
  <2> QED
    BY <1>1, <1>2, <2>1, <2>2, PacketFields
<1>4. DOMAIN MergedData(queue, slots) = 1..n
  BY DEF MergedData
<1>5. MergedData(queue, slots) = [b \in 1..n |-> MergedData(queue, slots)[b]]
  BY DEF MergedData
<1>6. MergedData(queue, slots) \in Seq((Message \X Nat) \cup {Hole})
  <2> DEFINE B == (Message \X Nat) \cup {Hole}
             data == MergedData(queue, slots)
  <2>1. data \in [1..n -> B]
    <3> HIDE DEF n
    <3> QED
      BY <1>3, <1>5
  <2> HIDE DEF n, B, data
  <2>2. data \in Seq(B)
    BY <1>2, <2>1, SeqDef
  <2> QED
    BY <2>2 DEF B, data
<1>7. CollectedTime(queue, slots) \in Nat
  <2>1. slots \in SUBSET Nat
    BY <1>1 DEF Slot
  <2>2. \E i \in slots : \A j \in slots : i <= j
    BY <1>1, <2>1, LeastNat
  <2> QED
    BY <1>1, <2>2 DEF CollectedTime
<1> QED
  BY <1>6, <1>7 DEF slots

\* The heart of the matter.  When the slots that match hold packets of one message,
\* each at most once, counting bytes is enough: the packets found do not overlap,
\* so if their sizes add up to the size of the message, they cover it.
LEMMA CollectIntact ==
    ASSUME NEW queue \in Queues, StoredOnce(queue), NEW node, NEW id,
           NEW m \in Message,
           \A i \in Matching(queue, node, id) : queue[i].packet.msg = m,
           collects(queue, node, id)
    PROVE  LET slots == Collected(queue, node, id) IN
           /\ MergedData(queue, slots) = Payload(m)
           /\ \E i \in slots : queue[i].packet = [msg |-> m, no |-> 0]
<1> DEFINE slots == Collected(queue, node, id)
           pairs == UNION {{<<i, b>> : b \in Bytes(queue[i].packet)} : i \in slots}
           n == TotalSize[m]
           f == [x \in pairs |-> x[2]]
<1>1. /\ slots # {}
      /\ BytesFound(queue, slots) = CollectedSize(queue, slots)
      /\ \A i \in slots : /\ i \in Slot /\ ~IsFree(queue, i)
                         /\ queue[i].packet \in Packet /\ queue[i].packet.msg = m
  BY CollectedSlots DEF collects
<1> HIDE DEF slots
<1>2. n \in Nat \ {0}
  OBVIOUS
<1>3. CollectedSize(queue, slots) = n
  <2>1. \A i \in slots : total_size(queue[i].packet) = n
    BY <1>1 DEF total_size
  <2> QED
    BY <1>1, <1>2, <2>1 DEF CollectedSize
<1>4. Cardinality(pairs) = n
  BY <1>1, <1>3 DEF BytesFound
<1>5. \A i \in slots : Bytes(queue[i].packet) \subseteq 1..n
  BY <1>1, PacketFields
<1>6. \A x \in pairs : /\ x = <<x[1], x[2]>> /\ x[1] \in slots
                       /\ x[2] \in Bytes(queue[x[1]].packet)
  OBVIOUS
<1>7. f \in Injection(pairs, 1..n)
  <2>1. f \in [pairs -> 1..n]
    BY <1>5, <1>6
  <2>2. ASSUME NEW x \in pairs, NEW y \in pairs, f[x] = f[y]
        PROVE  x = y
    <3> HIDE DEF pairs
    <3>1. x[2] = y[2]
      BY <2>2
    <3>2. x[1] = y[1]
      <4>1. SUFFICES ASSUME x[1] # y[1] PROVE FALSE
        OBVIOUS
      <4>2. queue[x[1]].packet # queue[y[1]].packet
        BY <1>1, <1>6, <4>1 DEF StoredOnce
      <4> QED
        BY <1>1, <1>6, <3>1, <4>2, BytesDisjoint
    <3> QED
      BY <1>6, <3>1, <3>2
  <2> HIDE DEF f
  <2> QED
    BY <2>1, <2>2 DEF Injection, IsInjective
<1>8. f \in Surjection(pairs, 1..n)
  <2>1. IsFiniteSet(1..n) /\ Cardinality(1..n) = n
    <3>1. 1 \in Int /\ n \in Int
      BY <1>2
    <3> HIDE DEF n
    <3>2. IsFiniteSet(1..n) /\ Cardinality(1..n) = IF 1 > n THEN 0 ELSE n - 1 + 1
      BY <3>1, FS_Interval, Zenon
    <3> QED
      BY <1>2, <3>2
  <2> HIDE DEF f, pairs, n
  <2> QED
    BY <1>4, <1>7, <2>1, FS_Injection
<1>9. ASSUME NEW b \in 1..n
      PROVE  \E i \in slots : b \in Bytes(queue[i].packet)
  <2>1. PICK x \in pairs : f[x] = b
    BY <1>8 DEF Surjection
  <2> QED
    BY <1>6, <2>1
<1> HIDE DEF pairs, f
<1>10. MergedData(queue, slots) = Payload(m)
  <2>1. ASSUME NEW b \in 1..n
        PROVE  MergedData(queue, slots)[b] = <<m, b>>
    <3> DEFINE covering == {i \in slots : b \in Bytes(queue[i].packet)}
               last == CHOOSE i \in covering : \A j \in covering : j <= i
    <3>1. MergedData(queue, slots)[b] = IF covering = {} THEN Hole
                                        ELSE <<queue[last].packet.msg, b>>
      BY <1>3 DEF MergedData
    <3>2. covering # {} /\ covering \in SUBSET Slot
      BY <1>1, <1>9
    <3>3. last \in slots
      BY <3>2, LastCovering
    <3> HIDE DEF covering, last
    <3> QED
      BY <1>1, <3>1, <3>2, <3>3
  <2>2. MergedData(queue, slots) = [b \in 1..n |-> MergedData(queue, slots)[b]]
    BY <1>3 DEF MergedData
  <2> QED
    BY <2>1, <2>2 DEF Payload
<1>11. \E i \in slots : queue[i].packet = [msg |-> m, no |-> 0]
  <2>1. PICK i \in slots : 1 \in Bytes(queue[i].packet)
    BY <1>2, <1>9
  <2>2. [msg |-> m, no |-> 0] \in Packet /\ 1 \in Bytes([msg |-> m, no |-> 0])
    BY FirstPacket
  <2>3. queue[i].packet = [msg |-> m, no |-> 0]
    BY <1>1, <2>1, <2>2, BytesDisjoint
  <2> QED
    BY <2>3
<1> QED
  BY <1>10, <1>11 DEF slots

-----------------------------------------------------------------------------
(* The same with room in the queue: nothing is dropped, and a message whose *)
(* packets all are there is put together.                                   *)

HIDE PacketAssumption

\* Given a free slot, the packet is stored and no other one is lost.
LEMMA AddStores ==
    ASSUME NEW queue \in Queues, NEW p \in Packet, NEW now \in Nat \ {0},
           \E i \in Slot : IsFree(queue, i)
    PROVE  Stored(add_to_queue(queue, p, now)) = Stored(queue) \cup {p}
<1> DEFINE result == add_to_queue(queue, p, now)
           free == {i \in Slot : IsFree(queue, i)}
           first == CHOOSE i \in free : \A j \in free : i <= j
<1>1. free # {} /\ free \in SUBSET Slot
  OBVIOUS
<1>2. first \in free
  <2> HIDE DEF free
  <2> QED
    BY <1>1, FirstFree
<1>3. result = [queue EXCEPT ![first] = [packet |-> p, timestamp |-> now]]
  BY <1>1 DEF add_to_queue
<1> HIDE DEF first, result
<1>4. \A i \in Slot : result[i] = IF i = first THEN [packet |-> p, timestamp |-> now]
                                             ELSE queue[i]
  BY <1>3 DEF Queues
<1>5. /\ first \in Slot /\ IsFree(queue, first) /\ ~IsFree(result, first)
      /\ result[first].packet = p
  BY <1>2, <1>4 DEF IsFree
<1>6. \A i \in Slot : ~IsFree(queue, i) =>
        ~IsFree(result, i) /\ result[i].packet = queue[i].packet
  BY <1>4, <1>5 DEF IsFree
<1>7. Stored(queue) \cup {p} \subseteq Stored(result)
  BY <1>5, <1>6 DEF Stored
<1> QED
  BY <1>7, AddKeeps DEF result

\* What is cleared is no longer stored, everything else is.
LEMMA ClearStores ==
    ASSUME NEW queue \in Queues, NEW node, NEW id
    PROVE  Stored(Clear(queue, Matching(queue, node, id))) =
             {p \in Stored(queue) : src(p) # node \/ packet_id(p) # id}
<1> DEFINE slots == Matching(queue, node, id)
           rest == Clear(queue, slots)
<1>1. \A i \in Slot : rest[i] = IF i \in slots THEN FreeSlot ELSE queue[i]
  BY DEF Clear
<1>2. \A i \in Slot : ~IsFree(rest, i) <=> ~IsFree(queue, i) /\ i \notin slots
  BY <1>1 DEF IsFree, FreeSlot
<1>3. \A i \in Slot : ~IsFree(queue, i) =>
        (i \in slots <=> src(queue[i].packet) = node /\ packet_id(queue[i].packet) = id)
  BY DEF Matching
<1> HIDE DEF rest, slots
<1> QED
  BY <1>1, <1>2, <1>3 DEF Stored, rest, slots

\* All packets of a message that fits are copied.
LEMMA CollectsAll ==
    ASSUME NEW queue \in Queues, NEW node, NEW id, NEW m \in Message,
           TotalSize[m] <= DataBufferSize,
           \A i \in Matching(queue, node, id) : queue[i].packet.msg = m
    PROVE  /\ Collected(queue, node, id) = Matching(queue, node, id)
           /\ Matching(queue, node, id) # {} =>
                CollectedSize(queue, Collected(queue, node, id)) = TotalSize[m]
<1> DEFINE slots == Matching(queue, node, id)
<1>1. \A i \in slots : total_size(queue[i].packet) = TotalSize[m]
  BY DEF total_size
<1>2. TotalSize[m] \in Nat
  BY PacketAssumption
<1> HIDE DEF slots
<1>3. \A k \in slots : Fits(queue, slots, k)
  BY <1>1, <1>2 DEF Fits
<1>4. Collected(queue, node, id) = slots
  BY <1>3 DEF Collected, slots
<1>5. slots # {} => CollectedSize(queue, slots) = TotalSize[m]
  BY <1>1, <1>2 DEF CollectedSize
<1> QED
  BY <1>4, <1>5 DEF slots

\* They are enough, if each byte of the message is in one of them, ...
LEMMA CollectsComplete ==
    ASSUME NEW queue \in Queues, StoredOnce(queue), NEW node, NEW id, NEW m \in Message,
           TotalSize[m] <= DataBufferSize,
           \A i \in Matching(queue, node, id) : queue[i].packet.msg = m,
           \A b \in 1..TotalSize[m] :
             \E i \in Matching(queue, node, id) : b \in Bytes(queue[i].packet)
    PROVE  collects(queue, node, id)
<1> DEFINE slots == Matching(queue, node, id)
           pairs == UNION {{<<i, b>> : b \in Bytes(queue[i].packet)} : i \in slots}
           n == TotalSize[m]
           f == [x \in pairs |-> x[2]]
<1>1. n \in Nat \ {0} /\ 1 \in 1..n
  BY PacketAssumption
<1>2. slots # {}
  BY <1>1
<1>3. /\ Collected(queue, node, id) = slots
      /\ CollectedSize(queue, slots) = n
  BY <1>2, CollectsAll
<1>4. \A i \in slots : /\ i \in Slot /\ ~IsFree(queue, i)
                       /\ queue[i].packet \in Packet /\ queue[i].packet.msg = m
                       /\ Bytes(queue[i].packet) \subseteq 1..n
  BY CollectedSlots, PacketFields
<1>5. \A b \in 1..n : \E i \in slots : b \in Bytes(queue[i].packet)
  OBVIOUS
<1> HIDE DEF slots
<1>6. \A x \in pairs : /\ x = <<x[1], x[2]>> /\ x[1] \in slots
                       /\ x[2] \in Bytes(queue[x[1]].packet)
  OBVIOUS
<1>7. f \in Injection(pairs, 1..n)
  <2>1. f \in [pairs -> 1..n]
    BY <1>4, <1>6
  <2>2. ASSUME NEW x \in pairs, NEW y \in pairs, f[x] = f[y]
        PROVE  x = y
    <3> HIDE DEF pairs
    <3>1. x[2] = y[2]
      BY <2>2
    <3>2. x[1] = y[1]
      <4>1. SUFFICES ASSUME x[1] # y[1] PROVE FALSE
        OBVIOUS
      <4>2. queue[x[1]].packet # queue[y[1]].packet
        BY <1>4, <1>6, <4>1 DEF StoredOnce
      <4> QED
        BY <1>4, <1>6, <3>1, <4>2, BytesDisjoint
    <3> QED
      BY <1>6, <3>1, <3>2
  <2> HIDE DEF f
  <2> QED
    BY <2>1, <2>2 DEF Injection, IsInjective
<1>8. f \in Surjection(pairs, 1..n)
  <2>1. \A b \in 1..n : \E x \in pairs : f[x] = b
    <3> SUFFICES ASSUME NEW b \in 1..n PROVE \E x \in pairs : f[x] = b
      OBVIOUS
    <3>1. PICK i \in slots : b \in Bytes(queue[i].packet)
      BY <1>5
    <3>2. <<i, b>> \in pairs
      BY <3>1
    <3>3. f[<<i, b>>] = b
      BY <3>2
    <3> QED
      BY <3>2, <3>3
  <2>2. f \in [pairs -> 1..n]
    BY <1>7 DEF Injection
  <2> HIDE DEF f, pairs
  <2> QED
    BY <2>1, <2>2 DEF Surjection
<1>9. IsFiniteSet(1..n) /\ Cardinality(1..n) = n
  <2>1. 1 \in Int /\ n \in Int
    BY <1>1
  <2> HIDE DEF n
  <2>2. IsFiniteSet(1..n) /\ Cardinality(1..n) = IF 1 > n THEN 0 ELSE n - 1 + 1
    BY <2>1, FS_Interval, Zenon
  <2> QED
    BY <1>1, <2>2
<1>10. Cardinality(pairs) = n
  <2> HIDE DEF f, pairs, n
  <2>1. IsFiniteSet(pairs) /\ Cardinality(pairs) <= Cardinality(1..n)
    BY <1>7, <1>9, FS_Injection
  <2>2. Cardinality(1..n) <= Cardinality(pairs)
    BY <1>8, <2>1, FS_Surjection
  <2>3. Cardinality(pairs) \in Nat
    BY <2>1, FS_CardinalityType
  <2> QED
    BY <1>1, <1>9, <2>1, <2>2, <2>3
<1>11. BytesFound(queue, slots) = n
  BY <1>10 DEF BytesFound
<1> QED
  BY <1>2, <1>3, <1>11 DEF collects, slots

\* ... and not if no byte of it is.
LEMMA CollectsNothing ==
    ASSUME NEW queue \in Queues, NEW node, NEW id, NEW m \in Message,
           TotalSize[m] <= DataBufferSize,
           \A i \in Matching(queue, node, id) :
             queue[i].packet.msg = m /\ data_size(queue[i].packet) = 0
    PROVE  ~collects(queue, node, id)
<1> DEFINE slots == Matching(queue, node, id)
           pairs == UNION {{<<i, b>> : b \in Bytes(queue[i].packet)} : i \in slots}
<1>0. \A i \in slots : queue[i].packet.msg = m
  OBVIOUS
<1>1. /\ Collected(queue, node, id) = slots
      /\ slots # {} => CollectedSize(queue, slots) = TotalSize[m]
  BY <1>0, CollectsAll
<1>2. TotalSize[m] \in Nat \ {0}
  BY PacketAssumption
<1>3. \A i \in slots : Bytes(queue[i].packet) = {}
  <2> SUFFICES ASSUME NEW i \in slots PROVE Bytes(queue[i].packet) = {}
    OBVIOUS
  <2>1. offset(queue[i].packet) \in Nat
    BY CollectedSlots, PacketFields
  <2>2. data_size(queue[i].packet) = 0
    OBVIOUS
  <2> QED
    BY <2>1, <2>2 DEF Bytes
<1> HIDE DEF slots
<1>4. pairs = {}
  BY <1>3
<1>5. BytesFound(queue, slots) = 0
  BY <1>4, FS_EmptySet DEF BytesFound
<1> QED
  BY <1>1, <1>2, <1>5 DEF collects, slots
=============================================================================
