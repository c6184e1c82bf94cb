----------------------------- MODULE PacketQueue -----------------------------
(***************************************************************************)
(* The packet_queue of i8-transceiver.c and the four functions that work   *)
(* on it.  They are pure functions of the queue, the arguments and the     *)
(* time of day, and are modelled as operators.                             *)
(*                                                                         *)
(* A slot of the queue is free when its timestamp is 0.  A cleared slot    *)
(* also has source 0 and packet_id 0, which no node uses, so the functions *)
(* that look for a source find no free slot.                               *)
(***************************************************************************)
EXTENDS Packets

CONSTANTS
    QueueSize,        \* number of slots
    DataBufferSize,   \* DATA_BUFFER_SIZE, the longest message put together
    EndOfTime         \* 2147483647, where clean_queue starts its search

ASSUME QueueAssumption ==
    /\ QueueSize \in Nat \ {0}
    /\ DataBufferSize \in Nat
    /\ PayloadSize <= DataBufferSize
    /\ EndOfTime \in Nat

Slot == 1..QueueSize
FreeSlot == [timestamp |-> 0]
Queued == [packet : Packet, timestamp : Nat \ {0}]
EmptyQueue == [i \in Slot |-> FreeSlot]

IsFree(queue, i) == queue[i].timestamp = 0

Queues == [Slot -> Queued \cup {FreeSlot}]

\* The packets a queue holds, and that it holds each of them in one slot.
Stored(queue) == {queue[i].packet : i \in {j \in Slot : ~IsFree(queue, j)}}
StoredOnce(queue) ==
    \A i, j \in Slot :
      /\ ~IsFree(queue, i) /\ ~IsFree(queue, j)
      /\ queue[i].packet = queue[j].packet
      => i = j

\* Variant for model checking: the source of a fragment is not compared.
Matching_any_source(queue, node, id) ==
    {i \in Slot : ~IsFree(queue, i) /\ packet_id(queue[i].packet) = id}

\* The slots that hold packets of one source with one packet_id.
Matching(queue, node, id) ==
    {i \in Slot : /\ ~IsFree(queue, i)
                  /\ src(queue[i].packet) = node
                  /\ packet_id(queue[i].packet) = id}

\* Variant for model checking: only the timestamp of a slot is reset.
Clear_timestamp_only(queue, slots) ==
    [i \in Slot |-> IF i \in slots THEN [queue[i] EXCEPT !.timestamp = 0] ELSE queue[i]]

Clear(queue, slots) == [i \in Slot |-> IF i \in slots THEN FreeSlot ELSE queue[i]]

remove_packet(queue, node, id) == Clear(queue, Matching(queue, node, id))

\* Variant for model checking: only the slot of the oldest fragment is cleared.
clean_queue_one_fragment(queue) ==
    LET candidates == {i \in Slot : /\ ~IsFree(queue, i)
                                    /\ queue[i].timestamp < EndOfTime}
        oldest == CHOOSE i \in candidates :
                    \A j \in candidates : queue[i].timestamp <= queue[j].timestamp
    IN  Clear(queue, {oldest})

\* Variant for model checking: the search starts from a timestamp of 0, so that
\* no fragment is ever older.
clean_queue_finds_nothing(queue) == queue

\* The oldest fragment (in the lowest slot, when several are as old) decides
\* which message loses all its fragments.  Timestamps are below EndOfTime.
clean_queue(queue) ==
    LET candidates == {i \in Slot : /\ ~IsFree(queue, i)
                                    /\ queue[i].timestamp < EndOfTime}
        oldest == CHOOSE i \in candidates :
                    \A j \in candidates :
                      \/ queue[i].timestamp < queue[j].timestamp
                      \/ queue[i].timestamp = queue[j].timestamp /\ i <= j
        victim == queue[oldest].packet
    IN  remove_packet(queue, src(victim), packet_id(victim))

\* Variant for model checking: the search for a free slot ends one slot early.
add_to_queue_spares_last(queue, p, now) ==
    LET free == {i \in Slot : i < QueueSize /\ IsFree(queue, i)}
        first == CHOOSE i \in free : \A j \in free : i <= j
    IN  IF free # {}
        THEN [queue EXCEPT ![first] = [packet |-> p, timestamp |-> now]]
        ELSE clean_queue(queue)

\* The packet goes to the first free slot.  Without one the oldest message is
\* removed, and the packet is dropped all the same.
add_to_queue(queue, p, now) ==
    LET free == {i \in Slot : IsFree(queue, i)}
        first == CHOOSE i \in free : \A j \in free : i <= j
    IN  IF free # {}
        THEN [queue EXCEPT ![first] = [packet |-> p, timestamp |-> now]]
        ELSE clean_queue(queue)

-----------------------------------------------------------------------------
(* collect_from_queue: one scan over the slots in order.                   *)

\* data_buffer_size shrinks to the total_size of each fragment copied; the scan
\* returns at the first fragment whose total_size is larger than it is by then.
Fits(queue, matching, k) ==
    /\ total_size(queue[k].packet) <= DataBufferSize
    /\ \A j \in matching :
         j < k => total_size(queue[k].packet) <= total_size(queue[j].packet)

\* The slots the scan copies and clears.
Collected(queue, node, id) ==
    LET matching == Matching(queue, node, id)
    IN  {i \in matching : \A k \in matching : k <= i => Fits(queue, matching, k)}

\* The sum of data_size over the slots, as the number of (slot, byte) pairs.
BytesFound(queue, slots) ==
    Cardinality(UNION {{<<i, b>> : b \in Bytes(queue[i].packet)} : i \in slots})

\* data_buffer_size after the scan: the total_size copied last, the smallest.
CollectedSize(queue, slots) ==
    CHOOSE n \in {total_size(queue[i].packet) : i \in slots} :
      \A i \in slots : n <= total_size(queue[i].packet)

\* Variant for model checking: the sanity check on the number of bytes is gone.
collects_unchecked(queue, node, id) ==
    LET slots == Collected(queue, node, id)
    IN  slots # {} /\ slots = Matching(queue, node, id)

\* Whether collect_from_queue returns 0.
collects(queue, node, id) ==
    LET slots == Collected(queue, node, id)
    IN  /\ slots # {}
        /\ slots = Matching(queue, node, id)
        /\ BytesFound(queue, slots) = CollectedSize(queue, slots)

Hole == <<>>   \* a byte of data_buffer that no fragment was copied to

\* data_buffer: a position that several fragments cover has the last one's byte.
MergedData(queue, slots) ==
    [b \in 1..CollectedSize(queue, slots) |->
        LET covering == {i \in slots : b \in Bytes(queue[i].packet)}
            last == CHOOSE i \in covering : \A j \in covering : j <= i
        IN  IF covering = {} THEN Hole ELSE <<queue[last].packet.msg, b>>]

\* The timestamp of the first slot the scan met.
CollectedTime(queue, slots) ==
    LET first == CHOOSE i \in slots : \A j \in slots : i <= j
    IN  queue[first].timestamp

\* Variant for model checking: the collected fragments stay in the queue.
after_collect_keeps(queue, node, id) == queue

\* The queue after collect_from_queue, whether it succeeds or not.
after_collect(queue, node, id) == Clear(queue, Collected(queue, node, id))
=============================================================================
