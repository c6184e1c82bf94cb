----------------------------- MODULE PollerProofs -----------------------------
(***************************************************************************)
(* Proofs about DirectoryPoller, for any files and contents: the server    *)
(* follows the directory, and has what the poller remembers as stored.     *)
(***************************************************************************)
EXTENDS DirectoryPoller, TLAPS

\* What was read is not older than what the server has, and what is to be sent is
\* all that differs from what was stored last.
Ordered ==
    /\ \A f \in File : server[f] <= version[f]
    /\ \A f \in keys(current_data) :
         server[f] <= current_data[f] /\ current_data[f] <= version[f]

Compared ==
    pc = "store" =>
      data_to_send = changed(current_data, last_data) \cup added(current_data, last_data)

IInv == TypeOK /\ Ordered /\ Compared /\ RememberedIsStored

USE DEF Dictionary

\* What stays out of data_to_send is gone, or as it was when it was stored last.
LEMMA NotSent ==
    ASSUME TypeOK, Compared, pc = "store", NEW f \in File \ data_to_send
    PROVE  current_data[f] = 0 \/ SameText(f, last_data[f], current_data[f])
  BY DEF TypeOK, Compared, changed, added, intersect, keys, SameText

\* At first nothing was read and nothing stored.
LEMMA InitIInv == ASSUME Init PROVE IInv
  BY DEF Init, IInv, TypeOK, Ordered, Compared, RememberedIsStored, NoData, keys,
         changed, added, intersect

\* The server gets what was read of each file that is sent.
LEMMA ReceivedOrdered ==
    ASSUME TypeOK, Ordered
    PROVE  /\ Received \in Dictionary
           /\ \A f \in File : server[f] <= Received[f] /\ Received[f] <= version[f]
           /\ \A f \in keys(current_data) : Received[f] <= current_data[f]
  <1>1. \A f \in data_to_send : f \in keys(current_data) /\ f \in File
    BY DEF TypeOK, keys
  <1>2. Received \in Dictionary
    BY DEF TypeOK, Received
  <1>3. ASSUME NEW f \in File
        PROVE  server[f] <= Received[f] /\ Received[f] <= version[f]
    BY <1>1 DEF TypeOK, Ordered, Received
  <1>4. ASSUME NEW f \in keys(current_data)
        PROVE  Received[f] <= current_data[f]
    BY <1>1 DEF TypeOK, Ordered, Received, keys
  <1>5. QED
    BY <1>2, <1>3, <1>4

\* The server follows the directory, with every step of the poller.
LEMMA StoredIInv == ASSUME IInv, Stored PROVE IInv'
  <1> USE DEF IInv
  <1>1. TypeOK'
    BY ReceivedOrdered DEF TypeOK, directory, Stored, Remembered, keys
  <1>2. Ordered'
    BY ReceivedOrdered DEF TypeOK, Ordered, directory, Stored, keys
  <1>3. Compared'
    BY DEF Compared, Stored
  <1>4. ASSUME NEW f \in File \ (missed' \cup doubtful'), last_data'[f] # 0
        PROVE  SameText(f, last_data'[f], server'[f])
    <2>1. last_data' = current_data /\ server' = Received
      BY DEF Stored, Remembered
    <2>2. CASE f \in data_to_send
      BY <1>4, <2>1, <2>2 DEF Received, SameText
    <2>3. CASE f \notin data_to_send
      <3>1. SameText(f, last_data[f], current_data[f])
        BY <1>4, <2>1, <2>3, NotSent DEF Stored
      <3>2. SameText(f, last_data[f], server[f])
        BY <1>4, <2>3, <3>1 DEF Stored, RememberedIsStored, keys, SameText
      <3>3. server'[f] = server[f]
        BY <2>1, <2>3 DEF Received
      <3>4. QED
        BY <2>1, <3>1, <3>2, <3>3 DEF SameText
    <2>4. QED
      BY <2>2, <2>3
  <1>5. QED
    BY <1>1, <1>2, <1>3, <1>4 DEF RememberedIsStored, keys

\* A store that fails leaves last_data as it is, and what the server may have got
\* in it is what RememberedIsStored excepts.
LEMMA StoreFailsIInv == ASSUME IInv, StoreFails PROVE IInv'
  <1> USE DEF IInv
  <1>1. server' = server \/ server' = Received
    BY DEF StoreFails
  <1>2. TypeOK'
    BY <1>1, ReceivedOrdered DEF TypeOK, directory, StoreFails, Remembered, keys
  <1>3. Ordered'
    BY <1>1, ReceivedOrdered DEF TypeOK, Ordered, directory, StoreFails, keys
  <1>4. Compared'
    BY DEF Compared, StoreFails
  <1>5. ASSUME NEW f \in File \ (missed' \cup doubtful'), last_data'[f] # 0
        PROVE  SameText(f, last_data'[f], server'[f])
    <2>1. last_data' = last_data /\ f \notin missed /\ f \notin doubtful
      BY <1>5 DEF StoreFails, Remembered
    <2>2. server'[f] = server[f]
      BY <1>5 DEF StoreFails, Received
    <2>3. QED
      BY <1>5, <2>1, <2>2 DEF RememberedIsStored, keys
  <1>6. QED
    BY <1>2, <1>3, <1>4, <1>5 DEF RememberedIsStored, keys

\* An error that goes unnoticed is the one RememberedIsStored excepts.
LEMMA StoreIgnoredIInv == ASSUME IInv, StoreIgnored PROVE IInv'
  <1> USE DEF IInv
  <1>1. TypeOK'
    BY DEF TypeOK, directory, StoreIgnored, Remembered, keys
  <1>2. Ordered'
    BY DEF Ordered, directory, StoreIgnored, keys
  <1>3. Compared'
    BY DEF Compared, StoreIgnored
  <1>4. ASSUME NEW f \in File \ (missed' \cup doubtful'), last_data'[f] # 0
        PROVE  SameText(f, last_data'[f], server'[f])
    <2>1. /\ f \notin data_to_send /\ f \notin missed /\ f \notin doubtful
          /\ last_data' = current_data /\ server' = server
      BY <1>4 DEF StoreIgnored, Remembered
    <2>2. SameText(f, last_data[f], current_data[f])
      BY <1>4, <2>1, NotSent DEF StoreIgnored
    <2>3. SameText(f, last_data[f], server[f])
      BY <1>4, <2>1, <2>2 DEF RememberedIsStored, keys, SameText
    <2>4. QED
      BY <2>1, <2>2, <2>3 DEF SameText
  <1>5. QED
    BY <1>1, <1>2, <1>3, <1>4 DEF RememberedIsStored, keys

\* A file that is read has its last content; the server has no newer one.
LEMMA ReadIInv == ASSUME IInv, NEW f \in File, Read(f) PROVE IInv'
  <1> USE DEF IInv
  <1>1. TypeOK'
    BY DEF TypeOK, directory, outside, Read, keys
  <1>2. Ordered'
    BY DEF TypeOK, Ordered, directory, outside, Read, keys
  <1>3. Compared'
    BY DEF Compared, Read
  <1>4. RememberedIsStored'
    BY DEF RememberedIsStored, Read, outside
  <1>5. QED
    BY <1>1, <1>2, <1>3, <1>4

\* A file that is written is newer than all that was read of it.
LEMMA WriteIInv == ASSUME IInv, NEW f \in File, Write(f) PROVE IInv'
  <1> USE DEF IInv
  <1>1. TypeOK'
    BY DEF TypeOK, Write, poller, outside, keys
  <1>2. Ordered'
    BY DEF TypeOK, Ordered, Write, poller, outside, keys
  <1>3. Compared' /\ RememberedIsStored'
    BY DEF Compared, RememberedIsStored, Write, poller, outside, changed, added,
           intersect, keys
  <1>4. QED
    BY <1>1, <1>2, <1>3

\* The steps that neither read, nor store, nor write.
Other ==
    \/ List \/ Sorted \/ Compare \/ Sleep
    \/ \E f \in File : Stat(f) \/ Remove(f)

\* The steps that neither read nor store keep what was compared.
LEMMA OtherIInv == ASSUME IInv, Other PROVE IInv'
  <1> USE DEF IInv
  <1>1. CASE List
    BY <1>1 DEF List, directory, outside, TypeOK, Ordered, Compared, RememberedIsStored,
                NoData, keys
  <1>2. CASE Sorted
    BY <1>2 DEF Sorted, directory, outside, TypeOK, Ordered, Compared,
                RememberedIsStored, keys
  <1>3. CASE Compare
    <2>1. TypeOK'
      BY <1>3 DEF Compare, directory, outside, TypeOK, changed, added, intersect, keys
    <2>2. QED
      BY <1>3, <2>1 DEF Compare, directory, outside, Ordered, Compared,
                        RememberedIsStored, changed, added, intersect, keys
  <1>4. CASE Sleep
    BY <1>4 DEF Sleep, directory, outside, TypeOK, Ordered, Compared,
                RememberedIsStored, keys
  <1>5. ASSUME NEW f \in File, Stat(f) PROVE IInv'
    BY <1>5 DEF Stat, directory, outside, TypeOK, Ordered, Compared,
                RememberedIsStored, keys
  <1>6. ASSUME NEW f \in File, Remove(f) PROVE IInv'
    BY <1>6 DEF Remove, poller, outside, TypeOK, Ordered, Compared,
                RememberedIsStored, changed, added, intersect, keys
  <1>7. QED
    BY <1>1, <1>2, <1>3, <1>4, <1>5, <1>6 DEF Other

\* So no step breaks the invariant.
LEMMA NextIInv == ASSUME IInv, [Next]_vars PROVE IInv'
  <1>1. CASE UNCHANGED vars
    BY <1>1 DEF vars, poller, directory, outside, IInv, TypeOK, Ordered, Compared,
                RememberedIsStored, changed, added, intersect, keys
  <1>2. CASE Next
    BY <1>2, StoredIInv, StoreFailsIInv, StoreIgnoredIInv, ReadIInv, WriteIInv,
       OtherIInv DEF Next, Poll, Other
  <1>3. QED
    BY <1>1, <1>2

\* What the poller read, compared and remembers is never ahead of the directory.
THEOREM Invariance == Spec => []IInv
  <1>1. Init => IInv
    BY InitIInv
  <1>2. IInv /\ [Next]_vars => IInv'
    BY NextIInv
  <1>3. QED
    BY <1>1, <1>2, PTL DEF Spec

\* Every variable of the poller keeps its type.
THEOREM PollerTypeCorrect == Spec => []TypeOK
  BY Invariance, PTL DEF IInv

\* What the poller has in last_data is what is stored, unless an error went
\* unnoticed or the last store of the file was one that is not known to have worked.
THEOREM PollerRemembers == Spec => []RememberedIsStored
  BY Invariance, PTL DEF IInv

-----------------------------------------------------------------------------
(* The poller and the server together implement the mirror.                *)

\* Storing and writing are steps of the mirror, the others none.
LEMMA MirrorStep ==
    ASSUME IInv, IInv', [Next]_vars
    PROVE  [Mirror!Next]_(Mirror!vars)
  <1> USE DEF IInv
  <1>1. ASSUME Stored \/ StoreFails PROVE Mirror!Store \/ UNCHANGED Mirror!vars
    <2>1. UNCHANGED version /\ (server' = server \/ server' = Received)
      BY <1>1 DEF Stored, StoreFails, directory
    <2>2. QED
      BY <2>1, ReceivedOrdered DEF Mirror!Store, Mirror!vars
  <1>2. ASSUME NEW f \in File, Write(f) PROVE Mirror!Write(f)
    BY <1>2 DEF Write, outside, Mirror!Write
  <1>3. ASSUME Other \/ StoreIgnored \/ UNCHANGED vars \/ \E f \in File : Read(f)
        PROVE  UNCHANGED Mirror!vars
    BY <1>3 DEF Other, List, Stat, Sorted, Read, Compare, StoreIgnored, Sleep, Remove,
                vars, directory, outside, Mirror!vars
  <1>4. QED
    BY <1>1, <1>2, <1>3 DEF Next, Poll, Other, Mirror!Next

\* The server follows the directory, and no field of it ever goes back.
THEOREM PollerMirrors == Spec => MirrorsDirectory
  <1>1. Init => Mirror!Init
    BY DEF Init, NoData, Mirror!Init
  <1>2. IInv /\ IInv' /\ [Next]_vars => [Mirror!Next]_(Mirror!vars)
    BY MirrorStep
  <1>3. QED
    BY <1>1, <1>2, Invariance, PTL DEF Spec, MirrorsDirectory, Mirror!Spec
=============================================================================
