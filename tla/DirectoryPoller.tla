--------------------------- MODULE DirectoryPoller ---------------------------
(***************************************************************************)
(* poll_directory_and_store_upon_content_change of the Python HTTP client: *)
(* it lists a directory, reads the files one after the other, and stores   *)
(* those that differ from what it stored last, again and again, while      *)
(* other programs write and remove them.                                   *)
(*                                                                         *)
(* The contents of a file are numbered in the order in which it gets them, *)
(* and Text says what they are: a file may get an old text again.  A       *)
(* dictionary maps every file to the number of a content, or to 0 if it    *)
(* has no such key.                                                        *)
(***************************************************************************)
EXTENDS Naturals, FiniteSets

CONSTANTS
    File,
    Text,             \* Text[f][v]: content v of f
    Unencodable,      \* the texts that have a byte that is not ASCII
    MaxVersion,       \* bound: contents of a file
    MaxRemovals       \* bound: how often files are removed

ASSUME PollerAssumption ==
    /\ MaxVersion \in Nat
    /\ \A f \in File : DOMAIN Text[f] = 1..MaxVersion
    /\ MaxRemovals \in Nat

VARIABLES
    \* the poller
    pc,
    listed,         \* what listdir returned
    visited,        \* those of them that the loop over them has come to
    current_data,
    last_data,
    data_to_send,   \* the keys; the values are those of current_data
    \* the directory
    version,        \* number of the last content of each file
    present,        \* the files that are there
    removals,
    \* the server
    server,         \* the content of each field, 0 if it was never stored
    missed,         \* history: what was not stored the last time, unnoticed
    doubtful        \* history: what it got last in a store of which that was not known

poller == <<pc, listed, visited, current_data, last_data, data_to_send>>
directory == <<version, present, removals>>
outside == <<server, missed, doubtful>>
vars == <<poller, directory, outside>>

NoData == [f \in File |-> 0]

Init ==
    /\ pc = "list"
    /\ listed = {}
    /\ visited = {}
    /\ current_data = NoData
    /\ last_data = NoData
    /\ data_to_send = {}
    /\ version = NoData
    /\ present = {}
    /\ removals = 0
    /\ server = NoData
    /\ missed = {}
    /\ doubtful = {}

-----------------------------------------------------------------------------
(* DictDiffer.                                                             *)

keys(dict) == {f \in File : dict[f] # 0}
intersect(current, past) == keys(current) \cap keys(past)

\* Variant for model checking: the keys of either are taken.
added_either(current, past) ==
    (keys(current) \cup keys(past)) \ intersect(current, past)

added(current, past) == keys(current) \ intersect(current, past)

\* Variant for model checking: values are not compared.
changed_none(current, past) == {f \in intersect(current, past) : FALSE}

\* The texts are compared.
changed(current, past) ==
    {f \in intersect(current, past) : Text[f][past[f]] # Text[f][current[f]]}

-----------------------------------------------------------------------------
(* The poller.                                                             *)

List ==
    /\ pc = "list"
    /\ listed' = present
    /\ visited' = {}
    /\ current_data' = NoData
    /\ data_to_send' = {}
    /\ pc' = "stat"
    /\ UNCHANGED <<last_data, directory, outside>>

\* sorted calls stat for every file.  Nothing catches what it raises when one has
\* been removed since it was listed, and the thread ends.
Stat(f) ==
    /\ pc = "stat"
    /\ f \in listed \ visited
    /\ IF f \in present THEN visited' = visited \cup {f} /\ UNCHANGED pc
                        ELSE pc' = "dead" /\ UNCHANGED visited
    /\ UNCHANGED <<listed, current_data, last_data, data_to_send, directory, outside>>

Sorted ==
    /\ pc = "stat"
    /\ visited = listed
    /\ visited' = {}
    /\ pc' = "read"
    /\ UNCHANGED <<listed, current_data, last_data, data_to_send, directory, outside>>

\* The files are read in the order of the times of their last change, which may be
\* any.  Again nothing catches what open raises.
Read(f) ==
    /\ pc = "read"
    /\ f \in listed \ visited
    /\ IF f \in present
       THEN /\ current_data' = [current_data EXCEPT ![f] = version[f]]
            /\ visited' = visited \cup {f}
            /\ UNCHANGED pc
       ELSE /\ pc' = "dead"
            /\ UNCHANGED <<visited, current_data>>
    /\ UNCHANGED <<listed, last_data, data_to_send, directory, outside>>

Compare ==
    /\ pc = "read"
    /\ visited = listed
    /\ data_to_send' = changed(current_data, last_data) \cup added(current_data, last_data)
    /\ pc' = IF data_to_send' # {} THEN "store" ELSE "sleep"
    /\ UNCHANGED <<listed, visited, current_data, last_data, directory, outside>>

\* u'%s' % value decodes the bytes as ASCII, before there is a request.
CanEncode == \A f \in data_to_send : Text[f][current_data[f]] \notin Unencodable

\* Variant for model checking: the values are those of last_data.
Received_past == [f \in File |-> IF f \in data_to_send THEN last_data[f] ELSE server[f]]

Received == [f \in File |-> IF f \in data_to_send THEN current_data[f] ELSE server[f]]

\* Variant for model checking: the assignment comes in front of the store.
Remembered_always(stored) == current_data

\* last_data, after a store that returned, or raised an exception.
Remembered(stored) == IF stored THEN current_data ELSE last_data

\* The server has it, and the answer says so.
Stored ==
    /\ pc = "store"
    /\ CanEncode
    /\ server' = Received
    /\ missed' = missed \ data_to_send
    /\ doubtful' = doubtful \ data_to_send
    /\ last_data' = Remembered(TRUE)
    /\ pc' = "sleep"
    /\ UNCHANGED <<listed, visited, current_data, data_to_send, directory>>

\* The data is not sent, or there is no connection, or an error for which
\* make_request raises an exception; the server may have had the data even so.
StoreFails ==
    /\ pc = "store"
    /\ \/ UNCHANGED <<server, doubtful>>
       \/ CanEncode /\ server' = Received /\ doubtful' = doubtful \cup data_to_send
    /\ last_data' = Remembered(FALSE)
    /\ pc' = "sleep"
    /\ UNCHANGED <<listed, visited, current_data, data_to_send, directory, missed>>

\* An error that make_request does not list, such as 502: it returns None, at which
\* store does not look.  A server behind the proxy that answers with it may have had
\* the data, and then all is as after an answer; here it has not.
StoreIgnored ==
    /\ pc = "store"
    /\ CanEncode
    /\ missed' = missed \cup data_to_send
    /\ last_data' = Remembered(TRUE)
    /\ pc' = "sleep"
    /\ UNCHANGED <<listed, visited, current_data, data_to_send, directory, server,
                   doubtful>>

Sleep ==
    /\ pc = "sleep"
    /\ pc' = "list"
    /\ UNCHANGED <<listed, visited, current_data, last_data, data_to_send, directory,
                   outside>>

Poll ==
    \/ List \/ Sorted \/ Compare \/ Sleep
    \/ \E f \in File : Stat(f) \/ Read(f)
    \/ Stored \/ StoreFails \/ StoreIgnored

-----------------------------------------------------------------------------
(* The other programs.                                                     *)

\* A file is created, or gets another content.
Write(f) ==
    /\ version[f] < MaxVersion
    /\ version' = [version EXCEPT ![f] = @ + 1]
    /\ present' = present \cup {f}
    /\ UNCHANGED <<poller, removals, outside>>

Remove(f) ==
    /\ removals < MaxRemovals
    /\ f \in present
    /\ removals' = removals + 1
    /\ present' = present \ {f}
    /\ UNCHANGED <<poller, version, outside>>

Next == Poll \/ \E f \in File : Write(f) \/ Remove(f)

Spec == Init /\ [][Next]_vars

\* The thread is scheduled, and a store that is tried again and again works.
FairSpec == Spec /\ WF_vars(Poll) /\ SF_vars(Stored)

-----------------------------------------------------------------------------
(* Properties.                                                             *)

Dictionary == [File -> Nat]

\* Every variable keeps its type.
TypeOK ==
    /\ pc \in {"list", "stat", "read", "store", "sleep", "dead"}
    /\ listed \subseteq File
    /\ visited \subseteq listed
    /\ current_data \in Dictionary
    /\ last_data \in Dictionary
    /\ data_to_send \subseteq keys(current_data)
    /\ version \in Dictionary
    /\ present \subseteq keys(version)
    /\ removals \in Nat
    /\ server \in Dictionary
    /\ missed \subseteq File
    /\ doubtful \subseteq File

\* The server follows the directory: whatever is lost, repeated or written while
\* the files are read, no field goes back to an earlier content of its file.  (A store
\* that fails reaches the server before the next one, or not at all.)
Mirror == INSTANCE DirectoryMirror
MirrorsDirectory == Mirror!Spec

SameText(f, v, w) == v # 0 /\ w # 0 /\ Text[f][v] = Text[f][w]

\* What the poller takes for stored is on the server, unless an error went unnoticed,
\* or the server had something else in a store whose answer did not come: what the
\* poller takes for stored it never sends.
RememberedIsStored ==
    \A f \in keys(last_data) \ (missed \cup doubtful) : SameText(f, last_data[f], server[f])

\* When the files stay as they are, the server has the texts of all in the end, but for
\* those of an error that went unnoticed, and for a file that has got back what
\* the poller takes for stored after the server had something newer, in a store whose
\* answer did not come.  A file that cannot be encoded keeps all others from being
\* stored, and one that is removed before it is read may have ended the poller.
CatchesUp ==
    <>[](\/ \A f \in present \ missed :
              \/ SameText(f, server[f], version[f])
              \/ f \in doubtful /\ SameText(f, last_data[f], version[f])
         \/ pc = "dead"
         \/ \E f \in present : Text[f][version[f]] \in Unencodable)
=============================================================================
