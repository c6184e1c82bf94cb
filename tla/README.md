# Verification of the Byteport gateway

TLA+ models of the programs in this repository, the runs that check them with
TLC, and theorems about them that TLAPS checks.  The repository holds client
programs and libraries for the Byteport service; the part with state,
concurrency and failure handling of its own is the C gateway in `src/c`, and
that is where the models begin; the STOMP library below it and the directory
poller of the Python client, which runs beside programs it knows nothing of, come
next.

## The system

```
 nodes --radio (or UDP)--> i8-transceiver --/tmp/bpm-ipc--> byteport-stomp-client -d --STOMP--> broker
                                 ^------- node lists, messages -------'     ^------ commands ------'
```

| component | state | operations | what makes it correct |
|---|---|---|---|
| nodes (`test_mode.c`, `packets.h`) | packet_id counter | cut a message into fragments, send them | the fragments cover the message exactly |
| `i8-transceiver.c` | packet queue, whitelist, comlist, counters, receive buffer, `running` | main loop around `select`: IPC packet, radio packet, status report; SIGINT | messages are passed on whole, unchanged, at most once, in order when the radio keeps order; lists are sound; reports account for every packet; it stops when told |
| IPC format (`libipc.h`) | none | header, node list, message | lengths are honoured |
| `byteport-stomp-client.c` | `gs_die`, handler, one transceiver connection, two broker connections, static buffers | accept, connect with retry, subscribe, forward both ways, tear down | forwards in order, survives the loss of either side, stops when told |
| libstomp (`stomp.c`) | socket | write and read frames | a frame that was written is the frame that is read |
| Python HTTP client | session, last directory contents | login, store, poll a directory | what changes is stored, once |
| Python STOMP and MQTT clients | connection, subscription | connect, consume, publish | messages are acknowledged after they are handled |
| Android location trackers | two providers, last location | start, stop, update | the better provider wins, no update after stop |
| Android device id | id, preferences | create or read the id | one id per installation |
| JavaScript, bash, Android HTTP | none to speak of | build one request | |

Components talk through a radio that loses, duplicates and reorders packets, a
Unix stream socket that keeps order, and two STOMP connections.  Signals
interleave with everything.

## Modules

| module | extends | models |
|---|---|---|
| `Packets` | | a message, its fragments and their header fields (`send_message`, `packet_t`) |
| `PacketQueue` | `Packets` | the fragment queue: `add_to_queue`, `clean_queue`, `remove_packet`, `collect_from_queue` |
| `NodeList` | | `nodelist_find`, `_count`, `_add`, `_append` |
| `Transceiver` | `PacketQueue`, `NodeList` | the process: set-up, the main loop, its environment; the properties |
| `LossyRelay` | | abstract: each offered message is relayed whole, at most once, or lost |
| `MCTransceiver` | `Transceiver` | instances for TLC |
| `Messenger` | | the daemon: `start_server` and what it calls, its signals, the broker and the transceivers around it; the properties |
| `OrderedRelay` | | abstract: items are delivered in the order in which they were offered, none twice |
| `MCMessenger` | `Messenger` | instances for TLC |
| `StompFrame` | | what `stomp_write` puts into a socket for a frame, `stomp_read` as a machine over bytes |
| `StompSession` | `StompFrame` | `send_message`, `start_bombing`, `bm_connect` and the daemon's subscription at one end of a STOMP connection, the broker at the other; the properties |
| `FrameChannel` | | abstract: the frames read are the frames written, whole and in order |
| `MCStompSession` | `StompSession` | an instance for TLC |
| `Gateway` | | composes `Transceiver` and `Messenger` (by INSTANCE) at the two ends of their socket; properties of both together |
| `MCGateway` | `Gateway` | an instance for TLC |
| `DirectoryPoller` | | `poll_directory_and_store_upon_content_change`, `DictDiffer`, `store`, the errors of `make_request`; the properties |
| `DirectoryMirror` | | abstract: the server follows the directory and never goes back |
| `MCDirectoryPoller` | `DirectoryPoller` | an instance for TLC |
| `NatLemmas` | | least and greatest elements, division, multiples, induction over a finite set |
| `PacketQueueProofs` | `PacketQueue`, `NatLemmas` | lemmas about the queue operators |
| `TransceiverProofs` | `Transceiver` and the lemmas | lemmas about the node-list operators; types, node lists, room in the queue, what leaves it, the counters of the status reports |
| `RelayProofs` | `TransceiverProofs` | the transceiver implements `LossyRelay`; the order of its messages |
| `MessengerProofs` | `Messenger`, `NatLemmas` | types, teardown, the daemon implements `OrderedRelay` in both directions, what it keeps and what text it publishes |
| `GatewayProofs` | `Gateway` | what is proved of each program holds in the gateway; node lists and messages across both |
| `StompProofs` | `StompSession`, `NatLemmas` | types; a frame is read as it was meant; both directions implement `FrameChannel`; only a break of the connection fails a session |
| `PollerProofs` | `DirectoryPoller` | types, what is remembered is stored, the poller implements `DirectoryMirror` |

`Messenger` instantiates `OrderedRelay` twice (`Up`, `Down`), `Transceiver`
instantiates `LossyRelay` (`Lossy`).  In these two modules each process has the
other in its environment, as free as the socket between them allows; `Gateway` puts
them together, and instantiates `LossyRelay` from the nodes to the broker
(`EndToEnd`).  `StompSession` instantiates `FrameChannel` for both directions of a
connection, `DirectoryPoller` instantiates `DirectoryMirror`.

### How state and actions correspond to the code

`pc` says which part of the turn of the main loop is next: `setup` (lines
262-343), `loop` (the test of `running`), `select`, `ipc` (371-451), `ieee`
(454-626), `status` (629-656), `exit`.  One action is one such part, with every
call in it: `ReceiveFragment`, for instance, counts the packet, looks it up in
the whitelist, queues it, cleans a full queue, collects a message and sends it.
Nothing else in the process runs between two of these parts, except the signal
handler, so `Interrupt` may come anywhere.

A packet is the pair of its message and the number of the fragment; the header
fields are functions of it, as `send_message` computes them.  A byte of a
message is the pair of the message and the position, so bytes of different
messages can be told apart and a message that is put together wrongly shows.
The queue and the lists are functions from slots to entries: which slot an entry
is in matters in the code (the first free slot, the first free entry, the lowest
slot of a message), so it is kept.

`ipc_out` is everything that was sent to the daemon, and of it `ipc_read` what the
daemon has read, where it may be slow (`"slow_peer"`): a socket that holds
`OutCapacity` more is full, and the action that sends (`SendToMessenger`) must wait,
also after a SIGINT, since `signal` lets system calls go on.  `requested` and
`interrupted` are history variables that properties refer to and no action
reads.

`ipc_rx_buf` is the list area of the static buffer that both kinds of packets are
received in.  A forwarded message writes the second half of its `source` into the
first entry, zeros into entries 2 to 8 (`MessageFields`: the rest of `source`, and
`time`), and `data_len` and `data` behind them, so `ReceiveForwarded` leaves these and the
first entry open.

Abstracted: the text of a status report (a record of its numbers), the version
and acknowledgement bits of a packet (never set by the code here; an
acknowledgement would only be logged), logging, and `recv` returning part of a
package.  The test of `running` and the start of `select` are one after the
other, so a SIGINT between them only delays the end by one time-out of `select`.

#### The daemon

`pc` is the place in `start_server` (`byteport-stomp-client.c:526`) or in what it
calls: `head` (the outer loop looks at `gs_die`), `uninstall` (the handler is
removed before `accept`), `accept` (and the handler installed again),
`connect`/`login write` and `... subscribe` (`bm_connect`, 116-164), `subscribe`,
`check` (the inner loop looks at `gs_die`), `select`, `server` and `forward`
(`receive_from_server`, `send_whitelist`), `i8` and `publish`
(`receive_from_i8`), `disconnect`, `exit`.  The places around `gs_die` are apart
because SIGINT can come between the look and the wait; `forward` and `publish`
take one packet or frame at a time, since a connection can break, or the
transceiver end, after each.

The packets of the transceivers and the frames of the subscribed queue are
constants, numbered in the order in which they are sent, so an item is named by
its number and the number of the part made of it.  `sent` and `pushed` say in
which session each was sent; `published` and `forwarded` are what came out on a
connection that was open.  Status reports come in any number, as packet 0, and
their frames are not recorded in `published`.  `input_data` is the data area of the
static `input_buffer`: each entry is the packet that wrote the byte, or `EndOfText`, the
zero that a message of a node brings (`strlen(str) + 1`, `test_mode.c:118`) and a status
report does not (`i8-transceiver.c:973`).  `Printed` is what `snprintf` makes of it.

A broken connection shows as it does to a program that writes to a socket: the
first bytes are lost without an error, later ones get an error, or SIGPIPE ends
the process.  `WriteMeets` leaves the choice open.  What was in the socket when
it broke may be read or lost.  `bm_disconnect` always succeeds, since
`stomp_disconnect` returns what `close` returns.

Abstracted: the syntax of JSON (a body is the values of its fields), the
destinations and headers of frames, the ten seconds between two attempts to
connect, `stomp_read` waiting inside a frame (frames arrive whole; `StompSession`
has that part), and a transceiver that does not read what is forwarded to it (`Gateway`
has that part).

#### STOMP connections

A byte that the format looks at (zero, newline, colon) is a number of its own;
a command, a header name and a part of a body are one number each, and a length
is one number too.  `Pieces` are the buffers that `stomp_write` gives to
`stomp_write_buffer`, each of which a `send` may take in parts; `Receive` is
`stomp_read` between two calls of `recv`: `phase` says whether it is in
`stomp_read_line` for the command or a header, in the loop over a body with a
length, at the zero behind it, or in `stomp_read_buffer`.  A body with a length is
asked for at once and may come in any parts, all else byte by byte.

`StompSession` has one process: in mode `message` it is `send_message`, in mode
`bomber` one of the children of `start_bombing`, in mode `subscriber` the daemon as
far as its subscription goes.  It logs in (`bm_connect`), writes its frames, and
disconnects or waits in `select`.  The connection may be refused or break at any
time: bytes to the broker are lost, of those to the process any prefix arrives.
After `stomp_disconnect` with something unread, what the broker has not read may be
discarded, as TCP does when a socket is closed that way.  The history variables
`written_...` and `read_...` are the frames of this connection in each direction.

The broker is modelled from what the code expects of it: it skips the newline that
`stomp_write` leaves behind each frame, answers a login, or refuses it with another
frame and closes, and sends frames to a subscriber.  `BrokerEnd` is what it puts
behind a body, and the runs take a zero alone.  With a zero and a newline, which is what
`stomp_write` itself puts there, TLC finds `ReadReturns` and `FailsOnlyWhenBroken`
violated: a `select` finds the newline, the `stomp_read` it starts waits for the
next frame while the transceiver is not served, and then fails, since it takes the
newline for the command and the command for a header (a finding in `PROJECT.json`).

#### The gateway

`Gateway` has the variables of both programs and no state of its own.  Its actions
are those of `Transceiver` and `Messenger`, joined where the socket is: a message or
report that the transceiver sends (`ipc_out`) is a packet that the daemon can read
(`i8_in`), a packet that the daemon forwards is appended to `ipc_in`, an end of one
process closes its end for the other.  `SocketOpen` replaces the environment's
choice in `Transceiver`, `Started` is a process of `i8-transceiver` with its static
and automatic variables new.  A sender that meets a full socket waits, as `send` on
a blocking Unix socket does.

To keep the state space small, the clock moves only while the transceiver is in
`select`, and it is interrupted only there and at the head of its loop: what the
handler sets is looked at nowhere else.  The radio does not lose or reorder packets
here; that is the subject of `radio`, and `Transceiver` is the same module in both.

#### The directory poller

`pc` is the place in the loop of `poll_directory_and_store_upon_content_change`
(`http_clients.py:441-476`): `list`, `stat` (`sorted_ls` asks for the time of every
file), `read`, `store`, `sleep`; `dead` when `stat` or `open` has raised an
exception, which nothing catches.  Between two of its system calls other programs
may write and remove files.  The contents of a file are numbered as it gets them,
so "older" has a meaning, and `Text` says what each of them is: a file may get an old
text again, and texts are what `DictDiffer` compares.  A dictionary is a function to
contents, 0 for a key that is not there.  `store` ends in one of three ways: `Stored`,
`StoreFails` (an exception; the server may have had the data), `StoreIgnored` (an error
for which `make_request` returns `None`; a server that had the data even so is as after
`Stored`).  Two history variables say of which files the poller may be wrong: `missed`,
whose last content was taken for stored after an error that nobody looked at, and
`doubtful`, whose last content on the server came with a store that raised an exception.
A file of the second kind that gets back the text that is in `last_data` is not sent.

Abstracted: `timestamp`, the field `_key` that `store` adds to the dictionary, names of
files that are not names of fields (`verify_name` returns `False`, at which nobody
looks), and the order of files by time, which makes no difference to what is
read beyond the interleavings that are there.  A request that failed for the client
reaches the server before the next one or never.

## Runs

All bounds are in the `.cfg` files and the `MC...` modules.  `PayloadSize` is 2, so
that messages of up to 5 bytes make one to three packets.  `MessageFields` is 8 in the code; with
lists of two or three entries the runs take 2, so that the bytes of a forwarded
message lie behind the second entry.

| run | expects | shows |
|---|---|---|
| `radio` | pass | Loss and reordering, a queue of 3 slots and up to 7 packets in flight: `OnePlace`, `BytesFromSource`, the refinement `RelaysLossily`, `FullQueueRecovers`, `RemovedTogether`, `TypeOK`. Two nodes use the same packet_id, and fragments of both can fill the queue before either is complete. |
| `order` | pass | A radio that keeps order, room in the queue, a packet_id used again for a message of the same size: `RelaysInOrder`, `EverySentRelayed`, `EveryArrivalCounted`, `Stops`. The clock reaches a status report, SIGINT comes at any point, and the daemon, whose socket holds one packet, reads when it likes. |
| `lists` | pass | Three commands out of clear, add one, add two, and a forwarded message, with lists of three entries that overflow; a failing radio, a peer that closes or is slow to read: `ListsCompact`, `ComlistDistinct`, `RequestedAreListed`, `Stops`. |
| `hole` | violation | `CompleteMessages`: a duplicate hides a lost fragment. |
| `stale` | violation | `ListedAreRequested`: entries of an earlier, longer list come back. |
| `interrupt` | violation | `InterruptStops`: a SIGINT before the loop is lost. |
| `daemon` | pass | Two transceivers one after the other, one outage (the broker's or one connection's) at any point, SIGINT and SIGPIPE at any point, reports without limit; a list of two frames and a message up, two messages and a list down: `PublishesInOrder`, `ForwardsInOrder`, `PacketsAccounted`, `CommandsAccounted`, `SessionsSeparate`, `Stops`, `WaitingIsServed`, `TypeOK`. |
| `sigpipe` | violation | `EndsOnlyWhenTold`: a transceiver that goes away ends the daemon. |
| `tail` | violation | `ReportsIntact`: a status report is published with the tail of a longer message. |
| `frames` | pass | Sockets of four bytes that deliver any parts, two connections that break or are refused, all three modes: the two directions implement `FrameChannel` (`UpIsAChannel`, `DownIsAChannel`), `FailsOnlyWhenBroken`, `ReadReturns`, `SentArrives`, `MessagesArrive`, `TypeOK`. |
| `gateway` | pass | Both programs, two processes of `i8-transceiver` one after the other, one outage or SIGINT, the commands add, clear and add, a socket that holds one packet each way: from node to broker they implement `LossyRelay` (`PublishesLossily`), `ListsReachWhitelist`, `NothingWithoutList`, `PassedIsPublished`, `LoopsTurn`. |
| `poller` | pass | Two files of three contents each, one of which gets its first text back, the other a text that cannot be encoded, two removals: the poller implements `DirectoryMirror` (`MirrorsDirectory`), `RememberedIsStored`, `CatchesUp`, `TypeOK`. |

Why the bounds are enough: what can go wrong in the queue needs at most two
messages of three packets that compete for slots, a third one that reuses a
packet_id, and a queue one slot too small; in the lists, an old tail needs two
commands of different length and a clear in between, an overflow three entries.
`MaxClock`, `MaxCommands`, `Message` and `EndOfTime` bound the counters.

For the daemon: what one session leaves behind shows in the next one, so two
sessions (`MaxSessions`); an outage can hit every place of a session and the
teardown before the other (`MaxOutages` 1; a second one only repeats the first,
as a session keeps nothing but `input_data`); one packet in the socket
(`IpcCapacity`) leaves room for another in the process.  `StepSize` 2 and
`MaxParts` 2 make a list of four entries two frames, `MaxFields` 2 is reached by
the first command.

For frames: the longest piece of the instance has three bytes and a frame has more
than four, so a socket of four holds parts of two frames at once, and a piece can be
cut at each byte; `BrokerEnd` is a zero alone, as said above; two breaks make a reconnect that breaks again, or a login that is
refused twice.

For the gateway: one node, one message in two packets, so that a restart of the
transceiver can come between them; two sessions, so that a list of the first can be
missing in the second; `MaxFailures` 1, any of an outage of the broker or a
connection, a SIGINT to the transceiver or to the daemon (two at once are in
`daemon`).  A failure comes before the last transceiver is started (`MayFail`), at any
point of the session before it: what a failure can do to a session that nothing follows
is in `daemon`, and the run is for what it leaves behind.  `MaxClock` 2 and
`StatusDelay` 0 make a report possible, of a transceiver that was started before the clock
moves.  The message, with its zero, fills two packets, and a report is longer than it.
What no step looks at is left out of the view `Relevant`: what a report says, times, which
slots of a queue that is never full are used, and `requested`, a history variable to which
no property of this run refers.  Both programs have their types in `radio`, `lists` and
`daemon`, and by `GatewayTypeCorrect` also together.

The socket holds one packet each way (`DownCapacity` 1, `IpcCapacity` 1), and three lists
come, so a daemon with a packet to forward and a transceiver with a report or message to
send can both find it full.  Then both wait in `send` for ever (`BothWait`).  TLC reaches
this; `LoopsTurn` and `PassedIsPublished` except it by name and would be violated otherwise,
and a finding says so.  The sockets of the real programs hold more, but one frame may
make a hundred packets (`byteport-stomp-client.c:430`), and nothing in the code sees to it
that they fit.

For the poller: a content that is lost, one that replaces it before it is stored
again, and one more that is written during the next poll are three, and three are a
text, another one and the first again; two files are needed for one to keep the other
from being stored.

Every property of a passing run has a variant of the code (named `..._...` after
the operator it changes, "Variant for model checking") under which TLC finds it
violated.

Fairness: `FairSpec` lets the process take a step whenever it can
(`WF_vars(Loop)`: `select` has a time-out of a second; only `send` blocks, and while it
waits the action that sends is not enabled), and
lets a packet that is again and again in the air when `select` is entered arrive
at last (`SF_vars(SelectRadio)`: `select` reports a readable socket).  No fairness
is assumed of nodes, clock, daemon or signals: the daemon may cease to read, and
`Stops` and `EverySentRelayed` except a process that waits in `send` for ever
(`SendWaits`), which SIGINT does not end.

The daemon's `FairSpec` lets the process take a step whenever it can
(`WF_vars(Process)`); it may wait in `accept`, `bm_connect` and `select`, which
have no time-out.  A broker that is down comes up again (`WF_vars(BrokerStarts)`):
`bm_connect` is written to wait for that.  A transceiver that runs sends a report
every minute (`WF_vars(PeerReports(s))`, `i8-transceiver.c:629`).  `Stops` and
`WaitingIsServed` need the last two, and say so: without reports a SIGINT between
the look at `gs_die` and `select` would go unseen until something else arrives.  Both
also take a transceiver that reads what is forwarded to it; `Gateway` has the wait.

`StompSession`: process and broker are scheduled (`WF_vars(Process)`,
`WF_vars(Broker)`); neither breaks a connection out of fairness.  `Gateway`: both
programs are scheduled, each as a whole (`WF_transceiver` of all that it does by itself,
`WF_daemon` of all that the daemon does; a program that waits in `send` is not enabled),
and a broker that is down comes up again.
`DirectoryPoller`: its thread is scheduled (`WF_vars(Poll)`), and a store that is
tried again and again works at last (`SF_vars(Stored)`): the poller is written for a
connection that comes back.

Deadlock is checked in all runs but two; a process that has ended stutters
(`Exited`), and so does one that waits for a broker with no more to say (`Quiet`).
In `poller` the thread may die of an exception with no file left to write, and in
`gateway` both programs may have ended, or the daemon may wait in `accept` after the
last transceiver: these are no errors, and `LoopsTurn` and `PassedIsPublished` say
what must not stop.

## Theorems

For every number of nodes, messages, slots and entries, any sizes, and any
commands; assumptions on the constants are named in the module that declares
them.

* `TypeCorrect`: `TypeOK` is an invariant.  The interesting case is a message that
  was put together: its bytes and its time come from slots that exist.
* `BytesComeFromSource` (`BytesFromSource`), without any condition on the radio and the
  ids: each byte passed on is one that the node named in the message sent, at its
  place, under one packet_id.  `SourceInv` adds that all packets in the air, in the queue
  and in `arrived` belong to messages that were sent (`PacketsSent`); `MergedBytes` is the
  part about `collect_from_queue`.
* `ListsStayCompact`, `ComlistStaysDistinct`, `RequestedStayListed`: proved from
  their conjunction with `TypeOK`, which is inductive.  Compactness is what the
  other two need, since `nodelist_append` counts up to the first free entry.
* `PacketsAtOnePlace`: `OnePlace`, with `TypeOK`, is inductive when the radio
  duplicates no packet and no node uses a packet_id for two messages.
* `ImplementsLossyRelay`: under the same conditions every step is a step of
  `LossyRelay` or none.  The argument: the fragments that match belong to one
  message and are each stored once, so they do not overlap, and if their sizes
  add up to the size of the message they cover it (`CollectIntact`, by a
  bijection between bytes found and positions); the first packet, which carries
  at least one byte, leaves the queue with them and is nowhere else, so the
  message cannot be put together a second time.

Both conditions are needed: `hole` shows what a duplicate does, and with reused
ids the fragments that match may belong to two messages.

Two theorems say how far the runs `hole` and `stale` reach:

* `NoHolesWithoutDuplicates` (`CompleteMessages`), under the conditions of
  `ImplementsLossyRelay`: all that is put out is then a report or the whole contents of a
  message, so no byte of it is one that no fragment brought.
* `EquallyLongListsAreExact` (`ListedAreRequested`), when all lists but the empty one have
  one length (`SameLengthLists`), as when nodes are added one by one, and none has more than
  seven nodes if messages are forwarded too (`ShortLists`): what the receive buffer keeps
  is then always overwritten, and the entry behind it is free (`NothingBehind`).  With lists
  of two lengths `stale` shows what comes back.  Eight nodes after a forwarded message
  would be followed by bytes of that message.

* `FullQueueMakesRoom` (`FullQueueRecovers`): no fragment in the queue is younger than
  the clock (`QueueTimes`), so `clean_queue` finds an oldest one and frees its slots.
* `MessagesLeaveWhole` (`RemovedTogether`), when messages of one node with one
  `packet_id` are of one length (`SameLength`): both ways out of the queue then take
  the same set of fragments, all those of the message.
* `ArrivalsAddUp` (`EveryArrivalCounted`), when the radio neither loses nor repeats and
  nobody closes the socket (`NothingUncounted`): `CountInv` says that the reports and the
  counters of the minute that runs count together as many packets as were sent and are
  no longer in the air.  Elsewhere the reports are short of what a node sent; the
  theorem says that the process itself drops and repeats nothing.
* `MessagesInOrder` (`RelaysInOrder`), for `packet_id`s that may all be the same, when the
  radio keeps order (`InOrderRadio`), each message fits (`AllFit`), all nodes are and
  stay listed (`EveryoneListed`), and the queue has more slots than one unfinished
  message of each node can take (`RoomForAll`).  `OrderInv` says that the packets of a
  node that were not handled yet are the last that it sent (`ArrivedInTurn`), that the
  queue holds of each node just the part that arrived of its one unfinished message
  (`QueueHoldsRest`), and that all before it were relayed (`FinishedRelayed`).  From
  these, `add_to_queue` always finds a free slot, `clean_queue` is never needed, and
  `collect_from_queue` finds a message exactly when its last fragment arrives.  The
  constants of the run `order` satisfy all four conditions.

For the daemon, with any packets and commands, any number of sessions and
outages:

* `TypeCorrect`: from `TypeInv`, which adds to the types what is in use at each place of
  the process (`Phases`).  A list makes at most `MaxParts` frames because its length is
  bounded (`ListFrameCountBound`).
* `ForwardingImplementsOrderedRelay` (`ForwardsInOrder`): the invariant `DownInv`
  keeps what was forwarded, what is about to be and what is unread in this order,
  parts of one command included.
* `PublishingImplementsOrderedRelay` (`PublishesInOrder`): the invariant `UpInv` does
  the same for frames and packets, over the sockets of all sessions.  It needs that
  a transceiver only starts when the one before has ended (`PeersInOrder`) and that
  one which has not started has sent nothing (`AbsentSilent`); otherwise a packet
  of the first session could be numbered after one of the second that waits in
  the backlog.

* `PacketsNotLost` (`PacketsAccounted`) and `CommandsNotLost` (`CommandsAccounted`): as long
  as the connections they need hold, what was read is in the output or at hand, and what was
  sent and not read is in its socket.  `AccountInv` has one clause for each direction and
  each side of the read; that what is at hand belongs to the session that runs, and was
  made of what it read, is `WorkInv`.
* `SessionsStaySeparate` (`SessionsSeparate`): what is at hand, or unread in a socket of
  the session that runs, was sent in it (`WorkInv`, `SentInSession`), so each step that
  forwards or publishes sends on what came in this session.
* `MessagesPublishedIntact`: whatever was in `input_buffer` before, a message of a node is
  published with its own bytes and all of them (`TextInv`), because it brings its zero: the
  text up to it is the same over any older contents (`TextOnce`, `MessagePrinted`).
  Of status reports, which bring none, `tail` shows that the same does not hold.
* `ListsCutWhole`, about `ListFrames`: every entry of a list is at one place of one of its
  frames, every frame has an entry, and the stale entries that the inner loop of
  `receive_from_i8` adds (line 290) come behind all of them, in the last frame.

In the two refinements, a step is sorted by what it does to the items on their way (`DownCases`,
`UpCases`), and each kind of step is shown to preserve the order and to be a step
of `OrderedRelay` or none.

For a STOMP connection, with frames of any number and size, sockets of any size that
deliver any parts, any number of breaks, and all three modes of the process.  The
assumptions are named in `StompSession`, and TLC evaluates them on the instance of the
run `frames` (`FramesCanBeRead`):

  - `AllWellFormed`: a text of a frame does not hold the byte that ends it, no header
    name comes twice, and a body in which a zero occurs has a length.  `stomp_write`
    escapes nothing, so without this a frame cannot be read back;
  - `OneLogin`: no other frame of the process has the command of the login;
  - `BrokerEndsWithZero`: nothing follows the zero behind a body.  Without it the
    property is false, as said above.

* `TypeCorrect` (`TypeOK`), which needs only that lengths fit (`LengthsFit`).
* `FrameReadAsMeant`: the reader, given all that `stomp_write` makes of a well-formed
  frame, reads exactly that frame and is then where it began.  `Goes`
  relates a reader, bytes and the reader that has taken them; a run over a frame is put
  together from the runs over its command, its headers and its body.
* `UpIsChannel` (`UpIsAChannel`) and `DownIsChannel` (`DownIsAChannel`): each direction
  implements `FrameChannel`.  The inductive invariant `SessionInv` says of each
  direction of an open connection that the bytes in the socket, followed by those that
  are still to be written, take the reader from where it is through exactly the frames
  that were written and not yet read (`UpHolds`, `DownHolds`; of a connection that is
  closed or broken, that some rest of bytes would).  `LoginFirst` adds that the
  broker has written nothing before it answers the login, which is the first frame it
  reads; `AtHand` says in which phases something is left to write or to read.  A body
  with a length may be read in any parts: `GoesChunk` shows that this comes to the same
  as byte by byte.
* `OnlyBreaksFail` (`FailsOnlyWhenBroken`): a session is given up after an error only when
  its connection is broken; `stomp_read` never stumbles over a frame.

What would be an induction over a sequence is an induction over a finite set of numbers
(`SetInduction`), and the concatenation of all pieces (`FlattenSeq`) is a recursive
function that is shown to exist first.

For the directory poller, with any files, contents and removals, from an invariant
(`IInv`) that adds to the types that the server has nothing newer than what was
read, which is nothing newer than what the file holds (`Ordered`), and that before a
store `data_to_send` is all in which what was read differs from `last_data`
(`Compared`).

* `PollerTypeCorrect`; `PollerRemembers` (`RememberedIsStored`), for which `Compared`
  is needed: what is not sent is gone, or has the text it had when it was stored last.
* `PollerMirrors` (`MirrorsDirectory`): every step is one of `DirectoryMirror` or none.
  What makes it true of a store that is repeated after its answer was lost is that
  the server is never ahead of the last content read: the files are read again before
  each store.

For the gateway, whose assumptions are those of the two programs:

* `GatewayImplementsMessenger`: every step of the composition is a step of `Messenger`, or
  leaves the daemon and its socket as they are.  What is proved of the daemon with a
  transceiver that may do anything therefore holds in the gateway.  The same does not
  hold of `Transceiver` as it stands, since a transceiver that is started again is a new
  behaviour of that module: its invariants are shown again to hold of a new process and
  of one whose socket the daemon writes to, and its step lemmas are used for the rest.
* `GatewayTypeCorrect` (`TypeOK`): from `BothInv`, the invariants of both programs.
* `ForwardedListsArrive` (`ListsReachWhitelist`): `ListsInv` adds that a list forwarded to
  the transceiver that runs is in its socket or was received, in this order
  (`OnItsWay`), and what follows from that for `requested` (`ListsRequested`); that
  `requested` is listed is `RequestedAreListed` of the transceiver.
* `OnlyListedPublished` (`NothingWithoutList`), for a transceiver that starts with an empty
  whitelist (in test mode it lists one node by itself) and, as for
  `EquallyLongListsAreExact`, for `ShortLists`: `KnownInv` says that every node in
  the whitelist and in the buffers that are not cleared between two receptions was in a
  list forwarded in this session, and so was the node of each message passed to the daemon.
* `GatewayImplementsLossyRelay` (`PublishesLossily`): from a node to the broker, under the
  conditions of `ImplementsLossyRelay` (no duplicates, no `packet_id` used twice), and with
  messages that end with their zero (`MessagesPublishedIntact`).  `EndInv`
  adds that no two messages passed on are the same, also across restarts: the packets
  of a message that was relayed by one process are not received by the next.
* `GatewayKeepsSources`: `BytesFromSource` of the transceiver holds across restarts too, again
  whatever the radio does.  A process that is started again takes up packets from the air
  whose first half went to the one before; its queue is empty, so they stay alone.

Model-checked only:

* liveness (`Stops` of both processes, `EverySentRelayed`, `WaitingIsServed`, `LoopsTurn`,
  `PassedIsPublished`, `ReadReturns`, `SentArrives`, `MessagesArrive`, `CatchesUp`), which the
  provers do not reach;
* the runs that expect a violation, which are counterexamples on one instance.

## Not modelled

`PROJECT.json` lists every part with the reason.  Of the transceiver and the daemon,
the parsing of options; of the transceiver, packets marked as acknowledgements and
the time stamped on a message (the code takes that of its lowest slot and not of its
first fragment, which is listed as a finding without a run); of libstomp, the
look-up of addresses and memory pools; of the Python HTTP client, everything but the
poller: its other operations are one request each.  Prose, examples, third-party code
and programs that build one request have no state to model.

## Plan

Done: the transceiver, the daemon, their composition, STOMP connections and the
directory poller, with the proofs above.  Left, in this order:

1. `LocationTracker`: the two providers of the Android client and the choice
   between them; `DeviceId`: one id, with threads and a crash before it is saved.
2. The Python STOMP client: acknowledgement after handling, reconnects.
3. Which messages survive when a packet_id is used again for one of another size.
