# Verification of tsclientlib in TLA+

tsclientlib is a client library for TeamSpeak 3 written in Rust. This directory
holds TLA+ models of it, the TLC runs that check them on small instances, and
TLAPS proofs of results that hold for every instance. Paths below are relative to
the repository; `PROJECT.json` maps every definition to the lines it models.

## 1. The system

| Part | State | Operations | Talks to |
|---|---|---|---|
| Packet ids (`tsproto/src/resend.rs`, `connection.rs`) | pair of a 32 bit generation and a 16 bit id | order, add, subtract, receive window, number of the next packet | everything below |
| Packet codec (`tsproto/src/packet_codec.rs`) | next incoming and outgoing id per packet type, `receive_queue`, `fragmented_queue` | `handle_udp_packet`, `handle_command_packet`, `encode_packet` | resender (acks), connection (items, acks to send) |
| Resender (`tsproto/src/resend.rs`) | heap of scheduled packets, three ordered queues, indices into them, CUBIC window, round trip time | `send_packet`, `ack_packet`, `poll_resend`, `fill_up_send_queue`, `rebuild_send_queue` | socket, timers, waker |
| Keep-alive (`tsproto/src/resend.rs`) | `ResenderState`, list of pings, four timers | `poll_ping`, `ack_ping`, `set_state`, timeouts of `poll_resend` | socket, timers, client |
| Connection (`tsproto/src/connection.rs`) | `acks_to_send`, `stream_items` | `poll_next`, `send_packet`, `send_ack_packet` | everything above, in one task |
| Client (`tsproto/src/client.rs`) | negotiated keys, own client id | `connect`, `handle_command`, `wait_for_ack` | connection |
| License (`tsproto/src/license.rs`) | a chain of blocks | parse, build, derive keys | client |
| Encryption (`tsproto/src/algorithms.rs`) | key cache | encrypt, decrypt, compress and split | codec |
| Client library (`tsclientlib/src/lib.rs`) | connecting / increasing the identity level / connected, file transfers, return codes, own mutes | `poll_next`, `disconnect`, commands, transfers | client, bookkeeping, thread for identities |
| Sync connection (`tsclientlib/src/sync.rs`) | channel of messages, maps of waiting callers | `poll_next`, handles used from other tasks | client library |
| Audio queue (`tsclientlib/src/audio.rs`) | packets per talker, decoded samples, buffer size statistics | `handle_packet`, `fill_buffer` | application, sound card |
| Resolver (`tsclientlib/src/resolver.rs`) | none | DNS, TSDNS | network |
| Bookkeeping (`utils/ts-bookkeeping`) | server, channels, clients | apply messages, produce events | client library |
| Packets and commands (`utils/tsproto-packets`) | none | parse and write | codec, client |
| Generators and types (`utils/tsproto-structs`, `utils/tsproto-types`) | none | build-time code generation, identities | all |

A connection is one task. Its `poll_next` first sends waiting acks, then lets the
resender send what is due, then pings, then returns an item or reads datagrams
until one yields an item. The client library turns these items into its own, and
the sync connection answers callers of other tasks with them. Concurrency enters
through the network (loss, delay, reordering, duplication), the timers, the socket
(readable, writable or full between any two calls), the thread that improves the
identity, the callers of `sync.rs` and the sound card.

What is hard here:

- 16 bit ids that wrap while old packets, old acks, old pings and late voice
  packets are still around;
- acks that are selective, carry no generation and can be repeated;
- three views of the same packets in the resender (heap, ordered queues, indices)
  that are kept consistent by hand while the window changes;
- several timeouts that race late answers and changes of state;
- a hand-written `poll_next` in which every return of `Pending` must leave a waker
  with every source of work;
- handles that start at 0 again after a reconnection while callers still wait;
- a book that follows the server from commands that mention only what changed.

The full list, with lines, is `hazards` in `PROJECT.json`.

## 2. Modules

| Module | Models | Variables and actions |
|---|---|---|
| `PacketIds` | `PartialPacketId` and `in_receive_window` | operators only; `IdMod` stands for 2^16, `GenMod` for 2^32 |
| `ReliableSender` | what the resender promises for one packet type | abstract: packets queued, transmitted, unacknowledged |
| `FifoChannel` | what a link promises | abstract: commands sent, commands delivered |
| `Resender`, `MCResender` | the resender's queues | `full_send_queue`, `send_queue`, `send_queue_indices` keep their names; loops are unrolled into steps with a `pc`; any window at each call |
| `CommandLink` | one direction of a connection: `ReliableSender` + network + receive path of the codec + acks back | `receive_queue`, `fragmented_queue`, `incoming` (`incoming_p_ids`), the loop of `handle_command_packet` one iteration per step |
| `KeepAlive` | pings, timeouts, state of the connection | discrete time, the timers as armed instants |
| `PollLoop` | `poll_next` of `Connection` and `Client`, wakers | `pc` is the stage of `poll_next`; `woken` is the task's waker; `unacked` is `full_send_queue` for one packet type, `send_queue` the heap with the entries of acknowledged packets, `last` the order in which they were last sent |
| `Handshake` | `Client::connect`, `Client::handle_command`, `connect_to`, `wait_initserver` | `phase` is what `connect` waits for; `init_queue` and `cmd_queue` are what the resender repeats; one action for each thing that may arrive |
| `Session` | what a `Connection` of the client library promises | abstract: connected or not, handles given out and not answered |
| `ClientConnection` | `Connection` of `tsclientlib/src/lib.rs` | `state`, `options`, `con` (`ConnectedConnection`), `stream_items`; `attempt` is the future of `connect`, `thread` the identity thread; one action per branch of `poll_next` and of `handle_command`, and per call of the user |
| `SyncConnection` | `SyncConnection` and its handles | `recv` is the channel, `commands`, `downloads`, `uploads`, `connects`, `disconnects` keep their names; one action per message and per item |
| `SlidingWindow`, `AudioQueue`, `MCAudioQueue` | `audio.rs` | `queues` with the fields of `AudioQueue`; `fill_buffer` takes one step per talker and per turn of the loop in `get_next_data` |
| `Book`, `MCBook` | `Connection::handle_command` of ts-bookkeeping | `channels`, `clients`; one operator per message, which returns all outcomes (iteration over a hash map); the server is external |
| `Commands`, `Packets`, `License`, `MCCodec` | the parsers and writers | operators only; `MCCodec` picks an input in one step |
| `ResenderProofs`, `CommandLinkProofs` (with `PacketIds`), `KeepAliveProofs`, `HandshakeProofs` (also of `Commands` and `License`), `ClientConnectionProofs`, `SyncConnectionProofs`, `AudioQueueProofs`, `ConnectionProofs` (of `PollLoop` and `Book`) | proofs about the module of that name | the inductive invariants, the lemmas, the theorems |

How they compose. `CommandLink` extends `ReliableSender`: its sender is the
abstract one, with the guard of acknowledging replaced by what `ack_packet` does
with the id of an ack, and the run checks that the result still is a
`ReliableSender`; `Resender` implements `ReliableSender` for commands. So the link
is checked against the contract and the contract against the code. `CommandLink`
implements `FifoChannel`, and `Handshake` and `ClientConnection` use commands in
order. `ClientConnection` implements `Session`, and `SyncConnection` is built on
`Session`: what is shown of callers holds for every behaviour the client library
may have. All four refinements are checked and proved (section 5).

Abstractions shared by the modules: contents of packets are their numbers or
names; decryption succeeds exactly when the receiver's estimate of the generation
is the generation of the packet (`algorithms.rs` derives the key from it); a
datagram is what its handler does with it. In `Packets` and `License` data are
bytes, with the offsets of the code; in `Commands` characters, of which those that
the parser treats alike have one representative. The curve of `License` is a
cyclic group of prime order: derived keys are compared, not computed.

Definitions whose comment begins with "Mutant" are deliberate faults of the
definition that follows them. Each property of a passing run has one (`mutants` in
`PROJECT.json`): with the definition replaced by it the run must fail.

Where several invariants are about one thing they are checked as one:
`LinkSound` (types, the receiver gives up only when it is overrun, no underflow of a
generation), `AckEventExact` (ack events are neither early nor missing), `TimersSound`
(types, no false ping timeout), `PollSound` (types, no item slept on), `QueueSound`
(types, order of the packet buffer, count of its samples, measure of jitter),
`StateSound` (types, book events and disconnects tell whether the connection is there),
`CallersTracked` (types, every waiting caller in exactly one place, every pending answer
finds its caller), `HandshakeSound` (types, no init packet left once the keys are there,
both sides agree when connected).

## 3. Runs

Passing runs:

| Run | Bounds | States | Shows |
|---|---|---|---|
| `link_order` | 16 ids, 4 packets from id 15 on, each arrives up to twice in any order, a late copy of packet 2 with the id of packet 18, commands of 1, 3 or 4 packets, the receiver stores packets up to 2 ahead and joins 3 fragments, the client sends (acks with id 1 are dropped) | 65 000 | commands arrive once, whole and in order across a wraparound; acknowledged implies received; the receiver gives up only when the sender has run on by `MAX_QUEUE_LEN` packets behind a missing one or a command is too long, and everything is delivered if it does not; implements `FifoChannel`, keeps the contract of `ReliableSender` |
| `resender_queue` | 3 commands, 1 low priority command, 2 init packets, windows 1..2, 8 instants | 801 000 | consistency of heap, indices and queues, no stall, window, ack events, implements `ReliableSender` |
| `keepalive` | 2 pings, timeouts of 2 and 3 ticks, 11 ticks, 2 commands | 265 000 | a silent peer is noticed in time, no false alarm, a disconnect ends |
| `poll_wakeups` | 2 datagrams of every kind, 3 packets of the application, 1 voice packet or ping, capacity 2, windows 1..2 | 1 520 000 | no datagram, item or packet is slept on without a waker or a timer, with acks in any order and entries of acknowledged packets in the heap; every ack, ping and voice packet is sent |
| `handshake` | 1 lost or repeated datagram, 3 in flight, 1 restart (127), 2 servers, puzzles below and above the limit, 2 defects of `initivexpand2`, 1 command afterwards | 48 000 | the handshake ends; `clientinit` is sent only to the wanted server and only when it can be read; a connection on both sides or none |
| `client` | 2 commands or transfers, 1 change by the server, 2 connections, identity levels below, at and above the limit, return codes modulo 2, a channel without talk power | 669 000 | the items tell the user the state of connection and audio; implements `Session`; a lost connection comes back or ends |
| `sync` | 2 callers, 3 connections, handles modulo 2 | 57 000 | every caller is known, and answered or told that the connection is gone |
| `audio` | 2 talkers, 6 packets from id 6 of 8 on, 4 deliveries in any order with repetitions, 3 losses, buffer of 2 packets, packets that cannot be decoded | 516 000 | order, no repetition, sums, every talker ends unless `decoded_pos` gets wrong (`audio_decode`) |
| `book` | 3 channels (symmetric), 2 clients, 2 names, 1 change of attributes | 54 000 | channels and clients of the book are those of the server; the events tell everything |
| `codec` | values of up to 2 of 7 characters, one or two parts; packets of every type and direction, also cut off, whispers to 0, 1, 255 and 256 channels and clients; chains of three license blocks with one of every type in the middle, and of 7 to 9 blocks around the limit of 8 | 16 000 | what is written is read back, but whispers to more than 255 targets, what is cut off is refused, derived private and public keys fit |

Why the bounds are enough: every action fires, the id spaces are small enough that
ids and windows wrap, and the bounds exceed the size of the structures they fill
(window 2, `MAX_QUEUE_LEN` 3 with 4 packets, capacity 2, `PING_COUNT` 2,
`MAX_BUFFER_PACKETS` 2, a channel of capacity 1 with two callers), so each limit is reached and passed. In `client`
only output mutes are enabled, which stop both directions; that sending alone
stops is reached by the channel without talk power. Three connections in `sync`
let an entry of the first be overwritten in the second and answered in the third.
`CHECK_DEADLOCK FALSE` is used because the systems may really stop: all packets are
acknowledged, the connection has ended, or a bound is used up.

`link_order` needs a backlog shorter than the id space, an environment assumption
that the code does not enforce: beyond it, a repeated ack of an old packet removes
a queued packet that has the same id one generation later. `send_packet` "buffers
indefinitely" and an ack has no generation. It takes 65536 queued packets.

Runs that find a disagreement between the code and what it says of itself (see
`findings` in `PROJECT.json` for the quotations):

| Run | Shows |
|---|---|
| `link_stale` | a second copy of an out-of-order packet is delivered one generation later in place of another command |
| `audio_decode` | after a packet that cannot be decoded more samples count as returned than there are, and `drain` panics |

## 4. Fairness

- `link_order`: weak fairness for the sender's poll, for the iterations of
  `handle_command_packet`, and for the arrival of each packet, and of an ack of each packet, that may
  still arrive. The resender sends again until acknowledged, so this says that
  the network does not lose every copy.
- `poll_wakeups`: weak fairness for the task (tokio polls a woken task) and for the
  timers (`stats_timeout` is armed at every poll and expires every second, the timer of
  `poll_resend` expires after the timeout of a packet), and that the socket does not stay
  or become full for ever (`<>[]writable`). A task whose socket fails may stop.
- `handshake`: weak fairness for the client, for the arrival of each datagram that is
  not lost (losses are bounded, the resender repeats) and for the resender. A
  timeout may strike at any time; that is an end, too.
- `client`: weak fairness for the poll of the stream and the handling of commands,
  strong fairness for a successful attempt to connect: attempts may time out any
  number of times, but not for ever if the server can be reached.
- `sync`: weak fairness for the task that polls the stream and drops it at its end,
  for the server's answers, and for a connection attempt to succeed or fail; strong
  fairness for the send of a caller into the channel (tokio's channel is fair).
- `audio`: weak fairness for the sound card that calls `fill_buffer`.

`AppSend` and `AppSendVoice` in `PollLoop` assume that an application polls the
connection after it has queued a packet: `send_packet` wakes nobody.

## 5. Proofs

The theorems hold for every value of the constants that the assumptions of the
modules allow (at least 4 ids and 2 generations, a window of at least 1, a capacity
of at least 2, natural numbers elsewhere), and under a condition where the table
names one. `theorems` in `PROJECT.json` lists them with what they say.

| Module | Theorem | States | Condition |
|---|---|---|---|
| `ResenderProofs` | `TypeCorrect`, `NothingForgotten`, `ResenderNeverStalls` | `TypeOK`, `NoPacketForgotten`, `NeverStalls` | |
| | `AckEventsExact`, `WindowKept`, `ResenderIsReliable` | `AckEventExact`, `QueueWithinWindow`, `ImplementsSender` | `NoIdWraps` |
| `CommandLinkProofs` | `WindowAhead`, `WindowBehind`, `WindowOnly` | what `in_receive_window` accepts | |
| | `LinkIsFifo`, `OrderKept` | `ImplementsChannel`, `DeliveredInOrder` | `NumbersFit`, `NoStaleCopies` |
| | `AcksTruthful`, `LinkIsSound`, `ContractKept` | `AckedWereReceived`, `LinkSound`, `KeepsSenderContract` | `Sized` |
| `KeepAliveProofs` | `TimersAreSound`, `DisconnectIsBounded` | `TimersSound`, `DisconnectEnds` | |
| | `SilenceIsNoticed` | `SilenceNoticed` | `NoWrap` |
| `ConnectionProofs` | `PollLoopSound`, `DatagramsNotMissed`, `WindowUsed` | `PollSound`, `NoMissedDatagram`, `WindowNotIdle` | |
| | `BookHasChannels`, `BookHasClients`, `EventsComplete` | `ChannelsMatch`, `ClientsMatch`, `EventsTellAll` | |
| `AudioQueueProofs` | `QueuesSound` | `QueueSound` | |
| | `HeardInOrder` | `PlayedInOrder` | `ShortStreams` |
| `HandshakeProofs` | `HandshakeIsSound`, `ClientinitDecryptable`, `PasswordToWantedServer` | `HandshakeSound`, `ServerCanDecrypt`, `OnlyToWantedServer` | |
| | `CommandsSound`, `CommandIsReadBack` | `CommandsReadBack`; the same for any command | `GoodCommand` (the second) |
| | `KeysOfChainFit` | `KeysFit`, which `KeysAgree` says of the inputs | `HasKeys`, `Order > 1` |
| | `AcceptedChainsNested` | what `Parse` accepts | |
| `ClientConnectionProofs` | `StateIsSound`, `AudioIsTold` | `StateSound`, `AudioEventsSuffice` | |
| | `ClientImplementsSession` | `ImplementsSession` | `HandlesSuffice` |
| `SyncConnectionProofs` | `NobodyIsForgotten` | `NobodyForgotten` | |
| | `CallersAreTracked` | `CallersTracked` | `IdsSuffice` |

### The conditions

Each is about a number that wraps in the code, and says how long the result
lasts. What happens beyond is in section 7 or here.

- `NoIdWraps`: fewer commands of a type than ids. `encode_packet` files the last
  packet of a generation under the next generation, behind its successors; with 4
  ids TLC finds that `AckEventExact` fails at the wraparound.
- `NumbersFit`: fewer packets than ids times generations, less the window (2^48).
- `NoStaleCopies`: no second copy of a packet is put into `receive_queue`, and then
  the ids may wrap any number of times; or no two packets have the same id, as in
  `link_order`. Its failure is the finding of `link_stale`.
- `Sized`: one generation, and a send queue that spans at most half of the ids (and at least
  one command). `MAX_QUEUE_LEN` and the number of fragments are free: the sender may run on
  further than the receiver stores packets, and `LinkIsSound` says that this is what it
  gives up for. An ack has no generation, so that a backlog as long as the id space lets
  an old ack remove a new packet (section 3). The run `link_order` checks
  the same properties across a wraparound.
- `NoWrap`: less time than it takes the ids of pings to wrap (18 hours at one
  ping per second), because the difference of two ids miscounts a generation.
- `HandlesSuffice`: not more calls of the user than return codes and transfer
  ids. `IdsSuffice`: not more requests of callers than transfer ids. Beyond that two
  requests share a handle; in a debug build the counter panics first. With one
  code and two calls TLC finds that `ImplementsSession` fails.
- `GoodCommand`: the name is alphanumeric; an argument has a name without separators and `=`,
  or a value; the first of several parts is not empty, and without a name of the command
  the first argument has a value. `write_arg` and the parser do not agree on other commands
  (`OutCommand` does not check them), the characters of values are arbitrary.
- `HasKeys`: every block has bytes, and the public key in it belongs to the private key that
  its builder keeps. `Order > 1` stands for the order of the curve, which is a large prime.
- `ShortStreams`: no talker sends more voice packets than there are ids (22 minutes of
  sound in packets of 20 ms), as the queue knows a packet by its 16 bit id alone. The ids may
  wrap around in a stream. `AudioAssumption` also bounds how late a packet may arrive
  (`Lag`): by fewer packets than there are ids, less two full buffers.

### The arguments

Packet ids (`CommandLinkProofs`): the packets numbered without wraparound, compared with their
pairs of generation and id. `in_receive_window` accepts the next half of the ids
with the right generation, rejects the other half, and whatever it accepts and
decrypts is one of the next half: the arithmetic under the receive path.

`ResenderProofs`. The invariant of the first three theorems is

    IInv == TypeOK /\ HeapFinite /\ NoPacketForgotten /\ HeapKeepsRunning

`NeverStalls` (an empty heap between calls means nothing is left to send) is not
inductive: inside `fill_up_send_queue` the heap may be empty while packets wait.
`HeapKeepsRunning` says that the loop then has an iteration left, because the
window is at least 1. When the loop ends because the iterators are exhausted, no
packet is at or after its index, and `NoPacketForgotten` puts all others into
the heap. The delicate step is lowering an index for a smaller id
(`send_packet`): it only makes the set of packets before the index smaller. The
other three need `OrderInv`: commands are numbered without gaps; a queued packet is in
the heap at most once, with the values of its record and before the index; packets
were queued and first sent in the order of their ids; a packet in flight has
less than a window of packets before it; the last ack event reaches the first
packet without an ack. The window theorem is the one that does not follow from the
size of the heap: a rebuild with a smaller window forgets packets in flight, and
what bounds them is that the first packets of the queue are always taken first.

`CommandLinkProofs`. The receiver has consumed exactly the packets before
`Position`, a function of what it has delivered, completed and joined, and
`incoming` is the pair of `Position`. By `WindowOnly` an accepted packet is
less than half of the ids behind `Position`, so its id names one packet; the loop
goes on with the packet at `Position` and no other, and the `FRAGMENTED` flags
tell where it belongs (`OrderInv`). For acks: every ack on its way is for a packet
that the receiver has, and every packet that left the send queue is such a one
(`AckInv`). The receiver gives up in two places. When an id is too far ahead, the packet at
`Position` is missing, so it is not acknowledged and no ack of it is on its way, and it
stays so because a receiver that has given up makes no more acks; hence both
circumstances can be told from the queues ever after (`FailedInv`).

`KeepAliveProofs`. While the task is not woken every deadline has an armed timer
that expires no later, and time does not pass an expired timer. A ping is therefore
sent exactly one interval after the last sign of life or the last ping, which makes
the list of pings a measure of silence.

`ConnectionProofs`, the poll loop. `StagesArmed` says for every stage of `poll_next` which waker
stands for the work that the stages before could not do; that the sleeping task
misses nothing is its instance at the last stage. The heap is not empty while a packet is not
acknowledged (`QueuesTyped`), since it is filled after every removal; so `poll_resend`
ends with an unacknowledged packet on top of it, for which the timer runs or the socket has
a waker (`WindowArmed`). After that stage only an ack changes the queues, and it wakes the
task or returns an item.

`HandshakeProofs`. The phase of `connect` tells how far the server can have come,
and with it what may be on the way: one conjunct of `IInv` for each phase.
`AckMeansReady` (an ack of `clientek` exists only once the server has the keys) is what
carries `ServerCanDecrypt` over the network.

`HandshakeProofs`, commands. An escaped value has no separator in it, and unescaping
gives it back whatever it is. So the text written so far is read as the items
written so far, also when something follows (`ReadsAs`), and each argument or
part that is added keeps this; the parser, a recursion over the place where it is,
is unfolded one item at a time.

`HandshakeProofs`, license chains. Deriving a key modulo the order of the group commutes
with taking its public key; by induction over the blocks a private key that fits the
parent of a block fits every block that follows (`KeysFollow`). For the parser an
invariant of the loop over the blocks (`GoodLoops`): the blocks so far end where the rest
of the data starts, the bounds kept are those of the last block, and these are within
those of all blocks before, so that comparing a new block with the last one is enough.
All of this is for data of any length; the recursive functions of `Commands` and `License` are
unfolded with the lemmas `Recursion` and `RecursionDown`.

`ClientConnectionProofs`. An answer is returned at once and never waits behind other
items (`IInv`). What the user will know of the audio is decided by the last waiting
item about it, and a step changes it only through the items it adds (`AudioInv`). While
connected the user knows it already, because the first book events are returned by the step
that connects, and no loss waits; otherwise a loss that the user does not know of is among
the waiting items (`ConnectedInv`).
A handle without an answer is in exactly one place: a command on the way to the
server, an answer on the way back, or the list of transfers; and the next handle is
larger than all of these (`SessionInv`). Each step then moves a handle, takes the
next one or returns the answer to one, which are the steps of `Session`.

`SyncConnectionProofs`. Before a request is taken out of the channel its caller is in
no map, afterwards only in the one of its request; an entry disappears only when its
caller is answered or another replaces it, which answers it too (`IInv`). For
files also that no transfer id was given out twice on this connection, counted by the
callers whose requests were taken (`FileInv`).

`AudioQueueProofs`. The packets in a buffer have ids of growing distance from `next_id`,
none further than a full buffer; so long as the buffer is much shorter than the id space the
wrapping subtraction of `add_packet` then agrees with that order (`Ordered`). The count of
samples follows every insertion and removal. `get_deviation` subtracts the minima of two
sliding windows; each drops old sizes on its own, but both keep the last size at the
back, so that the difference is never negative (`Jitter`). `SoundInv` says all of this
of every queue. For `PlayedInOrder` a queue is compared with the stream of its talker:
`next_id` belongs to a position, at most one after the newest packet delivered; packets that
were heard lie before it and buffered ones at or after it (`Placed`).

`ConnectionProofs`, the book. `BookInv` says that the server is in order (every channel has
one place in the tree), that the book is the image of it, and that the last events told
everything. The image is the difficult part: the server keeps lists of children, the book
a predecessor for every channel, and a message mentions one channel only. `Place` says
where a channel is in the tree; inserting into a list, or removing from it, changes the
place of the channel itself and of the one that follows, and `channel_order_insert` and
`channel_order_remove` change the predecessor of exactly these two, in whatever order the
hash map is walked through. A move within one parent and the deletion of a channel are
built from both. For the events, every operator that changes a book is shown to
lead to a book whose events lead back through the one before (`Leads`), so that a
sequence of commands, and a command with several outcomes, need no argument of their own.

TLC has checked the inductive invariants too, with the constants of the runs; `AckInv`
with `FirstId = 3`, so that the ids do not wrap. It has not checked `SoundInv` and `OrderInv` of
`AudioQueueProofs` and `BookInv`, which quantify over more than TLC can enumerate.

### Only model-checked

- Liveness under fairness (`EverythingDelivered`, `EverythingSent`, `Reconnects`,
  `HandshakeCompletes`, `WaitersAnswered`, `ConnectsAnswered`, `NobodyWaitsForDead`,
  `TalkerEnds`): beyond the proof system.
- `PacketsReadBack`; of `LicensesSound` that the parser accepts every chain that is
  built well, and the fields of its blocks; of `KeysAgree` that building a chain of blocks and
  parsing it gives what `HasKeys` says.
- The ack theorems beyond one generation of ids, where they need the history of
  acks as well as of packets.

## 6. Not modelled

- Cryptography, the key cache and compression (`algorithms.rs`, `utils.rs`) and the
  RSA puzzle: out of TLC's reach; the models use verdicts. Decompression errors end
  the connection like the other fatal errors of the codec.
- The floating-point congestion window (any value) and round trip time (constant);
  network statistics, on which no decision depends.
- DNS and TSDNS (`resolver.rs`): I/O of other libraries; `ClientConnection` gets a
  number of addresses.
- Of the client library: `send_audio`, getters, the content of commands. Of the
  book: server, groups, optional data, talk power, and the commands built from the
  book (`*_b2m`, `ChannelOptions`), which keep no state. Of the audio queue: sample
  values, volumes, the decoder.
- Generators, plain types and key formats, logging.

## 7. Where the code departs from its description

Besides the two findings, the models show, or were built around, the following.
Those with a name in parentheses are stated in the modules and fail when added to a
configuration.

Protocol layer:

- The last packet of a generation is filed one generation too high
  (`packet_codec.rs:456`); if its ack overtakes those of its successors, no ack
  event covers it and `wait_for_ack` may wait until all of them are acknowledged.
  For the same reason, and because the difference of two ids counts a generation as
  65535 (`resend.rs:317`), lost pings are not noticed in time while their ids span a
  wraparound.
- With packets of two types more packets than the window are in flight after a
  rebuild (`InFlightWithinWindow`), because `fill_up_send_queue` prefers the newest
  of the waiting packets, as the comparison at `resend.rs:593` keeps the larger time.
  A stream of low priority commands can so delay a command without bound.
- A disconnected connection with unsent acks still runs the resender
  (`OnlyAcksAfterDisconnect`), against `resend.rs:54`, "we only send ack packets".
- `is_full` (`resend.rs:560`) takes the length of the array of queues, always 3.
- The ack of a packet that is not on top of the heap frees no place in the window until the
  packets above it are acknowledged or due again: `fill_up_send_queue` counts its entry
  (`resend.rs:587`), and `poll_resend` drops entries only at the top (`resend.rs:699-718`). The
  comment in `ack_packet` (`resend.rs:468`) says that another packet can be sent.
- Selective acks and `MAX_QUEUE_LEN`: while one packet is lost, once with a window above 200
  and several times with a smaller one, a sender that keeps to its window runs on until
  the receiver ends the connection with `MaxLengthExceeded`. `LinkSound` says that, but for
  commands with too many fragments, this is the only way.
- `MAX_QUEUE_LEN` (`tsproto/src/lib.rs:54`) is described as a number of stored packets, but
  limits how far ahead an id may be; with copies more are stored (`QueueBounded`).
- `UDP_SINK_CAPACITY` is tested once before the receive loop (`connection.rs:241`), so that a
  burst of datagrams that give no item exceeds it.
- Packets at or after `send_queue_indices` can be in the heap, against the second
  half of its comment (`resend.rs:218`). The first half, which the resender relies
  on, is `NoPacketForgotten` and is proved.
- An Init1 or Init3 that cannot be parsed acknowledges the packet it answers before
  it is refused; `connect` then has nothing to repeat and waits on.
- `wait_for_ack` and `wait_initserver` drop commands that arrive meanwhile.

Client library:

- After `disconnect()` a server stop that arrives first lets the connection come
  back (`DisconnectIsFinal`).
- A change of the own mutes that is sent before the own client is in the book is
  lost there, since the server's echo is ignored for the own client (`MutesKept`).
- A timeout gives no `AudioChange` items, a server stop does; a user has to take
  `DisconnectedTemporarily` for one (this is how `AudioEventsSuffice` is stated).
- `InitserverTimeout` does not count as a timeout when reconnecting, and a request for
  a better identity loses the reconnect flag: later timeouts then end the stream.
- Canceling an identity increase does not stop its thread (`lib.rs:645`): the new identity is
  stored and used to connect all the same (`CancelKeepsIdentity`).
- A return code is a `u16` that is incremented without wrapping: a debug build panics
  after 65536 commands on one connection.
- An error in a later part of a command keeps the changes of the earlier parts and
  drops their events (`lib.rs:1503`).
- A caller of `sync.rs` that waits across a reconnection can get the answer to another
  request with the same handle (`AnswersAreOwn`); a failed upload can answer an old
  download; `disconnect` while connecting does nothing and its caller waits for the
  end of the stream.
- Audio: the `debug_assert` in `get_next_data` fails for a packet exactly at the limit; a
  packet that arrives after its talker was removed starts the talker again.

Parsers and book:

- A new C2S whisper (`C2SWhisperNew`) without sound is written with 13 bytes of content
  but refused below 14; the numbers of channels and clients of a whisper are written as one
  byte (`packets.rs:1158`), so that with 256 or more of them the targets are read as sound; an invalid codec in a C2S packet of 3 or 4 bytes panics while
  the error is made (`content[4]`); `into_c2sinit` names the wrong byte as the step.
- A TS5 block with properties is refused when it is the last one of a chain, since the
  end of a property is compared with `>=`; `Website` and `Code` blocks can be built
  but not parsed; empty data panics in `parse_internal`.
- The number of clients that is written into a TS5 license block is refused when read
  (`MaxClientsReadBack`): the length field counts two bytes more than `get_properties` expects
  (`license.rs:786`, `528`).
- A command whose name is followed directly by `|` has no name.
- `away_cu_fun` ignores a new message that comes with `is_away` when the client is away
  already; `channellist` and `channeledited` treat a family limit out of range
  differently.

## 8. Plan

Modelled: every part that has state of its own, except statistics. Proved: the
safety properties of all runs but that of `codec`, of which commands, the keys of license
chains and what is accepted as a chain, and all refinements. Left:

1. `CommandLink`: `AckedWereReceived` across wraparounds, with a backlog of less than half of
   the ids and acks that are at most that old.
2. Packets and the license builder, for data of any length.

## 9. Running

    tlc -config CommandLink_order.cfg CommandLink
    tlapm ResenderProofs.tla

and likewise for the runs of `PROJECT.json` and the eight modules of proofs, of which
the largest (`ConnectionProofs`) takes about ten minutes.
