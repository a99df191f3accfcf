# sockety-go in TLA+

Sockety multiplexes messages over one byte stream. A message is a Message packet,
at most one block of data and at most one stream of chunks. Everything that
belongs to one message travels on one of up to 4096 channels; a switch packet
says which channel the packets after it belong to. The specifications in this
directory cover how messages are sent, how they become bytes and packets again,
how the application gets them, how a connection begins and ends, and how a server
listens and closes.

    refines        MessageExchange                       (what a user may rely on)
                         ^
                   MessageDraft ----INSTANCE----> ParserChannel   (the peer)
                         | EXTENDS                     ^ EXTENDS
                   Writer                              |
                         | EXTENDS                     |
                   ChannelManager                      |
                                                       |
    refines        PacketStream -----------------------+  (packets, one after the other)
                     ^        ^ EXTENDS                |
                     |     Delivery                    |
                   Parser ---- EXTENDS ----------------+
                         | EXTENDS
                   PacketCodec

                   MessageBuffer      Conn      Server        (on their own)

Next to a module `X` are `MCX` with its configurations for TLC and, where something is
proved of it, `XProofs` for TLAPS. `MessageDraftProofs` extends `WriterProofs`, and
`ParserProofs` extends `PacketCodecProofs`.

`MessageDraft` shows what packets a sender puts on the wire, `Parser` that its bytes are
read as these packets, `Delivery` that the packets reach an application.

## Inventory

| Component | State | Operations | Hard behaviour | What makes it correct |
|---|---|---|---|---|
| channel manager (`channel_manager.go`) | `current`, `locks`, `released` | `Reserve`, `GetFree`, `SetCurrent`, `Release` | `Release` runs without a lock, in the middle of a search; all channels taken | one owner per channel; a search ends |
| writer (`writer.go`) | `target`, `channels`, `writeMu`, `channeledMu` | `ObtainChannel`, `ReleaseChannel`, `Write...` | several writes of the target per call, two locks, failing target | packets land on the channel they are meant for, frames stay whole, locks are given back |
| message draft, request (`message_draft.go`) | `err`, `finalErr`, wait group, `initiated`, `done` | `pass`, `Send`, `Stream`, `send` | up to three goroutines per message share `err`; early returns; the application writes the stream meanwhile | parts in order on the message's own channel; channel given back at the right time; result tells the truth; it returns |
| stream writer (`message_stream_writer.go`) | `done`, `mu`, `err` | `Write`, `Close`, `Err`, `ReadFrom` | used by several goroutines; failures of `Write` and `Close` differ | nothing after the end of the stream |
| fast reply (`fast_reply.go`) | none | `pass` | goes around `channeledMu` | does not tear frames |
| parser, parser channels (`parser.go`, `parser_channel.go`) | selected channel, per channel the message, its data and stream | `Read`, `InitMessage`, `Process...`, `EndStream` | packets of all channels interleaved; data and stream end in any order | refuses nothing the writer sends, idle again when the message is complete |
| message data and stream (`message_data.go`, `message_stream.go`) | `buf`, `bufOffset`, `wrote`, `done`, `mu`, `ch` | `push`, `close`, `Read` | readers and parser concurrently, a wakeup that reaches only who is waiting | every byte once and in order, then EOF |
| connection (`conn.go`) | context, `readDone`, `closed`, `done`, `messages` | `NewConn`, `Close`, `handle`, `watchEnd` | three ways to end that race; delivery to an application that may not receive | channels closed once and last; every end is noticed |
| server (`server.go`) | `listener`, `connCh`, context | `ListenContext`, `Close`, `Accept` | closing while connections are handed over, listening again | no connection to a closed channel; Accept tells the truth |
| delivery (`conn.go` with the parser and the buffers) | the message that is delivered, `messages` | `handle`, a receive, a handler | handle reads nothing while it delivers; a handler waits for bytes behind the next message | with enough handlers nobody waits for good |
| header and negotiation (`protocol_utils.go`, `parser.go`, `conn.go`) | channel counts | `createProtocolHeader`, `ReadHeader` | widths: one byte, two bytes, none | neither side uses a channel the other refuses |
| packet encoding (`packet.go`, `byte_utils.go`, `protocol_utils.go`) | none | size classes, flags | boundaries of 8, 16, 24, 32, 48 bits | what is written is what is read |
| byte-level readers (`stream_reader.go`, `message_reader.go`, `buffered_reader.go`) | step, partial fields, ring of bytes | `Get`, `Read`, `Preload` | packets cut anywhere | same result wherever the cuts are |
| done signal, FIFO mutex, buffer pool, cast, dial | | | | used by the above |

How they interact: the application calls `Pass` or `Send`; `send` calls the writer
from its own goroutine, from the one for the data, and the application's
goroutines call it through the stream writer; the writer's locks are all that
orders them. The bytes reach the peer's parser, which runs in the one goroutine
`handle`, gives messages to the application through the channel `messages` and
the bytes after them to the message's buffers. Buffers and connection are shared
between that goroutine and the application's.

## Modules

### ChannelManager and Writer

`ChannelManager` holds the manager's `current` and `locks`; the loop variable of a
search is `scanned`, one for all, because every search runs under the writer's
`channeledMu`. Each round of a search is one step (`TryNext`, or `Reserve` and
`GetFree` for the round that succeeds), since `Release` can hit in between. The
field `released` is nil for ever: nothing is sent on it and nothing received,
which is why `Release` only frees the lock and a search that has tried all
channels has no step left.

`Writer` has a program counter per goroutine. Where the code can be interrupted
with an effect, there is a step:

| pc | code | action |
|---|---|---|
| `lock` | `channeledMu.Lock()` of every channeled method | `LockChanneled` |
| `search` | the loops of `Reserve` and `GetFree` | `SearchNext`, `SearchReserve`, `SearchFree` |
| `select` | `unsafeWriteAtChannel` to `writeMu.Lock()` | `Select` |
| `switch`, `packet` | the writes of the switch packet and of the packet | `WriteSwitch`, `WritePacket` |
| `payload` | the second write of `WriteExternalWithSignatureAtChannel` | `WritePayload` |
| any of the three | a write that returns an error | `WriteFails` |
| `standalone` | `WriteStandalone` and `WriteRaw` | `WriteStandalone` |
| `release` | `ReleaseChannel` at the end of two methods | `ReleaseOwn` |

A step that ends in an unlock or a return includes it. One write of the target is
one step: `net.Conn` does not mix the bytes of concurrent writes. A target that
has failed keeps failing (`Break`, once), as a socket does; a target that fails
once and then works is outside the model. `wireChannel`, `wireFrame` and `torn`
record what the peer would see; the code has no such state.

The actions `Call...` are what a caller may do: a caller owns at most one channel,
writes at the channel it owns, and gives it back when none of its goroutines is in
a call that concerns it. The writer does not check any of this, so
`MessageDraft` has to show that `send` obeys (`KeepsWriterContract`, which is
`WriterSpec` as a property).

### MessageDraft, ParserChannel, MessageExchange

`MessageDraft` is `send` and its surroundings. A caller is a message in flight; its
goroutines are `main`, `data` and the application's `Users` of the request's
stream. `send[t]` has the places of `main`, of the goroutine for the data and of
the one that waits for the stream, and the variables `err` and `finalErr` they
share; assigning `err`, testing it and taking it over into `finalErr`, for which
it is read again, are three steps (`DataDone`, `DataTest`, `DataFailed`, and
so on). `sw[t]` is the stream writer of the request, locked (`mu`) until the
Message packet is out. The steps of the writer are taken unchanged
(`WriterRuns`); a step that puts the last byte of a packet on the wire
(`Completes`) is also the step in which the peer reads it (`PeerReads`). What lies
between, buffers and the network, keeps the order of the bytes and cannot change
what the parser sees.

`ParserChannel` keeps for each channel the message it is receiving and whether
data and stream are still due, as `maybeEnd` sees it, and in `got` the parts each
message was given, each with the message it was sent for. `rejected` is an error of
the parser, or a panic in it. Here a packet is read whole; that the reading in pieces
comes to the same is what `Parser` shows.

`MessageExchange` is what a user may rely on, without channels and goroutines: a
message is given its own parts, Message first, data once, chunks before the end
of the stream and nothing of the stream after it, nothing at all after `send` has
returned, and `nil` only when all parts are there. `ImplementsExchange` is the
refinement.

### PacketCodec, PacketStream, Parser

`PacketCodec` has the layouts as operators. A packet is a sequence of fields, a field
its width in bytes and what it says: a number, a part of a message, or the bits that
are set in a first byte. `Width` counts the bytes of fields, `Bytes` those of packets. `Uint`
cuts numbers to their width. The sender's side
(`createProtocolHeader`, `createSwitchChannelPacket`, `PacketFields` and the size
classes they rest on) and the reader's (`ReadHeader`, `SwitchTarget`, `HeaderLayout`,
`HeaderDataSize`) are translated from different code.

`PacketStream` is what a reader is to make of it: packets, each read whole, that act on
their channel as in `ParserChannel`. What nobody can read is named in `Unreadable`: fast
replies, which `parser.Read` does not implement; sizes of four bytes, for which
`newStreamReaderUint32` has a buffer of three; channels beyond those accepted.

`Parser` reads the bytes. `setup` has the options of both sides and the packets of the
peer, which `Units` lays out with the switch packets its writer puts between them.
`coming` and `available` count the bytes that are not loaded and those in the buffer,
`wire` has what these bytes say. `ParserAssumption` says which setups there may be: options
that the code accepts, packets on channels the peer's writer may use, each with sizes it can
encode, and in an order in which `send` puts them on a channel (`Orderly`: first the message,
then its data, once and as announced, and its stream up to one end; the next message when
all of that is sent). That every peer with this library keeps to this is what
`PeerFollowsOwner` and `PeerAccepts` of `MessageDraft` are about.

| code | actions |
|---|---|
| `NewConn` with `ReadHeader` and `NewWriter` | `ReadProtocolHeader` |
| the loop of `parser.Read` | `SwitchChannel`, `ReadMessage`, `ReadStreamEnd`, `ReadFastReply`, `ReadPart` |
| the unfinished packet at the top of `parser.Read` | `ReadPiece` |
| `loadBytes` | `Take` within each of these, `LoadFails` |

A read of a field is a loop until all of it is there (`buffered_reader.go:104-122`), so
nothing can be seen between the fields of a packet, and each of these is one step. The
code loads only when its buffer is empty (a read first takes what there is), so the
position in the buffer does not matter and a load brings at most `setup.buffer` bytes.
A load brings as much as it can, or leaves a number of bytes out of `Cuts` behind what
was waited for; the latter at most `MaxShort` times. `sub` is the limited reader.
`missing` is what `messageData.push` compares sizes with. `actions` and `damaged` follow
the buffer behind `message.Action()`: the string points into the reader's buffer
(`byte_utils.go:45-48`), so the next message on the channel overwrites it, unless `append`
has moved the buffer to grow it.

`ImplementsPacketStream` is the refinement; the mapping is the identity, since `Parser`
keeps `sent`, the packets that are not read. A Data packet counts as read with its
last piece. What is behind `Fits` (a header that does not fill its packet) is never reached.

### Delivery

`PacketStream` with a peer that sends messages over several channels, `handle` and an
application. `item` is the message `handle` is delivering; while there is one it reads
nothing. `pool` is the set of handlers, each of which receives a message and reads data
and stream to EOF before it receives the next. `push` never waits, so the order in which
it reads them makes no difference, and it is through when the parser is (`Open`).
Chunks change nothing here and are left out.

### MessageBuffer

`messageData` and `messageStream` in one module, told apart by `kind`: they share
`push` and `Read` but end differently. Bytes are numbered in the order they are
sent, so order and loss can be seen. What the code does under `mu` is one step.
A `Read` that finds nothing hands `mu` to a goroutine that unlocks it (`Unlock`)
and goes on to wait at `ch` (`Park`); between the two, `push` wakes nobody. EOF of
a stream leaves `mu` locked, as `message_stream.go:56-58` does.
A piece that exceeds the announced size of data does not occur: the sender in
`MessageDraft` announces what it sends.

### Conn

`at` begins in `NewConn`: `WriteHeader`, then `ReadHeader` or `ReadHeaderFails`. It looks at
no context and has no timeout, so a peer that stays silent (`PeerSendsHeader` never
happens) keeps it; when it fails nobody closes the transport. Writing the own header does not
wait for the peer: three bytes at most fit into the buffer of a socket, which is what `Dial`
and the server connect (a `net.Pipe` would wait). The connection exists, and
`Close` can be called, after `ReadHeader`.

`todo[g]` is what goroutine `g` still has to do to end the connection: the bodies of
`Close`, `markConnectionAsClosed`, `markReadAsDone` and `markAsDone` as a list of
atomic actions. Firing a `DoneSignal` is one swap; who fired `closed` goes on to
`markAsDone` (the second half of `closed.Close() && closed.Load()` always holds),
who fired `readDone` looks at `closed` first. `markAsDone` closes three channels one after
the other, in one step here, since nothing is ever sent on two of them. `handle` is a loop with a step for the
`select`, the read, the test of `done` and the delivery. A panic in any goroutine
ends the program: `panicked` stops everything.

### Server

The `n`-th `ListenContext` makes listener, context and channel `n`, so that the three
fields can be compared. `listenerMu` orders `ListenContext` and `Close` and nobody else:
`Accept`, `Done`, the loop and `handleClose` read the fields whenever they come to it,
and even `ListenContext` starts its two goroutines after it has given the lock up. So
each access of a field is an action:

| code | actions |
|---|---|
| `ListenContext` | `Listen`, `ListenChannel`, `ListenFails` or `ListenOpens`, `ListenStores`, `StartWatcher`, `StartLoop` |
| `Close` | `CloseListener`, `CloseContext`, `CloseForgets` |
| `handleClose` | `WatcherWakes`, `WatcherCloses` |
| `acceptConnections` | `LoopCheck`, `LoopLoad`, `LoopEnds`, `LoopFails` or `LoopAccepts`, `LoopConnects`, `LoopPanics` |
| `Accept` with `Done` and `Next` | `Accept`, `AcceptDone`, `AcceptNext`, `AcceptClosed`, `AcceptNothing` or `AcceptConn` |

A call that only returns an error without a change ("already listening") is no step.
`NewConn` is one step that succeeds, fails or never comes; the connection itself is `Conn`.
`connCh` has no buffer, so a connection is handed over in one step of two goroutines.

## Runs

Bounds: two messages (or callers) are the smallest number that can get into each
other's way, and every property is about one message, one channel or a pair of
them. Two channels make the wire switch, make a search pass a taken channel
and, with two messages, never run out; one channel makes it run out. One chunk
per stream puts a packet between the message and its end, which is what another
user of the stream can get in the way of. Two readers compete for one wakeup. Six bytes in
pieces of one to three, read one or two at a time, put a Read before, at and after
the end of a piece. Three items put the connection into each place with and
without a full buffer. Two listenings are the smallest number for one to meet what another left
behind, two operators let a `Close` come before a `ListenContext` has started its
goroutines; one client can be in the loop when the listening ends. `Parser` reads three
messages: two on one channel, so that the second meets what the first left, and one on
another channel in between. It takes every order of their packets with small sizes and a
buffer of 16 bytes, the smallest allowed; every pair of channel counts around the limits
of their encodings; and sizes around 2^8, 2^16 and 2^24. Two short loads can shift the
cuts by one byte or three and again. `Delivery` needs three messages for two handlers
to wait for two of them while the third is delivered.

| Run | Instance | Distinct states | Shows |
|---|---|---|---|
| `MCWriter` | 2 callers of 2 goroutines, 2 channels, target may break | 1,195,000 | `WriterTypeOK`, `ExclusiveReservation`, `PacketOnRightChannel`, `ChanneledFramesIntact` |
| `MCMessageDraft` | 2 messages of all 6 kinds, 2 channels, 1 user, fair | 327,000 | `TypeOK`, `PeerFollowsOwner`, `PeerAccepts`, `NeverOutOfChannels`, `KeepsWriterContract`, `ImplementsExchange`, `EverySendSucceeds`, and no deadlock but with everything sent |
| `MCDraftBreak` | 2 messages with data or stream but not both, 2 users, target may break, fair | 245,000 | `PeerAccepts`, `SuccessMeansSent`, `ReleasedUnlessMessageFailed`, `KeepsWriterContract`, `ImplementsExchange`, `ReturnsUnlessCloseFailed` |
| `MCConn` | any peer, 2 calls of `Close`, buffer of 0 or 1, 3 items, transport may break, fair | 57,000 | `TypeOK`, `ChannelsCloseLast`, `NewConnReturns`, `ContextEndsConnection`, `HandleEnds`, `PeerEndsConnection` |
| `MCMessageBuffer` | data and stream of 6 bytes, 2 readers, fair | 3,300 | `TypeOK`, `NothingLost`, `EOFIsLast`, `EverythingIsRead` |
| `MCServer` | 2 operators, 2 listenings, 1 client, 1 caller of `Accept`, fair | 1,001,000 | `TypeOK`, `ListeningIsWhole`, `ChannelsClosedByEnded`, `NothingOnlyAtTheEnd`, `ClosedComesToRest` |
| `MCParser` | 165 setups of counts, orders, sizes and buffers | 52,000 | `TypeOK`, `RefusesOnlyUnreadable`, `WriterWithinPeer`, `ActionKeptUntilReuse`, `ImplementsPacketStream` |
| `MCDelivery` | 3 messages of all 4 kinds, 1 or 2 channels, 1 or 2 handlers, buffer of 0 or 1, fair | 686,000 | `TypeOK`, `HandledIsWhole`, `EverythingHandled` |
| `MCOutOfChannels` | 2 messages, 1 channel | | violates `SearchEnds` |
| `MCLostError` | 1 message with data and stream, target may break | | violates `SuccessMeansSent` |
| `MCConnPanic` | no buffer, one item | | violates `CancelledWithoutPanic` |
| `MCChannels256` | 256 channels accepted | | violates `EveryCountUnderstood` |

Deadlock is checked in `MCMessageDraft` and the runs of `Conn`, `Parser` and `Server`, where
an action without effect marks the states in which the system may stop. It is not
in `MCWriter` and `MCOutOfChannels` (a search that has found no channel),
`MCDraftBreak` and `MCLostError` (a send whose `Close` has failed, and the users of a
stream whose message has failed), `MCMessageBuffer` (all is read) and `MCDelivery` (all is
handled, or fewer handlers than channels wait for good).

### What the four violated runs show

* `MCOutOfChannels`: `channel_manager.go:69` says the search waits "until some channel
  will be released". `released` is never made, so it waits for ever, holding
  `channeledMu`. With the default of 4096 channels it takes that many messages in
  flight, with `WriteChannels: 1` it takes two.
* `MCLostError`: `send` returns `nil` for a message whose data did not get out, because
  the goroutines for data and stream share one `err`. Messages with only one of the two
  are safe (`MCDraftBreak`).
* `MCConnPanic`: a connection that is closed while `handle` delivers a message dies of
  a send on a closed channel; `conn.go:191` promises to cancel. `handle` tests `done`
  before it sends, but the channel may be closed in between, or while the send
  waits for a receiver.
* `MCChannels256`: a side that accepts 256 channels announces `byte(256)`, 0. Its peer's
  `NewWriter` takes 0 for unset and uses 4096 channels, and the first packet beyond the
  256th ends the connection with a panic. All other counts are negotiated properly
  (`MCParser`).

Other things that do not hold have no run because no text of the repository claims
them: `FramesIntact` in `Writer` (the payload of an external frame is written
without `writeMu`, so a `WriteStandalone` can land between header and payload), and
EOF for every reader of a stream (the first one leaves `mu` locked). An action does not
stay what it was when another message comes on the same channel (`damaged` in `Parser`),
and a packet of 2^24 bytes or more panics the receiver. An application with fewer handlers
than the peer has channels may come to rest with everyone waiting: with one handler, which
waits for the data of a message while `handle` waits for a receiver of the next one. In
`Server`:

* `Close` of a server that is not listening panics: line 171 dereferences the pointer that
  line 172 compares to nil;
* a connection that is handed over while `handleClose` closes the channel ends in a
  panic (`LoopPanics`);
* after a second `Listen`, `handleClose` of the first one may close the new channel, which
  is then closed twice (`ChannelsClosedByEnded` says that there is no other way to this, and
  that no channel is closed by a listening that has not ended);
* a client that connects and stays silent keeps the loop in `NewConn`, after `Close` as well;
* a context that is cancelled by the parent closes the channel but not the listener,
  so the next client can make the loop send on the closed channel;
* a `Listen` that fails leaves a channel that is never closed and a context that is never
  cancelled, which an `Accept`, or the loop of an earlier listening, may wait for.
  `ClosedComesToRest` has these two, the silent client and the loop whose channel was missed by
  its `handleClose` as its only exceptions; TLC shows that it fails without any one of them;
* `Accept` may return neither a connection nor an error (`AcceptNothing`), on a server
  that never listened half of the time.

## Fairness

* Goroutines (`MainStep`, `DataStep`, `WaiterStep`, `WriterRuns`, `handle`,
  `watchEnd`, `Unlock`): weak fairness, the Go scheduler runs what can run. For the
  mutexes weak fairness is enough in these instances: a finite number of calls
  contends for them; that a contended `sync.Mutex` is handed over in order after
  a millisecond would justify more.
* `UserStep`: the application that asked for a stream writes and closes it.
* In `Conn`, whether the peer sends its header, `Close` is called, the parent context cancelled or the peer gone is
  not fair; `NewConn` and a `Close` that have begun go on. Only `PeerEndsConnection` assumes an
  application that keeps receiving (`KeepsReceiving`), as the examples and benchmarks
  do with a `range` over `Messages()`.
* `Server`: what was begun goes on. Nobody has to connect, to call or to cancel, a client
  that has connected may stay silent (`LoopConnects` is not fair),
  and `listener.Accept` returns only when the listener was closed.
* `Delivery`: the peer sends the rest of what it has begun (`EverySendSucceeds` of
  `MessageDraft`), and `handle` and the handlers go on. `Parser` has no fairness: it is
  about what is read, not when.
* `MessageBuffer`: the peer sends what it announced and readers keep reading.

## Proofs

The theorems hold for every value of the constants that the named assumptions of the
modules allow: at least one channel (`NewWriter` validates it), the model values for
nobody, no message and no goroutine different from those they stand beside, bounds that
are numbers, channels that are numbers. Further hypotheses are in the theorems and named
below. In each module one invariant is inductive; it was checked by TLC on the instance of
the module's run before it was proved. There is one lemma per action or per group of
actions with the same effect, `...Init` and `...Next` put them together, and the theorems
follow.

### WriterProofs

`WriterTypeCorrect`, `ReservationIsExclusive`, `PacketsStayOnTheirChannel`,
`FramesAreNotTornByChannels`: the four invariants of `MCWriter`, for every number of
channels, callers and goroutines per caller, whether the target may break or not.

None of the last three is inductive. `Inv` adds:

* `ChannelInv`, `AloneInv`: who owns which channel. A goroutine in a call at a
  channel belongs to the caller that owns it, and a goroutine whose call changes
  the owner is alone at that channel. Without it a release could take the channel
  from under a write.
* `LockInv`: who holds which lock in which place. `channeledMu` is held by
  whoever is between `search` and `payload`, so there is one of them, and
  `writeMu` between `Select` and the packet.
* `CallInv`: which place goes with which method.
* `FreeInv`: the channel that `Write` found free stays free, because reserving takes
  `channeledMu`.
* `WireInv`: as long as the target works, `wireChannel` is `current` whenever nobody
  is about to write the switch packet, and the open frame on the wire belongs to the
  one in `payload`.

### MessageDraftProofs

For every number of messages, channels, users of a stream and chunks:

* `SendKeepsWriterContract`: every step of `send` and its goroutines is a step of `Writer`
  or leaves it alone, so what is proved of `Writer` holds here. Indeed `DraftInv` takes
  `Inv` in as it is.
* `PeerIsWithOwner` and `PeerAcceptsEverything`: the peer is in the middle of a message on
  a channel only while the message owns it, and refuses nothing. Whether a channel may be
  given back depends on three goroutines, so the invariant has to say where they can be
  together (`PlacesInv`), in which call of the writer (`OpsInv`), when the message has a channel
  (`OwnsInv`), and then, in `PeerInv`, what the peer has on each channel as a function of the
  places of its owner (`DataDue`, `EndDue`): the data can be written before or after the end of
  the stream, and `maybeEnd` makes the channel idle with the later one.
* `SuccessIsSent`, `SendImplementsExchange`: a result of nil is true, and the refinement of
  `MessageExchange`, step by step. Both have the hypothesis `NoLostError`: the target does
  not break, or no message has both data and stream. Without it they do not hold, as
  `MCLostError` shows. `LostInv` follows an error from the call to the result; `BeforeInv` says
  that the peer has nothing that is not written yet.
* `ReleasedOnceStarted`: only a Message packet that failed leaves a channel reserved.
* `SearchFindsChannel`: with no more messages than channels no search comes back to where it
  began (hypotheses: finitely many callers, at most as many as channels). `SearchInv` counts the
  reserved channels that a search has still to come across; a release in the middle of
  the search only lowers the number.

### ConnProofs

`ChannelsAreClosedLast`, for any number of goroutines that call `Close`, and
`ConnTypeCorrect`. `ListInv` says in which order a goroutine does what it has to do to end the
connection, `SignalsInv` what a signal that has fired stands for. That the channel is not
closed twice rests on the swap of the last signal, after which one goroutine at most
is about to close it.

### MessageBufferProofs

`NothingIsLost`, `EOFComesLast` and `BufferTypeCorrect`, for data of any size, cut into any
pieces, and any number of readers of any buffers. The bytes are numbered, and `NothingLost` says
of each position what is there, so no sequence has to be flattened. Each theorem needs the
others: EOF comes with an empty buffer, which means that all was read only
if nothing was lost.

### ServerProofs

`ListeningStaysWhole`, `ChannelsStayWithEnded`, `NothingOnlyWhenClosed` and `ServerTypeCorrect`, for any
number of operators, listenings, clients and callers of `Accept`. `MuInv` and `FieldsInv` are what
`listenerMu` is worth. What is done without it needs `NumbersInv`, `MadeInv`, `StartingInv` and
`GivenInv`: every listening has a context, a channel, a watcher and a loop of its own, whoever
reads the fields later. `CallsInv` is what an `Accept` has loaded.
That a channel is closed by a listening no later than its own needs `LaterInv`: whoever loads
the field finds no channel older than its own listening. `EndedInv` says that a
`handleClose` that has woken up belongs to a listening that has ended, whichever context it was
given, and `ChannelsInv` who has closed each closed channel.
`NothingOnlyWhenClosed` is an action property from the same invariant.

### DeliveryProofs

`HandledStaysWhole` and `DeliveryTypeCorrect` (which includes that nothing is refused), for any
number of channels, messages, handlers and packets on the way. `Left` says which parts of a message are
still to be read, `WireInv` in which order packets of one message and of one channel can lie on
the way, `UsingInv` how they relate to the message the peer goes on with, `ChannelInv` what
the reader's channel awaits. A handler is through when its message is not on a
channel any more, which is not inductive: the proof has to exclude that parts of it are
still on their way (`OpenInv`, `KnownInv`).

### PacketCodecProofs

Lemmas that say, for every number and packet, that what is written is what is read: the header
announces its count unless that is 256 (`HeaderUnderstood`), a switch packet leads to its
channel (`SwitchUnderstood`), and the fields of a Message, Data, chunk, end or fast reply
packet have the layout that the reader finds for their signature, with the sizes that were
written (`MessageFields`, `PartFields`, `EndFields`, `FastReplyFields`).

Widths, bytes and the sequence of units are recursive functions. That `Total`
and `FlattenSeq` are what their equations say, and go on with the rest of a
sequence when its first element is taken away, is proved by induction in the form that a nonempty
set of numbers has a least element (`LeastNumber`, from the library's theorem on
well-founded relations, which takes a set and no operator).

### ParserProofs

For any peer that runs this library, that is for all setups that `ParserAssumption` allows, any
number of packets, buffers of any size and loads that end anywhere:

* `ParserImplementsPacketStream`: the refinement, step by step. Whatever pieces they come in,
  packets are read whole, in order, on the channel they were sent on, and refused only where
  `PacketStream` says so.
* `OnlyUnreadableRefused` and `WriterStaysWithinPeer`: with every count of channels except 256,
  for which `MCChannels256` shows that they cannot hold. The hypothesis speaks of the side that
  announces: `channels` of this side for what it refuses, `peerChannels` for what its writer uses.
* `ActionKept` and `ParserTypeCorrect`.

None of this is inductive by itself. `Inv` adds:

* `WireOK`: what is on the wire is exactly what the peer's writer puts there for the packets that
  are not read, starting from the channel the reader is at: after the header (`AtHeader`), between
  packets (`AtPacket`), or in the middle of one (`InPacket`), whose header is then gone.
* `BytesOK`: the bytes in the buffer and those to come are the bytes of that and of the rest of
  the packet that is read. Without it a step could run out of bytes, or leave some.
* `SentOK`, `ChannelOK`: `sent` is what is left of the setup's packets; a channel awaits data or
  the end of a stream if and only if a message among those that are read has it due (`Due`), and
  `missing` is the size it announced, less what has come of the piece that is read. From `Orderly` it
  follows that there is one such message per channel and that the next packet is one of
  its parts.
* `HeldOK`, `DamagedOK`: which packets the actions in the readers' buffers come from.
* `RefusedOK`, `NegotiatedOK`: why a packet was refused, and what the writer was made with.

### Only model-checked

* Liveness, since it takes fairness and ENABLED.
* The four properties that are violated, each on an instance.

## Not modelled, and what comes next

* `Dial`, the buffer pool and the casts have no state of their own; examples and
  benchmarks are clients.
* Responses, files, GOAWAY, Abort, heartbeat and timeouts are not implemented in the code
  (`TODO`, or an error in `parser.go`).
* The paths of the readers that need a peer other than this library: a header that does
  not fill its packet (`ErrNotReady`, and the steps of `messageReader` that are resumed),
  counts of channels above 4096, unknown signatures, data beyond its announced size.
* The byte order of numbers and the values of the bit masks.

To be done, in this order:

1. `Multiplexer`: an abstract specification of the writer (each packet goes out
   whole on its owner's channel), implemented by `Writer`.
2. That the packets of `MessageDraft` are `Orderly`, as a theorem about both modules; so far
   it is the peer of `MessageDraft`, which reads as `Parser` does, that accepts them.
