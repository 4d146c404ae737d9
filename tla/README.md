# A TLA+ model of rust-socketio

This directory holds TLA+ modules that model the two crates of this repository,
`rust_engineio` (`engineio/`) and `rust_socketio` (`socketio/`), the TLC
configurations that check them on small instances, and proofs for TLAPS. The
models are translated from the code; `PROJECT.json` names, for every
definition, the lines it stands for, and below every property the mutant of the
code that it catches.

## 1. The system and its parts

    application threads          the poll thread
          |                           |
    Client (reconnect)  --RwLock--> Client::poll_callback: loop over Iter
          |                           |
          +------- RawClient ---------+      on, on_any, outstanding_acks (mutexes)
                      |
                  Socket (socket.io)         connected, frames and attachments
                      |
              engine.io Client / Socket      connected, remaining_packets
                      |
              TransportType                  polling | websocket | secure websocket

Everything below `Client` is `Clone` with its state behind `Arc`s: any number of
threads may be inside any of these boxes at the same time. Callbacks are the
second way in: a callback gets a clone of the client and may call it while the
call that runs the callback is not over.

The feature `async` builds the same boxes once more over tokio, in code of its
own. There the packets are a stream made by `try_stream!` generators behind a lock,
threads are tasks, callbacks are async functions, and there is no reconnect:

    tasks of the application      the task that connect() spawns
          |                           |
    Client (socket.io) -------- Client::as_stream: next() until None
          |                           |
        Socket ----------------- StreamGenerator: packets with attachments
          |                           |
    engine.io Client ----------- StreamGenerator: packets, Pongs
          |                           |
    Mutex<AsyncTransportType> -- the payloads of polling or of a websocket

| component (source) | state | operations | what is hard | what makes it correct |
|---|---|---|---|---|
| engine.io Socket and Client, sync (`engineio/src/socket.rs`, `client/client.rs`) | `connected` (atomic), `remaining_packets` (RwLock), the transport | `connect`, `emit`, `disconnect`, `poll` with the dispatch by PacketId | check of the flag and send are not atomic; a poll in progress while another thread closes or polls; a bad packet in a batch; failing Pongs | each packet once, in order, none lost silently; Pings answered; closing ends iterations and frames |
| engine.io packets, payloads (`packet.rs`) | none | encode, decode, split at 0x1e | one bad part fails the batch; base64 and plain frames | decode(encode(p)) = p |
| handshake and transport choice (`ClientBuilder`) | url with sid, handshake | `build*`, probe and upgrade | fallback after a half-done upgrade | one session per client |
| transports (`transports/`, `async_transports/`) | base url, sender and receiver locks | `emit`, `poll`, `upgrade` | binary frames are marked differently per transport; no timeout | what is emitted is what the peer decodes |
| socket.io Socket, sync (`socketio/src/socket.rs`) | `connected`, engine client | `connect`, `disconnect`, `send`, `poll` with attachments | header and attachments are separate frames | a packet gets its own attachments |
| socket.io packets (`socketio/src/packet.rs`) | none | encode, decode | u8 count of attachments, optional parts | decode(encode(p)) = p |
| RawClient (`raw_client.rs`) | `on`, `on_any`, `outstanding_acks` behind mutexes | `emit`, `emit_with_ack`, `disconnect`, `poll`, `callback`, `handle_ack` | callbacks under locks; removal by index; random ids; timeouts; poisoned locks | no deadlock; each ack is called once and in time; only answered acks are removed |
| Client with reconnect (`client.rs`, `builder.rs`) | RawClient behind a RwLock, backoff, attempts (u8) | `emit`, `emit_with_ack`, `disconnect`, poll loop, `reconnect` | disconnects of the user against the poll thread; which ending reconnects; counting | one live connection; recovery; an end of the attempts; staying stopped |
| engine.io Client, async (`engineio/src/asynchronous/`) | `connected`, the generator behind a lock, the transport behind another | `connect`, `emit`, `disconnect`, `poll_next` of every clone | a generator ends at its first error; a task that finds the generator locked leaves no waker; the generator keeps the transport's lock while nobody polls it; early returns | one ordered stream for all clones; somebody is always woken; Pings answered; the flag is cleared only when the other side knows |
| engine.io ClientBuilder, async | url, handshake | `build*` | written twice | ends where the sync one may end |
| socket.io Client and Socket, async (`socketio/src/asynchronous/`) | `connected`, `outstanding_acks`, `on`, `on_any`, the task | `emit`, `emit_with_ack`, `disconnect`, the stream with attachments, callbacks, the loop of `connect` | the stream fails between attachments; acks called under their lock and removed by index under later ones; the loop reads on behind the end | attachments stay with their packet; acks exact; a lost link is announced; an Ok of `disconnect` is final; no deadlock |
| wrappers, errors, headers, events | none | conversions | nothing | not modelled |

## 2. Plan

1. `EngineSocket` with `PacketStream` (abstract) and their refinement: the core
   that all else runs on. **Done**, with type correctness, three invariants over
   clones and the refinement proved.
2. `RawClient`: callbacks, acks and locks. **Done**, with all but liveness proved.
3. `ReconnectClient`: the poll loop and reconnects. **Done**, with all but
   liveness proved.
4. `SocketFrames`: the socket.io Socket with several threads, attachments, Pings
   in between and failures. **Done**, with all but liveness proved, the refinement
   of `PacketStream` among it.
5. `Handshake`: the builder, the probe, the fallback and the sessions they leave.
   **Done**, with all but liveness proved.
6. `EngineCodec`, `SocketCodec`, composed in `WireTrip`: both codecs against the
   protocol, over both transports. **Done**, with its invariants proved, for all
   texts and payloads.
7. `AsyncEngine`, which implements the `PacketStream` of 1, `AsyncClient` on top
   of what it promises, and `AsyncBuilder` beside 5. **Done**, with all invariants
   of the first two and the refinement proved.
8. Proofs: **done** for every safety property of 1 to 7. What is left to TLC is
   out of the prover's reach: liveness.

`SocketFrames` can later take the place of the atomic receive of `RawClient`.

## 3. The modules

### EngineSocket, MCEngineSocket

One action is one access to state shared between threads. `pc[t]` says where a
thread is; `hand[p]` holds the payload a poller has fetched and not yet parsed,
or the packet it has taken and not yet returned.

| code | action |
|---|---|
| `Iter::next`, `Client::poll` enter | `Poll` |
| `connected.load` at the head of `Socket::poll` | `PollCheck` |
| `remaining_packets` read, written, `iter.next()` | `PollNext` |
| `transport.poll()` | `PollRecv` (error, empty, or a batch) |
| `Payload::try_from`, store of the iterator | `PollParse` |
| the `match` of `Client::poll` | `HandlePlain`, `HandleClose`, `HandlePing`, `HandleUnreachable` |
| `connect`, `emit`, `disconnect` up to `emit`'s check | `Connect`, `Emit`, `Disconnect` |
| `Socket::emit` | `EmitCheck`, `EmitSend`, and what follows in the caller: `AfterEmit` |
| end of `disconnect` | `DisconnectStore` |
| network | `LinkChange` |

Packets are numbers in the order of the transport with a PacketId; a payload part
that does not decode has the id `Invalid`. `received`, `delivered`, `reported`,
`answered` and `late` are history variables: no action reads them for a guard
other than a bound. `last_ping` and `last_pong` are never read by the code and
are left out. The read of `remaining_packets.is_some()` and the write lock after
it are one step, as the value never becomes None again. A callback registered on
the engine.io client runs on a scoped thread that is joined before the call goes
on; whatever it does with a clone is what a user thread may do at that moment.

### PacketStream, EngineSocketStream

`PacketStream` is what a single iteration promises: packets come out once, in
order, and what does not come out belongs to a call that failed.
`EngineSocketStream` maps the socket to it: settled is what is neither left over
nor in the poller's hand. It holds for a single poller (`OnePoller`, a hypothesis of
the theorem and what the run `stream` has): with two, a call that finds
`remaining_packets` empty polls the transport and overwrites what another call
has stored meanwhile, and packets are lost. The async client has one generator
for all its clones, and implements `PacketStream` for any number of them.

### RawClient

`on` and `on_any` are one lock (they are only taken together), `outstanding_acks`
is the other. `body` is a thread inside a callback: the event callback if it owns
`on`, otherwise the ack callback. What callbacks do is given by `OnOps` and
`AckOps`. `handle_ack` is `AckLock`, `AckMatch` (one match, its callback),
`AckReturn`, `AckScanned` (the end of the `for`, where the guard dies), then one
`AckRemove` per noted index, each with its own lock, as in the code. A removal
past the end panics and poisons, as `Vec::remove` does. `asked`, `expired`,
`called` and `inTime` are history.

### ReconnectClient

Connections are numbers. The poll thread is `IterNext`, a `Recv...` action,
`LoopBody`, and when it reconnects `CloseOld`, `Attempt`, `ConnectRaw`, `Swap`.
Users hold the read lock from `Call` to their return, and `Swap` waits for them.
`attempts` is a u8: `Attempt` panics on overflow when `OverflowChecks`, and wraps
otherwise. What the callbacks of a RawClient do is left to module `RawClient`.

### SocketFrames

| code | action |
|---|---|
| `Socket::connect`, `send` with its two checks | `Connect`, `BeginSend`, `SendCheckEngine`, `SendCheckSocket` |
| `Socket::emit`; `RawClient::disconnect`, which sends a Disconnect packet | `Send`; `Disconnect` |
| each `engine_client.emit` | `EmitCheck`, `EmitSend`, and what follows: `AfterEmit` |
| `Socket::disconnect` | `DisconnectSocket`, `DisconnectStore`, `DisconnectFlag` |
| `Socket::poll`, `engine_client.poll()` | `Poll`, `Ask`, a `Receive...` action |
| `handle_engineio_packet`, `handle_socketio_packet` | `HandleHeader`, `HandleAttachment`, `HandleStray`, `HandleControl`, `HandleNone`, `HandleError` |

The engine.io client below is what `PacketStream` promises. A packet is a header
with a number and a size, its attachments carry that number and their place.
Attachments are taken not to decode as packets; what bytes decode to is in
`SocketCodec`. `connect()` is called once, before other threads have the Socket.
Over HTTP polling each frame is a request of its own, so each emit and each poll
may fail by itself and the next one work; a failed emit may have carried its
frame, which then has arrived by the time the emit returns. So the frames of later
packets may follow a torn one. `PacketsReadable` says what is left: with one
sender only the Disconnect packet of a thread that disconnects, which is one frame,
comes between a header and its attachments, and a packet that misses some had its
sender told by an Err (`cut`). With two senders it does not hold, and nothing in
the code says it should. `HandleStray` takes a stray attachment not to decode as a
packet: `PacketsInOrder` needs that, and nothing in the code grants it. `wire`
records the frames of packets and not the control frames.

### Handshake

One call of a build function. `fn` is the function whose body is executed, as
they call each other; `handshake()` is `HandshakeKept`, `HandshakePolled` or
`HandshakeFails`, what each function does with it is `Choose`; `build_websocket`
is `WebsocketOpens` or `WebsocketRefused` and then, with a sid, `upgrade()`
(`Probe`, `Answer`, `Upgrade`), without one `FirstPacket` or `NoFirstPacket`.
`Fail` is the `?` of every step together with the `is_err()` of
`build_with_fallback`, whose second try starts from the builder before the clone
made a handshake. `TwinsAgree` compares what a build comes to with `AsyncBuilder`
below. `Connect` is the Pong that `connect_raw` sends next. The server
is external: `Opens`, `ServerTake`, `ServerControl`, `Expire`. Illegal headers are
unwrapped in the polling transport (`Panic`) and an error in the websocket's. The
secure transport takes the same steps as the plain one.

### EngineCodec, SocketCodec, WireTrip, MCWireTrip

The codecs are operators without state: `Encode`, `Decode` and one operator for
each part the decoder reads. Text is a sequence of characters where the code
looks at characters; a JSON value, an event's name and a placeholder are one
element, and ids keep their digits. Base64 is an injective translation into
letters. `WireTrip` has both sides: the server's messages go through its frames
into payloads or websocket messages (`Answers`), `Poll`, `HandleHeader` and
`HandleAttachment`; `Emit` and `Greet` send what `RawClient` sends. `Text`,
`PacketsFor` and `Carried` are the protocol, written down without the codecs. The
transports, namespaces, ids, attachments and payloads are constants, and ASSUMEs say
what they may be (a namespace begins with a slash and has no comma, an id is the digits
of a number); `MCWireTrip` gives small sets of them.
`Emission` is what a call is to tell the server, by the documentation of `emit()`:
nothing if the data is not JSON, which it says is an error.
Three kinds of calls are left out of the run `codec` by its constants, because the
server does not get what it should: data that is not JSON (`Build` puts it between
quotes and sends it: section 6), a request with binary data (it is
sent as a BinaryAck) and, over a websocket, attachments with the separator in them
(`Socket::poll` splits a binary message like a payload, so that it is torn). With
two attachments only the header and the attachments are
compared: what is left of the arguments is not an event's name.

### AsyncEngine

| code | action |
|---|---|
| `StreamGenerator::poll_next`: lock the generator or return Pending | `PollNext` |
| the transport's stream | `WebsocketNext`, `PollingNext` |
| `Socket::parse_payload` | `Parse` |
| `handle_inconming_packet` | `HandlePlain`, `HandleClose`, `HandlePing`, `HandleUnexpected` |
| `emit(Pong)` inside the generator | `PongLock`, `Write`, `PongReturn` |
| the generator yields, fails, waits, has ended | `Yield`, `Fail`, `Pending`, `PollDone` |
| `connect`, `emit`, `disconnect` | `Connect`, `Emit`, `Disconnect`, then `EmitCheck`, `EmitLock`, `EmitSend`, `EmitReturn`, `DisconnectStore` |
| network | `Arrive`, `LinkChange` |

`at` is where the one generator stands between two polls, `rest` what it has of a
payload, the packet in hand first. `waker` is the single waker that is kept where
the generator waits: each poll replaces it, and a poll that finds the generator
locked leaves none, since the future of the lock is dropped at the end of
`poll_next`. So a task may sleep although there is something to do; what holds is
`SomebodyListens`, and with it that every packet comes out for somebody. `sending`
is the lock on the transport; the generator takes it to answer a Ping and keeps it
over every poll until the Pong is written. Callbacks are spawned and not waited
for, so that what they do with a clone is what a user task does.

### AsyncClient

| code | action |
|---|---|
| `Client::emit`, `emit_with_ack`, `disconnect` | `Emit`, `Request` and `Push`, `Disconnect` |
| `Socket::send` | `SendCheck`, `SendFrame` |
| `Socket::disconnect` | `CloseCheck`, `Close`, `DisconnectStore` |
| `Socket::stream`, `handle_engineio_packet` | `RecvPacket`, `RecvAttachment`, `RecvControl`, `RecvError`, `RecvNone` |
| `handle_socketio_packet`, `callback` | `Dispatch`, `EventBody`, `EventReturn` |
| `handle_ack` | `AckLock`, `AckScan` (and `NextMatch`), `AckBody`, `AckReturn`, `AckRemove`, `AcksRemoved` |
| a callback that panics | `BodyPanic` |

An emit or a request has one frame, or a second one for its attachment (`Frames`).
`at` is where the task of `connect()` is when no callback of it is in a call of
the client; calls of callbacks are that task's `pc`. `on` and `on_any` are locked by
this task only and left out. After the stream has failed (`ended`) or the websocket
is closed the loop asks once more: `try_stream!` in an `unfold` that has returned
None panics, and between attachments an `unwrap()` does (`over`, `torn`); the
comment at `asynchronous/client/builder.rs:347` has the loop restart the poll cycle
there, or terminate. `LossIsHeard` says what the application can count on. The
engine.io client below is what `AsyncEngine` promises: packets in order until an
error ends the stream. An ack callback that requests would wait for the lock it is
called under; `OpsAssumption` leaves it out, as `Discipline` does for the sync client.

### AsyncBuilder

The functions of the async builder as the sets of results they may have, with
`Try` for `?`. `TwinsAgree` compares them with the steps of `Handshake`: whatever
the sync builder comes to, over the same transport, with as many sessions opened
and for the same cause, the async one may come to. They differ for the illegal
headers of a handshake only, which are a panic in the one and an error in the other.

## 4. The runs

| run | bounds | what it shows |
|---|---|---|
| `clones` | 2 pollers, 1 user with 3 calls, 3 packets in batches of up to 2, transport fails and recovers | `EachPacketOnce`, `LateFrameBound` |
| `stream` | 1 poller, 2 users with a call each, 3 packets in batches of up to 3, undecodable parts and an Open | `StreamSpec`, and under fairness `HeartbeatKept`, `IterationEnds` |
| `calls` | poller and 1 user, 2 requests, 2 other packets, 1 disconnect, event callbacks request and panic | `NoWaitCycle`, `AcksKept`, `RemovalExact`, `CallsReturn` |
| `ondisconnect` (violation) | event callbacks disconnect | a callback waits for its own lock |
| `frames` | a sender with up to 2 sends of 1 attachment, a closer, the poller, 2 packets of the server with 0 or 2 attachments, 1 control frame | `OwnAttachments`, `PacketsReadable`, `RefusedAfterDisconnect`, `PacketsInOrder`, `CollectingEnds` |
| `limit` | 2 users, 3 connections, 1 outage, 2 attempts, a server that may stay down | `TypeOK`, `OneLiveConnection`, `CallsUseCurrent`, `ReplacedIsAnnounced`, `AttemptsEnd`, `Recovers`, `ReconnectsOnDisconnect` |
| `builds` | 5 functions, 5 kinds of scheme, 3 sessions, 2 control frames | `NothingRefused`, `OneSessionPerBuild`, `AsAsked`, `BuildReturns`, `TwinsAgree` |
| `codec` | 2 messages of either side, 2 namespaces, 2 ids, up to 2 attachments of up to 2 bytes, 2 transports | `MessagesArrive`, `AllReturned`, `SentAsProtocol` |
| `asyncengine` | 2 tasks that iterate, 1 user with 2 calls, 2 packets in payloads of up to 2, both transports, link that fails, comes back or is closed | `SomebodyListens`, `PingsAnswered`, `StreamSpec`, `ClosedIsKnown`, `AllSettled`, `CallsReturn` |
| `asyncclient` | 1 user with 2 calls, callbacks with 1, 2 ids, emits and requests of 2 frames, 2 packets with up to 1 attachment | `AttachmentsCollected`, `OutstandingExact`, `StoppedIsClosed`, `LossIsHeard`, `CallsReturn` |
| `stopped` (violation) | 1 user, 2 connections | a connection after `disconnect()` |
| `engineclose` (violation) | 2 connections | an engine.io Close is never followed by a reconnect |

Why these bounds: two pollers and batches of two give every race over the
leftovers (one overwrites, one takes); three packets let a batch follow a batch;
three calls of one user give connect, disconnect and connect again while a poll
or an emit is under way. Two requests and two ids give equal and distinct ids and
a removal that moves another ack; two locks admit no cycle longer than two
threads. Three connections give a reconnect that follows a reconnect, with a user
inside a call at each. Two packets with two attachments let the frames of one be
taken for the other's, and a control frame or a failure fall between any two; on
the way out there are a packet that is torn, one behind it, and a Disconnect packet
at any place among their frames. A
build asks for two sessions at most, so three show one too many. Two messages
put a header behind attachments, and a batch boundary at every frame; names,
ids and bytes are as many as the codecs tell apart. In `asyncengine` two tasks are
enough for one to find the generator locked by the other, and two packets for a
Ping in front of a message in one payload or behind it in another; the theorems
cover more. In `asyncclient` the callback's call comes on top of the user's two, so
that three requests can be under way with two ids, equal or not, while acks are
removed. A call with two frames may end after the first as a call with one does, so
`Frames` leaves the latter out of this run, for its size; the theorems have both.

`SYMMETRY` is used in `clones` only, which checks no liveness.
`CHECK_DEADLOCK FALSE` stands where the system may stop: the pollers have
panicked or the users have made all their calls, the poller found the engine.io
client closed, the build has returned, or all messages have arrived.

**Fairness.** Threads are scheduled (weak fairness of each thread's steps), free
std mutexes are taken by somebody who waits, callbacks return, and a blocking
`transport.poll()` returns in time, with a packet or an error: the server pings at
its interval, and TCP reports a dead peer. The last is an assumption about the
environment and not a fact of the code, which has no timeout ("TODO: 0.3.X
timeout?", `engineio/src/socket.rs:130`). In `Handshake` the server takes what arrives, and a
websocket it no longer answers breaks. In the async modules the runtime polls a task
that was woken and no other, a write ends, callbacks return and tasks go on to call
`next()`; servers and links owe nothing, but who reads from a link that is down gets
an error. `ServedSpec`, which only `engineclose`
needs, adds that a server which is down comes up again; nothing else is assumed
of servers, networks and users.

## 5. What is proved

`EngineSocketProofs`, for every set of pollers and users, every choice of what
the server sends and every bound:

- `Typing`: `Spec => []TypeOK`. `TypeOK` is inductive by itself, because it
  says what a poller holds at each place: a payload where it parses, one packet
  where it handles one, nothing elsewhere. Without that part `Head(hand[p])`
  could not be shown to be a packet.
- `LateFrames`: `Spec => []LateFrameBound`. The inductive `LateInv` adds that a
  thread which is about to send (`e_send`) has sent nothing since the flag was
  cleared, and that nothing is late while the flag is set.
- `Once`: `Spec => []EachPacketOnce`. The inductive `OnceInv` says that the
  numbers delivered, reported, left over and in each poller's hand are pairwise
  disjoint, that each sequence is without repetition, and that all numbers are
  at most `received`, which makes new packets new. Each way a packet moves (into
  a hand, from the leftovers to a hand, from a hand to the leftovers, to the
  caller, to the failures) has a lemma of its own.
- `Answers`: `Spec => []PingsAnswered`. The inductive `PingInv` adds that the Pong is
  the last step of the poll that returns its Ping, so that what is answered and what is
  delivered grow in one step.

- `Streams`: assuming `OnePoller`, `Spec => StreamSpec`, the refinement of
  `PacketStream`. The inductive `StreamInv` says that the packets in the poller's hand
  are the next in order, that those left over are behind them, and that none are
  left over while a payload is on its way. A payload that is fetched, a packet that
  is returned and a batch that is given up are then a step each of the abstract
  stream, and every other step a stutter.

They rest on the ASSUMEs of `EngineSocket`: pollers and users are different
threads, the ids are PacketIds or `Invalid`, the bounds are numbers.

`RawClientProofs`, for all threads, ids, callbacks and bounds:

- `LockOrder`: assuming `Discipline`, `Spec => []NoWaitCycle`. `Discipline` says that event callbacks
  do not disconnect and that not both nestings of the two locks occur. The
  inductive `LockInv` says that the owner of a lock is inside the call that took
  it, and that a thread inside the ack callbacks, or inside an event callback,
  waits for the other lock only if the callbacks do what `Discipline` allows. It
  covers ack callbacks that disconnect (locks acks, then on) as well as event
  callbacks that request (on, then acks), which no single run does.
- `Typing`: `Spec => []TypeOK`. `VarTypes` gives the ranges, `InPlace(t)` what holds of a thread
  at each place: who scans the acks owns their lock and is inside the list, a callback
  runs under its lock.
- `Kept`: `Spec => []AcksKept`. The inductive `KeptInv` follows a request: it is
  registered before it is asked; the answer in the hand of the poll thread stays
  registered until it is removed; and the position noted under one lock is still its
  own when others have pushed behind it, because the ids differ.
- `Exact`: `Spec => RemovalExact`, from the same invariant: what is removed is the answered request,
  at a position that exists.

What a push and a removal do to the positions of the others are the lemmas `Appended` and
`Removed`, which the proofs about the async socket.io client repeat.

`SocketFramesProofs`, for all threads, sizes, types and bounds:

- `Typing`: `Spec => []TypeOK`.
- `Refused`: `Spec => []RefusedAfterDisconnect`. The inductive `RefusedInv` adds
  that once a disconnect() has passed the engine.io client that client is closed
  for good, so that the Socket's own flag, which a late Connect packet sets
  again, does not matter.
- `Own`: `Spec => []OwnAttachments`. The inductive `OwnInv` counts: what is
  collected, what is in the poller's hand and what the server still has to send
  of a packet make up its size.
- `InOrder`: `Spec => PacketsInOrder`, the refinement of `PacketStream`. It needs
  `OwnInv`, for the number of the packet that is worked on, and `StrayInv`:
  attachments that come without a header are those of a packet that was given up, so
  that the Err they cause refuses nothing else.
- `Readable`: assuming `OneSender`, `Spec => []PacketsReadable`, for any threads that
  disconnect. The inductive `ReadInv` says that within a packet the last frame the
  sender has put on the wire (`Last`) is the one before the frame it is about to emit,
  and that between packets it is the end of a packet, or of one whose sender has had
  an Err (`Ready`); and that the others have only Disconnect packets to emit
  (`Emits`), so that what they put on the wire changes nothing of that.

`ReconnectClientProofs`, for all users, connections, attempts and bounds:

- `Typing`: `Spec => []TypeOK`, inductive by itself. It has the bound on the attempts:
  one more than `MaxAttempts`, and within a u8 also where the addition wraps.
- `OneOpen`, `Used`, `Told`: `Spec => []` of `OneLiveConnection`, `CallsUseCurrent` and
  `ReplacedIsAnnounced`, all from the inductive `ReplaceInv`. It says which connection
  may be open: the newest one only, and none at all from `CloseOld` until `ConnectRaw`
  makes another; that a user inside a call works on the current connection, which
  `Swap` leaves alone until the call is over; and that a connection which the poll
  thread is about to replace has been announced by its close callback.

`HandshakeProofs`, for any numbers of sessions and control frames:

- The functions of `AsyncBuilder` are sets of results built from each other. The lemmas
  `...Outcomes` give each in closed form; `AsyncBounded` and `AsyncMay` say what can be
  among them and what is.
- `Unrefused`: `Spec => []NothingRefused`, from the inductive `BuilderInv`, which all
  four share. Its part `Moved` says that an Upgrade has moved the session of the
  websocket, or is ahead of every Pong; `Sessions` that no other session has moved.
- `OneSession`: `Spec => []OneSessionPerBuild`. `Counted` adds that a builder with a
  handshake asks for no other, unless it has begun the fallback.
- `Asked`: `Spec => []AsAsked`. `Where` and `Chosen` say which function can be executed
  on behalf of the one that was called, and with which handshake.
- `Twins`: `Spec => []TwinsAgree`. `Ends` says what a build has come to, with `Counted` for
  its sessions; each end is found among the outcomes of the async function.

`AsyncEngineProofs`, for any number of tasks that poll clones (for `Listens` one at
least), tasks that call, packets, payload sizes and calls:

- `Typing`: `Spec => []TypeOK`, by `TypeInv`, which adds `Wakers`: whose waker is kept
  is asleep, and the generator waits where that waker will be used. Without it a wake-up could
  throw a task out of `poll_next`.
- `Listens`: `Spec => []SomebodyListens` from the same invariant: whoever leaves the
  generator has yielded and is awake, has left its waker, or has seen the end.
- `Streams`: `Spec => StreamSpec`, the refinement of `PacketStream`. The inductive
  `Numbered` says that the packets in hand are the next in order; every step then
  is a fetch, a return, a refusal or a stutter of the abstract stream.
- `Answers`: `Spec => []PingsAnswered`. `PingInv` adds that only the packet in hand may
  have a Pong that was sent before it is delivered.
- `Known`: `Spec => ClosedIsKnown`. `CloseInv` says that a user about to clear the flag
  has sent its Close.

`AsyncClientProofs`, for all tasks, ids, callbacks, packets and attachments:

- `Typing`: `Spec => []TypeOK`, inductive by itself.
- `Collected`: `Spec => []AttachmentsCollected`, with the part of `TypeOK` that who collects
  is owed something.
- `Final`: `Spec => []StoppedIsClosed`: a task about to return Ok has found or made the
  engine.io client closed, and nothing opens it again.
- `Exact`: `Spec => []OutstandingExact`. The inductive `ExactInv` follows a request:
  it is in a task's hands, then registered, then asked of the server, then answered
  with the answer in the hands of the polling task (`InHand`), and then gone. That ids differ
  gives that what matches an answer is one request at most, the answered one, so that
  the position noted under one lock is still its own when others have pushed behind it.

The ASSUMEs they rest on say that tasks, `Nobody` and the generator are different,
that bounds are numbers, and which calls ack callbacks make.

`WireTripProofs`, for all namespaces, ids, attachments and numbers of messages that the
ASSUMEs of `WireTrip` allow, and all answers that the packets can be cut into:

- `PayloadRoundTrip`: `DecodePayload(EncodePayload(packets)) = packets` for any packets
  that have no separator in their text; attachments may have it, since base64 hides it.
- `TextRoundTrip`: of `Text(m)` the decoder makes no `Error` but the packet that `m` is to
  be read as, whichever of its parts are there, for the messages of `ServerMessage` (two
  attachments at most). What an array without its placeholders comes to (`Unwrap`) is
  part of it.
- `Arrive` and `Returned`: assuming `Untorn`, `Spec => []MessagesArrive` and `Spec =>
  []AllReturned`. `Untorn` says that the client polls, or that attachments have no
  separator in them. The inductive `Arriving` says that what the client returned is what
  the first messages are read as, and that what is in the hands of the client and of the
  server (`Left`) is what the others consist of: all of it between two messages
  (`Ready`), and behind the k attachments that were collected the rest of the
  message first (`Collecting`). Without the second part nothing would say that an
  attachment goes with the header that is kept.
- `AsProtocol`: assuming `Truthful`, `Spec => []SentAsProtocol`. `Truthful` leaves out data
  that is not JSON, and binary requests. The inductive `Sending` says
  that what has arrived is what `Send` makes of what was emitted; what `Build` and
  `Encode` make of each payload is shown to be the text that the protocol has for the one
  message in its `Emission`.

The codecs are folds over texts (`FoldLeft`, `FlattenSeq`), and what a fold comes to for
every text takes an induction. The library's induction theorems cannot be used, but
`Induction` states the same of a set of numbers: if it were not all of them there would be a
least number outside of it (`NatLessThanWellFounded`, `WFMin`). `FoldOfSeq` and
`FoldIsValue` go from the definition of `FoldLeft` to the recurrence that one element more
makes, and each codec has a lemma of this form (`PayloadGrows`, `BareGrows`,
`Flattened`). Bytes and characters stay those the codecs tell apart: `AttachmentByte`
for attachments, whole elements for JSON.

The hypotheses of theorems are what the code needs, and no ASSUMEs: `OnePoller` and
`OneSender` leave one thread for one role and any number for the others, and without
them the code loses packets, or interleaves the frames of two; without `Discipline` it
deadlocks (`ondisconnect`); without `Untorn` and `Truthful` messages are torn, or are
not what was emitted. Each holds in the runs that check the same property, where the
constants say so.

Only model-checked: all liveness, which needs ENABLED: `HeartbeatKept`, `IterationEnds`,
`CallsReturn`, `CollectingEnds`, `AttemptsEnd`, `Recovers`, `ReconnectsOnDisconnect`,
`BuildReturns`, `AllSettled`, `LossIsHeard`.

## 6. Where the code and its documentation disagree

1. `ondisconnect`: an event callback that disconnects the socket it was given
   hangs the client. The same happens to an ack callback that emits with an ack.
2. `stopped`: after `disconnect()` the client may connect again.
3. `engineclose`: the error that should make the client reconnect does not.

One more needs no run of its own, as it shows at the first step: `emit()` of data that
is not JSON is to return an `InvalidJson` error (`socketio/src/socket.rs:73-74`;
`raw_client.rs:86` asks for valid JSON, too), and the async client does. The sync client
puts it between quotes and sends it, and the event is not even JSON if there is a quote
in it. With `"bare"` or `"quote"` in `Payloads` of `WireTrip_codec.cfg`,
`SentAsProtocol` is violated by the first `Emit`.

Known from the models and without a run of their own: a sync client that is polled
through two clones drops packets (`PacketStream` above), a binary message over a websocket
that has the byte 0x1e in it is torn (`WireTrip`), the Disconnect packet of `disconnect()`
may land between the header and the attachments that another thread sends, and over
polling frames may follow a packet that an Err has torn (`SocketFrames`), and the loop
of the async `connect()` panics where its comment has it restart or terminate
(`AsyncClient`).

## 7. Not modelled

TLS, HTTP and websocket libraries are external; a call of theirs works or fails,
and a response comes in one chunk (the async polling takes every chunk for a
payload). Durations: timeouts elapse at any time, sleeps take any time. Of the async
clients: a future that is dropped half way (a cancelled `emit` or `disconnect`),
the order in which spawned engine.io callbacks run, and another iteration over the socket.io
client beside that of `connect()`. The width of ids and the JSON of the handshake,
headers but for their legality, registration of callbacks before connecting, errors'
texts, logging, examples and benches are left out.
