---------------------------- MODULE AsyncEngine ----------------------------
(***************************************************************************)
(* The asynchronous engine.io client: Client of asynchronous/client/       *)
(* async_client.rs and Socket of asynchronous/async_socket.rs, whose       *)
(* packets come out of generators behind a lock (generator.rs).            *)
(*                                                                         *)
(* Pollers are tasks that loop over next() of a clone.  poll_next() takes  *)
(* the lock, runs the generator until it yields, ends or has to wait, and  *)
(* lets go: a task that waits has left its waker where the generator       *)
(* waits, over the one that was there; a task that finds the lock taken    *)
(* has left none.  The generators below that of the Client are only        *)
(* polled with its lock held and are one with it.                          *)
(*                                                                         *)
(* Users are tasks that connect, emit and disconnect.  The transport is    *)
(* behind a lock that is kept while a frame is sent, also by the generator *)
(* when it answers a Ping and nobody polls it on.                          *)
(***************************************************************************)
EXTENDS Naturals, Sequences

CONSTANTS
    Pollers, Users,
    ServerIds,      \* what the server sends; "Invalid" does not decode
    MaxPackets,     \* bound: packets of the server
    MaxBatch,       \* bound: packets in a payload of HTTP polling
    MaxCalls        \* bound: calls of each user

PacketId == {"Open", "Close", "Ping", "Pong", "Message", "MessageBinary", "Upgrade", "Noop"}
Nobody == "nobody"
Generator == "generator"

ASSUME TasksAssumption ==
    Pollers \cap Users = {} /\ {Nobody, Generator} \cap (Pollers \cup Users) = {}
ASSUME ServerIdsAssumption == ServerIds \subseteq PacketId \cup {"Invalid"}
ASSUME BoundsAssumption == MaxPackets \in Nat /\ MaxBatch \in Nat \ {0} /\ MaxCalls \in Nat

VARIABLES
    kind,        \* the transport: "polling" or "websocket"
    link,        \* "up", "down", or "closed" by the server
    incoming,    \* the next payload that the transport has, <<>> for none
    connected,   \* Socket.connected
    at,          \* what the generator does
    rest,        \* what it has left of a payload, the packet it handles first
    holder,      \* the poller inside poll_next()
    waker,       \* the poller that is woken when the generator can go on
    sending,     \* who has the lock of the transport
    pc, out,     \* of each task; of each user, the packet it emits
    calls,       \* of each user, so far
    taken,       \* packets taken off the transport
    delivered,   \* the packets next() has returned, in order
    reported,    \* the numbers of those that went with an Err
    answered,    \* the numbers of the Pings whose Pong was sent
    closed       \* TRUE once a Close was sent or received

network == <<kind, link, incoming>>
users == <<out, calls>>
packets == <<taken, delivered, reported>>
vars == <<network, users, packets, connected, at, rest, holder, waker, sending, pc, answered, closed>>

Packet == [n : Nat, id : PacketId \cup {"Invalid"}]
Places == {"payload", "parse", "packet", "pong_lock", "pong_send", "pong_sent", "pong_failed", "done"}
PollerPC == {"awake", "polling", "asleep", "over"}
UserPC == {"idle", "check", "lock", "send", "sent", "failed", "store"}
Numbers(s) == {s[i].n : i \in 1 .. Len(s)}

\* Socket::new and Client::new, after the handshake.
Init ==
    /\ kind \in {"polling", "websocket"} /\ link = "up" /\ incoming = <<>>
    /\ connected = FALSE /\ closed = FALSE
    /\ at = "payload" /\ rest = <<>>
    /\ holder = Nobody /\ waker = Nobody /\ sending = Nobody
    /\ pc = [t \in Pollers \cup Users |-> IF t \in Pollers THEN "awake" ELSE "idle"]
    /\ out = [u \in Users |-> "Noop"] /\ calls = [u \in Users |-> 0]
    /\ taken = 0 /\ delivered = <<>> /\ reported = {} /\ answered = {}

Goto(t, label) == pc' = [pc EXCEPT ![t] = label]

\* The registered waker is used up.
Wake ==
    /\ pc' = IF waker = Nobody THEN pc ELSE [pc EXCEPT ![waker] = "awake"]
    /\ waker' = Nobody

-----------------------------------------------------------------------------
(* next(): StreamGenerator::poll_next and the generators under it *)

\* The lock of the generator; without it the task is left to sleep, as the future
\* that waits for the lock is dropped and its waker with it.
PollNext(p) ==
    /\ pc[p] = "awake"
    /\ IF holder = Nobody
       THEN holder' = p /\ Goto(p, "polling")
       ELSE Goto(p, "asleep") /\ UNCHANGED holder
    /\ UNCHANGED <<network, users, packets, connected, at, rest, waker, sending, answered, closed>>

LetGo(p, label) == holder' = Nobody /\ Goto(p, label)

\* Mutant: the rest of the payload goes with its first packet.
YieldForgets(p) ==
    /\ delivered' = Append(delivered, Head(rest))
    /\ rest' = <<>> /\ at' = "payload"
    /\ LetGo(p, "awake")
    /\ UNCHANGED <<taken, reported>>

\* Some(Ok(packet)); the task handles it and calls next() again.
Yield(p) ==
    /\ delivered' = Append(delivered, Head(rest))
    /\ rest' = Tail(rest)
    /\ at' = IF Len(rest) = 1 THEN "payload" ELSE "packet"
    /\ LetGo(p, "awake")
    /\ UNCHANGED <<taken, reported>>

\* Some(Err(_)): a try_stream ends with its first error, and what it has is gone.
Fail(p) ==
    /\ reported' = reported \cup Numbers(rest)
    /\ rest' = <<>> /\ at' = "done"
    /\ LetGo(p, "awake")
    /\ UNCHANGED <<taken, delivered>>

\* The transport has a payload for Socket::stream.
Take ==
    /\ rest' = [i \in 1 .. Len(incoming) |-> [n |-> taken + i, id |-> incoming[i]]]
    /\ taken' = taken + Len(incoming)
    /\ incoming' = <<>>
    /\ at' = "parse"
    /\ UNCHANGED <<kind, link, holder, pc, delivered, reported>>

\* A message of the websocket, what is buffered first; its error or its end.
WebsocketNext(p) ==
    /\ holder = p /\ at = "payload" /\ kind = "websocket"
    /\ \/ incoming # <<>> /\ Take
       \/ incoming = <<>> /\ link = "down" /\ Fail(p) /\ UNCHANGED network
       \/ /\ incoming = <<>> /\ link = "closed"
          /\ at' = "done"
          /\ UNCHANGED <<network, packets, rest, holder, pc>>
    /\ UNCHANGED <<users, connected, waker, sending, answered, closed>>

\* A GET of the loop over requests: the answer, or the error that ends the loop.
PollingNext(p) ==
    /\ holder = p /\ at = "payload" /\ kind = "polling"
    /\ \/ incoming # <<>> /\ link = "up" /\ Take
       \/ link = "down" /\ Fail(p) /\ UNCHANGED network
    /\ UNCHANGED <<users, connected, waker, sending, answered, closed>>

\* Payload::try_from: all of the payload or nothing.
Parse(p) ==
    /\ holder = p /\ at = "parse"
    /\ IF \E i \in 1 .. Len(rest) : rest[i].id = "Invalid"
       THEN Fail(p)
       ELSE at' = "packet" /\ UNCHANGED <<packets, rest, holder, pc>>
    /\ UNCHANGED <<network, users, connected, waker, sending, answered, closed>>

\* Packets that only have callbacks, which run as tasks of their own.
HandlePlain(p) ==
    /\ holder = p /\ at = "packet"
    /\ Head(rest).id \in {"Message", "MessageBinary", "Upgrade", "Noop"}
    /\ Yield(p)
    /\ UNCHANGED <<network, users, connected, waker, sending, answered, closed>>

HandleClose(p) ==
    /\ holder = p /\ at = "packet" /\ Head(rest).id = "Close"
    /\ connected' = FALSE /\ closed' = TRUE
    /\ Yield(p)
    /\ UNCHANGED <<network, users, waker, sending, answered>>

\* Mutant: a Ping is yielded like any packet.
HandlePingSilent(p) ==
    /\ holder = p /\ at = "packet" /\ Head(rest).id = "Ping"
    /\ Yield(p)
    /\ UNCHANGED <<network, users, connected, waker, sending, answered, closed>>

\* pinged(), then the check of emit(Pong).
HandlePing(p) ==
    /\ holder = p /\ at = "packet" /\ Head(rest).id = "Ping"
    /\ IF connected
       THEN at' = "pong_lock" /\ UNCHANGED <<packets, rest, holder, pc>>
       ELSE Fail(p)
    /\ UNCHANGED <<network, users, connected, waker, sending, answered, closed>>

\* InvalidPacket; the sync client panics here.
HandleUnexpected(p) ==
    /\ holder = p /\ at = "packet" /\ Head(rest).id \in {"Open", "Pong"}
    /\ Fail(p)
    /\ UNCHANGED <<network, users, connected, waker, sending, answered, closed>>

PongLock(p) ==
    /\ holder = p /\ at = "pong_lock" /\ sending = Nobody
    /\ sending' = Generator /\ at' = "pong_send"
    /\ UNCHANGED <<network, users, packets, connected, rest, holder, waker, pc, answered, closed>>

\* Mutant: the lock on the transport is kept.
PongReturnHolds(p) ==
    /\ holder = p
    /\ \/ at = "pong_sent" /\ Yield(p)
       \/ at = "pong_failed" /\ Fail(p)
    /\ UNCHANGED <<network, users, connected, waker, sending, answered, closed>>

\* emit(Pong) drops the lock and returns: the packet is yielded, or the error.
PongReturn(p) ==
    /\ holder = p
    /\ \/ at = "pong_sent" /\ Yield(p)
       \/ at = "pong_failed" /\ Fail(p)
    /\ sending' = Nobody
    /\ UNCHANGED <<network, users, connected, waker, answered, closed>>

\* What poll_next() cannot get past without waiting.
Waits ==
    \/ at = "payload" /\ incoming = <<>> /\ link = "up"
    \/ at = "pong_lock" /\ sending # Nobody
    \/ at = "pong_send"

\* Mutant: the wait for the transport's lock leaves no waker, like that for the
\* generator's.
PendingForgotten(p) ==
    /\ holder = p /\ Waits
    /\ waker' = IF at = "pong_lock" THEN Nobody ELSE p
    /\ LetGo(p, "asleep")
    /\ UNCHANGED <<network, users, packets, connected, at, rest, sending, answered, closed>>

\* Poll::Pending: where it waits the generator keeps the waker of its last poll.
Pending(p) ==
    /\ holder = p /\ Waits
    /\ waker' = p
    /\ LetGo(p, "asleep")
    /\ UNCHANGED <<network, users, packets, connected, at, rest, sending, answered, closed>>

\* None, again and again.
PollDone(p) ==
    /\ holder = p /\ at = "done"
    /\ LetGo(p, "over")
    /\ UNCHANGED <<network, users, packets, connected, at, rest, waker, sending, answered, closed>>

-----------------------------------------------------------------------------
(* connect(), emit() and disconnect() of Socket *)

Start(u, id) ==
    /\ pc[u] = "idle" /\ calls[u] < MaxCalls
    /\ calls' = [calls EXCEPT ![u] = @ + 1]
    /\ out' = [out EXCEPT ![u] = id]
    /\ Goto(u, "check")
    /\ UNCHANGED <<network, packets, at, rest, holder, waker, sending, answered, closed>>

Connect(u) == connected' = TRUE /\ Start(u, "Pong")
Emit(u) == Start(u, "Message") /\ UNCHANGED connected
Disconnect(u) == Start(u, "Close") /\ UNCHANGED connected

EmitCheck(u) ==
    /\ pc[u] = "check"
    /\ Goto(u, IF connected THEN "lock" ELSE "idle")
    /\ UNCHANGED <<network, users, packets, connected, at, rest, holder, waker, sending, answered, closed>>

EmitLock(u) ==
    /\ pc[u] = "lock" /\ sending = Nobody
    /\ sending' = u /\ Goto(u, "send")
    /\ UNCHANGED <<network, users, packets, connected, at, rest, holder, waker, answered, closed>>

\* Mutant: disconnect() goes on when its Close was not sent, like the sync one.
EmitSendRegardless(u) ==
    /\ pc[u] = "send"
    /\ Goto(u, "sent")
    /\ closed' = (closed \/ (out[u] = "Close" /\ link = "up"))
    /\ UNCHANGED <<network, users, packets, connected, at, rest, holder, waker, sending, answered>>

\* transport.emit(); with an error disconnect() returns before it clears the flag.
EmitSend(u) ==
    /\ pc[u] = "send"
    /\ Goto(u, IF link = "up" THEN "sent" ELSE "failed")
    /\ closed' = (closed \/ (out[u] = "Close" /\ link = "up"))
    /\ UNCHANGED <<network, users, packets, connected, at, rest, holder, waker, sending, answered>>

\* The lock is dropped with emit(), which wakes who waits for it.
EmitReturn(u) ==
    /\ pc[u] \in {"sent", "failed"}
    /\ sending' = Nobody
    /\ LET after == IF pc[u] = "sent" /\ out[u] = "Close" THEN "store" ELSE "idle"
           woken == IF at = "pong_lock" THEN {waker} \ {Nobody} ELSE {}
       IN  /\ pc' = [t \in DOMAIN pc |-> IF t = u THEN after ELSE IF t \in woken THEN "awake" ELSE pc[t]]
           /\ waker' = IF at = "pong_lock" THEN Nobody ELSE waker
    /\ UNCHANGED <<network, users, packets, connected, at, rest, holder, answered, closed>>

DisconnectStore(u) ==
    /\ pc[u] = "store"
    /\ connected' = FALSE /\ Goto(u, "idle")
    /\ UNCHANGED <<network, users, packets, at, rest, holder, waker, sending, answered, closed>>

-----------------------------------------------------------------------------
(* The transport and the server *)

\* A message of the websocket, or the answer to a GET with some packets.
Arrive(ids) ==
    /\ link = "up" /\ incoming = <<>> /\ taken + Len(ids) <= MaxPackets
    /\ kind = "websocket" => Len(ids) = 1
    /\ incoming' = ids
    /\ IF at = "payload" THEN Wake ELSE UNCHANGED <<pc, waker>>
    /\ UNCHANGED <<kind, link, users, packets, connected, at, rest, holder, sending, answered, closed>>

\* Requests may work again, a websocket does not; the server may close it.
LinkChange ==
    /\ \/ link = "up" /\ link' = "down"
       \/ link = "up" /\ kind = "websocket" /\ link' = "closed"
       \/ link = "down" /\ kind = "polling" /\ link' = "up"
    /\ IF at = "payload" THEN Wake ELSE UNCHANGED <<pc, waker>>
    /\ UNCHANGED <<kind, incoming, users, packets, connected, at, rest, holder, sending, answered, closed>>

\* The Pong is written, or cannot be.
Write ==
    /\ at = "pong_send"
    /\ IF link = "up"
       THEN at' = "pong_sent" /\ answered' = answered \cup {Head(rest).n}
       ELSE at' = "pong_failed" /\ UNCHANGED answered
    /\ Wake
    /\ UNCHANGED <<network, users, packets, connected, rest, holder, sending, closed>>

-----------------------------------------------------------------------------
Run(p) ==
    \/ WebsocketNext(p) \/ PollingNext(p) \/ Parse(p)
    \/ HandlePlain(p) \/ HandleClose(p) \/ HandlePing(p) \/ HandleUnexpected(p)
    \/ PongLock(p) \/ PongReturn(p) \/ Pending(p) \/ PollDone(p)

UserStep(u) == EmitCheck(u) \/ EmitLock(u) \/ EmitSend(u) \/ EmitReturn(u) \/ DisconnectStore(u)

Next ==
    \/ \E p \in Pollers : PollNext(p) \/ Run(p)
    \/ \E u \in Users : Connect(u) \/ Emit(u) \/ Disconnect(u) \/ UserStep(u)
    \/ \E k \in 1 .. MaxBatch : \E ids \in [1 .. k -> ServerIds] : Arrive(ids)
    \/ LinkChange \/ Write

\* Tasks that are awake run, and a write ends; the server and the link owe nothing.
Fairness ==
    /\ \A p \in Pollers : WF_vars(PollNext(p)) /\ WF_vars(Run(p))
    /\ \A u \in Users : WF_vars(UserStep(u))
    /\ WF_vars(Write)

Spec == Init /\ [][Next]_vars
FairSpec == Spec /\ Fairness

-----------------------------------------------------------------------------
StreamTypes ==
    /\ kind \in {"polling", "websocket"} /\ link \in {"up", "down", "closed"}
    /\ incoming \in Seq(ServerIds) /\ connected \in BOOLEAN /\ closed \in BOOLEAN
    /\ at \in Places /\ rest \in Seq(Packet)
    /\ (rest # <<>>) <=> at \notin {"payload", "done"}
    /\ taken \in Nat /\ delivered \in Seq(Packet) /\ reported \subseteq Nat /\ answered \subseteq Nat

TaskTypes ==
    /\ holder \in Pollers \cup {Nobody} /\ waker \in Pollers \cup {Nobody}
    /\ sending \in Users \cup {Generator, Nobody}
    /\ pc \in [Pollers \cup Users -> PollerPC \cup UserPC]
    /\ out \in [Users -> PacketId] /\ calls \in [Users -> 0 .. MaxCalls]

\* The holder of the generator is the one poller inside poll_next().
Inside ==
    /\ \A p \in Pollers : pc[p] \in PollerPC /\ (pc[p] = "polling" => holder = p)
    /\ holder # Nobody => pc[holder] = "polling"

\* The lock of the transport is held where a frame is sent.
Locked ==
    /\ \A u \in Users : pc[u] \in UserPC /\ ((pc[u] \in {"send", "sent", "failed"}) <=> (sending = u))
    /\ (at \in {"pong_send", "pong_sent", "pong_failed"}) <=> (sending = Generator)

\* Types, and where the tasks are that hold the generator and the transport.
TypeOK == StreamTypes /\ TaskTypes /\ Inside /\ Locked

Stream == INSTANCE PacketStream WITH
    fetched  <- taken,
    settled  <- taken - Len(rest),
    returned <- delivered,
    refused  <- reported

\* However many clones are polled, what their next() return is one stream of the
\* packets in order, each once, and what is left out went with an Err.
StreamSpec == Stream!Spec

\* A task that finds the generator locked is not woken by poll_next(): there has to
\* be another that polls, is about to, or is woken when the generator can go on.
SomebodyListens ==
    \/ at = "done"
    \/ \E p \in Pollers : pc[p] \in {"awake", "polling"}
    \/ waker # Nobody /\ pc[waker] = "asleep" /\ Waits

\* A Ping comes out of the stream after its Pong was sent, and only Pings have one.
PingsAnswered ==
    \A i \in 1 .. Len(delivered) : (delivered[i].id = "Ping") <=> (delivered[i].n \in answered)

\* The flag is cleared only when the other side knows: the Close of the server was
\* received, or that of disconnect(), which returns early otherwise, was sent.
ClosedIsKnown == [][connected /\ ~connected' => closed']_vars

\* A packet that has arrived comes out of some next(), or the stream ends.
AllSettled ==
    \A n \in 1 .. MaxPackets :
        (n <= taken + Len(incoming)) ~> (at = "done" \/ n <= taken - Len(rest))

\* emit() gets the lock of the transport in the end, which the generator keeps
\* while nobody polls it.
CallsReturn == \A u \in Users : (pc[u] = "check") ~> (pc[u] = "idle")
=============================================================================
