------------------------------ MODULE RawClient ------------------------------
(***************************************************************************)
(* The synchronous socket.io RawClient (socketio/src/client/raw_client.rs) *)
(* on top of socketio/src/socket.rs: event callbacks, acks and the mutexes *)
(* that protect them.  One thread polls and runs the callbacks; any number *)
(* of user threads call emit_with_ack() and disconnect().  A callback gets *)
(* a clone of the client and may call it in turn, while the lock it was    *)
(* called under is still held.                                             *)
(*                                                                         *)
(* `on` and `on_any` are always taken and released together, so they are   *)
(* one lock here.  A thread that holds `on` is inside an event callback, a *)
(* thread that holds `outstanding_acks` across steps is inside handle_ack; *)
(* with both, the event callback is the inner one.  emit() takes neither   *)
(* lock and changes nothing here, so a callback that calls it is a         *)
(* callback that does nothing.  Std mutexes are not reentrant, and are     *)
(* poisoned by a panic while they are held: lock() then fails.             *)
(***************************************************************************)
EXTENDS Naturals, Sequences, FiniteSets, SequencesExt

CONSTANTS
    Poller,          \* the thread that polls (Client::poll_callback)
    Users,           \* the threads that use the client
    Nobody,          \* the owner of a free lock
    Ids,             \* ids drawn by emit_with_ack (0..998 in the code)
    OnOps,           \* what event callbacks do with the client
    AckOps,          \* what ack callbacks do with the client
    MaxRequests,     \* bound: calls of emit_with_ack
    MaxDisconnects,  \* bound: calls of disconnect
    MaxEvents        \* bound: packets from the server that are no acks

\* "request" is emit_with_ack(); "panic" is a panic of the callback itself.
Ops == {"request", "disconnect", "panic"}

Threads == Users \cup {Poller}
Requests == 1..MaxRequests

ASSUME ThreadsAssumption == Poller \notin Users /\ Nobody \notin Threads
ASSUME OpsAssumption == OnOps \subseteq Ops /\ AckOps \subseteq Ops
ASSUME BoundsAssumption ==
    MaxRequests \in Nat /\ MaxDisconnects \in Nat /\ MaxEvents \in Nat

VARIABLES
    engine,        \* the engine.io client is connected
    open,          \* Socket.connected of socket.io
    acks,          \* outstanding_acks, as [id, req]
    acksOwner,     \* owner of the mutex around outstanding_acks
    onOwner,       \* owner of the mutexes around on and on_any
    poisoned,      \* the poisoned locks
    pc,            \* where each thread is
    pend,          \* pend[t]: the request t is about to send, 0 if none
    scan,          \* what handle_ack works on
    ids,           \* ids[r]: the id drawn for request r
    asked,         \* requests the server has and has not answered
    expired,       \* requests whose timeout has elapsed
    called,        \* requests whose callback was called
    inTime,        \* requests answered with a payload before their timeout
    disconnects,   \* number of disconnect() calls
    events         \* number of packets received that are no acks

vars == <<engine, open, acks, acksOwner, onOwner, poisoned, pc, pend, scan, ids,
          asked, expired, called, inTime, disconnects, events>>

PC == {"idle", "recv", "rq_push", "rq_send", "dc_close", "on_lock", "body",
       "ack_lock", "ack_scan", "ack_remove", "panicked"}

\* handle_ack: the answered request and its id, callback calls per ack (data,
\* then attachment), position of the scan, calls left, to_be_removed.
NoScan == [req |-> 0, id |-> 0, calls |-> 0, from |-> 1, left |-> 0,
           doomed |-> <<>>]

----------------------------------------------------------------------------
\* ClientBuilder::connect_raw has connected the client.
Init ==
    /\ engine = TRUE
    /\ open = TRUE
    /\ acks = <<>>
    /\ acksOwner = Nobody
    /\ onOwner = Nobody
    /\ poisoned = {}
    /\ pc = [t \in Threads |-> "idle"]
    /\ pend = [t \in Threads |-> 0]
    /\ scan = NoScan
    /\ ids = <<>>
    /\ asked = {}
    /\ expired = {}
    /\ called = {}
    /\ inTime = {}
    /\ disconnects = 0
    /\ events = 0

Goto(t, label) == pc' = [pc EXCEPT ![t] = label]

\* A call into the client returns: to the callback that made it, if any.
Resume(t) == Goto(t, IF t \in {onOwner, acksOwner} THEN "body" ELSE "idle")

\* The code of t's own, or of the callback it runs, may do op.
Free(t, op) ==
    \/ t \in Users /\ pc[t] = "idle"
    \/ pc[t] = "body" /\ op \in (IF onOwner = t THEN OnOps ELSE AckOps)

----------------------------------------------------------------------------
(* emit_with_ack *)

\* Mutant: the packet is sent before the ack is registered.
RequestStartSends(t) ==
    /\ Free(t, "request")
    /\ Len(ids) < MaxRequests
    /\ \E id \in Ids : ids' = Append(ids, id)
    /\ pend' = [pend EXCEPT ![t] = Len(ids) + 1]
    /\ asked' = asked \cup {Len(ids) + 1}
    /\ Goto(t, "rq_push")
    /\ UNCHANGED <<engine, open, acks, acksOwner, onOwner, poisoned, scan,
                   expired, called, inTime, disconnects, events>>

\* A random id, which is not compared with the ids that are outstanding.
RequestStart(t) ==
    /\ Free(t, "request")
    /\ Len(ids) < MaxRequests
    /\ \E id \in Ids : ids' = Append(ids, id)
    /\ pend' = [pend EXCEPT ![t] = Len(ids) + 1]
    /\ Goto(t, "rq_push")
    /\ UNCHANGED <<engine, open, acks, acksOwner, onOwner, poisoned, scan, asked,
                   expired, called, inTime, disconnects, events>>

\* outstanding_acks.lock()?.push(ack)
RequestPush(t) ==
    /\ pc[t] = "rq_push"
    /\ acksOwner = Nobody
    /\ IF "acks" \in poisoned
       THEN /\ pend' = [pend EXCEPT ![t] = 0]
            /\ Resume(t)
            /\ UNCHANGED acks
       ELSE /\ acks' = Append(acks, [id |-> ids[pend[t]], req |-> pend[t]])
            /\ Goto(t, "rq_send")
            /\ UNCHANGED pend
    /\ UNCHANGED <<engine, open, acksOwner, onOwner, poisoned, scan, ids, asked,
                   expired, called, inTime, disconnects, events>>

\* socket.send: fails when not connected, or in the transport.
RequestSend(t) ==
    /\ pc[t] = "rq_send"
    /\ \/ engine /\ open /\ asked' = asked \cup {pend[t]}
       \/ UNCHANGED asked
    /\ pend' = [pend EXCEPT ![t] = 0]
    /\ Resume(t)
    /\ UNCHANGED <<engine, open, acks, acksOwner, onOwner, poisoned, scan, ids,
                   expired, called, inTime, disconnects, events>>

----------------------------------------------------------------------------
(* disconnect *)

Disconnect(t) ==
    /\ Free(t, "disconnect")
    /\ disconnects < MaxDisconnects
    /\ disconnects' = disconnects + 1
    /\ Goto(t, "dc_close")
    /\ UNCHANGED <<engine, open, acks, acksOwner, onOwner, poisoned, pend, scan,
                   ids, asked, expired, called, inTime, events>>

\* The Disconnect packet is sent or not, both sockets are closed; callback(Close).
DisconnectClose(t) ==
    /\ pc[t] = "dc_close"
    /\ engine' = FALSE
    /\ open' = FALSE
    /\ Goto(t, "on_lock")
    /\ UNCHANGED <<acks, acksOwner, onOwner, poisoned, pend, scan, ids, asked,
                   expired, called, inTime, disconnects, events>>

----------------------------------------------------------------------------
(* callback: an event callback runs with `on` and `on_any` locked *)

OnLock(t) ==
    /\ pc[t] = "on_lock"
    /\ onOwner = Nobody
    /\ IF "on" \in poisoned
       THEN /\ Resume(t)
            /\ UNCHANGED onOwner
       ELSE /\ onOwner' = t
            /\ Goto(t, "body")
    /\ UNCHANGED <<engine, open, acks, acksOwner, poisoned, pend, scan, ids,
                   asked, expired, called, inTime, disconnects, events>>

\* Mutant: the callbacks stay locked when the event callback returns.
OnReturnLocked(t) ==
    /\ pc[t] = "body" /\ onOwner = t
    /\ Goto(t, IF acksOwner = t THEN "body" ELSE "idle")
    /\ UNCHANGED <<engine, open, acks, acksOwner, onOwner, poisoned, pend, scan,
                   ids, asked, expired, called, inTime, disconnects, events>>

OnReturn(t) ==
    /\ pc[t] = "body" /\ onOwner = t
    /\ onOwner' = Nobody
    /\ Goto(t, IF acksOwner = t THEN "body" ELSE "idle")
    /\ UNCHANGED <<engine, open, acks, acksOwner, poisoned, pend, scan, ids,
                   asked, expired, called, inTime, disconnects, events>>

\* A callback panics: the thread unwinds, poisons what it holds and is gone.
BodyPanic(t) ==
    /\ pc[t] = "body"
    /\ "panic" \in (IF onOwner = t THEN OnOps ELSE AckOps)
    /\ poisoned' = poisoned \cup (IF onOwner = t THEN {"on"} ELSE {})
                            \cup (IF acksOwner = t THEN {"acks"} ELSE {})
    /\ onOwner' = IF onOwner = t THEN Nobody ELSE onOwner
    /\ acksOwner' = IF acksOwner = t THEN Nobody ELSE acksOwner
    /\ Goto(t, "panicked")
    /\ UNCHANGED <<engine, open, acks, pend, scan, ids, asked, expired, called,
                   inTime, disconnects, events>>

----------------------------------------------------------------------------
(* poll and handle_socketio_packet *)

\* The engine.io client is polled; Ok(None) at once when it is closed.
PollStart ==
    /\ pc[Poller] = "idle"
    /\ engine
    /\ Goto(Poller, "recv")
    /\ UNCHANGED <<engine, open, acks, acksOwner, onOwner, poisoned, pend, scan,
                   ids, asked, expired, called, inTime, disconnects, events>>

\* Socket::handle_socketio_packet: what a packet does to the connected flag.
PacketOpens(kind) ==
    CASE kind = "Connect" -> TRUE
      [] kind \in {"Disconnect", "ConnectError"} -> FALSE
      [] OTHER -> open

\* A packet that leads to an event callback; "Failure" is an Err of poll.
RecvEvent ==
    /\ pc[Poller] = "recv"
    /\ events < MaxEvents
    /\ events' = events + 1
    /\ \E kind \in {"Event", "Connect", "Disconnect", "ConnectError", "Failure"} :
         open' = PacketOpens(kind)
    /\ Goto(Poller, "on_lock")
    /\ UNCHANGED <<engine, acks, acksOwner, onOwner, poisoned, pend, scan, ids,
                   asked, expired, called, inTime, disconnects>>

\* A packet of another namespace is skipped, after it has changed the flag.
RecvForeign ==
    /\ pc[Poller] = "recv"
    /\ events < MaxEvents
    /\ events' = events + 1
    /\ \E kind \in {"Event", "Connect", "Disconnect", "ConnectError"} :
         open' = PacketOpens(kind)
    /\ Goto(Poller, "idle")
    /\ UNCHANGED <<engine, acks, acksOwner, onOwner, poisoned, pend, scan, ids,
                   asked, expired, called, inTime, disconnects>>

\* An Event whose data is an empty JSON array: there is no element to unwrap, and
\* the polling thread panics with no lock held.
RecvEmptyArray ==
    /\ pc[Poller] = "recv"
    /\ events < MaxEvents
    /\ events' = events + 1
    /\ Goto(Poller, "panicked")
    /\ UNCHANGED <<engine, open, acks, acksOwner, onOwner, poisoned, pend, scan,
                   ids, asked, expired, called, inTime, disconnects>>

\* An engine.io Close packet: the engine.io client closes itself, and poll goes
\* on to find it closed.
RecvClose ==
    /\ pc[Poller] = "recv"
    /\ engine' = FALSE
    /\ Goto(Poller, "idle")
    /\ UNCHANGED <<open, acks, acksOwner, onOwner, poisoned, pend, scan, ids,
                   asked, expired, called, inTime, disconnects, events>>

\* The answer to a request arrives, with a string, binary data, both or none.
RecvAck ==
    /\ pc[Poller] = "recv"
    /\ \E r \in asked, calls \in 0..2 :
         /\ asked' = asked \ {r}
         /\ scan' = [NoScan EXCEPT !.req = r, !.id = ids[r], !.calls = calls]
    /\ Goto(Poller, "ack_lock")
    /\ UNCHANGED <<engine, open, acks, acksOwner, onOwner, poisoned, pend, ids,
                   expired, called, inTime, disconnects, events>>

----------------------------------------------------------------------------
(* handle_ack *)

\* A poisoned lock is an error, which the error callback gets.
AckLock ==
    /\ pc[Poller] = "ack_lock"
    /\ acksOwner = Nobody
    /\ IF "acks" \in poisoned
       THEN /\ scan' = NoScan
            /\ Goto(Poller, "on_lock")
            /\ UNCHANGED acksOwner
       ELSE /\ acksOwner' = Poller
            /\ Goto(Poller, "ack_scan")
            /\ UNCHANGED scan
    /\ UNCHANGED <<engine, open, acks, onOwner, poisoned, pend, ids, asked, expired,
                   called, inTime, disconnects, events>>

\* The positions the scan has not passed whose ack has the id of the answer.
Matches == {i \in scan.from..Len(acks) : acks[i].id = scan.id}

\* The first of them is noted for removal; its callback is called in time.
AckMatch ==
    /\ pc[Poller] = "ack_scan"
    /\ \E i \in Matches :
         /\ \A j \in Matches : i <= j
         /\ LET call == acks[i].req \notin expired /\ scan.calls > 0
            IN  /\ scan' = [scan EXCEPT !.from = i + 1,
                                        !.left = IF call THEN scan.calls ELSE 0,
                                        !.doomed = Append(@, i)]
                /\ called' = IF call THEN called \cup {acks[i].req} ELSE called
                /\ Goto(Poller, IF call THEN "body" ELSE "ack_scan")
    /\ UNCHANGED <<engine, open, acks, acksOwner, onOwner, poisoned, pend, ids,
                   asked, expired, inTime, disconnects, events>>

\* The ack callback returns; it is called again with the attachment, if any.
AckReturn ==
    /\ pc[Poller] = "body" /\ onOwner # Poller
    /\ scan' = [scan EXCEPT !.left = @ - 1]
    /\ Goto(Poller, IF scan.left > 1 THEN "body" ELSE "ack_scan")
    /\ UNCHANGED <<engine, open, acks, acksOwner, onOwner, poisoned, pend, ids,
                   asked, expired, called, inTime, disconnects, events>>

\* Mutant: the guard of the scan lives until the acks are removed.
AckScannedLocked ==
    /\ pc[Poller] = "ack_scan"
    /\ Matches = {}
    /\ inTime' = IF scan.calls > 0 /\ scan.req \notin expired
                 THEN inTime \cup {scan.req} ELSE inTime
    /\ Goto(Poller, "ack_remove")
    /\ UNCHANGED <<engine, open, acks, acksOwner, onOwner, poisoned, pend, scan,
                   ids, asked, expired, called, disconnects, events>>

\* The end of the scan; its lock guard is dropped.
AckScanned ==
    /\ pc[Poller] = "ack_scan"
    /\ Matches = {}
    /\ acksOwner' = Nobody
    /\ inTime' = IF scan.calls > 0 /\ scan.req \notin expired
                 THEN inTime \cup {scan.req} ELSE inTime
    /\ Goto(Poller, "ack_remove")
    /\ UNCHANGED <<engine, open, acks, onOwner, poisoned, pend, scan, ids, asked,
                   expired, called, disconnects, events>>

\* Vec::remove at a position: past the end it panics and poisons the lock.
RemoveAck(i) ==
    IF i <= Len(acks)
    THEN /\ acks' = RemoveAt(acks, i)
         /\ scan' = [scan EXCEPT !.doomed = Tail(@)]
         /\ UNCHANGED <<poisoned, pc>>
    ELSE /\ poisoned' = poisoned \cup {"acks"}
         /\ Goto(Poller, "panicked")
         /\ UNCHANGED <<acks, scan>>

\* Mutant: the position is one too far.
AckRemoveNext ==
    /\ pc[Poller] = "ack_remove"
    /\ scan.doomed # <<>>
    /\ acksOwner = Nobody
    /\ RemoveAck(Head(scan.doomed) + 1)
    /\ UNCHANGED <<engine, open, acksOwner, onOwner, pend, ids, asked, expired,
                   called, inTime, disconnects, events>>

\* remove(index), with the lock taken anew for every noted position, in
\* ascending order although each removal moves the acks behind it.
AckRemove ==
    /\ pc[Poller] = "ack_remove"
    /\ scan.doomed # <<>>
    /\ acksOwner = Nobody
    /\ IF "acks" \in poisoned
       THEN /\ scan' = NoScan
            /\ Goto(Poller, "on_lock")
            /\ UNCHANGED <<acks, poisoned>>
       ELSE RemoveAck(Head(scan.doomed))
    /\ UNCHANGED <<engine, open, acksOwner, onOwner, pend, ids, asked, expired,
                   called, inTime, disconnects, events>>

AckDone ==
    /\ pc[Poller] = "ack_remove"
    /\ scan.doomed = <<>>
    /\ scan' = NoScan
    /\ Goto(Poller, "idle")
    /\ UNCHANGED <<engine, open, acks, acksOwner, onOwner, poisoned, pend, ids,
                   asked, expired, called, inTime, disconnects, events>>

----------------------------------------------------------------------------
\* Time passes: the timeout of a request elapses.
Expire ==
    /\ \E r \in 1..Len(ids) : r \notin expired /\ expired' = expired \cup {r}
    /\ UNCHANGED <<engine, open, acks, acksOwner, onOwner, poisoned, pc, pend,
                   scan, ids, asked, called, inTime, disconnects, events>>

\* What t does by itself once it is in a call.
InCall(t) ==
    \/ RequestPush(t) \/ RequestSend(t) \/ DisconnectClose(t)
    \/ OnLock(t) \/ OnReturn(t)

HandleAck == AckLock \/ AckMatch \/ AckReturn \/ AckScanned \/ AckRemove \/ AckDone

Next ==
    \/ \E t \in Threads :
         RequestStart(t) \/ Disconnect(t) \/ InCall(t) \/ BodyPanic(t)
    \/ PollStart \/ RecvEvent \/ RecvForeign \/ RecvEmptyArray \/ RecvClose \/ RecvAck
    \/ HandleAck
    \/ Expire

Spec == Init /\ [][Next]_vars

\* Threads are scheduled and callbacks return; a free lock is taken by a thread
\* that waits for it.  The server need not send and nobody need call.
Fairness ==
    /\ \A t \in Threads : WF_vars(InCall(t))
    /\ WF_vars(HandleAck)

FairSpec == Spec /\ Fairness

----------------------------------------------------------------------------
Ack == [id : Ids, req : Nat]
Scan == [req : Nat, id : Ids \cup {0}, calls : 0..2, from : Nat \ {0}, left : 0..2,
         doomed : Seq(Nat \ {0})]

\* A request on its way has a number, what runs is a callback with its lock, and
\* who owns a lock is inside the call that took it.
InPlace(t) ==
    /\ pc[t] \in {"rq_push", "rq_send"} => pend[t] \in 1..Len(ids)
    /\ pc[t] = "body" => t \in {onOwner, acksOwner}
    /\ onOwner = t => pc[t] \in {"body", "rq_push", "rq_send", "dc_close", "on_lock"}
    /\ pc[t] = "ack_scan" => acksOwner = t
    /\ acksOwner = t =>
         \/ pc[t] = "ack_scan"
         \/ pc[t] \in {"body", "rq_push", "dc_close", "on_lock"} /\ scan.left > 0

VarTypes ==
    /\ engine \in BOOLEAN /\ open \in BOOLEAN
    /\ acks \in Seq(Ack)
    /\ acksOwner \in {Nobody, Poller}
    /\ onOwner \in Threads \cup {Nobody}
    /\ poisoned \subseteq {"acks", "on"}
    /\ pc \in [Threads -> PC]
    /\ pend \in [Threads -> Nat]
    /\ scan \in Scan
    /\ ids \in Seq(Ids)
    /\ asked \subseteq 1..Len(ids)
    /\ expired \subseteq 1..Len(ids)
    /\ called \subseteq Nat
    /\ inTime \subseteq Nat
    /\ disconnects \in Nat /\ events \in Nat

\* Every variable has its type, and the threads are where they may be.
TypeOK == VarTypes /\ \A t \in Threads : InPlace(t)

\* t waits for a lock that u holds.
WaitsFor(t, u) ==
    \/ /\ acksOwner = u
       /\ \/ pc[t] \in {"rq_push", "ack_lock"}
          \/ pc[t] = "ack_remove" /\ scan.doomed # <<>>
    \/ onOwner = u /\ pc[t] = "on_lock"

\* No thread waits for itself, and no two wait for each other (there are two
\* locks, so longer cycles do not exist): a callback that uses the socket it was
\* given "to communicate with the server" never hangs the client.
NoWaitCycle == \A t, u \in Threads : ~(WaitsFor(t, u) /\ WaitsFor(u, t))

\* What callbacks may do with the client: event callbacks never disconnect, ack
\* callbacks never emit with an ack, and acks are not requested by event
\* callbacks if ack callbacks disconnect.
Discipline ==
    /\ "disconnect" \notin OnOps
    /\ "request" \notin AckOps
    /\ ~("disconnect" \in AckOps /\ "request" \in OnOps)

\* Every call into the client returns, to the caller or with its panic.
CallsReturn ==
    \A t \in Users : pc[t] # "idle" ~> pc[t] \in {"idle", "panicked"}

Distinct == \A r, s \in 1..Len(ids) : ids[r] = ids[s] => r = s

Registered(r) == \E i \in 1..Len(acks) : acks[i].req = r

\* As long as the random ids have not collided, the ack of every request the
\* server may answer is registered, also while its emit_with_ack() runs, and one
\* answered in time has had its callback called: "If the ack is acked in the
\* correct time span, the specified callback is called."
AcksKept == Distinct => (\A r \in asked : Registered(r)) /\ inTime \subseteq called

\* Handling an answer never removes the ack of another request, and never
\* panics the polling thread, as long as the random ids have not collided.
RemovalExact ==
    [][Distinct /\ pc[Poller] = "ack_remove" =>
        /\ pc'[Poller] # "panicked"
        /\ \A i \in 1..Len(acks) :
             acks[i].req # scan.req =>
                \E j \in 1..Len(acks') : acks'[j] = acks[i]]_vars
=============================================================================
