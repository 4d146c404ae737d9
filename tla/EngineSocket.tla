---------------------------- MODULE EngineSocket ----------------------------
(***************************************************************************)
(* The synchronous engine.io socket: engineio/src/socket.rs and the Client *)
(* in engineio/src/client/client.rs that wraps it.  Both are Clone and     *)
(* share their state through Arcs, so any number of threads call them at   *)
(* once.  What they share is the atomic flag `connected`, the leftovers of *)
(* the payload that is being consumed (`remaining_packets`, behind a       *)
(* RwLock) and the transport.                                              *)
(*                                                                         *)
(* One action is one access to that shared state.  Packets are numbered in *)
(* the order in which the transport hands them over, and only their        *)
(* PacketId matters: it decides what the Client does with them.  Callbacks *)
(* (on_open, on_packet, ...) run on a thread that the caller joins; what   *)
(* they call on a clone of the client is what some user thread calls.      *)
(***************************************************************************)
EXTENDS Naturals, Sequences, FiniteSets

CONSTANTS
    Pollers,     \* threads that iterate over the client and so call poll()
    Users,       \* threads that call connect(), emit() and disconnect()
    ServerIds,   \* what the server's packets may be
    Reopens,     \* TRUE: a failing transport may work again (HTTP polling)
    MaxPackets,  \* bound: packets the transport hands over
    MaxBatch,    \* bound: packets in one payload
    MaxCalls     \* bound: calls of each user thread

PacketId == {"Open", "Close", "Ping", "Pong", "Message", "MessageBinary",
             "Upgrade", "Noop"}

\* The parts of a payload: a packet, or bytes that do not decode to one.
PartId == PacketId \cup {"Invalid"}

ASSUME ThreadsAssumption == Pollers \cap Users = {}
ASSUME ServerIdsAssumption == ServerIds \subseteq PartId
ASSUME ReopensAssumption == Reopens \in BOOLEAN
ASSUME BoundsAssumption ==
    MaxPackets \in Nat /\ MaxBatch \in Nat /\ MaxCalls \in Nat

Threads == Pollers \cup Users
Packet == [n : Nat \ {0}, id : PartId]
NoFrame == "NoFrame"

VARIABLES
    connected,   \* Socket.connected
    remaining,   \* Socket.remaining_packets: None and a drained iterator are <<>>
    link,        \* "up" when the transport works, "down" when its calls fail
    pc,          \* where each thread is
    hand,        \* hand[p]: what poller p holds; its head is the packet p works on
    out,         \* out[t]: PacketId of the packet t is emitting
    calls,       \* calls[u]: calls made by user u
    received,    \* number of packets taken off the transport
    delivered,   \* packets returned by poll(), in the order of the returns
    reported,    \* numbers of packets given up with an Err or a panic
    answered,    \* numbers of the Ping packets answered with a Pong
    late         \* late[t]: frames t sent since `connected` was cleared

vars == <<connected, remaining, link, pc, hand, out, calls, received,
          delivered, reported, answered, late>>

PollerPC == {"idle", "p_check", "p_next", "p_recv", "p_parse", "p_handle",
             "e_check", "e_send", "done", "panicked"}
UserPC == {"idle", "e_check", "e_send", "d_store"}

Numbers(s) == {s[i].n : i \in 1..Len(s)}

----------------------------------------------------------------------------
\* Socket::new: not connected, nothing left over.
Init ==
    /\ connected = FALSE
    /\ remaining = <<>>
    /\ link = "up"
    /\ pc = [t \in Threads |-> "idle"]
    /\ hand = [p \in Pollers |-> <<>>]
    /\ out = [t \in Threads |-> NoFrame]
    /\ calls = [u \in Users |-> 0]
    /\ received = 0
    /\ delivered = <<>>
    /\ reported = {}
    /\ answered = {}
    /\ late = [t \in Threads |-> 0]

Goto(t, label) == pc' = [pc EXCEPT ![t] = label]

\* connected.store(b): what was sent late is counted from the last clearing.
Store(b) ==
    /\ connected' = b
    /\ late' = IF connected # b THEN [t \in Threads |-> 0] ELSE late

\* poll() returns Ok(Some(packet)): the packet in p's hand is delivered.
Return(p) ==
    /\ delivered' = Append(delivered, Head(hand[p]))
    /\ hand' = [hand EXCEPT ![p] = <<>>]
    /\ Goto(p, "idle")
    /\ UNCHANGED reported

\* poll() ends without returning what is in p's hand.
GiveUp(p, label) ==
    /\ reported' = reported \cup Numbers(hand[p])
    /\ hand' = [hand EXCEPT ![p] = <<>>]
    /\ Goto(p, label)
    /\ UNCHANGED delivered

----------------------------------------------------------------------------
(* Client::poll and Socket::poll *)

\* Iter::next, also again on an iterator that has ended.
Poll(p) ==
    /\ pc[p] \in {"idle", "done"}
    /\ Goto(p, "p_check")
    /\ UNCHANGED <<connected, remaining, link, hand, out, calls, received,
                   delivered, reported, answered, late>>

\* Mutant: the loop does not look at the flag.
PollCheckless(p) ==
    /\ pc[p] = "p_check"
    /\ Goto(p, "p_next")
    /\ UNCHANGED <<connected, remaining, link, hand, out, calls, received,
                   delivered, reported, answered, late>>

\* The head of the loop: Ok(None), which ends the iteration, when not connected.
PollCheck(p) ==
    /\ pc[p] = "p_check"
    /\ Goto(p, IF connected THEN "p_next" ELSE "done")
    /\ UNCHANGED <<connected, remaining, link, hand, out, calls, received,
                   delivered, reported, answered, late>>

\* Mutant: the next packet is read and not taken.
PollNextPeeks(p) ==
    /\ pc[p] = "p_next"
    /\ IF remaining = <<>>
       THEN /\ Goto(p, "p_recv")
            /\ UNCHANGED <<remaining, hand>>
       ELSE /\ hand' = [hand EXCEPT ![p] = <<Head(remaining)>>]
            /\ Goto(p, "p_handle")
            /\ UNCHANGED remaining
    /\ UNCHANGED <<connected, link, out, calls, received, delivered, reported,
                   answered, late>>

\* The leftovers first, under the write lock; the transport when there are none.
PollNext(p) ==
    /\ pc[p] = "p_next"
    /\ IF remaining = <<>>
       THEN /\ Goto(p, "p_recv")
            /\ UNCHANGED <<remaining, hand>>
       ELSE /\ hand' = [hand EXCEPT ![p] = <<Head(remaining)>>]
            /\ remaining' = Tail(remaining)
            /\ Goto(p, "p_handle")
    /\ UNCHANGED <<connected, link, out, calls, received, delivered, reported,
                   answered, late>>

\* transport.poll(): an error, no data (loop again) or a payload.
PollRecv(p) ==
    /\ pc[p] = "p_recv"
    /\ \/ /\ link = "down"
          /\ Goto(p, "idle")
          /\ UNCHANGED <<hand, received>>
       \/ /\ link = "up"
          /\ Goto(p, "p_check")
          /\ UNCHANGED <<hand, received>>
       \/ /\ link = "up"
          /\ \E k \in 1..MaxBatch :
               /\ received + k <= MaxPackets
               /\ \E ids \in [1..k -> ServerIds] :
                    hand' = [hand EXCEPT ![p] =
                               [i \in 1..k |-> [n |-> received + i, id |-> ids[i]]]]
               /\ received' = received + k
          /\ Goto(p, "p_parse")
    /\ UNCHANGED <<connected, remaining, link, out, calls, delivered, reported,
                   answered, late>>

\* Mutant: the rest of the payload is not kept.
PollParseForgets(p) ==
    /\ pc[p] = "p_parse"
    /\ IF \E i \in 1..Len(hand[p]) : hand[p][i].id = "Invalid"
       THEN /\ GiveUp(p, "idle")
            /\ UNCHANGED remaining
       ELSE /\ remaining' = <<>>
            /\ hand' = [hand EXCEPT ![p] = <<Head(hand[p])>>]
            /\ Goto(p, "p_handle")
            /\ UNCHANGED <<delivered, reported>>
    /\ UNCHANGED <<connected, link, out, calls, received, answered, late>>

\* Payload::try_from fails as a whole when one part is not a packet; otherwise
\* the iterator over the rest replaces whatever remaining_packets holds.
PollParse(p) ==
    /\ pc[p] = "p_parse"
    /\ IF \E i \in 1..Len(hand[p]) : hand[p][i].id = "Invalid"
       THEN /\ GiveUp(p, "idle")
            /\ UNCHANGED remaining
       ELSE /\ remaining' = Tail(hand[p])
            /\ hand' = [hand EXCEPT ![p] = <<Head(hand[p])>>]
            /\ Goto(p, "p_handle")
            /\ UNCHANGED <<delivered, reported>>
    /\ UNCHANGED <<connected, link, out, calls, received, answered, late>>

\* on_packet, on_data: nothing to do for the socket.
HandlePlain(p) ==
    /\ pc[p] = "p_handle"
    /\ Head(hand[p]).id \in {"Message", "MessageBinary", "Upgrade", "Noop"}
    /\ Return(p)
    /\ UNCHANGED <<connected, remaining, link, out, calls, received, answered,
                   late>>

\* handle_close: on_close, then the flag; the packet is returned.
HandleClose(p) ==
    /\ pc[p] = "p_handle"
    /\ Head(hand[p]).id = "Close"
    /\ Store(FALSE)
    /\ Return(p)
    /\ UNCHANGED <<remaining, link, out, calls, received, answered>>

\* Mutant: a Ping is returned to the caller without an answer.
HandlePingSilent(p) ==
    /\ pc[p] = "p_handle"
    /\ Head(hand[p]).id = "Ping"
    /\ Return(p)
    /\ UNCHANGED <<connected, remaining, link, out, calls, received, answered,
                   late>>

\* pinged(), then a Pong is emitted by the polling thread.
HandlePing(p) ==
    /\ pc[p] = "p_handle"
    /\ Head(hand[p]).id = "Ping"
    /\ out' = [out EXCEPT ![p] = "Pong"]
    /\ Goto(p, "e_check")
    /\ UNCHANGED <<connected, remaining, link, hand, calls, received, delivered,
                   reported, answered, late>>

\* unreachable!(): the polling thread panics; it holds no lock here.
HandleUnreachable(p) ==
    /\ pc[p] = "p_handle"
    /\ Head(hand[p]).id \in {"Open", "Pong"}
    /\ GiveUp(p, "panicked")
    /\ UNCHANGED <<connected, remaining, link, out, calls, received, answered,
                   late>>

----------------------------------------------------------------------------
(* Socket::connect, disconnect and emit *)

\* A user thread starts a call that ends up emitting a packet.
Start(u, id) ==
    /\ pc[u] = "idle"
    /\ calls[u] < MaxCalls
    /\ calls' = [calls EXCEPT ![u] = @ + 1]
    /\ out' = [out EXCEPT ![u] = id]
    /\ Goto(u, "e_check")
    /\ UNCHANGED <<remaining, link, hand, received, delivered, reported, answered>>

\* The flag is set first and stays set if the Pong cannot be sent.
Connect(u) == Start(u, "Pong") /\ Store(TRUE)

Emit(u) == Start(u, "Message") /\ UNCHANGED <<connected, late>>

\* on_close, then a Close packet is emitted; the flag is cleared afterwards.
Disconnect(u) == Start(u, "Close") /\ UNCHANGED <<connected, late>>

\* What follows emit() in thread t, by its result.
AfterEmit(t, ok) ==
    /\ out' = [out EXCEPT ![t] = NoFrame]
    /\ IF t \in Pollers
       THEN IF ok THEN Return(t) ELSE GiveUp(t, "idle")
       ELSE /\ Goto(t, IF out[t] = "Close" THEN "d_store" ELSE "idle")
            /\ UNCHANGED <<hand, delivered, reported>>

\* Mutant: emit() does not look at the flag.
EmitCheckless(t) ==
    /\ pc[t] = "e_check"
    /\ Goto(t, "e_send")
    /\ UNCHANGED <<out, hand, delivered, reported>>
    /\ UNCHANGED <<connected, remaining, link, calls, received, answered, late>>

\* emit(): IllegalActionBeforeOpen unless connected.
EmitCheck(t) ==
    /\ pc[t] = "e_check"
    /\ IF connected
       THEN /\ Goto(t, "e_send")
            /\ UNCHANGED <<out, hand, delivered, reported>>
       ELSE AfterEmit(t, FALSE)
    /\ UNCHANGED <<connected, remaining, link, calls, received, answered, late>>

\* transport.emit(): the frame is on its way, or the transport fails.
EmitSend(t) ==
    /\ pc[t] = "e_send"
    /\ AfterEmit(t, link = "up")
    /\ IF link = "up"
       THEN /\ late' = IF connected THEN late ELSE [late EXCEPT ![t] = @ + 1]
            /\ answered' = IF t \in Pollers
                           THEN answered \cup {Head(hand[t]).n} ELSE answered
       ELSE UNCHANGED <<late, answered>>
    /\ UNCHANGED <<connected, remaining, link, calls, received>>

\* The end of disconnect(), whatever became of the Close packet.
DisconnectStore(u) ==
    /\ pc[u] = "d_store"
    /\ Goto(u, "idle")
    /\ Store(FALSE)
    /\ UNCHANGED <<remaining, link, hand, out, calls, received, delivered,
                   reported, answered>>

----------------------------------------------------------------------------
(* The transport *)

LinkChange ==
    /\ \/ link = "up" /\ link' = "down"
       \/ Reopens /\ link = "down" /\ link' = "up"
    /\ UNCHANGED <<connected, remaining, pc, hand, out, calls, received,
                   delivered, reported, answered, late>>

----------------------------------------------------------------------------
PollerStep(p) ==
    \/ PollCheck(p) \/ PollNext(p) \/ PollRecv(p) \/ PollParse(p)
    \/ HandlePlain(p) \/ HandleClose(p) \/ HandlePing(p) \/ HandleUnreachable(p)

UserCall(u) == Connect(u) \/ Emit(u) \/ Disconnect(u)

EmitStep(t) == EmitCheck(t) \/ EmitSend(t)

Next ==
    \/ \E p \in Pollers : Poll(p) \/ PollerStep(p)
    \/ \E u \in Users : UserCall(u) \/ DisconnectStore(u)
    \/ \E t \in Threads : EmitStep(t)
    \/ LinkChange

Spec == Init /\ [][Next]_vars

(***************************************************************************)
(* Running threads are scheduled, a `for` loop over the client calls next  *)
(* again after every item, and the transport's blocking poll() returns in  *)
(* time: the server answers a GET and pings at its ping interval.  Nobody  *)
(* is obliged to call, and the link may do as it likes.                    *)
(***************************************************************************)
Fairness ==
    /\ \A p \in Pollers :
         /\ WF_vars(PollerStep(p))
         /\ WF_vars(pc[p] = "idle" /\ Poll(p))
    /\ \A u \in Users : WF_vars(DisconnectStore(u))
    /\ \A t \in Threads : WF_vars(EmitStep(t))

FairSpec == Spec /\ Fairness

----------------------------------------------------------------------------
SharedTypes ==
    /\ connected \in BOOLEAN
    /\ remaining \in Seq(Packet)
    /\ link \in {"up", "down"}
    /\ received \in Nat
    /\ delivered \in Seq(Packet)
    /\ reported \subseteq Nat
    /\ answered \subseteq Nat

ThreadTypes ==
    /\ pc \in [Threads -> PollerPC \cup UserPC]
    /\ hand \in [Pollers -> Seq(Packet)]
    /\ out \in [Threads -> PacketId \cup {NoFrame}]
    /\ calls \in [Users -> 0..MaxCalls]
    /\ late \in [Threads -> Nat]

\* A poller holds a payload where it parses one, and one packet where it
\* handles one.
InPlace(p) ==
    /\ pc[p] \in PollerPC
    /\ pc[p] = "p_parse" => hand[p] # <<>>
    /\ pc[p] \in {"p_handle", "e_check", "e_send"} => Len(hand[p]) = 1
    /\ pc[p] \in {"idle", "p_check", "p_next", "p_recv", "done", "panicked"}
         => hand[p] = <<>>

Places == (\A p \in Pollers : InPlace(p)) /\ (\A u \in Users : pc[u] \in UserPC)

\* Every variable has its type, and what a poller holds fits where it is.
TypeOK == SharedTypes /\ ThreadTypes /\ Places

\* A packet is returned by poll() at most once, and never both returned and
\* given up with an error, however many clones are polled at the same time.
EachPacketOnce ==
    /\ \A i, j \in 1..Len(delivered) :
         i # j => delivered[i].n # delivered[j].n
    /\ Numbers(delivered) \cap reported = {}

\* emit() checks the flag and then sends, without a lock: once the socket is
\* closed each thread gets at most one more frame onto the transport.
LateFrameBound == ~connected => \A t \in Threads : late[t] <= 1

\* A Ping is returned to the caller only after its Pong was sent, and nothing
\* but a Ping is ever answered.
PingsAnswered ==
    \A i \in 1..Len(delivered) :
        delivered[i].id = "Ping" <=> delivered[i].n \in answered

\* A Ping the client has received is answered, unless the client is closed,
\* the transport fails or the polling thread has stopped iterating.
HeartbeatKept ==
    \A n \in 1..MaxPackets :
        (\E s \in {remaining} \cup {hand[p] : p \in Pollers} :
            \E i \in 1..Len(s) : s[i].n = n /\ s[i].id = "Ping")
        ~> \/ n \in answered \cup reported
           \/ ~connected \/ link = "down"
           \/ \E p \in Pollers : pc[p] \in {"done", "panicked"}

\* Closing the socket, by the server's Close or by disconnect() even with a dead
\* transport, ends every iteration, unless somebody connects again.
IterationEnds ==
    \A p \in Pollers :
        (~connected) ~> (connected \/ pc[p] \in {"done", "panicked"})
=============================================================================
