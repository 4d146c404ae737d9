---------------------------- MODULE AsyncClient ----------------------------
(***************************************************************************)
(* The asynchronous socket.io client: Client of asynchronous/client/       *)
(* client.rs over Socket of asynchronous/socket.rs, and the task of        *)
(* ClientBuilder::connect that reads the stream of packets and runs the    *)
(* callbacks.  There is no reconnect.                                      *)
(*                                                                         *)
(* That task, Poller, is the only one that locks `on` and `on_any`, so     *)
(* these locks are left out; the acks have one that the Poller keeps while *)
(* their callbacks run.  A callback is an async function that may call the *)
(* client it is given, from the Poller.  The engine.io client below is     *)
(* that of AsyncEngine: its stream yields packets and ends with an error   *)
(* or a closed websocket, and its emit() checks its flag and may fail.     *)
(***************************************************************************)
EXTENDS Naturals, SequencesExt

CONSTANTS
    Poller, Users,
    Ids,           \* the ids of requests, which are random
    BodyOps,       \* the calls of event callbacks
    AckOps,        \* the calls of ack callbacks
    Frames,        \* numbers of frames of an emit or a request
    MaxCalls,      \* bound: calls of each user
    MaxBodyCalls,  \* bound: calls of the callbacks
    MaxPackets,    \* bound: packets of the server
    MaxAttachments \* bound: attachments of a packet

Op == {"emit", "request", "disconnect"}
Nobody == "nobody"
Tasks == Users \cup {Poller}

ASSUME TasksAssumption == Poller \notin Users /\ Nobody \notin Tasks
\* An ack callback that requests waits for the lock it is called under.
ASSUME OpsAssumption == BodyOps \subseteq Op /\ AckOps \subseteq Op \ {"request"}
\* The packet, and the attachment of a binary one.
ASSUME FramesAssumption == Frames \subseteq {1, 2}
ASSUME BoundsAssumption == {MaxCalls, MaxBodyCalls, MaxPackets, MaxAttachments} \subseteq Nat

VARIABLES
    link,      \* "up", "down", or "closed" by the server
    engine,    \* the flag of the engine.io client
    flag,      \* Socket.connected
    owed,      \* attachments the server has still to send
    acks,      \* outstanding_acks: records with a number n and an id
    lock,      \* the holder of the lock on them
    pc, job,   \* of each task: its place in its call, and what it sends
    calls,     \* of each task, so far
    at,        \* where the Poller is, when it is in no call
    packet,    \* the packet in its hands
    scan,      \* the positions of matching acks: to be called, to be removed
    ended,     \* TRUE once the stream of the Socket has ended
    received,  \* packets of the server
    made,      \* the ids of the requests made
    asked,     \* requests the server can answer
    answered,  \* the numbers of those it has answered
    told,      \* TRUE once the Error callback has told of the end
    stopped    \* TRUE once a disconnect() has returned Ok

below == <<link, engine, owed, received>>
call == <<pc, job, calls>>
list == <<acks, lock, scan>>
poll == <<at, packet, ended, told>>
requests == <<made, asked, answered>>
vars == <<below, flag, call, list, poll, requests, stopped>>

Kinds == {"connect", "connect_error", "disconnect", "event", "empty_event", "no_event",
          "binary_event", "ack", "binary_ack", "foreign", "error"}
Binary == {"binary_event", "binary_ack"}
Answers == {"ack", "binary_ack"}
Ends == {"over", "torn", "crashed"}

\* What a call sends: its frames, for a request with its number and id.
Job(o, frames, n, id) == [op |-> o, left |-> frames, n |-> n, id |-> id]
NoJob == Job("emit", 0, 0, 0)
NoPacket == [kind |-> "event", id |-> 0]

\* After ClientBuilder::connect: both layers are connected.
Init ==
    /\ link = "up" /\ engine = TRUE /\ flag = TRUE /\ owed = 0 /\ received = 0
    /\ acks = <<>> /\ lock = Nobody /\ scan = [call |-> {}, gone |-> {}, again |-> FALSE]
    /\ pc = [t \in Tasks |-> "idle"] /\ job = [t \in Tasks |-> NoJob]
    /\ calls = [t \in Tasks |-> 0]
    /\ at = "next" /\ packet = NoPacket /\ ended = FALSE /\ told = FALSE
    /\ made = <<>> /\ asked = {} /\ answered = {} /\ stopped = FALSE

Goto(t, label) == pc' = [pc EXCEPT ![t] = label] /\ UNCHANGED job
Return(t) == pc' = [pc EXCEPT ![t] = "idle"] /\ job' = [job EXCEPT ![t] = NoJob]

-----------------------------------------------------------------------------
(* The calls of Client: emit, emit_with_ack, disconnect *)

Begin(t, label, j) ==
    /\ pc[t] = "idle" /\ calls[t] < (IF t = Poller THEN MaxBodyCalls ELSE MaxCalls)
    /\ calls' = [calls EXCEPT ![t] = @ + 1]
    /\ pc' = [pc EXCEPT ![t] = label] /\ job' = [job EXCEPT ![t] = j]
    /\ UNCHANGED <<below, flag, list, poll, asked, answered, stopped>>

\* A text event, or a binary one with its attachment.
Emit(t) == (\E k \in Frames : Begin(t, "check", Job("emit", k, 0, 0))) /\ UNCHANGED made

\* A request, text or binary as well.
Request(t) ==
    \E id \in Ids, k \in Frames :
        /\ Begin(t, "push", Job("request", k, Len(made) + 1, id))
        /\ made' = Append(made, id)

\* disconnect(): first a Disconnect packet.
Disconnect(t) == Begin(t, "check", Job("disconnect", 1, 0, 0)) /\ UNCHANGED made

Call(t, o) == \/ o = "emit" /\ Emit(t)
              \/ o = "request" /\ Request(t)
              \/ o = "disconnect" /\ Disconnect(t)

\* The request in a task's hands, as it is registered.
Req(t) == [n |-> job[t].n, id |-> job[t].id]

\* The ack is registered before the request is sent.
Push(t) ==
    /\ pc[t] = "push" /\ lock = Nobody
    /\ acks' = Append(acks, Req(t))
    /\ Goto(t, "check")
    /\ UNCHANGED <<below, flag, calls, lock, scan, poll, requests, stopped>>

\* Socket::send: both flags, IllegalActionBeforeOpen otherwise.
SendCheck(t) ==
    /\ pc[t] = "check"
    /\ IF engine /\ flag THEN Goto(t, "send") ELSE Return(t)
    /\ UNCHANGED <<below, flag, calls, list, poll, requests, stopped>>

\* engine_client.emit() of the packet and of each attachment: the first that fails
\* ends the call, and disconnect() with it.  A request that is complete may be
\* answered, whatever the server makes of a binary one.
SendFrame(t) ==
    /\ pc[t] = "send"
    /\ IF engine /\ link = "up"
       THEN /\ asked' = IF job[t].op = "request" /\ job[t].left = 1
                        THEN asked \cup {Req(t)} ELSE asked
            /\ CASE job[t].left > 1 -> job' = [job EXCEPT ![t].left = @ - 1] /\ UNCHANGED pc
                 [] job[t].op = "disconnect" -> Goto(t, "close_check")
                 [] OTHER -> Return(t)
       ELSE Return(t) /\ UNCHANGED asked
    /\ UNCHANGED <<below, flag, calls, list, poll, made, answered, stopped>>

\* Socket::disconnect closes an open engine.io client.
CloseCheck(t) ==
    /\ pc[t] = "close_check"
    /\ Goto(t, IF engine THEN "close" ELSE "store")
    /\ UNCHANGED <<below, flag, calls, list, poll, requests, stopped>>

\* Mutant: the error of the engine.io client is not looked at.
CloseRegardless(t) ==
    /\ pc[t] = "close"
    /\ engine' = (engine /\ link # "up")
    /\ Goto(t, "store")
    /\ UNCHANGED <<link, owed, received, flag, calls, list, poll, requests, stopped>>

\* engine_client.disconnect(): an error leaves both flags as they are.
Close(t) ==
    /\ pc[t] = "close"
    /\ IF engine /\ link = "up"
       THEN engine' = FALSE /\ Goto(t, "store")
       ELSE Return(t) /\ UNCHANGED engine
    /\ UNCHANGED <<link, owed, received, flag, calls, list, poll, requests, stopped>>

DisconnectStore(t) ==
    /\ pc[t] = "store"
    /\ flag' = FALSE /\ stopped' = TRUE
    /\ Return(t)
    /\ UNCHANGED <<below, calls, list, poll, requests>>

CallStep(t) ==
    Push(t) \/ SendCheck(t) \/ SendFrame(t) \/ CloseCheck(t) \/ Close(t) \/ DisconnectStore(t)

-----------------------------------------------------------------------------
(* The stream of packets: Socket::stream and handle_engineio_packet *)

\* The Poller is in no call of a callback.
Polls(place) == at = place /\ pc[Poller] = "idle"

\* The flag as handle_socketio_packet of the Socket leaves it.
Opened(kind) == CASE kind = "connect" -> TRUE
                  [] kind \in {"connect_error", "disconnect"} -> FALSE
                  [] OTHER -> flag

\* A packet without attachments, or the header of one that has some.  The server
\* answers what it was asked.
RecvPacket(kind) ==
    /\ Polls("next") /\ ~ended /\ link = "up" /\ owed = 0 /\ received < MaxPackets
    /\ received' = received + 1
    /\ \E k \in IF kind \in Binary THEN 1 .. MaxAttachments ELSE {0} :
         owed' = k /\ at' = IF k = 0 THEN "handle" ELSE "collect"
    /\ flag' = Opened(kind)
    /\ IF kind \in Answers
       THEN \E r \in asked : /\ packet' = [kind |-> kind, id |-> r.id]
                             /\ asked' = asked \ {r} /\ answered' = answered \cup {r.n}
       ELSE packet' = [kind |-> kind, id |-> 0] /\ UNCHANGED <<asked, answered>>
    /\ UNCHANGED <<link, engine, call, list, ended, told, made, stopped>>

\* An attachment where one is expected.
RecvAttachment ==
    /\ Polls("collect") /\ link = "up"
    /\ owed' = owed - 1
    /\ at' = IF owed = 1 THEN "handle" ELSE "collect"
    /\ UNCHANGED <<link, engine, received, flag, call, list, packet, ended, told, requests, stopped>>

\* Mutant: a packet that cannot be completed is given up like in the sync client.
StreamFailsAlone ==
    /\ at' = "handle" /\ packet' = [kind |-> "error", id |-> 0]
    /\ UNCHANGED ended

\* Mutant: the error is logged only.
StreamFailsQuietly ==
    /\ at' = "next" /\ ended' = TRUE
    /\ UNCHANGED packet

\* A try_stream ends with its error, which goes to the Error callback.
StreamFails ==
    /\ at' = "handle" /\ packet' = [kind |-> "error", id |-> 0]
    /\ ended' = TRUE

\* A Ping or Noop is passed over, but not between attachments; a Close, too.
RecvControl(closes) ==
    /\ Polls("next") \/ Polls("collect")
    /\ ~ended /\ link = "up" /\ received < MaxPackets
    /\ received' = received + 1
    /\ engine' = (engine /\ ~closes)
    /\ IF at = "collect" THEN StreamFails ELSE UNCHANGED <<at, packet, ended>>
    /\ UNCHANGED <<link, owed, flag, call, list, told, requests, stopped>>

\* An error of the transport, or something that does not decode.
RecvError ==
    /\ Polls("next") \/ Polls("collect")
    /\ ~ended /\ link \in {"up", "down"}
    /\ StreamFails
    /\ UNCHANGED <<below, flag, call, list, told, requests, stopped>>

\* The end of a websocket: nothing more, or an unwrap() between attachments.  The
\* loop of connect() asks again, which panics in an unfold that has ended.
RecvNone ==
    /\ Polls("next") \/ Polls("collect")
    /\ ended \/ link = "closed"
    /\ at' = IF at = "collect" THEN "torn" ELSE "over"
    /\ UNCHANGED <<below, flag, call, list, packet, ended, told, requests, stopped>>

-----------------------------------------------------------------------------
(* handle_socketio_packet, callback, handle_ack *)

\* To the callbacks, to the acks, or nowhere: another namespace, or no array.  An
\* empty array is reported to the Error callback.
Dispatch ==
    /\ Polls("handle")
    /\ at' = CASE packet.kind \in {"foreign", "no_event"} -> "next"
               [] packet.kind \in Answers -> "ack"
               [] OTHER -> "event"
    /\ told' = (told \/ packet.kind = "error")
    /\ packet' = IF packet.kind \in Answers THEN packet ELSE NoPacket
    /\ UNCHANGED <<below, flag, call, list, ended, requests, stopped>>

\* A callback, which may call the client, returns in the end.
EventBody == Polls("event") /\ \E o \in BodyOps : Call(Poller, o)
AckBody == Polls("ack_body") /\ \E o \in AckOps : Call(Poller, o)

EventReturn ==
    /\ Polls("event")
    /\ at' = "next"
    /\ UNCHANGED <<below, flag, call, list, packet, ended, told, requests, stopped>>

\* The task unwinds, and the locks of tokio are released unpoisoned.
BodyPanic ==
    /\ Polls("event") \/ Polls("ack_body")
    /\ at' = "crashed"
    /\ lock' = Nobody
    /\ UNCHANGED <<below, flag, call, acks, scan, packet, ended, told, requests, stopped>>

Matching(id) == {i \in 1 .. Len(acks) : acks[i].id = id}

\* The acks are locked for the whole loop over them.
AckLock ==
    /\ Polls("ack") /\ lock = Nobody
    /\ lock' = Poller
    /\ scan' = [call |-> Matching(packet.id), gone |-> Matching(packet.id), again |-> FALSE]
    /\ at' = "ack_scan"
    /\ UNCHANGED <<below, flag, call, acks, packet, ended, told, requests, stopped>>

Least(i, positions) == i \in positions /\ \A j \in positions : i <= j

\* The callback of an ack is called when it is in time, with the data and, for a
\* binary answer, with the first attachment.
NextMatch ==
    \E i \in scan.call :
        /\ Least(i, scan.call)
        /\ \/ at' = "ack_scan" /\ scan' = [scan EXCEPT !.call = @ \ {i}]
           \/ /\ at' = "ack_body"
              /\ scan' = [scan EXCEPT !.call = @ \ {i}, !.again = packet.kind = "binary_ack"]

\* Mutant: the lock is kept for the removal.
AckScanKeeps ==
    /\ Polls("ack_scan")
    /\ IF scan.call = {}
       THEN at' = "ack_remove" /\ packet' = NoPacket /\ UNCHANGED scan
       ELSE NextMatch /\ UNCHANGED packet
    /\ UNCHANGED <<below, flag, call, acks, lock, ended, told, requests, stopped>>

\* The matches in their order; then the lock guard is dropped.
AckScan ==
    /\ Polls("ack_scan")
    /\ IF scan.call = {}
       THEN at' = "ack_remove" /\ lock' = Nobody /\ packet' = NoPacket /\ UNCHANGED scan
       ELSE NextMatch /\ UNCHANGED <<lock, packet>>
    /\ UNCHANGED <<below, flag, call, acks, ended, told, requests, stopped>>

AckReturn ==
    /\ Polls("ack_body")
    /\ at' = IF scan.again THEN "ack_body" ELSE "ack_scan"
    /\ scan' = [scan EXCEPT !.again = FALSE]
    /\ UNCHANGED <<below, flag, call, acks, lock, packet, ended, told, requests, stopped>>

AcksRemoved ==
    /\ Polls("ack_remove") /\ scan.gone = {}
    /\ at' = "next"
    /\ UNCHANGED <<below, flag, call, list, packet, ended, told, requests, stopped>>

\* Mutant: the positions are counted from one too far.
AckRemoveNext ==
    /\ Polls("ack_remove") /\ lock = Nobody
    /\ \E i \in scan.gone :
        /\ Least(i, scan.gone)
        /\ acks' = IF i < Len(acks) THEN RemoveAt(acks, i + 1) ELSE acks
        /\ scan' = [scan EXCEPT !.gone = @ \ {i}]
    /\ UNCHANGED <<below, flag, call, lock, poll, requests, stopped>>

\* Vec::remove at each position under a lock of its own; past the end it panics.
AckRemove ==
    /\ Polls("ack_remove") /\ lock = Nobody
    /\ \E i \in scan.gone :
        /\ Least(i, scan.gone)
        /\ IF i > Len(acks)
           THEN at' = "crashed" /\ UNCHANGED <<acks, scan>>
           ELSE /\ acks' = RemoveAt(acks, i)
                /\ scan' = [scan EXCEPT !.gone = @ \ {i}]
                /\ UNCHANGED at
    /\ UNCHANGED <<below, flag, call, lock, packet, ended, told, requests, stopped>>

\* Requests work again after an outage; a websocket is closed or lost for good.
LinkChange ==
    /\ \/ link = "up" /\ link' \in {"down", "closed"}
       \/ link = "down" /\ link' = "up"
    /\ UNCHANGED <<engine, owed, received, flag, call, list, poll, requests, stopped>>

-----------------------------------------------------------------------------
Recv == (\E kind \in Kinds \ {"error"} : RecvPacket(kind))
        \/ RecvAttachment \/ RecvControl(FALSE) \/ RecvControl(TRUE)
Work == Dispatch \/ EventReturn \/ AckLock \/ AckScan \/ AckReturn \/ AckRemove \/ AcksRemoved

Next ==
    \/ \E u \in Users, o \in Op : Call(u, o)
    \/ \E t \in Tasks : CallStep(t)
    \/ Recv \/ RecvError \/ RecvNone
    \/ Work \/ EventBody \/ AckBody \/ BodyPanic
    \/ LinkChange

\* Tasks run and callbacks return; a dead link is an error to who reads from it.
Fairness ==
    /\ \A t \in Tasks : WF_vars(CallStep(t))
    /\ WF_vars(Work) /\ WF_vars(RecvNone) /\ WF_vars(link = "down" /\ RecvError)

Spec == Init /\ [][Next]_vars
FairSpec == Spec /\ Fairness

-----------------------------------------------------------------------------
StreamTypes ==
    /\ link \in {"up", "down", "closed"} /\ {engine, flag, ended, told, stopped} \subseteq BOOLEAN
    /\ owed \in 0 .. MaxAttachments /\ received \in 0 .. MaxPackets
    /\ at \in Ends \cup {"next", "collect", "handle", "event", "ack", "ack_scan", "ack_body", "ack_remove"}
    /\ packet \in [kind : Kinds, id : Ids \cup {0}]
    /\ at = "collect" => owed > 0

CallTypes ==
    /\ pc \in [Tasks -> {"idle", "push", "check", "send", "close_check", "close", "store"}]
    /\ job \in [Tasks -> [op : Op, left : 0 .. 2, n : Nat, id : Ids \cup {0}]]
    /\ calls \in [Tasks -> Nat] /\ made \in Seq(Ids)
    /\ \A t \in Tasks : /\ pc[t] = "push" => job[t].op = "request"
                        /\ job[t].op = "request" => job[t].id \in Ids
    /\ pc[Poller] # "idle" => at \in {"event", "ack_body"}

AckTypes ==
    /\ acks \in Seq([n : Nat, id : Ids]) /\ asked \subseteq [n : Nat, id : Ids] /\ answered \subseteq Nat
    /\ scan \in [call : SUBSET (Nat \ {0}), gone : SUBSET (Nat \ {0}), again : BOOLEAN]
    /\ lock \in {Poller, Nobody}
    /\ (lock = Poller) <=> (at \in {"ack_scan", "ack_body"})

\* Types; the Poller has the lock on the acks where their callbacks run, and calls
\* the client from callbacks only.
TypeOK == StreamTypes /\ CallTypes /\ AckTypes

\* An attachment is never taken for a packet: while the server still has some to
\* send the Poller collects them, or its stream has ended.
AttachmentsCollected == owed > 0 => ended \/ at \in {"collect", "torn"}

\* As long as the random ids differ, what is outstanding between two packets is
\* exactly what was not answered: registration precedes the answer, and the
\* positions found under one lock are right under the next ones.
OutstandingExact ==
    (at = "next" /\ ~ended /\ IsInjective(made)) =>
        LET numbers == {acks[i].n : i \in DOMAIN acks}
        IN  {r.n : r \in asked} \subseteq numbers /\ numbers \cap answered = {}

\* After a disconnect() that returned Ok the client is closed for good, though a
\* Connect packet under way may set the flag of the Socket again.
StoppedIsClosed == stopped => ~engine

\* A link that is lost while the client polls is reported to the Error callback,
\* unless a callback has crashed the task or the link comes back in time.
LossIsHeard == (link = "down") ~> (link # "down" \/ told \/ at = "crashed")

\* Every call returns, also those that wait for the acks while callbacks run.
CallsReturn == \A t \in Tasks : (pc[t] # "idle") ~> (pc[t] = "idle")
=============================================================================
