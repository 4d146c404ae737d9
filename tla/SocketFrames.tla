---------------------------- MODULE SocketFrames ----------------------------
(***************************************************************************)
(* The synchronous socket.io Socket of socketio/src/socket.rs: how packets *)
(* with binary attachments become frames of the engine.io client below it, *)
(* and frames become packets again.  A packet is one frame for its header  *)
(* and one for each attachment; nothing but their order ties them.         *)
(*                                                                         *)
(* The engine.io client is taken for what module PacketStream says of it:  *)
(* frames arrive in order, each once, or in place of an Err.  Emitting is  *)
(* its check of the flag and the transport's emit.  The server sends the   *)
(* frames of a packet in order, with control frames between any two; the   *)
(* bytes of an attachment are taken not to decode as a packet.  Each emit  *)
(* and each poll of the transport may fail, and a later one work, as each  *)
(* is a request of its own over HTTP; an emit that fails may have carried  *)
(* its frame, which then has arrived by the time it returns.               *)
(***************************************************************************)
EXTENDS Naturals, Sequences

CONSTANTS
    Senders,        \* threads that call send()
    Closers,        \* threads that call RawClient::disconnect, once each
    Poller,         \* the thread that calls poll()
    Sizes,          \* numbers of attachments a packet of the senders may have
    ServerSizes,    \* ... and one of the server
    ServerTypes,    \* what the server's packets may be
    MaxSends,       \* bound: no sender begins a send() after so many
    MaxPackets,     \* bound: packets of the server
    MaxControls     \* bound: Ping and Noop frames of the server

PacketId == {"Connect", "Disconnect", "Event", "ConnectError", "BinaryEvent"}

ASSUME ThreadsAssumption ==
    /\ Senders \cap Closers = {}
    /\ Poller \notin Senders \cup Closers
ASSUME SizesAssumption == Sizes \cup ServerSizes \subseteq Nat
ASSUME ServerTypesAssumption == ServerTypes \subseteq PacketId
ASSUME BoundsAssumption ==
    MaxSends \in Nat /\ MaxPackets \in Nat /\ MaxControls \in Nat

Users == Senders \cup Closers
Threads == Users \cup {Poller}

Header == [kind : {"Header"}, n : Nat \ {0}, type : PacketId, size : ServerSizes]
Data == [kind : {"Data"}, n : Nat, i : Nat \ {0}]
Control == [kind : {"Ping", "Noop", "Close", "None", "Err"}]
Outgoing == [kind : {"Message", "Disconnect", "Pong", "Close"}, n : Nat, i : Nat,
             size : Nat]

Nothing == [kind |-> "None"]     \* Ok(None) of the engine.io client
Failure == [kind |-> "Err"]      \* an Err without a frame of the server
NoHeader == [kind |-> "NoHeader"]

\* The first frame of packet n with k attachments, the one frame of a Disconnect
\* packet, and a frame without a packet.
Message(n, k) == [kind |-> "Message", n |-> n, i |-> 0, size |-> k]
Farewell(n) == [kind |-> "Disconnect", n |-> n, i |-> 0, size |-> 0]
Plain(kind) == [kind |-> kind, n |-> 0, i |-> 0, size |-> 0]
Empty == Plain("Message")

VARIABLES
    engine,      \* the `connected` flag of the engine.io client
    connected,   \* Socket.connected
    opened,      \* TRUE once connect() has returned
    wire,        \* the frames of packets that have arrived, in order
    pc,          \* where each thread is
    out,         \* out[t]: the next frame thread t emits
    hand,        \* what engine_client.poll() returned to the poller
    intact,      \* FALSE: it returned an Err in place of that frame
    header,      \* the packet whose attachments the poller collects
    attachments, \* those it has, as frames
    server,      \* what the server sent: packets, frames left of the last one,
                 \* control frames, and whether it sent a Close
    sends,       \* number of calls of send()
    stopped,     \* TRUE once a disconnect() has returned
    late,        \* the calls of send() that began after that
    accepted,    \* the calls of send() that passed its check
    cut,         \* the calls of send() that ended with the Err of an emit()
    delivered,   \* packets returned by poll(): number and attachments
    failed       \* numbers of the server's packets given up with an Err

outVars == <<opened, wire, out, sends, stopped, late, accepted, cut>>
inVars == <<hand, intact, header, attachments, server, delivered, failed>>
vars == <<engine, connected, pc, outVars, inVars>>

Collecting == header # NoHeader

----------------------------------------------------------------------------
\* Socket::new.
Init ==
    /\ engine = FALSE
    /\ connected = FALSE
    /\ opened = FALSE
    /\ wire = <<>>
    /\ pc = [t \in Threads |-> "idle"]
    /\ out = [t \in Threads |-> Empty]
    /\ hand = Nothing
    /\ intact = TRUE
    /\ header = NoHeader
    /\ attachments = <<>>
    /\ server = [packets |-> 0, frames |-> 0, controls |-> 0, closed |-> FALSE]
    /\ sends = 0
    /\ stopped = FALSE
    /\ late = {}
    /\ accepted = {}
    /\ cut = {}
    /\ delivered = <<>>
    /\ failed = {}

Goto(t, label) == pc' = [pc EXCEPT ![t] = label]

\* Thread t has nothing more to emit.
Leave(t, label) == Goto(t, label) /\ out' = [out EXCEPT ![t] = Empty]

\* connect(): the engine.io client, its first Pong, then the flag.  It is called
\* once, before anybody else has the Socket; if it fails the Socket is dropped.
Connect ==
    /\ ~opened
    /\ engine' = TRUE
    /\ connected' = TRUE
    /\ opened' = TRUE
    /\ UNCHANGED <<pc, wire, out, sends, stopped, late, accepted, cut, inVars>>

----------------------------------------------------------------------------
(* Socket::send and the emit() of the engine.io client *)

\* Thread t begins a send() of a packet with this first frame.
BeginSend(t, frame) ==
    /\ opened
    /\ pc[t] = "idle"
    /\ out' = [out EXCEPT ![t] = frame]
    /\ sends' = sends + 1
    /\ late' = IF stopped THEN late \cup {sends + 1} ELSE late
    /\ Goto(t, "s_engine")
    /\ UNCHANGED <<engine, connected, opened, wire, stopped, accepted, cut, inVars>>

\* send() of a packet with a number of attachments.
Send(s) ==
    /\ sends < MaxSends
    /\ \E k \in Sizes : BeginSend(s, Message(sends + 1, k))

\* Where a thread goes on after its send(): disconnect() does not look at the result.
AfterSend(t) == IF t \in Closers THEN "d_socket" ELSE "idle"

\* Mutant: send() trusts its own flag.
SendCheckEngineless(s) ==
    /\ pc[s] = "s_engine"
    /\ Goto(s, "s_socket")
    /\ UNCHANGED <<engine, connected, outVars, inVars>>

\* is_engineio_connected(): IllegalActionBeforeOpen unless it is.
SendCheckEngine(s) ==
    /\ pc[s] = "s_engine"
    /\ IF engine
       THEN Goto(s, "s_socket") /\ UNCHANGED out
       ELSE Leave(s, AfterSend(s))
    /\ UNCHANGED <<engine, connected, opened, wire, sends, stopped,
                   late, accepted, cut, inVars>>

\* The flag of the Socket, read after the other.
SendCheckSocket(s) ==
    /\ pc[s] = "s_socket"
    /\ IF connected
       THEN /\ Goto(s, "e_check")
            /\ accepted' = accepted \cup {out[s].n}
            /\ UNCHANGED out
       ELSE Leave(s, AfterSend(s)) /\ UNCHANGED accepted
    /\ UNCHANGED <<engine, connected, opened, wire, sends, stopped,
                   late, cut, inVars>>

\* Mutant: the last attachment is forgotten.
AfterEmitShort(t, ok) ==
    \/ /\ out[t].kind = "Close"
       /\ Leave(t, "d_store")
       /\ UNCHANGED <<hand, cut>>
    \/ /\ out[t].kind = "Pong"
       /\ Leave(t, "got")
       /\ hand' = IF ok THEN [kind |-> "Ping"] ELSE Failure
       /\ UNCHANGED cut
    \/ /\ out[t].kind \in {"Message", "Disconnect"}
       /\ IF ok /\ out[t].i + 1 < out[t].size
          THEN Goto(t, "e_check") /\ out' = [out EXCEPT ![t].i = @ + 1]
          ELSE Leave(t, AfterSend(t))
       /\ cut' = IF ok THEN cut ELSE cut \cup {out[t].n}
       /\ UNCHANGED hand

\* Where thread t goes on after an emit(): a sender with the next attachment, if
\* there is one and it worked; the client's disconnect() clears the flag whatever
\* happened; the poller's Ping is returned, or the Err of its Pong.
AfterEmit(t, ok) ==
    \/ /\ out[t].kind = "Close"
       /\ Leave(t, "d_store")
       /\ UNCHANGED <<hand, cut>>
    \/ /\ out[t].kind = "Pong"
       /\ Leave(t, "got")
       /\ hand' = IF ok THEN [kind |-> "Ping"] ELSE Failure
       /\ UNCHANGED cut
    \/ /\ out[t].kind \in {"Message", "Disconnect"}
       /\ IF ok /\ out[t].i < out[t].size
          THEN Goto(t, "e_check") /\ out' = [out EXCEPT ![t].i = @ + 1]
          ELSE Leave(t, AfterSend(t))
       /\ cut' = IF ok THEN cut ELSE cut \cup {out[t].n}
       /\ UNCHANGED hand

\* The engine.io client's emit() checks its flag ...
EmitCheck(t) ==
    /\ pc[t] = "e_check"
    /\ IF engine
       THEN Goto(t, "e_send") /\ UNCHANGED <<hand, out, cut>>
       ELSE AfterEmit(t, FALSE)
    /\ UNCHANGED <<engine, connected, opened, wire, sends, stopped,
                   late, accepted, intact, header, attachments, server,
                   delivered, failed>>

\* ... and then sends; of a request that failed only the answer may be lost.
EmitSend(t) ==
    /\ pc[t] = "e_send"
    /\ \E ok, arrives \in BOOLEAN :
         /\ ok => arrives
         /\ wire' = IF arrives /\ out[t].kind \in {"Message", "Disconnect"}
                    THEN Append(wire, out[t]) ELSE wire
         /\ AfterEmit(t, ok)
    /\ UNCHANGED <<engine, connected, opened, sends, stopped, late,
                   accepted, intact, header, attachments, server, delivered,
                   failed>>

----------------------------------------------------------------------------
(* RawClient::disconnect, the one caller of Socket::disconnect *)

\* It sends a Disconnect packet, between whatever frames other threads send.
Disconnect(c) == BeginSend(c, Farewell(sends + 1))

\* Socket::disconnect: the engine.io client is closed if it is connected.
DisconnectSocket(c) ==
    /\ pc[c] = "d_socket"
    /\ IF engine
       THEN /\ out' = [out EXCEPT ![c] = Plain("Close")]
            /\ Goto(c, "e_check")
       ELSE /\ Goto(c, "d_flag")
            /\ UNCHANGED out
    /\ UNCHANGED <<engine, connected, opened, wire, sends, stopped,
                   late, accepted, cut, inVars>>

\* Its disconnect() ends by clearing its flag.
DisconnectStore(c) ==
    /\ pc[c] = "d_store"
    /\ engine' = FALSE
    /\ Goto(c, "d_flag")
    /\ UNCHANGED <<connected, outVars, inVars>>

\* Then the Socket's flag is cleared.
DisconnectFlag(c) ==
    /\ pc[c] = "d_flag"
    /\ connected' = FALSE
    /\ stopped' = TRUE
    /\ Goto(c, "done")
    /\ UNCHANGED <<engine, opened, wire, out, sends, late, accepted, cut, inVars>>

----------------------------------------------------------------------------
(* The poll() of the engine.io client, as Socket::poll calls it *)

\* Socket::poll.
Poll ==
    /\ opened
    /\ pc[Poller] = "idle"
    /\ Goto(Poller, "ask")
    /\ UNCHANGED <<engine, connected, outVars, inVars>>

\* engine_client.poll(): Ok(None) when closed.
Ask ==
    /\ pc[Poller] = "ask"
    /\ IF engine
       THEN Goto(Poller, "wait") /\ UNCHANGED <<hand, intact>>
       ELSE Goto(Poller, "got") /\ hand' = Nothing /\ intact' = TRUE
    /\ UNCHANGED <<engine, connected, outVars, header, attachments,
                   server, delivered, failed>>

\* It returns a frame, or an Err that has consumed the frame.
Receive(frame, ok) ==
    /\ pc[Poller] = "wait"
    /\ ~server.closed
    /\ hand' = frame
    /\ intact' = ok
    /\ UNCHANGED <<connected, outVars, header, attachments, delivered,
                   failed>>

\* A new packet begins; only a BinaryEvent has attachments.
ReceiveHeader ==
    /\ server.frames = 0
    /\ server.packets < MaxPackets
    /\ \E k \in ServerSizes, type \in ServerTypes, ok \in BOOLEAN :
         /\ (k > 0) <=> (type = "BinaryEvent")
         /\ Receive([kind |-> "Header", n |-> server.packets + 1, type |-> type,
                     size |-> k], ok)
         /\ server' = [server EXCEPT !.packets = @ + 1, !.frames = k]
    /\ Goto(Poller, "got")
    /\ UNCHANGED engine

\* The next attachment: the frames that are left tell which.
ReceiveData ==
    /\ server.frames > 0
    /\ \E ok \in BOOLEAN :
         Receive([kind |-> "Data", n |-> server.packets, i |-> server.frames], ok)
    /\ server' = [server EXCEPT !.frames = @ - 1]
    /\ Goto(Poller, "got")
    /\ UNCHANGED engine

ReceiveNoop ==
    /\ server.controls < MaxControls
    /\ Receive([kind |-> "Noop"], TRUE)
    /\ server' = [server EXCEPT !.controls = @ + 1]
    /\ Goto(Poller, "got")
    /\ UNCHANGED engine

\* The Pong is emitted before the Ping is returned.
ReceivePing ==
    /\ server.controls < MaxControls
    /\ pc[Poller] = "wait" /\ ~server.closed
    /\ server' = [server EXCEPT !.controls = @ + 1]
    /\ out' = [out EXCEPT ![Poller] = Plain("Pong")]
    /\ intact' = TRUE
    /\ Goto(Poller, "e_check")
    /\ UNCHANGED <<engine, connected, opened, wire, sends, stopped,
                   late, accepted, cut, hand, header, attachments, delivered, failed>>

\* The server closes, perhaps in the middle of a packet.
ReceiveClose ==
    /\ Receive([kind |-> "Close"], TRUE)
    /\ server' = [server EXCEPT !.closed = TRUE]
    /\ engine' = FALSE
    /\ Goto(Poller, "got")

\* An Err without a frame, whatever became of the request that asked for one.
ReceiveFails ==
    /\ pc[Poller] = "wait"
    /\ hand' = Failure
    /\ intact' = TRUE
    /\ Goto(Poller, "got")
    /\ UNCHANGED <<engine, connected, outVars, header, attachments,
                   server, delivered, failed>>

----------------------------------------------------------------------------
(* Socket::poll with handle_engineio_packet and handle_socketio_packet *)

\* What the engine.io client returned is dealt with.
Continue(label) == Goto(Poller, label) /\ hand' = Nothing /\ intact' = TRUE

\* poll() returns an Err; the packet it was working on is given up.
Fail(numbers) ==
    /\ failed' = failed \cup numbers
    /\ header' = NoHeader
    /\ attachments' = <<>>
    /\ Continue("idle")
    /\ UNCHANGED <<connected, delivered>>

\* The number of the packet being collected.
Begun == IF Collecting THEN {header.n} ELSE {}

\* The packet is complete: flags first, then poll() returns it.
Deliver(h, parts) ==
    /\ connected' = CASE h.type = "Connect" -> TRUE
                      [] h.type \in {"ConnectError", "Disconnect"} -> FALSE
                      [] OTHER -> connected
    /\ delivered' = Append(delivered, [n |-> h.n, size |-> h.size, parts |-> parts])
    /\ header' = NoHeader
    /\ attachments' = <<>>
    /\ Continue("idle")
    /\ UNCHANGED failed

handleFrame == <<engine, outVars, server>>

\* Mutant: the end of the engine.io client is no reason to stop collecting.
HandleNoneRetries ==
    /\ pc[Poller] = "got" /\ hand.kind = "None"
    /\ IF Collecting
       THEN /\ Continue("ask")
            /\ UNCHANGED <<connected, delivered, failed, header, attachments>>
       ELSE Fail({})
    /\ UNCHANGED handleFrame

\* Ok(None): handed on, or IncompletePacket if attachments are missing.
HandleNone ==
    /\ pc[Poller] = "got" /\ hand.kind = "None"
    /\ Fail(Begun)
    /\ UNCHANGED handleFrame

\* Mutant: an error in the middle of a packet is skipped.
HandleErrorSkips ==
    /\ pc[Poller] = "got" /\ (hand.kind = "Err" \/ ~intact)
    /\ IF Collecting
       THEN /\ Continue("ask")
            /\ UNCHANGED <<connected, delivered, failed, header, attachments>>
       ELSE Fail(IF intact THEN {} ELSE {hand.n})
    /\ UNCHANGED handleFrame

\* Err of the engine.io client: handed on, whatever was collected.
HandleError ==
    /\ pc[Poller] = "got" /\ (hand.kind = "Err" \/ ~intact)
    /\ Fail(Begun \cup (IF intact THEN {} ELSE {hand.n}))
    /\ UNCHANGED handleFrame

\* Control frames are skipped, but not where an attachment is expected
\* (InvalidAttachmentPacketType).
HandleControl ==
    /\ pc[Poller] = "got" /\ hand.kind \in {"Ping", "Noop", "Close"}
    /\ IF Collecting
       THEN Fail(Begun)
       ELSE /\ Continue("ask")
            /\ UNCHANGED <<connected, delivered, failed, header, attachments>>
    /\ UNCHANGED handleFrame

\* A message where a packet is expected: it is complete without attachments.
HandleHeader ==
    /\ pc[Poller] = "got" /\ hand.kind = "Header" /\ intact /\ ~Collecting
    /\ IF hand.size = 0
       THEN Deliver(hand, <<>>)
       ELSE /\ header' = hand
            /\ Continue("ask")
            /\ UNCHANGED <<connected, delivered, failed, attachments>>
    /\ UNCHANGED handleFrame

\* An attachment where a packet is expected: it does not decode.
HandleStray ==
    /\ pc[Poller] = "got" /\ hand.kind = "Data" /\ intact /\ ~Collecting
    /\ Fail({hand.n})
    /\ UNCHANGED handleFrame

\* Mutant: the attachments of a packet are handed out one too early.
HandleAttachmentEarly ==
    /\ pc[Poller] = "got" /\ hand.kind \in {"Header", "Data"} /\ intact
    /\ Collecting
    /\ LET parts == Append(attachments, hand) IN
         IF Len(parts) >= header.size - 1
         THEN Deliver(header, parts)
         ELSE /\ attachments' = parts
              /\ Continue("ask")
              /\ UNCHANGED <<connected, delivered, failed, header>>
    /\ UNCHANGED handleFrame

\* Any message is taken for the next attachment.
HandleAttachment ==
    /\ pc[Poller] = "got" /\ hand.kind \in {"Header", "Data"} /\ intact
    /\ Collecting
    /\ LET parts == Append(attachments, hand) IN
         IF Len(parts) = header.size
         THEN Deliver(header, parts)
         ELSE /\ attachments' = parts
              /\ Continue("ask")
              /\ UNCHANGED <<connected, delivered, failed, header>>
    /\ UNCHANGED handleFrame

----------------------------------------------------------------------------
EmitStep(t) == EmitCheck(t) \/ EmitSend(t)
SendStep(s) == SendCheckEngine(s) \/ SendCheckSocket(s)
CloseStep(c) == DisconnectSocket(c) \/ DisconnectStore(c) \/ DisconnectFlag(c)
Frame ==
    \/ ReceiveHeader \/ ReceiveData \/ ReceiveNoop \/ ReceivePing
    \/ ReceiveClose \/ ReceiveFails
Handle ==
    \/ HandleNone \/ HandleError \/ HandleControl
    \/ HandleHeader \/ HandleStray \/ HandleAttachment
PollStep == Ask \/ Frame \/ Handle

Next ==
    \/ Connect
    \/ \E s \in Senders : Send(s)
    \/ \E c \in Closers : Disconnect(c) \/ CloseStep(c)
    \/ \E u \in Users : SendStep(u)
    \/ \E t \in Threads : EmitStep(t)
    \/ Poll \/ PollStep

Spec == Init /\ [][Next]_vars

\* The polling thread is scheduled, and the rest of a packet that the server has
\* begun arrives, or the transport fails.
FairSpec == Spec /\ WF_vars(PollStep) /\ WF_vars(EmitStep(Poller))

----------------------------------------------------------------------------
PC == {"idle", "s_engine", "s_socket", "e_check", "e_send", "d_socket", "d_store",
       "d_flag", "done", "ask", "wait", "got"}
Returned == [n : Nat, size : Nat, parts : Seq(Header \cup Data)]

SharedTypes ==
    /\ engine \in BOOLEAN /\ connected \in BOOLEAN /\ opened \in BOOLEAN
    /\ stopped \in BOOLEAN
    /\ wire \in Seq(Outgoing)
    /\ pc \in [Threads -> PC]
    /\ out \in [Threads -> Outgoing]
    /\ sends \in Nat
    /\ late \subseteq Nat /\ accepted \subseteq Nat /\ cut \subseteq Nat

PollTypes ==
    /\ hand \in Header \cup Data \cup Control
    /\ intact \in BOOLEAN
    /\ header \in Header \cup {NoHeader}
    /\ attachments \in Seq(Header \cup Data)
    /\ server \in [packets : 0..MaxPackets, frames : Nat,
                   controls : 0..MaxControls, closed : BOOLEAN]
    /\ delivered \in Seq(Returned)
    /\ failed \subseteq Nat

\* Only the poller answers Pings; it holds a frame only where it handles one, and
\* attachments only for a packet that still misses some.
Places ==
    /\ \A t \in Threads : out[t].kind = "Pong" => t = Poller
    /\ pc[Poller] # "got" => hand = Nothing /\ intact
    /\ ~intact => hand.kind \in {"Header", "Data"}
    /\ IF Collecting THEN Len(attachments) < header.size ELSE attachments = <<>>

\* Every variable has its type, and the poller's hands fit the place where it is.
TypeOK == SharedTypes /\ PollTypes /\ Places

\* A packet with attachments is returned with all of its own and no others, in
\* their order, whatever Pings, errors and closings come between the frames.
OwnAttachments ==
    \A j \in 1..Len(delivered) :
        LET d == delivered[j] IN
        /\ Len(d.parts) = d.size
        /\ \A i \in 1..d.size :
             d.parts[i] = [kind |-> "Data", n |-> d.n, i |-> d.size + 1 - i]

\* Frame k is the first that a sender has put on the wire after frame j: only
\* Disconnect packets of disconnect() lie between them.
Follows(j, k) ==
    /\ j < k /\ wire[j].kind = "Message" /\ wire[k].kind = "Message"
    /\ \A m \in j + 1 .. k - 1 : wire[m].kind = "Disconnect"
First(k) ==
    wire[k].kind = "Message" /\ \A m \in 1 .. k - 1 : wire[m].kind = "Disconnect"

\* With one sender, whoever reads the frames on the wire finds each header followed
\* by its attachments: only the Disconnect packet of a thread that disconnects comes
\* between them, and a packet that misses some had its sender told so by an Err.
PacketsReadable ==
    /\ \A k \in 1 .. Len(wire) : First(k) => wire[k].i = 0
    /\ \A j, k \in 1 .. Len(wire) :
         Follows(j, k) =>
             IF wire[k].i = 0
             THEN wire[j].i = wire[j].size \/ wire[j].n \in cut
             ELSE wire[j] = [wire[k] EXCEPT !.i = @ - 1]

\* After a disconnect() has returned every send() fails, although a Connect packet
\* that was under way may set the Socket's flag once more.
RefusedAfterDisconnect == late \cap accepted = {}

\* Towards its caller poll() is a stream of packets: in the order of the server,
\* each once, and a packet that does not come out belongs to a call that failed.
Packets == INSTANCE PacketStream WITH
    fetched  <- server.packets,
    settled  <- IF Collecting \/ (pc[Poller] = "got" /\ hand.kind = "Header")
                THEN server.packets - 1 ELSE server.packets,
    returned <- delivered,
    refused  <- failed
PacketsInOrder == Packets!Spec

\* A poll() that has begun to collect attachments ends, also when the connection is
\* closed or fails before they are complete.
CollectingEnds == Collecting ~> ~Collecting
=============================================================================
