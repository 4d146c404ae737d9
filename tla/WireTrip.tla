------------------------------ MODULE WireTrip ------------------------------
(***************************************************************************)
(* Packets on their way between the application and the server, through    *)
(* both codecs and a transport: SocketCodec makes text of a packet of      *)
(* socket.io, EngineCodec makes bytes of it and of its attachments, and    *)
(* polling or a websocket carries them, several at a time or one by one.   *)
(* The server follows the protocol, as the tests of socketio/src/packet.rs *)
(* quote it: Text below is what a message is to look like.                 *)
(*                                                                         *)
(* A single thread sends and polls; SocketFrames is about more of them and *)
(* about failures.                                                         *)
(***************************************************************************)
EXTENDS Naturals, SequencesExt

CONSTANTS
    Transports,     \* the transports that are looked at
    Namespaces,     \* the namespaces that are looked at
    Ids,            \* the ids of acks, as their digits
    Attachments,    \* the attachments, which are not empty
    Payloads,       \* what is emitted: "json", "bare", "quote", "binary"
    AckPayloads,    \* what is emitted with an ack
    MaxMessages     \* bound: messages of the server and calls of the application

E == INSTANCE EngineCodec
S == INSTANCE SocketCodec

ASSUME NamespacesAssumption ==
    \A nsp \in Namespaces :
        /\ nsp \in Seq(STRING) /\ nsp # <<>>
        /\ Head(nsp) = "/"
        /\ \A i \in DOMAIN nsp : nsp[i] # "," /\ nsp[i] # E!Separator

\* An i32 that is not negative, as to_string() writes it: nine digits always fit.
ASSUME IdsAssumption ==
    \A id \in Ids :
        /\ id \in Seq(STRING) /\ Len(id) \in 1 .. 9
        /\ \A i \in DOMAIN id : S!IsDigit(id[i])
        /\ Head(id) = "0" => Len(id) = 1

ASSUME AttachmentsAssumption ==
    \A data \in Attachments : data \in Seq(E!AttachmentByte) /\ data # <<>>

ASSUME PayloadsAssumption ==
    Payloads \cup AckPayloads \subseteq {"json", "bare", "quote", "binary"}

VARIABLES
    transport,      \* the client's transport
    sent,           \* the messages of the server
    queue,          \* the packets of engine.io it has not been polled for
    remaining,      \* Socket.remaining_packets
    header,         \* the packet whose attachments are collected, if any
    got,            \* the packets the client's poll() has returned
    failed,         \* TRUE once poll() has returned an Err
    calls,          \* number of calls of the application
    emitted,        \* the messages they are to tell the server
    arrived         \* the frames that have arrived at the server

vars == <<transport, sent, queue, remaining, header, got, failed, calls, emitted, arrived>>
inbound == <<sent, queue, remaining, header, got, failed>>
outbound == <<calls, emitted, arrived>>

-----------------------------------------------------------------------------

(* The protocol. *)

Message(type, nsp, id, name, args, attachments) ==
    [type |-> type, nsp |-> nsp, id |-> id, name |-> name, args |-> args,
     attachments |-> attachments]

Single == {data \in Attachments : Len(data) = 1}

ServerMessage ==
    {Message(type, nsp, <<>>, <<>>, <<"json">>, <<>>) :
        type \in {"Connect", "ConnectError"}, nsp \in Namespaces}
    \cup {Message("Disconnect", nsp, <<>>, <<>>, <<>>, <<>>) : nsp \in Namespaces}
    \cup {Message("Event", nsp, id, <<"event">>, <<"json">>, <<>>) :
             nsp \in Namespaces, id \in Ids \cup {<<>>}}
    \cup {Message("Ack", nsp, id, <<>>, args, <<>>) :
             nsp \in Namespaces, id \in Ids, args \in {<<>>, <<"json">>}}
    \cup {Message("BinaryEvent", nsp, <<>>, <<"event">>, <<>>, <<a>>) :
             nsp \in Namespaces, a \in Attachments}
    \cup {Message("BinaryEvent", S!DefaultNsp, id, <<"event">>, <<>>, <<a, b>>) :
             id \in Ids, a, b \in Single}
    \cup {Message("BinaryAck", nsp, id, <<>>, <<>>, <<a>>) :
             nsp \in Namespaces, id \in Ids, a \in Attachments}

Elements(m) ==
    m.name \o m.args \o [k \in DOMAIN m.attachments |-> S!Placeholder(k - 1)[1]]

\* An array of the elements, or a value where there is no array.
Json(m) ==
    IF m.type \in {"Connect", "ConnectError", "Disconnect"} THEN m.args
    ELSE LET elements == Elements(m)
         IN <<"[">> \o [i \in 1 .. 2 * Len(elements) - 1 |->
                           IF i % 2 = 1 THEN elements[(i + 1) \div 2] ELSE ","] \o <<"]">>

Text(m) ==
    <<S!TypeDigit[m.type]>>
        \o (IF S!IsBinary(m.type) THEN S!Text(Len(m.attachments)) \o <<"-">> ELSE <<>>)
        \o (IF m.nsp = S!DefaultNsp THEN <<>> ELSE m.nsp \o <<",">>)
        \o m.id \o Json(m)

\* The packets of engine.io that make up a message.
PacketsFor(m) ==
    <<E!Packet("Message", Text(m))>>
        \o [k \in DOMAIN m.attachments |-> E!Packet("MessageBinary", m.attachments[k])]

\* What the client's poll() is to return for it.  Of the arguments of a binary
\* message only those of one attachment are told apart from it.
Reads(packet, m) ==
    /\ packet.type = m.type /\ packet.nsp = m.nsp /\ packet.id = m.id
    /\ packet.attachments = m.attachments
    /\ Len(m.attachments) = 0 => packet.data = Json(m)
    /\ Len(m.attachments) = 1 => packet.data = m.name

\* What emit() and emit_with_ack() are to tell the server: one message, or none
\* for text that is not JSON, which is an InvalidJson error by their documentation.
Emission(payload, nsp, id) ==
    IF payload.binary
    THEN <<Message("BinaryEvent", nsp, id, <<"event">>, <<>>, <<payload.data>>)>>
    ELSE IF payload.data = <<"json">>
    THEN <<Message("Event", nsp, id, <<"event">>, <<"json">>, <<>>)>>
    ELSE <<>>

\* A packet of engine.io as a transport is to carry it.
Carried(packet, t) ==
    IF packet.id = "Message" THEN E!Frame(FALSE, <<"4">> \o packet.data)
    ELSE IF t = "polling" THEN E!Frame(FALSE, <<"b">> \o E!ToBase64(packet.data))
    ELSE E!Frame(TRUE, packet.data)

\* What the server puts into one answer: packets with separators between them,
\* or one message of the websocket.
Answers ==
    IF transport = "polling"
    THEN {[size |-> k, frame |-> E!Frame(FALSE, E!EncodePayload(SubSeq(queue, 1, k)))] :
             k \in DOMAIN queue}
    ELSE {[size |-> 1, frame |-> Carried(queue[k], transport)] : k \in DOMAIN queue \cap {1}}

-----------------------------------------------------------------------------

Init ==
    /\ transport \in Transports
    /\ sent = <<>> /\ queue = <<>> /\ remaining = <<>> /\ header = <<>> /\ got = <<>>
    /\ failed = FALSE
    /\ calls = 0 /\ emitted = <<>> /\ arrived = <<>>

More == Len(sent) + calls < MaxMessages

(* From the server to the application. *)

ServerSends ==
    /\ More
    /\ \E m \in ServerMessage : sent' = Append(sent, m) /\ queue' = queue \o PacketsFor(m)
    /\ UNCHANGED <<transport, remaining, header, got, failed, outbound>>

\* Socket::poll of the engine.io socket when nothing is left over: a payload
\* with a part that does not decode is an Err.
Poll ==
    /\ remaining = <<>> /\ ~failed
    /\ \E answer \in Answers :
         /\ queue' = SubSeq(queue, answer.size + 1, Len(queue))
         /\ LET packets == E!PacketsOf(answer.frame)
            IN IF E!Error \in ToSet(packets)
               THEN failed' = TRUE /\ UNCHANGED remaining
               ELSE remaining' = packets /\ UNCHANGED failed
    /\ UNCHANGED <<transport, sent, header, got, outbound>>

\* handle_engineio_packet: a packet of socket.io, which is returned if it has
\* no attachments.
HandleHeader ==
    /\ remaining # <<>> /\ header = <<>> /\ ~failed
    /\ remaining' = Tail(remaining)
    /\ LET packet == S!Decode(Head(remaining).data)
       IN CASE packet = S!Error -> failed' = TRUE /\ UNCHANGED <<header, got>>
            [] packet # S!Error /\ packet.count = 0 ->
                   got' = Append(got, packet) /\ UNCHANGED <<header, failed>>
            [] OTHER -> header' = <<packet>> /\ UNCHANGED <<got, failed>>
    /\ UNCHANGED <<transport, sent, queue, outbound>>

\* ... and the attachments it waits for, whatever message they come as.
HandleAttachment ==
    /\ remaining # <<>> /\ header # <<>> /\ ~failed
    /\ remaining' = Tail(remaining)
    /\ LET packet == [header[1] EXCEPT !.attachments = Append(@, Head(remaining).data)]
       IN IF Len(packet.attachments) < packet.count
          THEN header' = <<packet>> /\ UNCHANGED got
          ELSE header' = <<>> /\ got' = Append(got, packet)
    /\ UNCHANGED <<transport, sent, queue, failed, outbound>>

(* From the application to the server. *)

\* Socket::send: the packet, then each of its attachments.  What is due for it is
\* what the application's call is to tell the server.
Frames(packet) ==
    <<E!Emitted(E!Packet("Message", S!Encode(packet)), transport)>>
        \o [k \in DOMAIN packet.attachments |->
               E!Emitted(E!Packet("MessageBinary", packet.attachments[k]), transport)]

Send(packet, due) ==
    /\ calls' = calls + 1
    /\ arrived' = arrived \o Frames(packet)
    /\ emitted' = emitted \o due

Payload(kinds) ==
    {[binary |-> FALSE, data |-> <<kind>>] : kind \in kinds \ {"binary"}}
    \cup {[binary |-> TRUE, data |-> a] : a \in {a \in Attachments : "binary" \in kinds}}

\* RawClient::emit and emit_with_ack.
Emit ==
    /\ More
    /\ \E nsp \in Namespaces, id \in Ids \cup {<<>>} :
         \E payload \in Payload(IF id = <<>> THEN Payloads ELSE AckPayloads) :
            Send(S!Build(payload, nsp, id), Emission(payload, nsp, id))
    /\ UNCHANGED <<transport, inbound>>

\* The Connect and Disconnect of RawClient, the first with the auth data or without.
Greet ==
    /\ More
    /\ \E nsp \in Namespaces, type \in {"Connect", "Disconnect"}, auth \in {<<>>, <<"json">>} :
         /\ type = "Disconnect" => auth = <<>>
         /\ Send(S!Packet(type, nsp, auth, <<>>, 0, <<>>),
                 <<Message(type, nsp, <<>>, <<>>, auth, <<>>)>>)
    /\ UNCHANGED <<transport, inbound>>

Next ==
    \/ ServerSends \/ Poll \/ HandleHeader \/ HandleAttachment
    \/ Emit \/ Greet

Spec == Init /\ [][Next]_vars

-----------------------------------------------------------------------------

(* Whatever answers its frames came in, a message of the server is read as *)
(* what it is, each message once and in order, and none is an Err.         *)
MessagesArrive ==
    /\ ~failed
    /\ Len(got) <= Len(sent)
    /\ \A i \in DOMAIN got : Reads(got[i], sent[i])

(* No message is lost in the client: if nothing is left to poll for and to *)
(* hand out, all have been returned.                                       *)
AllReturned == queue = <<>> /\ remaining = <<>> => failed \/ Len(got) = Len(sent)

(* What arrives at the server is what the protocol has for the calls that  *)
(* were made, in their order, each attachment behind its message, and      *)
(* nothing for a call whose data is not JSON.                              *)
SentAsProtocol ==
    arrived = FlattenSeq([i \in DOMAIN emitted |->
                  [k \in DOMAIN PacketsFor(emitted[i]) |->
                      Carried(PacketsFor(emitted[i])[k], transport)]])
=============================================================================
