----------------------------- MODULE EngineCodec -----------------------------
(***************************************************************************)
(* The packets of engine.io as bytes (engineio/src/packet.rs), and what    *)
(* the transports make of them on their way (transports/polling.rs and     *)
(* async_transports/websocket_general.rs, which the synchronous websocket  *)
(* transport runs).                                                        *)
(*                                                                         *)
(* A byte, or a piece of text that no code looks into, is a string; what   *)
(* the code has as Bytes is a sequence of them.  Base64 is an injective    *)
(* translation of bytes into letters, and no letter is the separator.      *)
(***************************************************************************)
EXTENDS Naturals, SequencesExt

Separator == "1e"

\* The bytes of attachments: a letter, a digit, the separator.
AttachmentByte == {"x", "4", Separator}

PacketId == {"Open", "Close", "Ping", "Pong", "Message", "MessageBinary",
             "Upgrade", "Noop"}
Packet(id, data) == [id |-> id, data |-> data]
Error == Packet("Error", <<>>)

Letter(byte) ==
    CASE byte = "x" -> "base64 x" [] byte = "4" -> "base64 4" [] byte = Separator -> "base64 1e"
ToBase64(bytes) == [i \in DOMAIN bytes |-> Letter(bytes[i])]
IsBase64(text) == \A i \in DOMAIN text : \E byte \in AttachmentByte : text[i] = Letter(byte)
FromBase64(text) ==
    [i \in DOMAIN text |-> CHOOSE byte \in AttachmentByte : text[i] = Letter(byte)]

-----------------------------------------------------------------------------

\* From<PacketId> for String, and TryFrom<u8> for PacketId.
IdByte == [Open |-> "0", Close |-> "1", Ping |-> "2", Pong |-> "3", Message |-> "4",
           Upgrade |-> "5", Noop |-> "6", MessageBinary |-> "b"]
IsId(byte) == \E id \in PacketId : IdByte[id] = byte
IdOf(byte) == CHOOSE id \in PacketId : IdByte[id] = byte

\* A Packet as bytes, and bytes as a Packet.
Encode(packet) ==
    <<IdByte[packet.id]>>
        \o IF packet.id = "MessageBinary" THEN ToBase64(packet.data) ELSE packet.data

Decode(bytes) ==
    IF bytes = <<>> \/ bytes = <<IdByte.Message>> \/ ~IsId(Head(bytes)) THEN Error
    ELSE IF IdOf(Head(bytes)) # "MessageBinary" THEN Packet(IdOf(Head(bytes)), Tail(bytes))
    ELSE IF IsBase64(Tail(bytes)) THEN Packet("MessageBinary", FromBase64(Tail(bytes)))
    ELSE Error

\* What lies between the separators.
Split(bytes) ==
    FoldLeft(LAMBDA parts, byte :
                 IF byte = Separator THEN Append(parts, <<>>)
                 ELSE [parts EXCEPT ![Len(parts)] = Append(@, byte)],
             << <<>> >>, bytes)

\* A payload: the packets with separators between them.
EncodePayload(packets) ==
    FoldLeft(LAMBDA bytes, packet :
                 (IF bytes = <<>> THEN <<>> ELSE Append(bytes, Separator)) \o Encode(packet),
             <<>>, packets)

\* Mutant: what follows the last separator is forgotten.
DecodeSeparated(bytes) == [i \in DOMAIN Front(Split(bytes)) |-> Decode(Split(bytes)[i])]

DecodePayload(bytes) == [i \in DOMAIN Split(bytes) |-> Decode(Split(bytes)[i])]

-----------------------------------------------------------------------------

(* The transports.  A frame is a request or answer of HTTP, or a message   *)
(* of the websocket, which is text or binary.                              *)

Frame(binary, body) == [binary |-> binary, body |-> body]

\* Mutant: polling sends an attachment as it is.
EmittedRaw(packet, transport) ==
    IF packet.id # "MessageBinary" THEN Frame(FALSE, Encode(packet))
    ELSE Frame(transport # "polling", packet.data)

\* Socket::emit gives the transport the data of a binary packet as it is, and
\* the bytes of any other; the transport marks the data as binary its own way.
Emitted(packet, transport) ==
    IF packet.id # "MessageBinary" THEN Frame(FALSE, Encode(packet))
    ELSE IF transport = "polling" THEN Frame(FALSE, Encode(packet))
    ELSE Frame(TRUE, packet.data)

\* poll(): a binary message of the websocket is given the id of a message.
Polled(frame) == IF frame.binary THEN <<IdByte.Message>> \o frame.body ELSE frame.body

\* Socket::poll: the packets of what the transport polled.
PacketsOf(frame) == DecodePayload(Polled(frame))

=============================================================================
