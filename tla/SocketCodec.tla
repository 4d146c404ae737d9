----------------------------- MODULE SocketCodec -----------------------------
(***************************************************************************)
(* The packets of socket.io as text: From<&Packet> for Bytes and           *)
(* TryFrom<&Bytes> for Packet of socketio/src/packet.rs, and the packets   *)
(* that build_packet_for_payload of socketio/src/socket.rs makes.          *)
(*                                                                         *)
(* Text is a sequence of characters where the code looks at characters:    *)
(* digits, "-", "/", ",", brackets.  A JSON value and an event's name, each *)
(* with its quotes, are one element, and so is a placeholder.  None of an  *)
(* Option is the empty sequence; an id is the sequence of its digits.      *)
(***************************************************************************)
EXTENDS Naturals, SequencesExt

PacketType == {"Connect", "Disconnect", "Event", "Ack", "ConnectError",
               "BinaryEvent", "BinaryAck"}
TypeDigit == [Connect |-> "0", Disconnect |-> "1", Event |-> "2", Ack |-> "3",
              ConnectError |-> "4", BinaryEvent |-> "5", BinaryAck |-> "6"]
IsType(digit) == \E type \in PacketType : TypeDigit[type] = digit
TypeOf(digit) == CHOOSE type \in PacketType : TypeDigit[type] = digit

Digit == <<"0", "1", "2", "3", "4", "5", "6", "7", "8", "9">>
IsDigit(char) == \E i \in DOMAIN Digit : Digit[i] = char
ValueOf(digit) == (CHOOSE i \in DOMAIN Digit : Digit[i] = digit) - 1
Number(digits) == FoldLeft(LAMBDA n, digit : 10 * n + ValueOf(digit), 0, digits)
Text(n) == <<Digit[n + 1]>>    \* to_string() of a number with one digit

U8 == 256
None == <<>>
DefaultNsp == <<"/">>

\* {"_placeholder":true,"num":k}
Holder == <<"_placeholder 0", "_placeholder 1", "_placeholder 2", "_placeholder 3",
            "_placeholder 4", "_placeholder 5", "_placeholder 6", "_placeholder 7",
            "_placeholder 8", "_placeholder 9">>
Placeholder(k) == <<Holder[k + 1]>>

\* The elements that are JSON values; "bare" and "quote" are texts that are
\* not, the second with a quote in it.
IsValue(element) ==
    element \in {"event", "json", "text"} \/ \E k \in DOMAIN Holder : element = Holder[k]

\* An array or a value.
IsJson(text) ==
    \/ Len(text) = 1 /\ IsValue(text[1])
    \/ text = <<"[", "]">>
    \/ /\ Len(text) % 2 = 1 /\ Len(text) > 2
       /\ text[1] = "[" /\ text[Len(text)] = "]"
       /\ \A i \in 2 .. Len(text) - 1 :
             IF i % 2 = 0 THEN IsValue(text[i]) ELSE text[i] = ","

Packet(type, nsp, data, id, count, attachments) ==
    [type |-> type, nsp |-> nsp, data |-> data, id |-> id, count |-> count,
     attachments |-> attachments]
Error == Packet("Error", None, None, None, 0, None)
IsBinary(type) == type \in {"BinaryEvent", "BinaryAck"}

-----------------------------------------------------------------------------

\* Between quotes a text is a JSON value, unless it has a quote itself.
Quoted(text) == IF text = <<"bare">> THEN <<"text">> ELSE <<"broken">>

\* build_packet_for_payload: data that is not JSON is put between quotes.
Build(payload, nsp, id) ==
    IF payload.binary
    THEN Packet(IF id = None THEN "BinaryEvent" ELSE "BinaryAck", nsp, <<"event">>, id,
                1, <<payload.data>>)
    ELSE LET json == IF IsJson(payload.data) THEN payload.data ELSE Quoted(payload.data)
         IN Packet("Event", nsp, <<"[", "event", ",">> \o json \o <<"]">>, id, 0, None)

-----------------------------------------------------------------------------

\* From<&Packet> for Bytes.  The attachments themselves are sent by the socket;
\* here they leave the placeholder of the last one.
EncodeData(packet) ==
    IF packet.attachments = None THEN packet.data
    ELSE <<"[">> \o (IF packet.data = None THEN <<>> ELSE packet.data \o <<",">>)
                 \o Placeholder(packet.count - 1) \o <<"]">>

Encode(packet) ==
    <<TypeDigit[packet.type]>>
        \o (IF IsBinary(packet.type) THEN Text(packet.count) \o <<"-">> ELSE <<>>)
        \o (IF packet.nsp = DefaultNsp THEN <<>> ELSE packet.nsp \o <<",">>)
        \o packet.id
        \o EncodeData(packet)

-----------------------------------------------------------------------------

(* TryFrom<&Bytes> for Packet reads from the left; each part is optional,  *)
(* and the text may end after any of them.                                 *)

Before(text, i) == SubSeq(text, 1, i - 1)
After(text, i) == SubSeq(text, i + 1, Len(text))

\* The data of a binary packet: an array without its first placeholder and
\* without its brackets.
Unwrap(json) ==
    LET bare == FoldLeft(LAMBDA kept, element :
                             IF <<element>> = Placeholder(0) THEN kept
                             ELSE Append(kept, element),
                         <<>>, json)
        open == IF bare # <<>> /\ bare[1] = "[" THEN Tail(bare) ELSE bare
        shut == IF open # <<>> /\ Last(open) = "]" THEN Front(open) ELSE open
    IN IF shut # open /\ shut # <<>> /\ Last(shut) = "," THEN Front(shut) ELSE shut

DecodeData(packet, text) ==
    IF ~IsJson(text) THEN Error
    ELSE [packet EXCEPT !.data = IF IsBinary(packet.type) THEN Unwrap(text) ELSE text]

\* The digits at the front; if the text ends with them the id is dropped.
DecodeId(packet, text) ==
    LET end == SelectInSeq(text, LAMBDA char : ~IsDigit(char))
    IN IF end = 0 THEN packet
       ELSE DecodeData([packet EXCEPT !.id = Before(text, end)], SubSeq(text, end, Len(text)))

\* Mutant: the namespace ends at the last comma.
DecodeNspGreedy(packet, text) ==
    LET comma == SelectLastInSeq(text, LAMBDA char : char = ",")
    IN IF text = <<>> THEN packet
       ELSE IF text[1] # "/" THEN DecodeId(packet, text)
       ELSE IF comma = 0 THEN Error
       ELSE DecodeId([packet EXCEPT !.nsp = Before(text, comma)], After(text, comma))

\* A namespace begins with "/" and ends with the first comma.
DecodeNsp(packet, text) ==
    LET comma == SelectInSeq(text, LAMBDA char : char = ",")
    IN IF text = <<>> THEN packet
       ELSE IF text[1] # "/" THEN DecodeId(packet, text)
       ELSE IF comma = 0 THEN Error
       ELSE DecodeId([packet EXCEPT !.nsp = Before(text, comma)], After(text, comma))

\* A u8 in front of "-", or no attachments if it is not one.
DecodeCount(packet, text) ==
    LET dash == SelectInSeq(text, LAMBDA char : char = "-")
        digits == Before(text, dash)
        isU8 == digits # <<>> /\ (\A i \in DOMAIN digits : IsDigit(digits[i]))
                /\ Number(digits) < U8
    IN IF ~IsBinary(packet.type) THEN DecodeNsp(packet, text)
       ELSE IF dash = 0 THEN Error
       ELSE DecodeNsp([packet EXCEPT !.count = IF isU8 THEN Number(digits) ELSE 0],
                      After(text, dash))

Decode(text) ==
    IF text = <<>> \/ ~IsType(text[1]) THEN Error
    ELSE DecodeCount(Packet(TypeOf(text[1]), DefaultNsp, None, None, 0, None), Tail(text))

=============================================================================
