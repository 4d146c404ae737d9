------------------------------ MODULE Handshake ------------------------------
(***************************************************************************)
(* How the synchronous engine.io ClientBuilder gets a session and a        *)
(* transport for it (engineio/src/client/client.rs), up to the first frame *)
(* the client sends over it.  One call of one builder is followed: the     *)
(* handshake over HTTP or in a websocket, the probe and the upgrade, and   *)
(* the fallback, which starts over with the builder as it was.             *)
(*                                                                         *)
(* The server is an engine.io server: it opens a session for a request     *)
(* without a sid, answers a probe, and moves the session to the websocket  *)
(* when Upgrade arrives.  The two directions of the websocket are queues.  *)
(* A connection that the client drops still delivers what it has sent.     *)
(***************************************************************************)
EXTENDS Naturals, Sequences, FiniteSets

CONSTANTS
    MaxSessions,    \* bound: sessions the server opens
    MaxControls     \* bound: websocket control frames of the server

ASSUME BoundsAssumption == MaxSessions \in Nat /\ MaxControls \in Nat

Sids == 1 .. MaxSessions    \* in the order they are opened
Methods == {"build", "build_polling", "build_websocket",
            "build_websocket_with_upgrade", "build_with_fallback"}
Schemes == {"http", "https", "ws", "wss", "other"}

NoHandshake == [sid |-> 0, websocket |-> FALSE]
NoTransport == "none"

VARIABLES
    method,      \* the function that was called
    scheme,      \* the scheme of the url
    headers,     \* TRUE if the builder's headers are legal HTTP
    offers,      \* TRUE if the server has the websocket transport
    fn,          \* the function whose body is executed
    pc,          \* where in it
    handshake,   \* ClientBuilder.handshake, with the sid that is in its url
    retried,     \* TRUE once build_with_fallback has given up build()
    transport,   \* what the client that was built talks over
    failed,      \* what the last Err came from: "http" or "websocket"
    session,     \* what each session of the server is bound to
    link,        \* the websocket: "none", "up", "dropped" by the client, "broken"
    bound,       \* the session of the websocket
    up,          \* frames to the server, in order
    down,        \* frames to the client, in order
    controls,    \* control frames so far
    refused      \* TRUE once the server got a frame of a session elsewhere

vars == <<method, scheme, headers, offers, fn, pc, handshake, retried,
          transport, failed, session, link, bound, up, down, controls, refused>>
asked == <<method, scheme, headers, offers>>
websocket == <<bound, up, down, controls>>

Built == {"connect", "done"}

Init ==
    /\ method \in Methods /\ scheme \in Schemes
    /\ headers \in BOOLEAN /\ offers \in BOOLEAN
    /\ fn = method /\ pc = "call"
    /\ handshake = NoHandshake
    /\ retried = FALSE
    /\ transport = NoTransport
    /\ failed = NoTransport
    /\ session = [s \in Sids |-> "unused"]
    /\ link = "none"
    /\ bound = 0 /\ up = <<>> /\ down = <<>>
    /\ controls = 0
    /\ refused = FALSE

-----------------------------------------------------------------------------

(* The functions of the builder that have returned say where to go on. *)

\* The body of function f begins: all but build_websocket start by handshake().
Enter(f) ==
    /\ fn' = f
    /\ pc' = IF f = "build_websocket" THEN "open_websocket" ELSE "handshake"

\* An Err: it drops the transport, and it ends the call or starts the fallback
\* with the builder as it was before its clone made a handshake.
Fail(what) ==
    /\ failed' = what
    /\ link' = IF link = "up" THEN "dropped" ELSE link
    /\ IF method = "build_with_fallback" /\ ~retried
       THEN retried' = TRUE /\ handshake' = NoHandshake /\ Enter("build_polling")
       ELSE pc' = "error" /\ UNCHANGED <<fn, handshake, retried>>

Panic == pc' = "panic" /\ UNCHANGED <<fn, handshake, retried, failed, link>>

\* A Client over transport t.
Finish(t) ==
    /\ transport' = t
    /\ pc' = "connect"
    /\ UNCHANGED <<fn, retried, failed, link>>

\* connect_raw and build_with_fallback: which function makes the transport.
Call ==
    /\ pc = "call"
    /\ Enter(IF method = "build_with_fallback" THEN "build" ELSE method)
    /\ UNCHANGED <<asked, handshake, retried, transport, failed, session, link,
                   websocket, refused>>

\* The url is http or https, or reqwest does not know what to do.
Reachable == scheme \in {"http", "https"}

Used == {s \in Sids : session[s] # "unused"}
Newest == Cardinality(Used)

\* The server opens a session, bound to t.
Opens(t) ==
    /\ Newest < MaxSessions
    /\ session' = [session EXCEPT ![Newest + 1] = t]

\* handshake() where there was one: nothing is asked of the server.
HandshakeKept ==
    /\ pc = "handshake" /\ handshake # NoHandshake
    /\ pc' = "choose"
    /\ UNCHANGED <<asked, fn, handshake, retried, transport, failed, session, link,
                   websocket, refused>>

\* A GET that opens a session, whose answer arrives and is a handshake, or not.
Answered ==
    /\ handshake' = [sid |-> Newest + 1, websocket |-> offers]
    /\ pc' = "choose"
    /\ UNCHANGED <<fn, retried, failed, link>>

GetHandshake ==
    /\ pc = "handshake" /\ headers /\ Reachable
    /\ Opens("polling")
    /\ Answered \/ Fail("http")
    /\ UNCHANGED <<asked, transport, websocket, refused>>

\* handshake() and handshake_with_transport(): unless there was a handshake.
HandshakePolled == handshake = NoHandshake /\ GetHandshake

\* The request does not get to the server; illegal headers are unwrapped.
HandshakeFails ==
    /\ pc = "handshake" /\ handshake = NoHandshake
    /\ IF headers THEN Fail("http") ELSE Panic
    /\ UNCHANGED <<asked, transport, session, websocket, refused>>

\* websocket_upgrade() is what the server said it offers.
UpgradeOrPoll == IF handshake.websocket THEN Enter("build_websocket_with_upgrade")
                                        ELSE Enter("build_polling")

\* Mutant: an upgrade that is content with polling.
ChooseLenient ==
    /\ pc = "choose"
    /\ \/ /\ fn = "build" /\ UpgradeOrPoll
          /\ UNCHANGED <<handshake, retried, transport, failed, link>>
       \/ /\ fn = "build_polling"
          /\ Finish("polling") /\ UNCHANGED handshake
       \/ /\ fn = "build_websocket_with_upgrade"
          /\ Enter(IF handshake.websocket THEN "build_websocket" ELSE "build_polling")
          /\ UNCHANGED <<handshake, retried, transport, failed, link>>
    /\ UNCHANGED <<asked, session, websocket, refused>>

\* What each function does once it has a handshake.
Choose ==
    /\ pc = "choose"
    /\ \/ /\ fn = "build" /\ UpgradeOrPoll
          /\ UNCHANGED <<handshake, retried, transport, failed, link>>
       \/ /\ fn = "build_polling"
          /\ Finish("polling") /\ UNCHANGED handshake
       \/ /\ fn = "build_websocket_with_upgrade" /\ handshake.websocket
          /\ Enter("build_websocket")
          /\ UNCHANGED <<handshake, retried, transport, failed, link>>
       \/ /\ fn = "build_websocket_with_upgrade" /\ ~handshake.websocket
          /\ Fail("websocket") /\ UNCHANGED transport
    /\ UNCHANGED <<asked, session, websocket, refused>>

-----------------------------------------------------------------------------

(* The websocket: build_websocket, with a sid in the url or without. *)

WebsocketRefused ==
    /\ pc = "open_websocket"
    /\ Fail("websocket")
    /\ UNCHANGED <<asked, transport, session, websocket, refused>>

\* The server lets in who names a session it may upgrade, or opens a session.
WebsocketOpens ==
    /\ pc = "open_websocket" /\ headers /\ scheme # "other" /\ offers
    /\ link' = "up"
    /\ IF handshake # NoHandshake
       THEN /\ session[handshake.sid] = "polling"
            /\ bound' = handshake.sid
            /\ pc' = "probe"
            /\ UNCHANGED <<session, down>>
       ELSE /\ Opens("websocket")
            /\ bound' = Newest + 1
            /\ down' = <<"Open">>
            /\ pc' = "first_packet"
    /\ UNCHANGED <<asked, fn, handshake, retried, transport, failed, up, controls, refused>>

\* poll_next() skips control frames; the Open has the handshake.
FirstPacket ==
    /\ pc = "first_packet" /\ down # <<>>
    /\ down' = Tail(down)
    /\ \/ /\ Head(down) = "Open"
          /\ handshake' = [sid |-> bound, websocket |-> FALSE]
          /\ Finish("websocket")
       \/ /\ Head(down) = "Control"
          /\ UNCHANGED <<pc, fn, handshake, retried, transport, failed, link>>
    /\ UNCHANGED <<asked, session, bound, up, controls, refused>>

NoFirstPacket ==
    /\ pc = "first_packet" /\ down = <<>> /\ link = "broken"
    /\ Fail("websocket")
    /\ UNCHANGED <<asked, transport, session, websocket, refused>>

\* A frame sent over the websocket; to a peer that is gone it is lost.
Send(frame) == up' = IF link = "up" THEN Append(up, frame) ELSE up
SendFails(frame) == Send(frame) \/ UNCHANGED up

\* upgrade(): the probe.
Probe ==
    /\ pc = "probe"
    /\ \/ /\ Send("Probe")
          /\ pc' = "answer"
          /\ UNCHANGED <<fn, handshake, retried, failed, link>>
       \/ /\ link = "broken"
          /\ Fail("websocket") /\ UNCHANGED up
    /\ UNCHANGED <<asked, transport, session, bound, down, controls, refused>>

\* Mutant: a wait for the answer that outlives the connection.
AnswerPatient ==
    /\ pc = "answer"
    /\ down # <<>>
    /\ down' = Tail(down)
    /\ IF Head(down) = "ProbeAnswer"
       THEN pc' = "upgrade" /\ UNCHANGED <<fn, handshake, retried, failed, link>>
       ELSE UNCHANGED <<pc, fn, handshake, retried, failed, link>>
    /\ UNCHANGED <<asked, transport, session, bound, up, controls, refused>>

\* Whatever comes first has to be the answer.
Answer ==
    /\ pc = "answer"
    /\ down # <<>> \/ link = "broken"
    /\ down' = IF down = <<>> THEN down ELSE Tail(down)
    /\ IF down # <<>> /\ Head(down) = "ProbeAnswer"
       THEN pc' = "upgrade" /\ UNCHANGED <<fn, handshake, retried, failed, link>>
       ELSE Fail("websocket")
    /\ UNCHANGED <<asked, transport, session, bound, up, controls, refused>>

\* Mutant: an upgrade that ends at the answer to the probe.
UpgradeUnsent ==
    /\ pc = "upgrade"
    /\ Finish("websocket") /\ UNCHANGED <<handshake, up>>
    /\ UNCHANGED <<asked, session, bound, down, controls, refused>>

\* The last step of upgrade(): nothing confirms it, and an Err does not say
\* that the frame was not sent.
Upgrade ==
    /\ pc = "upgrade"
    /\ \/ Send("Upgrade") /\ Finish("websocket") /\ UNCHANGED handshake
       \/ SendFails("Upgrade") /\ Fail("websocket") /\ UNCHANGED transport
    /\ UNCHANGED <<asked, session, bound, down, controls, refused>>

\* Client::connect emits a Pong: a POST, which the server answers with an
\* error if the session is not polled, or a frame.
Connect ==
    /\ pc = "connect"
    /\ \/ /\ transport = "polling"
          /\ pc' \in IF session[handshake.sid] = "polling" THEN {"done", "error"}
                                                           ELSE {"error"}
          /\ refused' = (session[handshake.sid] = "websocket")
          /\ UNCHANGED up
       \/ /\ transport = "websocket"
          /\ Send("Pong") /\ pc' = "done" /\ UNCHANGED refused
       \/ /\ transport = "websocket" /\ link = "broken"
          /\ pc' = "error" /\ UNCHANGED <<up, refused>>
    /\ UNCHANGED <<asked, fn, handshake, retried, transport, failed, session, link, bound,
                   down, controls>>

-----------------------------------------------------------------------------

(* The server and the network. *)

\* The server takes a frame of the websocket: a probe is answered, Upgrade moves
\* the session, and any other frame is for a session that has been moved.
ServerTake ==
    /\ link \in {"up", "dropped"} /\ up # <<>>
    /\ up' = Tail(up)
    /\ down' = IF Head(up) = "Probe" /\ session[bound] = "polling" /\ link = "up"
               THEN Append(down, "ProbeAnswer") ELSE down
    /\ session' = IF Head(up) = "Upgrade" /\ session[bound] = "polling"
                  THEN [session EXCEPT ![bound] = "websocket"] ELSE session
    /\ refused' = (refused \/ (Head(up) = "Pong" /\ session[bound] = "polling"))
    /\ UNCHANGED <<asked, fn, pc, handshake, retried, transport, failed, link, bound, controls>>

ServerControl ==
    /\ link = "up" /\ controls < MaxControls
    /\ down' = Append(down, "Control")
    /\ controls' = controls + 1
    /\ UNCHANGED <<asked, fn, pc, handshake, retried, transport, failed, session, link, bound,
                   up, refused>>

\* The connection dies with what is under way.
Break ==
    /\ link \in {"up", "dropped"}
    /\ link' = "broken" /\ up' = <<>> /\ down' = <<>>
    /\ UNCHANGED <<asked, fn, pc, handshake, retried, transport, failed, session, bound,
                   controls, refused>>

\* The server gives a session up, and closes the websocket that belongs to it.
Expire(s) ==
    /\ session[s] \in {"polling", "websocket"}
    /\ session' = [session EXCEPT ![s] = "closed"]
    /\ IF s = bound THEN link' = "broken" /\ up' = <<>> /\ down' = <<>>
                    ELSE UNCHANGED <<link, up, down>>
    /\ UNCHANGED <<asked, fn, pc, handshake, retried, transport, failed, bound, controls,
                   refused>>

Builder ==
    \/ Call \/ HandshakeKept \/ HandshakePolled \/ HandshakeFails \/ Choose
    \/ WebsocketRefused \/ WebsocketOpens \/ FirstPacket \/ NoFirstPacket
    \/ Probe \/ Answer \/ Upgrade \/ Connect

Next == Builder \/ ServerTake \/ ServerControl \/ Break \/ \E s \in Sids : Expire(s)

\* The thread runs, and the server takes what arrives.
Spec == Init /\ [][Next]_vars /\ WF_vars(Builder) /\ WF_vars(ServerTake)

-----------------------------------------------------------------------------

(* No frame of the client that was built gets to a server that has its     *)
(* session elsewhere: the Pong of connect() never overtakes Upgrade, and   *)
(* what the fallback talks about is not the session that was upgraded      *)
(* before it.                                                              *)
NothingRefused == ~refused

\* What the asynchronous builder may come to.
Async == INSTANCE AsyncBuilder
AsyncOutcomes == Async!Outcomes(method)

(* A session costs the server memory and a timer: build asks for one, and  *)
(* only the fallback for a second; so does the asynchronous one.           *)
OneSessionPerBuild ==
    \A n \in {Newest} \cup {r.sessions : r \in AsyncOutcomes} :
        n <= IF method = "build_with_fallback" THEN 2 ELSE 1

(* The Client talks over what was asked for: build_polling never gives a   *)
(* websocket nor build_websocket_with_upgrade a polled session, and a      *)
(* websocket is only used with a server that offers it; build uses it      *)
(* whenever it is offered, and fails rather than falls back.  The same     *)
(* holds of both builders.  Whichever it is, the Client has a handshake,   *)
(* which its socket reads the ping times from.                             *)
AsAsked ==
    /\ transport # NoTransport => handshake # NoHandshake
    /\ \A t \in (IF pc \in Built THEN {transport} ELSE {})
                 \cup {r.over : r \in {r \in AsyncOutcomes : r.cause = "none"}} :
        /\ method = "build_polling" => t = "polling"
        /\ method \in {"build_websocket", "build_websocket_with_upgrade"} => t = "websocket"
        /\ t = "websocket" => offers
        /\ method = "build" => t = (IF offers THEN "websocket" ELSE "polling")
        /\ scheme \in {"ws", "wss"} => method = "build_websocket"

(* The two builders agree: what the sync one comes to, with as many        *)
(* sessions opened and for the same cause, the async one may come to, too, *)
(* but for the illegal headers of a handshake, which are a panic in the    *)
(* one and an Err in the other.                                            *)
TwinsAgree ==
    LET may == {[cause |-> r.cause, over |-> r.over, sessions |-> r.sessions]
                    : r \in AsyncOutcomes}
        is(cause) == [cause |-> cause, over |-> transport, sessions |-> Newest]
    IN  /\ pc = "connect" => is("none") \in may
        /\ (pc = "error" /\ transport = NoTransport) => is(failed) \in may
        /\ pc = "panic" => is("headers") \in may

(* A build ends, though none of its steps has a timeout: a websocket that  *)
(* does not answer the probe is one that breaks.                           *)
BuildReturns == <>(pc \in {"done", "error", "panic"})

=============================================================================
