---------------------------- MODULE AsyncBuilder ----------------------------
(***************************************************************************)
(* The asynchronous engine.io ClientBuilder: asynchronous/client/          *)
(* builder.rs.  Each of its functions is the set of results it may have    *)
(* with a server and a network that may fail every request.  A result is a *)
(* builder or a Client over some transport, or an error, with the sessions *)
(* that were opened for it.  Handshake has the sync twin, step by step.    *)
(***************************************************************************)
EXTENDS Naturals

CONSTANTS
    scheme,     \* of the url
    headers,    \* TRUE if they are legal HTTP
    offers      \* TRUE if the server has the websocket transport

\* The handshake of a ClientBuilder: none, or one that lists the upgrades.
NewBuilder == [known |-> FALSE, websocket |-> FALSE]
WithHandshake(websocket) == [known |-> TRUE, websocket |-> websocket]

Result(cause, over, builder, sessions) ==
    [cause |-> cause, over |-> over, builder |-> builder, sessions |-> sessions]
Ok(builder, sessions) == Result("none", "none", builder, sessions)
Client(transport, sessions) == Result("none", transport, NewBuilder, sessions)
Err(cause, sessions) == Result(cause, "none", NewBuilder, sessions)

After(n, results) == {Result(r.cause, r.over, r.builder, r.sessions + n) : r \in results}

\* f(...).await? and what follows it.
Try(results, Follow(_)) ==
    UNION {IF r.cause = "none" THEN After(r.sessions, Follow(r.builder)) ELSE {r} : r \in results}

\* handshake_with_transport: the first payload has to be there and a handshake.
HandshakeWithTransport(b, cause, websocket) ==
    IF b.known THEN {Ok(b, 0)}
    ELSE {Ok(WithHandshake(websocket), 1), Err(cause, 0), Err(cause, 1)}

\* handshake: illegal headers are an Err, where the sync builder panics.
Handshake(b) ==
    IF b.known THEN {Ok(b, 0)}
    ELSE IF ~headers THEN {Err("headers", 0)}
    ELSE IF scheme \notin {"http", "https"} THEN {Err("http", 0)}
    ELSE HandshakeWithTransport(b, "http", offers)

BuildPolling(b) == Try(Handshake(b), LAMBDA c : {Client("polling", 0)})

\* WebsocketTransport::new and its secure twin.
OpenWebsocket(b) ==
    {Err("websocket", 0)} \cup IF headers /\ scheme # "other" /\ offers THEN {Ok(b, 0)} ELSE {}

\* upgrade() of a session, or a handshake in the websocket.
BuildWebsocket(b) ==
    Try(OpenWebsocket(b), LAMBDA c :
        IF c.known
        THEN {Client("websocket", 0), Err("websocket", 0)}
        ELSE Try(HandshakeWithTransport(c, "websocket", FALSE), LAMBDA d : {Client("websocket", 0)}))

BuildWebsocketWithUpgrade(b) ==
    Try(Handshake(b), LAMBDA c : IF c.websocket THEN BuildWebsocket(c) ELSE {Err("websocket", 0)})

Build(b) ==
    Try(Handshake(b), LAMBDA c : IF c.websocket THEN BuildWebsocketWithUpgrade(c) ELSE BuildPolling(c))

\* Mutant: the fallback goes on with the handshake of the builder that failed.
BuildWithFallbackKept(b) ==
    UNION {IF r.cause = "none" THEN {r}
           ELSE After(r.sessions, BuildPolling(IF r.sessions = 1 THEN WithHandshake(offers) ELSE b))
           : r \in Build(b)}

\* The handshake of the clone that failed is not that of self.
BuildWithFallback(b) ==
    UNION {IF r.cause = "none" THEN {r} ELSE After(r.sessions, BuildPolling(b)) : r \in Build(b)}

\* What ClientBuilder::connect_manual of socketio can get from function `method`.
Outcomes(method) ==
    CASE method = "build" -> Build(NewBuilder)
      [] method = "build_polling" -> BuildPolling(NewBuilder)
      [] method = "build_websocket" -> BuildWebsocket(NewBuilder)
      [] method = "build_websocket_with_upgrade" -> BuildWebsocketWithUpgrade(NewBuilder)
      [] method = "build_with_fallback" -> BuildWithFallback(NewBuilder)
=============================================================================
