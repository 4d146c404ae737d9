--------------------------- MODULE HandshakeProofs ---------------------------
(***************************************************************************)
(* Proofs about Handshake, for any number of sessions and control frames.  *)
(* First what each function of the asynchronous builder may come to, in    *)
(* closed form; then the invariant of the sync builder and its server; and *)
(* from the two that the builders agree.                                   *)
(***************************************************************************)
EXTENDS Handshake, FiniteSetTheorems, SequenceTheorems, TLAPS

(* What the asynchronous builder may come to *)

\* A websocket can be opened.
Openable == headers /\ scheme # "other" /\ offers

\* The ways the handshake over HTTP fails, and those the builders end in if it does.
HttpErrs ==
    IF ~headers THEN {Async!Err("headers", 0)}
    ELSE {Async!Err("http", 0)} \cup (IF Reachable THEN {Async!Err("http", 1)} ELSE {})

Given == Async!WithHandshake(offers)

\* What comes of the websocket, with the sessions there were.
Upgraded(n) ==
    {Async!Err("websocket", n)} \cup
    (IF Openable THEN {Async!Client("websocket", n)} ELSE {})

\* The parts of a result.
LEMMA Causes ==
    /\ \A c, n : /\ Async!Err(c, n).cause = c
                 /\ Async!Err(c, n).sessions = n
    /\ \A b, n : /\ Async!Ok(b, n).cause = "none"
                 /\ Async!Ok(b, n).builder = b
                 /\ Async!Ok(b, n).sessions = n
    /\ \A t, n : /\ Async!Client(t, n).cause = "none"
                 /\ Async!Client(t, n).over = t
                 /\ Async!Client(t, n).sessions = n
  BY DEF Async!Ok, Async!Err, Async!Client, Async!Result

\* Sessions are added up.
LEMMA Added ==
    /\ Async!After(0, {Async!Err("websocket", 0)}) = {Async!Err("websocket", 0)}
    /\ Async!After(1, {Async!Err("websocket", 0)}) = {Async!Err("websocket", 1)}
    /\ Async!After(0, {Async!Client("polling", 0)}) = {Async!Client("polling", 0)}
    /\ Async!After(1, {Async!Client("polling", 0)}) = {Async!Client("polling", 1)}
    /\ Async!After(1, {Async!Client("websocket", 0)}) = {Async!Client("websocket", 1)}
    /\ Async!After(0, Upgraded(0)) = Upgraded(0)
    /\ Async!After(1, Upgraded(0)) = Upgraded(1)
  BY DEF Async!Err, Async!Client, Async!Result, Async!After, Upgraded

\* What handshake() comes to.
LEMMA Asking ==
    Async!Handshake(Async!NewBuilder) =
        HttpErrs \cup (IF headers /\ Reachable THEN {Async!Ok(Given, 1)} ELSE {})
  BY DEF Async!NewBuilder, Async!Handshake, Async!HandshakeWithTransport, Reachable,
         HttpErrs, Given

\* What build_polling comes to.
LEMMA PollingOutcomes ==
    Async!BuildPolling(Async!NewBuilder) =
        HttpErrs \cup (IF headers /\ Reachable THEN {Async!Client("polling", 1)} ELSE {})
<1> DEFINE S == Async!Handshake(Async!NewBuilder)
<1>1. Async!BuildPolling(Async!NewBuilder) =
        UNION {IF r.cause = "none" THEN Async!After(r.sessions, {Async!Client("polling", 0)})
               ELSE {r} : r \in S}
  BY DEF Async!BuildPolling, Async!Try
<1>2. Async!After(1, {Async!Client("polling", 0)}) = {Async!Client("polling", 1)}
  BY Added
<1>3. CASE headers /\ Reachable
  <2>1. S = {Async!Err("http", 0), Async!Err("http", 1), Async!Ok(Given, 1)}
    BY <1>3, Asking DEF HttpErrs
  <2>2. /\ Async!Err("http", 0).cause # "none" /\ Async!Err("http", 1).cause # "none"
        /\ Async!Ok(Given, 1).cause = "none" /\ Async!Ok(Given, 1).sessions = 1
    BY Causes
  <2> QED
    BY <1>1, <1>2, <1>3, <2>1, <2>2 DEF HttpErrs
<1>4. CASE ~(headers /\ Reachable)
  <2>1. S = HttpErrs /\ \A r \in S : r.cause # "none"
    BY <1>4, Asking, Causes DEF HttpErrs
  <2> QED
    BY <1>1, <1>4, <2>1
<1> QED
  BY <1>3, <1>4

\* A websocket for a session that there is, and for none.
LEMMA UpgradedOutcomes ==
    ASSUME NEW w PROVE Async!BuildWebsocket(Async!WithHandshake(w)) = Upgraded(0)
<1> DEFINE b == Async!WithHandshake(w)
           S == Async!OpenWebsocket(b)
           F == {Async!Client("websocket", 0), Async!Err("websocket", 0)}
<1>1. S = {Async!Err("websocket", 0)} \cup (IF Openable THEN {Async!Ok(b, 0)} ELSE {})
  BY DEF Async!OpenWebsocket, Openable
<1>2. b.known
  BY DEF Async!WithHandshake
<1>3. Async!BuildWebsocket(b) =
        UNION {IF r.cause = "none"
               THEN Async!After(r.sessions,
                      IF r.builder.known THEN F
                      ELSE Async!Try(Async!HandshakeWithTransport(r.builder, "websocket", FALSE),
                                     LAMBDA d : {Async!Client("websocket", 0)}))
               ELSE {r} : r \in S}
  BY DEF Async!BuildWebsocket, Async!Try
<1>4. Async!After(0, F) = F
  BY DEF Async!Err, Async!Client, Async!Result, Async!After
<1> HIDE DEF F
<1>7. /\ Async!Err("websocket", 0).cause # "none" /\ Async!Ok(b, 0).cause = "none"
      /\ Async!Ok(b, 0).sessions = 0 /\ Async!Ok(b, 0).builder = b
  BY Causes
<1>5. CASE Openable
  <2>1. S = {Async!Err("websocket", 0), Async!Ok(b, 0)}
    BY <1>1, <1>5
  <2>2. Async!BuildWebsocket(b) = {Async!Err("websocket", 0)} \cup Async!After(0, F)
    <3> HIDE DEF b, S
    <3> QED
      BY <1>2, <1>3, <1>7, <2>1
  <2> QED
    BY <1>4, <1>5, <2>2 DEF F, Upgraded
<1>6. CASE ~Openable
  <2>1. S = {Async!Err("websocket", 0)}
    BY <1>1, <1>6
  <2> QED
    BY <1>3, <1>6, <1>7, <2>1 DEF Upgraded
<1> QED
  BY <1>5, <1>6

\* What build_websocket comes to.
LEMMA WebsocketOutcomes ==
    Async!BuildWebsocket(Async!NewBuilder) =
        {Async!Err("websocket", 0)} \cup (IF Openable THEN Upgraded(1) ELSE {})
<1> DEFINE b == Async!NewBuilder
           c == Async!WithHandshake(FALSE)
           S == Async!OpenWebsocket(b)
           F == {Async!Client("websocket", 0), Async!Err("websocket", 0)}
           G(d) == UNION {IF r.cause = "none"
                          THEN Async!After(r.sessions, {Async!Client("websocket", 0)})
                          ELSE {r} :
                        r \in Async!HandshakeWithTransport(d, "websocket", FALSE)}
           T == {Async!Client("websocket", 1), Async!Err("websocket", 0),
                 Async!Err("websocket", 1)}
<1> HIDE DEF c
<1>1. S = {Async!Err("websocket", 0)} \cup (IF Openable THEN {Async!Ok(b, 0)} ELSE {})
  BY DEF Async!OpenWebsocket, Openable
<1>2. ~b.known
  BY DEF Async!NewBuilder
<1>3. Async!BuildWebsocket(b) =
        UNION {IF r.cause = "none"
               THEN Async!After(r.sessions, IF r.builder.known THEN F ELSE G(r.builder))
               ELSE {r} : r \in S}
  BY DEF Async!BuildWebsocket, Async!Try
<1>4. /\ Async!Err("websocket", 0).cause # "none" /\ Async!Err("websocket", 1).cause # "none"
      /\ Async!Ok(b, 0).cause = "none" /\ Async!Ok(b, 0).sessions = 0
      /\ Async!Ok(b, 0).builder = b
      /\ Async!Ok(c, 1).cause = "none" /\ Async!Ok(c, 1).sessions = 1
  BY Causes
<1>5. Async!HandshakeWithTransport(b, "websocket", FALSE)
        = {Async!Ok(c, 1), Async!Err("websocket", 0), Async!Err("websocket", 1)}
  BY <1>2 DEF Async!HandshakeWithTransport, c
<1>6. G(b) = T
  <2>1. Async!After(1, {Async!Client("websocket", 0)}) = {Async!Client("websocket", 1)}
    BY Added
  <2>2. \A x : x \in G(b) <=> x \in T
    BY <1>4, <1>5, <2>1
  <2> QED
    BY <2>2
<1>7. Async!After(0, T) = T
  BY DEF Async!Err, Async!Client, Async!Result, Async!After
<1> HIDE DEF F, G, T
<1>8. CASE Openable
  <2>1. S = {Async!Err("websocket", 0), Async!Ok(b, 0)}
    BY <1>1, <1>8
  <2>2. Async!BuildWebsocket(b) = {Async!Err("websocket", 0)} \cup T
    BY <1>2, <1>3, <1>4, <1>6, <1>7, <2>1
  <2> QED
    BY <1>8, <2>2 DEF Upgraded, T
<1>9. CASE ~Openable
  <2>1. S = {Async!Err("websocket", 0)}
    BY <1>1, <1>9
  <2> QED
    BY <1>3, <1>4, <1>9, <2>1 DEF Upgraded
<1> QED
  BY <1>8, <1>9

\* A builder with a handshake asks for none.
LEMMA KnownOutcomes ==
    /\ Async!BuildPolling(Given) = {Async!Client("polling", 0)}
    /\ Async!BuildWebsocketWithUpgrade(Given) = Upgraded(0)
<1>1. Async!Handshake(Given) = {Async!Ok(Given, 0)} /\ Given.websocket = offers
  BY DEF Async!Handshake, Given, Async!WithHandshake
<1>2. /\ Async!Ok(Given, 0).cause = "none" /\ Async!Ok(Given, 0).sessions = 0
      /\ Async!Ok(Given, 0).builder = Given
  BY Causes
<1>3. Async!BuildPolling(Given) = {Async!Client("polling", 0)}
  <2>1. Async!BuildPolling(Given) =
          UNION {IF r.cause = "none" THEN Async!After(r.sessions, {Async!Client("polling", 0)})
                 ELSE {r} : r \in Async!Handshake(Given)}
    BY DEF Async!BuildPolling, Async!Try
  <2> QED
    BY <1>1, <1>2, <2>1, Added
<1>4. Async!BuildWebsocketWithUpgrade(Given) = Upgraded(0)
  <2> DEFINE U == IF offers THEN Async!BuildWebsocket(Given) ELSE {Async!Err("websocket", 0)}
  <2>1. Async!BuildWebsocketWithUpgrade(Given) =
          UNION {IF r.cause = "none"
                 THEN Async!After(r.sessions, IF r.builder.websocket THEN Async!BuildWebsocket(r.builder)
                                              ELSE {Async!Err("websocket", 0)})
                 ELSE {r} : r \in Async!Handshake(Given)}
    BY DEF Async!BuildWebsocketWithUpgrade, Async!Try
  <2>2. Async!BuildWebsocketWithUpgrade(Given) = Async!After(0, U)
    BY <1>1, <1>2, <2>1
  <2>3. U = Upgraded(0)
    BY UpgradedOutcomes DEF Given, Upgraded, Openable
  <2> QED
    BY <2>2, <2>3, Added
<1> QED
  BY <1>3, <1>4

\* What build_websocket_with_upgrade comes to.
LEMMA WithUpgradeOutcomes ==
    Async!BuildWebsocketWithUpgrade(Async!NewBuilder) =
        HttpErrs \cup (IF headers /\ Reachable THEN Upgraded(1) ELSE {})
<1> DEFINE S == Async!Handshake(Async!NewBuilder)
           U == IF offers THEN Async!BuildWebsocket(Given) ELSE {Async!Err("websocket", 0)}
<1>1. Async!BuildWebsocketWithUpgrade(Async!NewBuilder) =
        UNION {IF r.cause = "none"
               THEN Async!After(r.sessions, IF r.builder.websocket THEN Async!BuildWebsocket(r.builder)
                                            ELSE {Async!Err("websocket", 0)})
               ELSE {r} : r \in S}
  BY DEF Async!BuildWebsocketWithUpgrade, Async!Try
<1>2. Async!After(1, U) = Upgraded(1)
  <2>1. U = Upgraded(0)
    BY UpgradedOutcomes DEF Given, Upgraded, Openable
  <2> QED
    BY <2>1, Added
<1>3. CASE headers /\ Reachable
  <2>1. S = {Async!Err("http", 0), Async!Err("http", 1), Async!Ok(Given, 1)}
    BY <1>3, Asking DEF HttpErrs
  <2>2. /\ Async!Err("http", 0).cause # "none" /\ Async!Err("http", 1).cause # "none"
        /\ Async!Ok(Given, 1).cause = "none" /\ Async!Ok(Given, 1).sessions = 1
        /\ Async!Ok(Given, 1).builder = Given /\ Given.websocket = offers
    BY Causes DEF Given, Async!WithHandshake
  <2> QED
    BY <1>1, <1>2, <1>3, <2>1, <2>2 DEF HttpErrs
<1>4. CASE ~(headers /\ Reachable)
  <2>1. S = HttpErrs /\ \A r \in S : r.cause # "none"
    BY <1>4, Asking, Causes DEF HttpErrs
  <2> QED
    BY <1>1, <1>4, <2>1
<1> QED
  BY <1>3, <1>4

\* What build comes to.
LEMMA BuildOutcomes ==
    Async!Build(Async!NewBuilder) =
        HttpErrs \cup (IF headers /\ Reachable
                       THEN IF offers THEN Upgraded(1) ELSE {Async!Client("polling", 1)}
                       ELSE {})
<1> DEFINE S == Async!Handshake(Async!NewBuilder)
<1>1. Async!Build(Async!NewBuilder) =
        UNION {IF r.cause = "none"
               THEN Async!After(r.sessions,
                      IF r.builder.websocket THEN Async!BuildWebsocketWithUpgrade(r.builder)
                      ELSE Async!BuildPolling(r.builder))
               ELSE {r} : r \in S}
  BY DEF Async!Build, Async!Try
<1>2. /\ Async!After(1, Async!BuildWebsocketWithUpgrade(Given)) = Upgraded(1)
      /\ Async!After(1, Async!BuildPolling(Given)) = {Async!Client("polling", 1)}
  BY KnownOutcomes, Added
<1>3. CASE headers /\ Reachable
  <2>1. S = {Async!Err("http", 0), Async!Err("http", 1), Async!Ok(Given, 1)}
    BY <1>3, Asking DEF HttpErrs
  <2>2. /\ Async!Err("http", 0).cause # "none" /\ Async!Err("http", 1).cause # "none"
        /\ Async!Ok(Given, 1).cause = "none" /\ Async!Ok(Given, 1).sessions = 1
        /\ Async!Ok(Given, 1).builder = Given /\ Given.websocket = offers
    BY Causes DEF Given, Async!WithHandshake
  <2> QED
    BY <1>1, <1>2, <1>3, <2>1, <2>2 DEF HttpErrs
<1>4. CASE ~(headers /\ Reachable)
  <2>1. S = HttpErrs /\ \A r \in S : r.cause # "none"
    BY <1>4, Asking, Causes DEF HttpErrs
  <2> QED
    BY <1>1, <1>4, <2>1
<1> QED
  BY <1>3, <1>4

\* The fallback may come to one session more than what it falls back from.
LEMMA FallbackOutcomes ==
    Async!BuildWithFallback(Async!NewBuilder) =
        IF headers /\ Reachable
        THEN {Async!Err("http", 0), Async!Err("http", 1), Async!Err("http", 2),
              Async!Client("polling", 1), Async!Client("polling", 2)}
             \cup (IF offers THEN {Async!Client("websocket", 1)} ELSE {})
        ELSE HttpErrs
<1> DEFINE S == Async!Build(Async!NewBuilder)
           P == Async!BuildPolling(Async!NewBuilder)
<1>1. Async!BuildWithFallback(Async!NewBuilder) =
        UNION {IF r.cause = "none" THEN {r} ELSE Async!After(r.sessions, P) : r \in S}
  BY DEF Async!BuildWithFallback
<1>2. CASE headers /\ Reachable
  <2>1. P = {Async!Err("http", 0), Async!Err("http", 1), Async!Client("polling", 1)}
    BY <1>2, PollingOutcomes DEF HttpErrs
  <2>2. /\ Async!After(0, P) = P
        /\ Async!After(1, P) = {Async!Err("http", 1), Async!Err("http", 2),
                                Async!Client("polling", 2)}
    <3> HIDE DEF P
    <3> QED
      BY <2>1 DEF Async!Err, Async!Client, Async!Result, Async!After
  <2>3. /\ Async!Err("http", 0).cause # "none" /\ Async!Err("http", 1).cause # "none"
        /\ Async!Err("websocket", 1).cause # "none"
        /\ Async!Err("http", 0).sessions = 0 /\ Async!Err("http", 1).sessions = 1
        /\ Async!Err("websocket", 1).sessions = 1
        /\ Async!Client("polling", 1).cause = "none"
        /\ Async!Client("websocket", 1).cause = "none"
    BY Causes
  <2> HIDE DEF P
  <2>4. CASE offers
    <3>1. S = {Async!Err("http", 0), Async!Err("http", 1), Async!Err("websocket", 1),
               Async!Client("websocket", 1)}
      BY <1>2, <2>4, BuildOutcomes DEF HttpErrs, Upgraded, Openable, Reachable
    <3>2. Async!BuildWithFallback(Async!NewBuilder) =
            Async!After(0, P) \cup Async!After(1, P) \cup {Async!Client("websocket", 1)}
      <4>1. \A x : x \in Async!BuildWithFallback(Async!NewBuilder) <=>
              x \in Async!After(0, P) \/ x \in Async!After(1, P) \/ x = Async!Client("websocket", 1)
        BY <1>1, <2>3, <3>1
      <4> QED
        BY <4>1
    <3> QED
      BY <1>2, <2>1, <2>2, <2>4, <3>2
  <2>5. CASE ~offers
    <3>1. S = {Async!Err("http", 0), Async!Err("http", 1), Async!Client("polling", 1)}
      BY <1>2, <2>5, BuildOutcomes DEF HttpErrs
    <3> QED
      BY <1>1, <1>2, <2>1, <2>2, <2>3, <2>5, <3>1
  <2> QED
    BY <2>4, <2>5
<1>3. CASE ~(headers /\ Reachable)
  <2>1. S = HttpErrs /\ P = HttpErrs
    BY <1>3, BuildOutcomes, PollingOutcomes
  <2>2. \A c : Async!Err(c, 0).sessions = 0 /\ Async!After(0, {Async!Err(c, 0)}) = {Async!Err(c, 0)}
    BY DEF Async!Err, Async!Result, Async!After
  <2>3. \E e : HttpErrs = {e} /\ e.cause # "none" /\ e.sessions = 0 /\ Async!After(0, {e}) = {e}
    <3>1. CASE headers
      <4>1. HttpErrs = {Async!Err("http", 0)} /\ Async!Err("http", 0).cause # "none"
        BY <1>3, <3>1, Causes DEF HttpErrs
      <4> QED
        BY <4>1, <2>2
    <3>2. CASE ~headers
      <4>1. HttpErrs = {Async!Err("headers", 0)} /\ Async!Err("headers", 0).cause # "none"
        BY <3>2, Causes DEF HttpErrs
      <4> QED
        BY <4>1, <2>2
    <3> QED
      BY <3>1, <3>2
  <2> QED
    BY <1>1, <1>3, <2>1, <2>3
<1> QED
  BY <1>2, <1>3

-----------------------------------------------------------------------------

(* The invariant of the sync builder and its server *)

PCs == {"call", "handshake", "choose", "open_websocket", "first_packet", "probe",
        "answer", "upgrade", "connect", "done", "error", "panic"}
InWebsocket == {"open_websocket", "first_packet", "probe", "answer", "upgrade"}
Up == {"Probe", "Upgrade", "Pong"}
Down == {"Open", "ProbeAnswer", "Control"}

Handshakes == [sid : Nat, websocket : BOOLEAN]

AskedTypes ==
    /\ method \in Methods /\ scheme \in Schemes
    /\ headers \in BOOLEAN /\ offers \in BOOLEAN
BuilderTypes ==
    /\ fn \in Methods /\ pc \in PCs
    /\ retried \in BOOLEAN
    /\ handshake \in Handshakes
    /\ transport \in {"none", "polling", "websocket"}
    /\ failed \in {"none", "http", "websocket"}
ServerTypes ==
    /\ session \in [Sids -> {"unused", "polling", "websocket", "closed"}]
    /\ link \in {"none", "up", "dropped", "broken"}
    /\ bound \in Nat
    /\ up \in Seq(Up) /\ down \in Seq(Down)
    /\ controls \in Nat
    /\ refused \in BOOLEAN
Types == AskedTypes /\ BuilderTypes /\ ServerTypes

\* The sessions are those opened so far; only that of the websocket has moved.
Sessions ==
    /\ Used = 1..Newest /\ Newest \in Nat
    /\ handshake # NoHandshake => handshake.sid \in 1..Newest
    /\ bound <= Newest
    /\ bound = 0 <=> link = "none"
    /\ \A s \in Sids : session[s] = "websocket" => s = bound

\* A builder with a handshake does not ask for another, and one that cannot reach
\* the server has no session.
Counted ==
    /\ Newest <= IF retried THEN 2 ELSE 1
    /\ pc \in {"call", "handshake", "open_websocket"} /\ handshake = NoHandshake
         => Newest <= IF retried THEN 1 ELSE 0
    /\ Newest > 0 => /\ headers
                     /\ IF method = "build_websocket" THEN scheme # "other" /\ offers
                                                      ELSE Reachable

\* Which function is executed, with which handshake.
Where ==
    /\ pc = "call" => fn = method /\ handshake = NoHandshake
    /\ pc \in {"handshake", "choose"} =>
         fn \in {"build", "build_polling", "build_websocket_with_upgrade"}
    /\ pc = "choose" => handshake # NoHandshake
    /\ pc \in {"handshake", "choose"} /\ handshake # NoHandshake =>
         handshake.websocket = offers
    /\ pc \in InWebsocket => fn = "build_websocket"
    /\ pc = "first_packet" => method = "build_websocket"
    /\ pc \in {"probe", "answer", "upgrade"} => handshake # NoHandshake
    /\ fn = "build_with_fallback" => pc = "call"
    /\ retried => method = "build_with_fallback" /\ fn = "build_polling"
    /\ pc \in {"call", "open_websocket"} => bound = 0
    /\ pc \in InWebsocket \ {"open_websocket"} => bound # 0
    /\ pc \in {"handshake", "choose"} /\ ~retried => bound = 0

\* How the function that is executed came to be chosen.
Chosen ==
    /\ method = "build_polling" => fn = method
    /\ method = "build_websocket" => fn = method
    /\ method = "build_websocket_with_upgrade" => fn \in {"build_websocket", method}
    /\ fn = "build_polling" /\ fn # method /\ ~retried => ~offers /\ handshake # NoHandshake
    /\ fn \in {"build_websocket_with_upgrade", "build_websocket"} /\ fn # method =>
         handshake # NoHandshake
    /\ fn = "build_websocket_with_upgrade" /\ fn # method => offers
    /\ fn = "build_websocket" /\ fn # method => offers
    /\ fn = "build_polling" /\ handshake # NoHandshake => handshake.sid # bound

\* What a call that has come to an end came to.
Ends ==
    /\ pc \in {"connect", "done"} => transport # "none"
    /\ transport # "none" => pc \in {"connect", "done", "error"} /\ handshake # NoHandshake
    /\ transport = "polling" => fn = "build_polling"
    /\ transport = "websocket" => fn = "build_websocket" /\ offers
    /\ pc = "error" /\ transport = "none" =>
         \/ failed = "http" /\ headers /\ method # "build_websocket"
         \/ /\ failed = "websocket"
            /\ fn \in {"build_websocket", "build_websocket_with_upgrade"}
            /\ method # "build_with_fallback"
            /\ method # "build_websocket" => handshake # NoHandshake
    /\ pc = "panic" => ~headers /\ method # "build_websocket"

\* Upgrade has moved the session, or is ahead of every Pong.
AheadOf(i) == session[bound] # "polling" \/ \E j \in 1..(i - 1) : up[j] = "Upgrade"
Moved ==
    /\ bound = 0 => Len(up) = 0
    /\ pc = "first_packet" => session[bound] # "polling"
    /\ pc = "connect" /\ transport = "websocket" /\ link = "up" => AheadOf(Len(up) + 1)
    /\ \A i \in 1..Len(up) : up[i] = "Pong" => AheadOf(i)

BuilderInv == Types /\ Sessions /\ Counted /\ Where /\ Chosen /\ Ends /\ Moved /\ NothingRefused

\* Sessions are counted by the last one.
LEMMA Cards == ASSUME NEW n \in Nat PROVE IsFiniteSet(1..n) /\ Cardinality(1..n) = n
  BY FS_Interval

\* A session that is opened is the newest.
LEMMA OpensNext ==
    ASSUME Types, Sessions, NEW t \in {"polling", "websocket"}, Opens(t)
    PROVE  /\ Newest + 1 \in Sids /\ Newest' = Newest + 1 /\ Used' = 1..Newest'
           /\ session' \in [Sids -> {"unused", "polling", "websocket", "closed"}]
           /\ session'[Newest + 1] = t
           /\ \A s \in Sids : s # Newest + 1 => session'[s] = session[s]
<1>1. Newest + 1 \in Sids
  BY BoundsAssumption DEF Opens, Sids, Sessions
<1>2. /\ session' \in [Sids -> {"unused", "polling", "websocket", "closed"}]
      /\ session'[Newest + 1] = t
      /\ \A s \in Sids : s # Newest + 1 => session'[s] = session[s]
  BY <1>1 DEF Opens, Types, ServerTypes
<1>3. Used' = Used \cup {Newest + 1}
  BY <1>1, <1>2 DEF Used
<1>4. Used' = 1..(Newest + 1)
  BY <1>3 DEF Sessions
<1>5. Newest' = Newest + 1
  BY <1>4, Cards DEF Newest, Sessions
<1> QED
  BY <1>1, <1>2, <1>4, <1>5

\* No session is opened where none becomes used.
LEMMA NoneOpens ==
    ASSUME \A s \in Sids : session'[s] = "unused" <=> session[s] = "unused"
    PROVE  Newest' = Newest /\ Used' = Used
  BY DEF Used, Newest

\* The sid of the websocket and of the handshake are those of sessions.
LEMMA BoundIsSession ==
    ASSUME Types, Sessions
    PROVE  /\ bound \in 0..MaxSessions /\ (bound # 0 => bound \in Sids)
           /\ handshake # NoHandshake => handshake.sid \in Sids
           /\ Newest <= MaxSessions
<1>1. 1..Newest \subseteq Sids
  BY DEF Sessions, Used
<1> QED
  BY <1>1, BoundsAssumption DEF Sessions, Types, ServerTypes, Sids

\* A frame is sent, behind those that were; or taken.
LEMMA Sending ==
    ASSUME Types, NEW frame \in Up, Send(frame)
    PROVE  /\ up' \in Seq(Up) /\ Len(up') \in Nat
           /\ link # "up" => up' = up
           /\ link = "up" => /\ Len(up') = Len(up) + 1 /\ up'[Len(up')] = frame
                            /\ \A i \in 1..Len(up) : up'[i] = up[i]
<1>1. up \in Seq(Up) /\ Len(up) \in Nat
  BY LenProperties DEF Types, ServerTypes
<1>2. CASE link = "up"
  BY <1>1, <1>2, AppendProperties DEF Send
<1>3. CASE link # "up"
  BY <1>1, <1>3 DEF Send
<1> QED
  BY <1>2, <1>3

\* What is left when the first frame has been taken.
LEMMA Taking ==
    ASSUME Types
    PROVE  /\ down # <<>> => Tail(down) \in Seq(Down) /\ Head(down) \in Down
           /\ up # <<>> => /\ Tail(up) \in Seq(Up) /\ Len(Tail(up)) = Len(up) - 1
                          /\ Head(up) = up[1]
                          /\ \A i \in 1..Len(Tail(up)) : Tail(up)[i] = up[i + 1]
           /\ Len(up) \in Nat
  BY HeadTailProperties, LenProperties, EmptySeq DEF Types, ServerTypes

\* That there is no handshake is a value of its own.
LEMMA NoneIsHandshake == NoHandshake \in Handshakes
  BY DEF NoHandshake, Handshakes

\* Behind a frame that is sent, what was ahead is still ahead.
LEMMA SentBehind ==
    ASSUME Types, Sessions, Moved, NEW frame \in Up, Send(frame), UNCHANGED <<session, bound>>,
           frame = "Pong" /\ link = "up" => AheadOf(Len(up) + 1)
    PROVE  /\ \A i \in 1..Len(up') : up'[i] = "Pong" => AheadOf(i)'
           /\ bound = 0 => Len(up') = 0
           /\ frame = "Upgrade" /\ link = "up" => AheadOf(Len(up) + 1)'
<1> SUFFICES ASSUME NEW n \in Nat, n = Len(up)
             PROVE  /\ \A i \in 1..Len(up') : up'[i] = "Pong" => AheadOf(i)'
                    /\ bound = 0 => Len(up') = 0
                    /\ frame = "Upgrade" /\ link = "up" => AheadOf(Len(up) + 1)'
  BY Taking
<1>1. /\ Len(up') \in Nat
      /\ link # "up" => up' = up
      /\ link = "up" => /\ Len(up') = n + 1 /\ up'[n + 1] = frame
                       /\ \A i \in 1..n : up'[i] = up[i]
  BY Sending
<1>2. CASE link # "up"
  BY <1>1, <1>2 DEF Moved, AheadOf
<1>3. CASE link = "up"
  <2>1. \A i \in 1..(n + 1) : AheadOf(i) => AheadOf(i)'
    BY <1>1, <1>3 DEF AheadOf
  <2>2. \A i \in 1..n : up'[i] = "Pong" => AheadOf(i)'
    BY <1>1, <1>3, <2>1 DEF Moved
  <2>3. up'[n + 1] = "Pong" => AheadOf(n + 1)'
    BY <1>1, <1>3, <2>1
  <2>4. frame = "Upgrade" => AheadOf(Len(up) + 1)'
    BY <1>1, <1>3 DEF AheadOf
  <2> QED
    BY <1>1, <1>3, <2>2, <2>3, <2>4 DEF Sessions
<1> QED
  BY <1>2, <1>3

\* handshake() with a handshake that the builder has already.
LEMMA HandshakeKeptKeeps ==
    ASSUME BuilderInv, HandshakeKept
    PROVE  BuilderInv'
<1>1. Newest' = Newest /\ Used' = Used
  BY NoneOpens DEF HandshakeKept
<1>2. AskedTypes'
  BY DEF BuilderInv, Types, AskedTypes, HandshakeKept, asked
<1>3. BuilderTypes'
  BY DEF BuilderInv, Types, BuilderTypes, HandshakeKept, PCs
<1>4. ServerTypes'
  BY DEF BuilderInv, Types, ServerTypes, HandshakeKept, websocket
<1>5. Sessions'
  BY <1>1 DEF BuilderInv, Sessions, HandshakeKept, websocket
<1>6. Counted'
  BY <1>1 DEF BuilderInv, Counted, HandshakeKept, asked, Reachable
<1>7. Where'
  BY DEF BuilderInv, Where, HandshakeKept, asked, websocket, InWebsocket
<1>8. Chosen'
  BY DEF BuilderInv, Chosen, HandshakeKept, asked, websocket
<1>9. Ends'
  BY DEF BuilderInv, Ends, HandshakeKept
<1>10. Moved'
  BY DEF BuilderInv, Moved, HandshakeKept, websocket, AheadOf
<1>11. NothingRefused'
  BY DEF BuilderInv, NothingRefused, HandshakeKept
<1> QED
  BY <1>2, <1>3, <1>4, <1>5, <1>6, <1>7, <1>8, <1>9, <1>10, <1>11 DEF BuilderInv, Types

\* handshake() that fails, over HTTP or before it.
LEMMA HandshakeFailsKeeps ==
    ASSUME BuilderInv, HandshakeFails
    PROVE  BuilderInv'
<1>1. Newest' = Newest /\ Used' = Used
  BY NoneOpens DEF HandshakeFails
<1>2. AskedTypes'
  BY DEF BuilderInv, Types, AskedTypes, HandshakeFails, asked
<1>3. BuilderTypes'
  BY NoneIsHandshake
     DEF BuilderInv, Types, BuilderTypes, AskedTypes, HandshakeFails, Fail, Panic,
         Enter, asked, websocket, NoTransport, Methods, PCs
<1>4. ServerTypes'
  BY DEF BuilderInv, Types, ServerTypes, HandshakeFails, Fail, Panic, websocket
<1>5. Sessions'
  BY <1>1 DEF BuilderInv, Sessions, HandshakeFails, Fail, Panic, websocket
<1>6. Counted'
  BY <1>1 DEF BuilderInv, Sessions, Counted, HandshakeFails, Fail, asked, Reachable
<1>7. Where'
  BY DEF BuilderInv, Where, HandshakeFails, Fail, Panic, Enter, asked, InWebsocket
<1>8. Chosen'
  BY DEF BuilderInv, Chosen, HandshakeFails, Fail, Panic, Enter, asked
<1>9. Ends'
  BY DEF BuilderInv, Where, Chosen, Ends, HandshakeFails, Fail, Panic, Enter, asked
<1>10. Moved'
  BY DEF BuilderInv, Moved, HandshakeFails, Fail, Panic, Enter, websocket, AheadOf
<1>11. NothingRefused'
  BY DEF BuilderInv, NothingRefused, HandshakeFails
<1> QED
  BY <1>2, <1>3, <1>4, <1>5, <1>6, <1>7, <1>8, <1>9, <1>10, <1>11 DEF BuilderInv, Types

\* What each function does with the handshake.
LEMMA ChooseKeeps ==
    ASSUME BuilderInv, Choose
    PROVE  BuilderInv'
<1>1. Newest' = Newest /\ Used' = Used
  BY NoneOpens DEF Choose
<1>2. AskedTypes'
  BY DEF BuilderInv, Types, AskedTypes, Choose, asked
<1>3. BuilderTypes'
  BY NoneIsHandshake
     DEF BuilderInv, Types, BuilderTypes, AskedTypes, Choose, UpgradeOrPoll, Enter,
         Finish, Fail, asked, websocket, NoTransport, Methods, PCs
<1>4. ServerTypes'
  BY DEF BuilderInv, Types, ServerTypes, Choose, Finish, Fail, websocket
<1>5. Sessions'
  BY <1>1 DEF BuilderInv, Sessions, Choose, Finish, Fail, websocket
<1>6. Counted'
  BY <1>1 DEF BuilderInv, Counted, Where, Chosen, Choose, Finish, Fail, asked, Reachable
<1>7. Where'
  BY DEF BuilderInv, Where, Choose, UpgradeOrPoll, Enter, Finish, Fail, asked,
         websocket, InWebsocket
<1>8. Chosen'
  BY DEF BuilderInv, Sessions, Where, Chosen, Choose, UpgradeOrPoll, Enter, Finish,
         Fail, asked, websocket
<1>9. Ends'
  BY DEF BuilderInv, Where, Ends, Choose, UpgradeOrPoll, Enter, Finish, Fail, asked
<1>10. Moved'
  BY DEF BuilderInv, Moved, Choose, UpgradeOrPoll, Enter, Finish, Fail, websocket,
         AheadOf
<1>11. NothingRefused'
  BY DEF BuilderInv, NothingRefused, Choose
<1> QED
  BY <1>2, <1>3, <1>4, <1>5, <1>6, <1>7, <1>8, <1>9, <1>10, <1>11 DEF BuilderInv, Types

\* A websocket that does not open.
LEMMA WebsocketRefusedKeeps ==
    ASSUME BuilderInv, WebsocketRefused
    PROVE  BuilderInv'
<1>1. Newest' = Newest /\ Used' = Used
  BY NoneOpens DEF WebsocketRefused
<1>2. AskedTypes'
  BY DEF BuilderInv, Types, AskedTypes, WebsocketRefused, asked
<1>3. BuilderTypes'
  BY NoneIsHandshake
     DEF BuilderInv, Types, BuilderTypes, AskedTypes, WebsocketRefused, Fail, Enter,
         asked, websocket, NoTransport, Methods, PCs
<1>4. ServerTypes'
  BY DEF BuilderInv, Types, ServerTypes, WebsocketRefused, Fail, websocket
<1>5. Sessions'
  BY <1>1 DEF BuilderInv, Sessions, WebsocketRefused, Fail, websocket
<1>6. Counted'
  BY <1>1 DEF BuilderInv, Sessions, Counted, WebsocketRefused, Fail, asked, Reachable
<1>7. Where'
  BY DEF BuilderInv, Where, WebsocketRefused, Fail, Enter, asked, InWebsocket
<1>8. Chosen'
  BY DEF BuilderInv, Chosen, WebsocketRefused, Fail, Enter, asked, websocket
<1>9. Ends'
  BY DEF BuilderInv, Where, Chosen, Ends, WebsocketRefused, Fail, Enter, asked,
         InWebsocket
<1>10. Moved'
  BY DEF BuilderInv, Moved, WebsocketRefused, Fail, Enter, websocket, AheadOf
<1>11. NothingRefused'
  BY DEF BuilderInv, NothingRefused, WebsocketRefused
<1> QED
  BY <1>2, <1>3, <1>4, <1>5, <1>6, <1>7, <1>8, <1>9, <1>10, <1>11 DEF BuilderInv, Types

\* The first packet of a websocket without a sid has the handshake.
LEMMA FirstPacketKeeps ==
    ASSUME BuilderInv, FirstPacket
    PROVE  BuilderInv'
<1>1. Newest' = Newest /\ Used' = Used
  BY NoneOpens DEF FirstPacket
<1>2. Types /\ Sessions /\ Moved
  BY DEF BuilderInv
<1>3. [sid |-> bound, websocket |-> FALSE] \in Handshakes
  BY <1>2 DEF Types, ServerTypes, Handshakes
<1>4. AskedTypes'
  BY DEF BuilderInv, Types, AskedTypes, FirstPacket, asked
<1>5. BuilderTypes'
  BY <1>3
     DEF BuilderInv, Types, BuilderTypes, AskedTypes, FirstPacket, Finish, asked,
         websocket, NoTransport, Methods, PCs
<1>6. ServerTypes'
  BY DEF BuilderInv, Types, ServerTypes, FirstPacket, Finish
<1>7. Sessions'
  BY <1>1 DEF BuilderInv, Types, ServerTypes, Sessions, FirstPacket, Finish, NoHandshake
<1>8. Counted'
  BY <1>1 DEF BuilderInv, Counted, FirstPacket, Finish, asked, Reachable
<1>9. Where'
  BY DEF BuilderInv, Where, FirstPacket, Finish, asked, InWebsocket
<1>10. Chosen'
  BY DEF BuilderInv, Where, Chosen, FirstPacket, Finish, asked
<1>11. Ends'
  BY DEF BuilderInv, Types, ServerTypes, Sessions, Counted, Where, Ends, FirstPacket,
         Finish, asked, NoHandshake, InWebsocket
<1>12. Moved'
  BY DEF BuilderInv, Moved, FirstPacket, AheadOf
<1>13. NothingRefused'
  BY DEF BuilderInv, NothingRefused, FirstPacket
<1> QED
  BY <1>4, <1>5, <1>6, <1>7, <1>8, <1>9, <1>10, <1>11, <1>12, <1>13
     DEF BuilderInv, Types

\* The first packet does not come, or is none.
LEMMA NoFirstPacketKeeps ==
    ASSUME BuilderInv, NoFirstPacket
    PROVE  BuilderInv'
<1>1. Newest' = Newest /\ Used' = Used
  BY NoneOpens DEF NoFirstPacket
<1>2. AskedTypes'
  BY DEF BuilderInv, Types, AskedTypes, NoFirstPacket, asked
<1>3. BuilderTypes'
  BY NoneIsHandshake
     DEF BuilderInv, Types, BuilderTypes, AskedTypes, NoFirstPacket, Fail, Enter, asked,
         websocket, NoTransport, Methods, PCs
<1>4. ServerTypes'
  BY DEF BuilderInv, Types, ServerTypes, NoFirstPacket, Fail, websocket
<1>5. Sessions'
  BY <1>1 DEF BuilderInv, Sessions, NoFirstPacket, Fail, websocket
<1>6. Counted'
  BY <1>1 DEF BuilderInv, Sessions, Counted, NoFirstPacket, Fail, asked, Reachable
<1>7. Where'
  BY DEF BuilderInv, Where, NoFirstPacket, Fail, InWebsocket
<1>8. Chosen'
  BY DEF BuilderInv, Chosen, NoFirstPacket, Fail, Enter, asked, websocket
<1>9. Ends'
  BY DEF BuilderInv, Where, Chosen, Ends, NoFirstPacket, Fail, asked
<1>10. Moved'
  BY DEF BuilderInv, Moved, NoFirstPacket, websocket, AheadOf
<1>11. NothingRefused'
  BY DEF BuilderInv, NothingRefused, NoFirstPacket
<1> QED
  BY <1>2, <1>3, <1>4, <1>5, <1>6, <1>7, <1>8, <1>9, <1>10, <1>11 DEF BuilderInv, Types

\* upgrade(): the probe is sent behind what is on the way.
LEMMA ProbeKeeps ==
    ASSUME BuilderInv, Probe
    PROVE  BuilderInv'
<1>1. Newest' = Newest /\ Used' = Used
  BY NoneOpens DEF Probe
<1>2. Types /\ Sessions /\ Moved
  BY DEF BuilderInv
<1>3. /\ up' \in Seq(Up) /\ down' \in Seq(Down)
  BY <1>2, Sending DEF Probe, Up, Types, ServerTypes
<1>4. AskedTypes'
  BY DEF BuilderInv, Types, AskedTypes, Probe, asked
<1>5. BuilderTypes'
  BY NoneIsHandshake
     DEF BuilderInv, Types, BuilderTypes, AskedTypes, Probe, Fail, Enter, asked,
         websocket, NoTransport, Methods, PCs
<1>6. ServerTypes'
  BY <1>3 DEF BuilderInv, Types, ServerTypes, Probe, Fail
<1>7. Sessions'
  BY <1>1 DEF BuilderInv, Sessions, Probe, Fail
<1>8. Counted'
  BY <1>1 DEF BuilderInv, Sessions, Counted, Probe, Fail, asked, Reachable
<1>9. Where'
  BY DEF BuilderInv, Where, Probe, Fail, Enter, asked, InWebsocket
<1>10. Chosen'
  BY DEF BuilderInv, Chosen, Probe, Fail, Enter, asked
<1>11. Ends'
  BY DEF BuilderInv, Where, Ends, Probe, Fail, Enter, asked, InWebsocket
<1>12. Moved'
  BY <1>2, SentBehind DEF Probe, Up, Moved, Fail, Enter, AheadOf
<1>13. NothingRefused'
  BY DEF BuilderInv, NothingRefused, Probe
<1> QED
  BY <1>4, <1>5, <1>6, <1>7, <1>8, <1>9, <1>10, <1>11, <1>12, <1>13
     DEF BuilderInv, Types

\* upgrade(): the answer to the probe.
LEMMA AnswerKeeps ==
    ASSUME BuilderInv, Answer
    PROVE  BuilderInv'
<1>1. Newest' = Newest /\ Used' = Used
  BY NoneOpens DEF Answer
<1>2. AskedTypes'
  BY DEF BuilderInv, Types, AskedTypes, Answer, asked
<1>3. BuilderTypes'
  BY NoneIsHandshake
     DEF BuilderInv, Types, BuilderTypes, AskedTypes, Answer, Fail, Enter, asked,
         websocket, NoTransport, Methods, PCs
<1>4. ServerTypes'
  BY DEF BuilderInv, Types, ServerTypes, Answer, Fail
<1>5. Sessions'
  BY <1>1 DEF BuilderInv, Sessions, Answer, Fail
<1>6. Counted'
  BY <1>1 DEF BuilderInv, Sessions, Counted, Answer, Fail, asked, Reachable
<1>7. Where'
  BY DEF BuilderInv, Where, Answer, Fail, Enter, asked, InWebsocket
<1>8. Chosen'
  BY DEF BuilderInv, Chosen, Answer, Fail, Enter, asked
<1>9. Ends'
  BY DEF BuilderInv, Where, Ends, Answer, Fail, Enter, asked, InWebsocket
<1>10. Moved'
  BY DEF BuilderInv, Moved, Answer, Fail, Enter, AheadOf
<1>11. NothingRefused'
  BY DEF BuilderInv, NothingRefused, Answer
<1> QED
  BY <1>2, <1>3, <1>4, <1>5, <1>6, <1>7, <1>8, <1>9, <1>10, <1>11 DEF BuilderInv, Types

\* upgrade(): Upgrade is sent, ahead of what the Client sends.
LEMMA UpgradeKeeps ==
    ASSUME BuilderInv, Upgrade
    PROVE  BuilderInv'
<1>1. Newest' = Newest /\ Used' = Used
  BY NoneOpens DEF Upgrade
<1>2. Types /\ Sessions /\ Moved
  BY DEF BuilderInv
<1>3. /\ up' \in Seq(Up) /\ down' \in Seq(Down)
  BY <1>2, Sending DEF Upgrade, SendFails, Up, Types, ServerTypes
<1>4. AskedTypes'
  BY DEF BuilderInv, Types, AskedTypes, Upgrade, asked
<1>5. BuilderTypes'
  BY NoneIsHandshake
     DEF BuilderInv, Types, BuilderTypes, AskedTypes, Upgrade, Fail, Enter, Finish,
         asked, websocket, NoTransport, Methods, PCs
<1>6. ServerTypes'
  BY <1>3 DEF BuilderInv, Types, ServerTypes, Upgrade, Fail, Finish
<1>7. Sessions'
  BY <1>1 DEF BuilderInv, Sessions, Upgrade, Fail, Finish
<1>8. Counted'
  BY <1>1 DEF BuilderInv, Sessions, Counted, Upgrade, Fail, Finish, asked, Reachable
<1>9. Where'
  BY DEF BuilderInv, Where, Upgrade, Fail, Enter, Finish, asked, InWebsocket
<1>10. Chosen'
  BY DEF BuilderInv, Chosen, Upgrade, Fail, Enter, Finish, asked
<1>11. Ends'
  BY DEF BuilderInv, Sessions, Counted, Where, Chosen, Ends, Upgrade, Fail, Enter,
         Finish, asked, InWebsocket
<1>12. Moved'
  BY <1>2, SentBehind DEF Upgrade, SendFails, Up, Moved, Fail, Enter, Finish, AheadOf
<1>13. NothingRefused'
  BY DEF BuilderInv, NothingRefused, Upgrade
<1> QED
  BY <1>4, <1>5, <1>6, <1>7, <1>8, <1>9, <1>10, <1>11, <1>12, <1>13
     DEF BuilderInv, Types

\* connect() sends its first Pong behind the Upgrade.
LEMMA ConnectKeeps ==
    ASSUME BuilderInv, Connect
    PROVE  BuilderInv'
<1>1. Newest' = Newest /\ Used' = Used
  BY NoneOpens DEF Connect
<1>2. Types /\ Sessions /\ Moved
  BY DEF BuilderInv
<1>3. /\ up' \in Seq(Up) /\ down' \in Seq(Down)
  BY <1>2, Sending DEF Connect, Up, Types, ServerTypes
<1>4. AskedTypes'
  BY DEF BuilderInv, Types, AskedTypes, Connect, asked
<1>5. BuilderTypes'
  BY DEF BuilderInv, Types, BuilderTypes, Connect, PCs
<1>6. ServerTypes'
  BY <1>3 DEF BuilderInv, Types, ServerTypes, Connect, asked, websocket, NoTransport
<1>7. Sessions'
  BY <1>1 DEF BuilderInv, Sessions, Connect
<1>8. Counted'
  BY <1>1 DEF BuilderInv, Counted, Connect, asked, Reachable
<1>9. Where'
  BY DEF BuilderInv, Where, Connect, asked, InWebsocket
<1>10. Chosen'
  BY DEF BuilderInv, Chosen, Connect, asked
<1>11. Ends'
  BY DEF BuilderInv, Ends, Connect, asked
<1>12. Moved'
  BY <1>2, SentBehind DEF Connect, Up, Moved, AheadOf
<1>13. NothingRefused'
  BY <1>2, BoundIsSession
     DEF BuilderInv, NothingRefused, Connect, Chosen, Ends, Sessions
<1> QED
  BY <1>4, <1>5, <1>6, <1>7, <1>8, <1>9, <1>10, <1>11, <1>12, <1>13
     DEF BuilderInv, Types

\* A build function is called.
LEMMA CallKeeps ==
    ASSUME BuilderInv, Call
    PROVE  BuilderInv'
<1>1. Newest' = Newest /\ Used' = Used
  BY NoneOpens DEF Call
<1>2. AskedTypes'
  BY DEF BuilderInv, Types, AskedTypes, Call, asked
<1>3. BuilderTypes'
  BY DEF BuilderInv, Types, BuilderTypes, AskedTypes, Call, Enter, Methods, PCs
<1>4. ServerTypes'
  BY DEF BuilderInv, Types, ServerTypes, Call, websocket
<1>5. Sessions'
  BY <1>1 DEF BuilderInv, Sessions, Call, websocket
<1>6. Counted'
  BY <1>1 DEF BuilderInv, Counted, Call, asked, Reachable
<1>7. Where'
  BY DEF BuilderInv, Types, AskedTypes, Where, Call, Enter, websocket, InWebsocket,
         Methods
<1>8. Chosen'
  BY DEF BuilderInv, Where, Chosen, Call, Enter, asked
<1>9. Ends'
  BY DEF BuilderInv, Ends, Call, Enter
<1>10. Moved'
  BY DEF BuilderInv, Moved, Call, Enter, websocket, AheadOf
<1>11. NothingRefused'
  BY DEF BuilderInv, NothingRefused, Call
<1> QED
  BY <1>2, <1>3, <1>4, <1>5, <1>6, <1>7, <1>8, <1>9, <1>10, <1>11 DEF BuilderInv, Types

\* The server sends a Ping or a Noop.
LEMMA ServerControlKeeps ==
    ASSUME BuilderInv, ServerControl
    PROVE  BuilderInv'
<1>1. Newest' = Newest /\ Used' = Used
  BY NoneOpens DEF ServerControl
<1>2. Types /\ Sessions /\ Moved
  BY DEF BuilderInv
<1>3. down' \in Seq(Down)
  BY <1>2 DEF ServerControl, Types, ServerTypes, Down
<1>4. AskedTypes'
  BY DEF BuilderInv, Types, AskedTypes, ServerControl, asked
<1>5. BuilderTypes'
  BY DEF BuilderInv, Types, BuilderTypes, ServerControl
<1>6. ServerTypes'
  BY <1>3 DEF BuilderInv, Types, ServerTypes, ServerControl
<1>7. Sessions'
  BY <1>1 DEF BuilderInv, Sessions, ServerControl
<1>8. Counted'
  BY <1>1 DEF BuilderInv, Counted, ServerControl, asked, Reachable
<1>9. Where'
  BY DEF BuilderInv, Where, ServerControl, asked
<1>10. Chosen'
  BY DEF BuilderInv, Chosen, ServerControl, asked
<1>11. Ends'
  BY DEF BuilderInv, Ends, ServerControl, asked
<1>12. Moved'
  BY DEF BuilderInv, Moved, ServerControl, AheadOf
<1>13. NothingRefused'
  BY DEF BuilderInv, NothingRefused, ServerControl
<1> QED
  BY <1>4, <1>5, <1>6, <1>7, <1>8, <1>9, <1>10, <1>11, <1>12, <1>13
     DEF BuilderInv, Types

\* The websocket breaks.
LEMMA BreakKeeps ==
    ASSUME BuilderInv, Break
    PROVE  BuilderInv'
<1>1. Newest' = Newest /\ Used' = Used
  BY NoneOpens DEF Break
<1>2. AskedTypes'
  BY DEF BuilderInv, Types, AskedTypes, Break, asked
<1>3. BuilderTypes'
  BY DEF BuilderInv, Types, BuilderTypes, Break
<1>4. ServerTypes'
  BY DEF BuilderInv, Types, ServerTypes, Break
<1>5. Sessions'
  BY <1>1 DEF BuilderInv, Sessions, Break
<1>6. Counted'
  BY <1>1 DEF BuilderInv, Counted, Break, asked, Reachable
<1>7. Where'
  BY DEF BuilderInv, Where, Break, asked
<1>8. Chosen'
  BY DEF BuilderInv, Chosen, Break, asked
<1>9. Ends'
  BY DEF BuilderInv, Ends, Break, asked
<1>10. Moved'
  BY DEF BuilderInv, Moved, Break
<1>11. NothingRefused'
  BY DEF BuilderInv, NothingRefused, Break
<1> QED
  BY <1>2, <1>3, <1>4, <1>5, <1>6, <1>7, <1>8, <1>9, <1>10, <1>11 DEF BuilderInv, Types

\* The server gives up a session, and the websocket with it.
LEMMA ExpireKeeps ==
    ASSUME BuilderInv, NEW x \in Sids, Expire(x)
    PROVE  BuilderInv'
<1>1. Types /\ Sessions /\ Moved
  BY DEF BuilderInv
<1>2. /\ session' \in [Sids -> {"unused", "polling", "websocket", "closed"}]
      /\ session'[x] = "closed" /\ session[x] \in {"polling", "websocket"}
      /\ \A s \in Sids \ {x} : session'[s] = session[s]
  BY <1>1 DEF Expire, Types, ServerTypes
<1>3. Newest' = Newest /\ Used' = Used
  BY <1>2, NoneOpens
<1>4. /\ up' \in Seq(Up) /\ down' \in Seq(Down) /\ (x = bound => Len(up') = 0)
  BY <1>1, EmptySeq DEF Expire, Types, ServerTypes
<1>5. AskedTypes'
  BY DEF BuilderInv, Types, AskedTypes, Expire, asked
<1>6. BuilderTypes'
  BY DEF BuilderInv, Types, BuilderTypes, Expire
<1>7. ServerTypes'
  BY <1>4 DEF BuilderInv, Types, ServerTypes, Expire
<1>8. Sessions'
  BY <1>3 DEF BuilderInv, Types, AskedTypes, ServerTypes, Sessions, Expire
<1>9. Counted'
  BY <1>3 DEF BuilderInv, Counted, Expire, asked, Reachable
<1>10. Where'
  BY DEF BuilderInv, Where, Expire, asked
<1>11. Chosen'
  BY DEF BuilderInv, Chosen, Expire, asked
<1>12. Ends'
  BY DEF BuilderInv, Ends, Expire, asked
<1>13. Moved'
  BY DEF BuilderInv, Moved, Expire, AheadOf
<1>14. NothingRefused'
  BY DEF BuilderInv, NothingRefused, Expire
<1> QED
  BY <1>5, <1>6, <1>7, <1>8, <1>9, <1>10, <1>11, <1>12, <1>13, <1>14
     DEF BuilderInv, Types

\* Nothing happens.
LEMMA StayKeeps ==
    ASSUME BuilderInv, UNCHANGED vars
    PROVE  BuilderInv'
<1>1. Newest' = Newest /\ Used' = Used
  BY NoneOpens DEF vars
<1>2. AskedTypes'
  BY DEF BuilderInv, Types, AskedTypes, vars
<1>3. BuilderTypes'
  BY DEF BuilderInv, Types, BuilderTypes, vars
<1>4. ServerTypes'
  BY DEF BuilderInv, Types, ServerTypes, vars
<1>5. Sessions'
  BY <1>1 DEF BuilderInv, Sessions, vars
<1>6. Counted'
  BY <1>1 DEF BuilderInv, Counted, vars, Reachable
<1>7. Where'
  BY DEF BuilderInv, Where, vars
<1>8. Chosen'
  BY DEF BuilderInv, Chosen, vars
<1>9. Ends'
  BY DEF BuilderInv, Ends, vars
<1>10. Moved'
  BY DEF BuilderInv, Moved, vars, AheadOf
<1>11. NothingRefused'
  BY DEF BuilderInv, NothingRefused, vars
<1> QED
  BY <1>2, <1>3, <1>4, <1>5, <1>6, <1>7, <1>8, <1>9, <1>10, <1>11 DEF BuilderInv, Types

\* handshake() over HTTP opens the next session.
LEMMA HandshakePolledKeeps ==
    ASSUME BuilderInv, HandshakePolled
    PROVE  BuilderInv'
<1>1. Types /\ Sessions /\ Moved /\ handshake = NoHandshake
  BY DEF BuilderInv, HandshakePolled
<1>2. Opens("polling")
  BY DEF HandshakePolled, GetHandshake
<1>3. /\ Newest + 1 \in Sids /\ Newest' = Newest + 1 /\ Used' = 1..Newest' /\ Newest \in Nat
      /\ session' \in [Sids -> {"unused", "polling", "websocket", "closed"}]
      /\ session'[Newest + 1] = "polling"
      /\ \A s \in Sids : s # Newest + 1 => session'[s] = session[s]
  BY <1>1, <1>2, OpensNext DEF Sessions
<1>4. [sid |-> Newest + 1, websocket |-> offers] \in Handshakes
  BY <1>1, <1>3 DEF Types, AskedTypes, Handshakes
<1>5. bound <= Newest /\ bound # Newest + 1 /\ (bound # 0 => session'[bound] = session[bound])
  BY <1>1, <1>3, BoundIsSession DEF Sessions
<1>6. AskedTypes'
  BY DEF BuilderInv, Types, AskedTypes, HandshakePolled, GetHandshake, asked
<1>7. BuilderTypes'
  BY <1>4, NoneIsHandshake
     DEF BuilderInv, Types, BuilderTypes, AskedTypes, HandshakePolled, GetHandshake,
         Answered, Fail, Enter, asked, websocket, NoTransport, Methods, PCs
<1>8. ServerTypes'
  BY <1>3
     DEF BuilderInv, Types, ServerTypes, HandshakePolled, GetHandshake, Answered, Fail,
         websocket
<1>9. Sessions'
  BY <1>3
     DEF BuilderInv, Types, ServerTypes, Sessions, HandshakePolled, GetHandshake,
         Answered, Fail, websocket
<1>10. Counted'
  BY <1>3
     DEF BuilderInv, Counted, Where, Chosen, HandshakePolled, GetHandshake, Answered,
         Fail, asked, Reachable
<1>11. Where'
  BY DEF BuilderInv, Sessions, Where, HandshakePolled, GetHandshake, Answered, Fail,
         Enter, asked, websocket, NoHandshake, InWebsocket
<1>12. Chosen'
  BY DEF BuilderInv, Sessions, Chosen, HandshakePolled, GetHandshake, Answered, Fail,
         Enter, asked, websocket
<1>13. Ends'
  BY DEF BuilderInv, Where, Chosen, Ends, HandshakePolled, GetHandshake, Answered, Fail,
         Enter, asked
<1>14. Moved'
  BY <1>1, <1>5
     DEF Moved, HandshakePolled, GetHandshake, Answered, Fail, Enter, websocket, AheadOf
<1>15. NothingRefused'
  BY DEF BuilderInv, NothingRefused, HandshakePolled, GetHandshake
<1> QED
  BY <1>6, <1>7, <1>8, <1>9, <1>10, <1>11, <1>12, <1>13, <1>14, <1>15
     DEF BuilderInv, Types

\* A websocket opens, for the session of the handshake or for the next one.
LEMMA WebsocketOpensKeeps ==
    ASSUME BuilderInv, WebsocketOpens
    PROVE  BuilderInv'
<1>1. Types /\ Sessions /\ Moved
  BY DEF BuilderInv
<1>2. CASE handshake # NoHandshake
  <2>1. Newest' = Newest /\ Used' = Used
    BY <1>2, NoneOpens DEF WebsocketOpens
  <2>2. session[handshake.sid] = "polling" /\ bound' = handshake.sid /\ bound' \in 1..Newest
    BY <1>1, <1>2 DEF WebsocketOpens, Sessions
  <2>3. AskedTypes'
    BY DEF BuilderInv, Types, AskedTypes, WebsocketOpens, asked
  <2>4. BuilderTypes'
    BY DEF BuilderInv, Types, BuilderTypes, WebsocketOpens, PCs
  <2>5. ServerTypes'
    BY <1>2, <2>2 DEF BuilderInv, Types, ServerTypes, WebsocketOpens
  <2>6. Sessions'
    BY <1>2, <2>1, <2>2
       DEF BuilderInv, Types, BuilderTypes, ServerTypes, Sessions, Where,
           WebsocketOpens, NoHandshake
  <2>7. Counted'
    BY <2>1 DEF BuilderInv, Counted, WebsocketOpens, asked, Reachable
  <2>8. Where'
    BY <2>2 DEF BuilderInv, Sessions, Where, WebsocketOpens, InWebsocket
  <2>9. Chosen'
    BY DEF BuilderInv, Where, Chosen, WebsocketOpens, asked, InWebsocket
  <2>10. Ends'
    BY DEF BuilderInv, Ends, WebsocketOpens
  <2>11. Moved'
    BY <2>2 DEF BuilderInv, Sessions, Where, Moved, WebsocketOpens
  <2>12. NothingRefused'
    BY DEF BuilderInv, NothingRefused, WebsocketOpens
  <2> QED
    BY <2>3, <2>4, <2>5, <2>6, <2>7, <2>8, <2>9, <2>10, <2>11, <2>12
       DEF BuilderInv, Types
<1>3. CASE handshake = NoHandshake
  <2>1. Opens("websocket") /\ bound' = Newest + 1 /\ down' = <<"Open">> /\ pc' = "first_packet"
    BY <1>3 DEF WebsocketOpens
  <2>2. /\ Newest + 1 \in Sids /\ Newest' = Newest + 1 /\ Used' = 1..Newest' /\ Newest \in Nat
        /\ session' \in [Sids -> {"unused", "polling", "websocket", "closed"}]
        /\ session'[Newest + 1] = "websocket"
        /\ \A s \in Sids : s # Newest + 1 => session'[s] = session[s]
    BY <1>1, <2>1, OpensNext DEF Sessions
  <2>3. down' \in Seq(Down)
    BY <2>1 DEF Down
  <2>4. \A s \in Sids : session[s] # "websocket"
    BY DEF WebsocketOpens, BuilderInv, Where, Sessions, Sids
  <2>5. AskedTypes'
    BY DEF BuilderInv, Types, AskedTypes, WebsocketOpens, asked
  <2>6. BuilderTypes'
    BY DEF BuilderInv, Types, BuilderTypes, WebsocketOpens, PCs
  <2>7. ServerTypes'
    BY <2>2, <2>3, <2>4 DEF BuilderInv, Types, ServerTypes, WebsocketOpens
  <2>8. Sessions'
    BY <2>2, <2>4 DEF Sessions, WebsocketOpens
  <2>9. Counted'
    BY <2>2
       DEF BuilderInv, Sessions, Counted, Where, Chosen, WebsocketOpens, asked,
           InWebsocket
  <2>10. Where'
    BY <2>1, <2>2 DEF BuilderInv, Where, Chosen, WebsocketOpens, asked, InWebsocket
  <2>11. Chosen'
    BY DEF BuilderInv, Where, Chosen, WebsocketOpens, asked, InWebsocket
  <2>12. Ends'
    BY DEF BuilderInv, Ends, WebsocketOpens
  <2>13. Moved'
    BY <2>1, <2>2 DEF Moved, AheadOf
  <2>14. NothingRefused'
    BY DEF BuilderInv, NothingRefused, WebsocketOpens
  <2> QED
    BY <2>5, <2>6, <2>7, <2>8, <2>9, <2>10, <2>11, <2>12, <2>13, <2>14
       DEF BuilderInv, Types
<1> QED
  BY <1>2, <1>3

\* The server takes a frame from the websocket: what was ahead still is.
LEMMA ServerTakeKeeps ==
    ASSUME BuilderInv, ServerTake
    PROVE  BuilderInv'
<1>1. Types /\ Sessions /\ Moved /\ bound \in Sids
  BY BoundIsSession DEF BuilderInv, ServerTake, Sessions
<1>2. /\ Len(up) \in Nat /\ Len(up) > 0 /\ up' \in Seq(Up) /\ Len(up') = Len(up) - 1
      /\ Head(up) = up[1]
      /\ \A i \in 1..Len(up') : up'[i] = up[i + 1]
  BY <1>1 DEF ServerTake, Types, ServerTypes
<1>3. /\ session' \in [Sids -> {"unused", "polling", "websocket", "closed"}]
      /\ session'[bound] = IF up[1] = "Upgrade" /\ session[bound] = "polling"
                           THEN "websocket" ELSE session[bound]
      /\ \A s \in Sids \ {bound} : session'[s] = session[s]
  BY <1>1 DEF ServerTake, Types, ServerTypes
<1>4. Newest' = Newest /\ Used' = Used
  BY <1>3, NoneOpens
<1>5. down' \in Seq(Down)
  BY <1>1 DEF ServerTake, Types, ServerTypes, Down
<1>6. \A n \in 1..Len(up) : AheadOf(n + 1) => AheadOf(n)'
  <2> SUFFICES ASSUME NEW n \in 1..Len(up), AheadOf(n + 1) PROVE AheadOf(n)'
    OBVIOUS
  <2>1. CASE session[bound] # "polling"
    BY <2>1 DEF AheadOf, ServerTake
  <2>2. CASE \E j \in 1..n : up[j] = "Upgrade"
    <3>1. PICK j \in 1..n : up[j] = "Upgrade"
      BY <2>2
    <3>2. CASE j = 1
      BY <1>3, <3>2 DEF AheadOf, ServerTake
    <3>3. CASE j > 1
      <4>1. j - 1 \in 1..(n - 1) /\ j - 1 \in 1..Len(up') /\ (j - 1) + 1 = j
        BY <1>2, <3>3
      <4>2. up'[j - 1] = "Upgrade"
        BY <1>2, <3>1, <4>1
      <4> QED
        BY <4>1, <4>2 DEF AheadOf
    <3> QED
      BY <3>2, <3>3
  <2> QED
    BY <2>1, <2>2 DEF AheadOf
<1>7. AskedTypes'
  BY DEF BuilderInv, Types, AskedTypes, ServerTake, asked
<1>8. BuilderTypes'
  BY DEF BuilderInv, Types, BuilderTypes, ServerTake
<1>9. ServerTypes'
  BY <1>3, <1>5 DEF Types, ServerTypes, ServerTake, BuilderInv
<1>10. Sessions'
  BY <1>4 DEF BuilderInv, Sessions, ServerTake
<1>11. Counted'
  BY <1>4 DEF BuilderInv, Counted, ServerTake, asked, Reachable
<1>12. Where'
  BY DEF BuilderInv, Where, ServerTake, asked
<1>13. Chosen'
  BY DEF BuilderInv, Chosen, ServerTake, asked
<1>14. Ends'
  BY DEF BuilderInv, Ends, ServerTake, asked
<1>15. Moved'
  <2>1. \A i \in 1..Len(up') : up'[i] = "Pong" => AheadOf(i)'
    BY <1>1, <1>2, <1>6 DEF Moved
  <2>2. pc = "connect" /\ transport = "websocket" /\ link = "up" => AheadOf(Len(up) + 1)'
    <3> SUFFICES ASSUME pc = "connect", transport = "websocket", link = "up",
                        NEW n \in Nat, n = Len(up)
                 PROVE  AheadOf(Len(up) + 1)'
      OBVIOUS
    <3>1. AheadOf(n + 1) /\ n \in 1..Len(up)
      BY <1>1, <1>2 DEF Moved
    <3>2. AheadOf(n)'
      BY <1>6, <3>1
    <3> QED
      BY <1>2, <3>2
  <2> QED
    BY <1>1, <2>1, <2>2 DEF Moved, ServerTake
<1>16. NothingRefused'
  <2>1. up[1] = "Pong" => session[bound] # "polling"
    BY <1>1, <1>2 DEF Moved, AheadOf
  <2> QED
    BY <1>2, <2>1 DEF ServerTake, BuilderInv, NothingRefused
<1> QED
  BY <1>7, <1>8, <1>9, <1>10, <1>11, <1>12, <1>13, <1>14, <1>15, <1>16
     DEF BuilderInv, Types

\* The builder begins with no session.
LEMMA Inductive == Init => BuilderInv
<1> SUFFICES ASSUME Init PROVE BuilderInv
  OBVIOUS
<1>1. Used = {} /\ Newest = 0
  BY FS_EmptySet DEF Init, Used, Newest
<1>2. Types
  <2>1. AskedTypes /\ BuilderTypes
    BY NoneIsHandshake DEF AskedTypes, BuilderTypes, Init, PCs, Methods, NoTransport
  <2>2. <<>> \in Seq(Up) /\ <<>> \in Seq(Down)
    OBVIOUS
  <2>3. ServerTypes
    BY <2>2 DEF ServerTypes, Init
  <2> QED
    BY <2>1, <2>3 DEF Types
<1>3. Sessions
  BY <1>1 DEF Sessions, Init
<1>4. Counted /\ Where /\ Chosen /\ Ends
  BY <1>1 DEF Counted, Where, Chosen, Ends, Init, Methods, InWebsocket, NoTransport
<1>5. Moved /\ NothingRefused
  BY DEF Moved, NothingRefused, Init
<1> QED
  BY <1>2, <1>3, <1>4, <1>5 DEF BuilderInv

\* Every step of the builder and the server keeps the invariant.
LEMMA InvKept == BuilderInv /\ [Next]_vars => BuilderInv'
  BY CallKeeps, HandshakeKeptKeeps, HandshakePolledKeeps, HandshakeFailsKeeps, ChooseKeeps,
     WebsocketRefusedKeeps, WebsocketOpensKeeps, FirstPacketKeeps, NoFirstPacketKeeps, ProbeKeeps,
     AnswerKeeps, UpgradeKeeps, ConnectKeeps, ServerTakeKeeps, ServerControlKeeps, BreakKeeps,
     ExpireKeeps, StayKeeps DEF Next, Builder

\* Which sessions there are, which function is executed on behalf of the one that was
\* called and what it may still come to, for every build function and its server.
THEOREM Invariant == Spec => []BuilderInv
  BY Inductive, InvKept, PTL DEF Spec

\* No frame of the client gets to a server that has its session elsewhere.
THEOREM Unrefused == Spec => []NothingRefused
<1>1. BuilderInv => NothingRefused
  BY DEF BuilderInv
<1> QED
  BY <1>1, Invariant, PTL

-----------------------------------------------------------------------------

(* The two builders *)

\* What the asynchronous builder may come to, for each of its functions.
LEMMA AsyncResults ==
    /\ method = "build" => AsyncOutcomes = Async!Build(Async!NewBuilder)
    /\ method = "build_polling" => AsyncOutcomes = Async!BuildPolling(Async!NewBuilder)
    /\ method = "build_websocket" => AsyncOutcomes = Async!BuildWebsocket(Async!NewBuilder)
    /\ method = "build_websocket_with_upgrade" =>
         AsyncOutcomes = Async!BuildWebsocketWithUpgrade(Async!NewBuilder)
    /\ method = "build_with_fallback" => AsyncOutcomes = Async!BuildWithFallback(Async!NewBuilder)
  BY DEF AsyncOutcomes, Async!Outcomes

\* An outcome is an error, after as many sessions as the function may open, or a
\* Client over a transport that the function may use.
LEMMA AsyncBounded ==
    ASSUME method \in Methods, NEW r \in AsyncOutcomes
    PROVE  \/ /\ r.cause # "none"
              /\ r.sessions \in IF method = "build_with_fallback" THEN 0..2 ELSE 0..1
           \/ /\ r.cause = "none" /\ r.over \in {"polling", "websocket"}
              /\ r.sessions \in IF method = "build_with_fallback" THEN 1..2 ELSE {1}
              /\ method # "build_websocket" => Reachable
              /\ r.over = "websocket" => offers
              /\ method = "build_polling" => r.over = "polling"
              /\ method \in {"build_websocket", "build_websocket_with_upgrade"} =>
                   r.over = "websocket"
              /\ method = "build" => r.over = IF offers THEN "websocket" ELSE "polling"
<1>1. CASE method = "build_polling"
  BY <1>1, AsyncResults, PollingOutcomes, Causes DEF HttpErrs
<1>2. CASE method = "build_websocket"
  BY <1>2, AsyncResults, WebsocketOutcomes, Causes DEF Upgraded, Openable
<1>3. CASE method = "build_websocket_with_upgrade"
  BY <1>3, AsyncResults, WithUpgradeOutcomes, Causes DEF HttpErrs, Upgraded, Openable
<1>4. CASE method = "build"
  BY <1>4, AsyncResults, BuildOutcomes, Causes DEF HttpErrs, Upgraded, Openable
<1>5. CASE method = "build_with_fallback"
  BY <1>5, AsyncResults, FallbackOutcomes, Causes DEF HttpErrs
<1> QED
  BY <1>1, <1>2, <1>3, <1>4, <1>5 DEF Methods

\* A build asks for one session, and only the fallback for a second.
THEOREM OneSession == Spec => []OneSessionPerBuild
<1>1. BuilderInv => OneSessionPerBuild
  <2> SUFFICES ASSUME BuilderInv, NEW n \in {Newest} \cup {r.sessions : r \in AsyncOutcomes}
               PROVE  n <= IF method = "build_with_fallback" THEN 2 ELSE 1
    BY DEF OneSessionPerBuild
  <2>1. Newest <= IF method = "build_with_fallback" THEN 2 ELSE 1
    BY DEF BuilderInv, Counted, Where, Types, BuilderTypes, Sessions
  <2>2. \A r \in AsyncOutcomes : r.sessions <= IF method = "build_with_fallback" THEN 2 ELSE 1
    BY AsyncBounded DEF BuilderInv, Types, AskedTypes
  <2> QED
    BY <2>1, <2>2
<1> QED
  BY <1>1, Invariant, PTL

\* The Client talks over what was asked for.
THEOREM Asked == Spec => []AsAsked
<1>1. BuilderInv => AsAsked
  <2> SUFFICES ASSUME BuilderInv PROVE AsAsked
    OBVIOUS
  <2>1. transport # NoTransport => handshake # NoHandshake
    BY DEF BuilderInv, Ends, NoTransport
  <2> DEFINE Fits(t) ==
          /\ method = "build_polling" => t = "polling"
          /\ method \in {"build_websocket", "build_websocket_with_upgrade"} => t = "websocket"
          /\ t = "websocket" => offers
          /\ method = "build" => t = (IF offers THEN "websocket" ELSE "polling")
          /\ scheme \in {"ws", "wss"} => method = "build_websocket"
  <2>2. ASSUME pc \in Built PROVE Fits(transport)
    <3>1. transport \in {"polling", "websocket"} /\ handshake # NoHandshake
      BY <2>2 DEF BuilderInv, Ends, Built, Types, BuilderTypes
    <3>2. Newest > 0
      BY <3>1 DEF BuilderInv, Sessions
    <3>3. scheme \in {"ws", "wss"} => method = "build_websocket"
      BY <3>2 DEF BuilderInv, Counted, Reachable
    <3>4. transport = IF fn = "build_websocket" THEN "websocket" ELSE "polling"
      BY <3>1 DEF BuilderInv, Ends
    <3>5. method \in Methods /\ (transport = "polling" => fn = "build_polling")
          /\ (transport = "websocket" => offers)
      BY DEF BuilderInv, Types, AskedTypes, Ends
    <3>6. method = "build" => transport = IF offers THEN "websocket" ELSE "polling"
      BY <3>1, <3>4, <3>5 DEF BuilderInv, Chosen, Where
    <3> QED
      BY <3>3, <3>4, <3>5, <3>6 DEF BuilderInv, Chosen
  <2>3. ASSUME NEW r \in AsyncOutcomes, r.cause = "none" PROVE Fits(r.over)
    BY <2>3, AsyncBounded DEF BuilderInv, Types, AskedTypes, Reachable
  <2> HIDE DEF Fits
  <2>4. \A t \in (IF pc \in Built THEN {transport} ELSE {})
                 \cup {r.over : r \in {r \in AsyncOutcomes : r.cause = "none"}} : Fits(t)
    BY <2>2, <2>3
  <2> QED
    BY <2>1, <2>4 DEF AsAsked, Fits
<1> QED
  BY <1>1, Invariant, PTL

\* What the sync builder comes to is among the outcomes, for each function.
LEMMA AsyncMay ==
    ASSUME method \in Methods, NEW n \in Nat
    PROVE  /\ /\ headers /\ Reachable
              /\ n = 1 \/ (method = "build_with_fallback" /\ n = 2)
              /\ method = "build" => ~offers
              /\ method \in {"build", "build_polling", "build_with_fallback"}
              => Async!Client("polling", n) \in AsyncOutcomes
           /\ /\ n = 1 /\ offers /\ headers
              /\ IF method = "build_websocket" THEN scheme # "other" ELSE Reachable
              /\ method # "build_polling"
              => Async!Client("websocket", n) \in AsyncOutcomes
           /\ /\ headers /\ method # "build_websocket"
              /\ n > 0 => Reachable
              /\ n <= IF method = "build_with_fallback" THEN 2 ELSE 1
              => Async!Err("http", n) \in AsyncOutcomes
           /\ /\ method = "build_websocket" /\ n <= 1
              /\ n > 0 => Openable
              => Async!Err("websocket", n) \in AsyncOutcomes
           /\ /\ method \in {"build", "build_websocket_with_upgrade"} /\ n = 1
              /\ headers /\ Reachable
              /\ method = "build" => offers
              => Async!Err("websocket", n) \in AsyncOutcomes
           /\ /\ method # "build_websocket" /\ ~headers /\ n = 0
              => Async!Err("headers", n) \in AsyncOutcomes
<1>1. CASE method = "build_polling"
  BY <1>1, AsyncResults, PollingOutcomes DEF HttpErrs
<1>2. CASE method = "build_websocket"
  BY <1>2, AsyncResults, WebsocketOutcomes DEF Upgraded, Openable
<1>3. CASE method = "build_websocket_with_upgrade"
  BY <1>3, AsyncResults, WithUpgradeOutcomes DEF HttpErrs, Upgraded, Openable, Reachable
<1>4. CASE method = "build"
  BY <1>4, AsyncResults, BuildOutcomes DEF HttpErrs, Upgraded, Openable, Reachable
<1>5. CASE method = "build_with_fallback"
  BY <1>5, AsyncResults, FallbackOutcomes DEF HttpErrs, Reachable
<1> QED
  BY <1>1, <1>2, <1>3, <1>4, <1>5 DEF Methods

\* The two builders agree.
THEOREM Twins == Spec => []TwinsAgree
<1>1. BuilderInv => TwinsAgree
  <2> SUFFICES ASSUME BuilderInv PROVE TwinsAgree
    OBVIOUS
  <2> DEFINE may == {[cause |-> r.cause, over |-> r.over, sessions |-> r.sessions]
                       : r \in AsyncOutcomes}
             is(cause) == [cause |-> cause, over |-> transport, sessions |-> Newest]
  <2>1. /\ method \in Methods /\ Newest \in Nat
        /\ Newest <= IF method = "build_with_fallback" THEN 2 ELSE 1
        /\ Newest > 0 => /\ headers
                         /\ IF method = "build_websocket" THEN scheme # "other" /\ offers
                                                          ELSE Reachable
    BY DEF BuilderInv, Types, AskedTypes, BuilderTypes, Sessions, Counted, Where
  <2>2. /\ \A t, n : Async!Client(t, n) \in AsyncOutcomes =>
               [cause |-> "none", over |-> t, sessions |-> n] \in may
        /\ \A c, n : Async!Err(c, n) \in AsyncOutcomes =>
               [cause |-> c, over |-> "none", sessions |-> n] \in may
    BY DEF Async!Client, Async!Err, Async!Result
  <2>3. handshake # NoHandshake => Newest > 0
    BY DEF BuilderInv, Sessions
  <2> HIDE DEF may
  <2>4. ASSUME pc = "connect" PROVE is("none") \in may
    <3>1. transport \in {"polling", "websocket"} /\ handshake # NoHandshake
      BY <2>4 DEF BuilderInv, Ends, Types, BuilderTypes
    <3>2. CASE transport = "polling"
      <4>1. fn = "build_polling" /\ ((fn # method /\ ~retried) => ~offers)
        BY <3>2 DEF BuilderInv, Ends, Chosen
      <4>2. /\ method \in {"build", "build_polling", "build_with_fallback"}
            /\ method = "build" => ~offers
        BY <2>1, <4>1 DEF BuilderInv, Chosen, Where, Methods
      <4>3. Async!Client("polling", Newest) \in AsyncOutcomes
        <5>1. /\ headers /\ Reachable
              /\ Newest = 1 \/ (method = "build_with_fallback" /\ Newest = 2)
          <6>1. Newest > 0
            BY <2>3, <3>1
          <6>2. method # "build_websocket"
            BY <4>2
          <6> QED
            BY <2>1, <6>1, <6>2
        <5> QED
          BY <2>1, <4>2, <5>1, AsyncMay
      <4> QED
        BY <2>2, <3>2, <4>3
    <3>3. CASE transport = "websocket"
      <4>1. fn = "build_websocket" /\ offers /\ ~retried
        BY <3>3 DEF BuilderInv, Ends, Where
      <4>2. Newest = 1
        BY <2>1, <2>3, <3>1, <4>1 DEF BuilderInv, Counted
      <4>3. method # "build_polling"
        BY <4>1 DEF BuilderInv, Chosen
      <4>4. Async!Client("websocket", Newest) \in AsyncOutcomes
        BY <2>1, <4>1, <4>2, <4>3, AsyncMay
      <4> QED
        BY <2>2, <3>3, <4>4
    <3> QED
      BY <3>1, <3>2, <3>3
  <2>5. ASSUME pc = "error", transport = NoTransport PROVE is(failed) \in may
    <3>1. CASE failed = "http" /\ headers /\ method # "build_websocket"
      <4>1. Async!Err("http", Newest) \in AsyncOutcomes
        BY <2>1, <3>1, AsyncMay
      <4> QED
        BY <2>2, <2>5, <3>1, <4>1 DEF NoTransport
    <3>2. CASE /\ failed = "websocket"
               /\ fn \in {"build_websocket", "build_websocket_with_upgrade"}
               /\ method # "build_with_fallback"
               /\ method # "build_websocket" => handshake # NoHandshake
      <4>1. ~retried /\ Newest <= 1
        BY <3>2 DEF BuilderInv, Where, Counted
      <4>2. method \in {"build", "build_websocket", "build_websocket_with_upgrade"}
        <5>1. method = "build_polling" => fn = method
          BY DEF BuilderInv, Chosen
        <5> QED
          BY <2>1, <3>2, <5>1 DEF Methods
      <4>3. Async!Err("websocket", Newest) \in AsyncOutcomes
        <5>1. CASE method = "build_websocket"
          BY <2>1, <4>1, <5>1, AsyncMay DEF Openable
        <5>2. CASE method # "build_websocket"
          <6>1. Newest = 1 /\ headers /\ Reachable
            BY <2>1, <2>3, <3>2, <4>1, <5>2
          <6>2. method = "build" => offers
            BY <3>2 DEF BuilderInv, Chosen
          <6> QED
            BY <2>1, <4>2, <5>2, <6>1, <6>2, AsyncMay
        <5> QED
          BY <5>1, <5>2
      <4> QED
        BY <2>2, <2>5, <3>2, <4>3 DEF NoTransport
    <3> QED
      BY <2>5, <3>1, <3>2 DEF BuilderInv, Ends, NoTransport
  <2>6. ASSUME pc = "panic" PROVE is("headers") \in may
    <3>1. ~headers /\ method # "build_websocket" /\ transport = "none"
      BY <2>6 DEF BuilderInv, Ends
    <3>2. Newest = 0
      BY <2>1, <3>1
    <3> QED
      BY <2>1, <2>2, <3>1, <3>2, AsyncMay
  <2> QED
    BY <2>4, <2>5, <2>6 DEF TwinsAgree, may
<1> QED
  BY <1>1, Invariant, PTL
====
