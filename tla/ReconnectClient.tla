-------------------------- MODULE ReconnectClient --------------------------
(***************************************************************************)
(* The socket.io Client that reconnects (socketio/src/client/client.rs):   *)
(* a RawClient behind a RwLock, a poll thread that iterates over its       *)
(* packets, runs the callbacks and replaces the RawClient when the         *)
(* connection fails, and the user threads that emit and disconnect.        *)
(*                                                                         *)
(* Connections are numbered in the order in which they are made.  Of a     *)
(* RawClient only the engine.io connection below it is kept; its callbacks *)
(* and acks are the subject of the module RawClient.  The poll thread is   *)
(* the only writer of the RwLock, so its own read lock around poll() never *)
(* matters; the users' read locks do.                                      *)
(***************************************************************************)
EXTENDS Naturals, FiniteSets

CONSTANTS
    Users,                   \* threads that use clones of the Client
    Reconnect,               \* ClientBuilder.reconnect
    ReconnectOnDisconnect,   \* ClientBuilder.reconnect_on_disconnect
    MaxAttempts,             \* ClientBuilder.max_reconnect_attempts
    NoLimit,                 \* its value None
    OverflowChecks,          \* TRUE: overflow panics (debug); FALSE: it wraps
    MaxConnections,          \* bound: connections made
    MaxOutages,              \* bound: times the server goes down
    MaxCalls                 \* bound: calls of each user

U8 == 256

ASSUME BuilderAssumption ==
    /\ Reconnect \in BOOLEAN
    /\ ReconnectOnDisconnect \in BOOLEAN
    /\ MaxAttempts \in 0..(U8 - 1) \cup {NoLimit}
    /\ NoLimit \notin Nat
    /\ OverflowChecks \in BOOLEAN
ASSUME BoundsAssumption ==
    MaxConnections \in Nat \ {0} /\ MaxOutages \in Nat /\ MaxCalls \in Nat

Connections == 1..MaxConnections

VARIABLES
    cur,        \* the connection of the RawClient in Client.client
    made,       \* connections 1..made have been made
    engine,     \* engine[c]: the client regards connection c as open
    link,       \* link[c]: "up" while the transport of c works
    closes,     \* closes[c]: calls of the close callback on behalf of c
    ppc,        \* where the poll thread is
    item,       \* what its iterator yielded
    attempts,   \* reconnect_attempts, a u8
    upc,        \* upc[u]: the call u is in, with the read lock, or "idle"
    uses,       \* uses[u]: the connection of the RawClient u has locked
    calls,      \* calls[u]: number of calls of u
    stopped,    \* some disconnect() of a user has returned
    server,     \* "up" when new connections succeed
    outages,    \* number of times the server went down
    left        \* connections whose namespace the server has disconnected

vars == <<cur, made, engine, link, closes, ppc, item, attempts, upc, uses, calls,
          stopped, server, outages, left>>
pollVars == <<ppc, item, attempts>>
userVars == <<upc, uses, calls, stopped>>
worldVars == <<server, outages, left>>

PollPC == {"next", "recv", "body", "rc_disconnect", "rc_loop", "rc_connect",
           "rc_swap", "panicked"}
Item == {"none", "ok", "disconnect", "engine_error", "stopped"}

----------------------------------------------------------------------------
\* Client::new: connect_raw has succeeded and the poll thread is started.
Init ==
    /\ cur = 1
    /\ made = 1
    /\ engine = [c \in Connections |-> c = 1]
    /\ link = [c \in Connections |-> IF c = 1 THEN "up" ELSE "down"]
    /\ closes = [c \in Connections |-> 0]
    /\ ppc = "next"
    /\ item = "none"
    /\ attempts = 0
    /\ upc = [u \in Users |-> "idle"]
    /\ uses = [u \in Users |-> 1]
    /\ calls = [u \in Users |-> 0]
    /\ stopped = FALSE
    /\ server = "up"
    /\ outages = 0
    /\ left = {}

\* Mutant: the sockets are closed and nobody is told.
CloseConnectionSilent(c) ==
    /\ engine' = [engine EXCEPT ![c] = FALSE]
    /\ UNCHANGED closes

\* RawClient::disconnect on connection c: both sockets closed, close callback.
CloseConnection(c) ==
    /\ engine' = [engine EXCEPT ![c] = FALSE]
    /\ closes' = [closes EXCEPT ![c] = @ + 1]

\* The iterator yields i to the loop of the poll thread.
Yield(i) == ppc' = "body" /\ item' = i

----------------------------------------------------------------------------
(* The poll thread: Iter::next *)

\* poll() finds the engine.io connection open, or yields StoppedEngineIoSocket.
IterNext ==
    /\ ppc = "next"
    /\ IF engine[cur] THEN ppc' = "recv" /\ UNCHANGED item ELSE Yield("stopped")
    /\ UNCHANGED <<cur, made, engine, link, closes, attempts, userVars, worldVars>>

\* An event, an ack, or data that socket.io cannot decode.
RecvPlain ==
    /\ ppc = "recv" /\ link[cur] = "up" /\ cur \notin left
    /\ Yield("ok")
    /\ UNCHANGED <<cur, made, engine, link, closes, attempts, userVars, worldVars>>

\* A Ping: its Pong is refused, as an engine.io error, if a user has closed the
\* connection in the meantime.  Otherwise poll() goes on.
RecvPing ==
    /\ ppc = "recv" /\ link[cur] = "up"
    /\ IF engine[cur] THEN ppc' = "next" /\ UNCHANGED item
       ELSE Yield("engine_error")
    /\ UNCHANGED <<cur, made, engine, link, closes, attempts, userVars, worldVars>>

\* A socket.io Disconnect packet: the close callback, and the packet is yielded.
\* It is the last packet of the namespace.
RecvDisconnect ==
    /\ ppc = "recv" /\ link[cur] = "up" /\ cur \notin left
    /\ left' = left \cup {cur}
    /\ closes' = [closes EXCEPT ![cur] = @ + 1]
    /\ Yield("disconnect")
    /\ UNCHANGED <<cur, made, engine, link, attempts, userVars, server, outages>>

\* An engine.io Close packet: poll() goes on with the connection closed.
RecvClose ==
    /\ ppc = "recv" /\ link[cur] = "up"
    /\ engine' = [engine EXCEPT ![cur] = FALSE]
    /\ ppc' = "next"
    /\ UNCHANGED <<cur, made, link, closes, item, attempts, userVars, worldVars>>

\* The transport fails, or delivers what engine.io cannot decode.
RecvFails ==
    /\ ppc = "recv"
    /\ link[cur] = "down" \/ made < MaxConnections
    /\ Yield("engine_error")
    /\ UNCHANGED <<cur, made, engine, link, closes, attempts, userVars, worldVars>>

----------------------------------------------------------------------------
(* The poll thread: the loop of poll_callback, reconnect, do_reconnect *)

\* Mutant: errors of engine.io do not lead to a reconnect.
LoopBodyDeaf ==
    /\ ppc = "body"
    /\ ppc' = IF item = "disconnect" /\ ReconnectOnDisconnect
              THEN "rc_disconnect" ELSE "next"
    /\ item' = "none"
    /\ UNCHANGED <<cur, made, engine, link, closes, attempts, userVars, worldVars>>

\* Mutant: reconnect_on_disconnect is not looked at.
LoopBodyErrorsOnly ==
    /\ ppc = "body"
    /\ ppc' = IF item = "engine_error" THEN "rc_disconnect" ELSE "next"
    /\ item' = "none"
    /\ UNCHANGED <<cur, made, engine, link, closes, attempts, userVars, worldVars>>

\* should_reconnect
LoopBody ==
    /\ ppc = "body"
    /\ ppc' = IF \/ item = "engine_error"
                 \/ item = "disconnect" /\ ReconnectOnDisconnect
              THEN "rc_disconnect" ELSE "next"
    /\ item' = "none"
    /\ UNCHANGED <<cur, made, engine, link, closes, attempts, userVars, worldVars>>

\* Mutant: the failed connection is not closed first.
LeaveOpen ==
    /\ ppc = "rc_disconnect"
    /\ ppc' = IF Reconnect THEN "rc_loop" ELSE "next"
    /\ attempts' = 0
    /\ UNCHANGED <<cur, made, engine, link, closes, item, userVars, worldVars>>

\* self.disconnect(), then reconnect() begins, if the builder wants it to.
CloseOld ==
    /\ ppc = "rc_disconnect"
    /\ CloseConnection(cur)
    /\ ppc' = IF Reconnect THEN "rc_loop" ELSE "next"
    /\ attempts' = 0
    /\ UNCHANGED <<cur, made, link, item, userVars, worldVars>>

\* Mutant: the attempts are not counted.
AttemptUncounted ==
    /\ ppc = "rc_loop"
    /\ IF MaxAttempts # NoLimit /\ attempts > MaxAttempts
       THEN ppc' = "next"
       ELSE ppc' = "rc_connect"
    /\ UNCHANGED <<cur, made, engine, link, closes, item, attempts, userVars,
                   worldVars>>

\* Mutant: one attempt too many.
AttemptOnceMore ==
    /\ ppc = "rc_loop"
    /\ IF MaxAttempts # NoLimit /\ attempts > MaxAttempts + 1
       THEN ppc' = "next" /\ UNCHANGED attempts
       ELSE ppc' = "rc_connect" /\ attempts' = (attempts + 1) % U8
    /\ UNCHANGED <<cur, made, engine, link, closes, item, userVars, worldVars>>

\* The head of the loop in reconnect(), up to the end of the backoff's sleep.
Attempt ==
    /\ ppc = "rc_loop"
    /\ IF MaxAttempts # NoLimit /\ attempts > MaxAttempts
       THEN ppc' = "next" /\ UNCHANGED attempts
       ELSE IF attempts + 1 = U8 /\ OverflowChecks
       THEN ppc' = "panicked" /\ UNCHANGED attempts
       ELSE ppc' = "rc_connect" /\ attempts' = (attempts + 1) % U8
    /\ UNCHANGED <<cur, made, engine, link, closes, item, userVars, worldVars>>

\* builder.connect_raw(): a new connection, or an error and the next attempt.
ConnectRaw ==
    /\ ppc = "rc_connect"
    /\ IF server = "up" /\ made < MaxConnections
       THEN /\ made' = made + 1
            /\ engine' = [engine EXCEPT ![made'] = TRUE]
            /\ link' = [link EXCEPT ![made'] = "up"]
            /\ ppc' = "rc_swap"
       ELSE ppc' = "rc_loop" /\ UNCHANGED <<made, engine, link>>
    /\ UNCHANGED <<cur, closes, item, attempts, userVars, worldVars>>

\* Mutant: the client is replaced while users hold their read locks.
SwapUnlocked ==
    /\ ppc = "rc_swap"
    /\ cur' = made
    /\ ppc' = "next"
    /\ UNCHANGED <<made, engine, link, closes, item, attempts, userVars, worldVars>>

\* *self.client.write()? = new_client
Swap ==
    /\ ppc = "rc_swap"
    /\ \A u \in Users : upc[u] = "idle"
    /\ cur' = made
    /\ ppc' = "next"
    /\ UNCHANGED <<made, engine, link, closes, item, attempts, userVars, worldVars>>

----------------------------------------------------------------------------
(* User threads *)

\* A call takes the read lock; the writer's critical section is one step.
Call(u, what) ==
    /\ upc[u] = "idle" /\ calls[u] < MaxCalls
    /\ upc' = [upc EXCEPT ![u] = what]
    /\ uses' = [uses EXCEPT ![u] = cur]
    /\ calls' = [calls EXCEPT ![u] = @ + 1]
    /\ UNCHANGED <<cur, made, engine, link, closes, pollVars, stopped, worldVars>>

\* emit() and emit_with_ack(): sent or refused, the client is not changed.
EmitReturn(u) ==
    /\ upc[u] = "emit"
    /\ upc' = [upc EXCEPT ![u] = "idle"]
    /\ UNCHANGED <<cur, made, engine, link, closes, pollVars, uses, calls, stopped,
                   worldVars>>

DisconnectReturn(u) ==
    /\ upc[u] = "disconnect"
    /\ upc' = [upc EXCEPT ![u] = "idle"]
    /\ CloseConnection(uses[u])
    /\ stopped' = TRUE
    /\ UNCHANGED <<cur, made, link, pollVars, uses, calls, worldVars>>

----------------------------------------------------------------------------
(* The server and the network; nothing is lost once the bound is reached *)

ServerDown ==
    /\ server = "up" /\ outages < MaxOutages /\ made < MaxConnections
    /\ server' = "down"
    /\ outages' = outages + 1
    /\ link' = [c \in Connections |-> "down"]
    /\ UNCHANGED <<cur, made, engine, closes, pollVars, userVars, left>>

ServerUp ==
    /\ server = "down"
    /\ server' = "up"
    /\ UNCHANGED <<cur, made, engine, link, closes, pollVars, userVars, outages,
                   left>>

LinkLost ==
    /\ made < MaxConnections \/ ~engine[made]
    /\ \E c \in 1..made :
         link[c] = "up" /\ link' = [link EXCEPT ![c] = "down"]
    /\ UNCHANGED <<cur, made, engine, closes, pollVars, userVars, worldVars>>

----------------------------------------------------------------------------
Receive == RecvPlain \/ RecvPing \/ RecvDisconnect \/ RecvClose \/ RecvFails

PollThread ==
    IterNext \/ Receive \/ LoopBody \/ CloseOld \/ Attempt \/ ConnectRaw \/ Swap

UserReturn(u) == EmitReturn(u) \/ DisconnectReturn(u)

Next ==
    \/ PollThread
    \/ \E u \in Users :
         Call(u, "emit") \/ Call(u, "disconnect") \/ UserReturn(u)
    \/ ServerDown \/ ServerUp \/ LinkLost

Spec == Init /\ [][Next]_vars

\* Threads are scheduled, calls return, and a blocked transport ends with a
\* packet (the server pings) or an error.
ThreadFairness ==
    /\ WF_vars(PollThread)
    /\ \A u \in Users : WF_vars(UserReturn(u))

\* The server may stay down ...
FairSpec == Spec /\ ThreadFairness
\* ... or is started again.
ServedSpec == FairSpec /\ WF_vars(ServerUp)

----------------------------------------------------------------------------
\* The most that reconnect() counts: one more than the limit, within a u8.
MostAttempts ==
    IF MaxAttempts = NoLimit \/ MaxAttempts + 1 = U8 THEN U8 - 1 ELSE MaxAttempts + 1

\* Every variable has its type; there is always a current connection, which
\* has been made, and the attempts stay in their range.
TypeOK ==
    /\ made \in Connections /\ cur \in 1..made
    /\ engine \in [Connections -> BOOLEAN]
    /\ link \in [Connections -> {"up", "down"}]
    /\ closes \in [Connections -> Nat]
    /\ ppc \in PollPC /\ item \in Item
    /\ attempts \in 0..MostAttempts
    /\ upc \in [Users -> {"idle", "emit", "disconnect"}]
    /\ uses \in [Users -> 1..made]
    /\ calls \in [Users -> 0..MaxCalls]
    /\ stopped \in BOOLEAN
    /\ server \in {"up", "down"}
    /\ outages \in 0..MaxOutages
    /\ left \subseteq Connections

\* Reconnecting never leaves two connections open at once: every connection
\* that was replaced, or is about to be, has been closed by disconnect().
OneLiveConnection == Cardinality({c \in Connections : engine[c]}) <= 1

\* A call works on the current RawClient from its start to its end.
CallsUseCurrent == \A u \in Users : upc[u] # "idle" => uses[u] = cur

\* The application hears of the end of every connection: by the time a new one
\* replaces it, its close callback has been called.
ReplacedIsAnnounced == \A c \in 1..(cur - 1) : closes[c] > 0

\* The current connection works.
Live == engine[cur] /\ link[cur] = "up"

\* A reconnect has used up its attempts: the poll thread is left without one.
GaveUp ==
    /\ ppc = "next" /\ ~engine[cur]
    /\ MaxAttempts # NoLimit /\ attempts > MaxAttempts

\* When the transport of the current connection is lost, the client gets a
\* connection that works, unless a user disconnects or the attempts run out.
Recovers ==
    (engine[cur] /\ link[cur] = "down" /\ made < MaxConnections)
        ~> (Live \/ stopped \/ GaveUp)

\* "automatically set try to reconnect when the server disconnects the client"
ReconnectsOnDisconnect ==
    \A c \in Connections :
        (ppc = "body" /\ item = "disconnect" /\ cur = c /\ c < MaxConnections)
            ~> (cur > c \/ stopped \/ GaveUp)

\* With a limit on the attempts, reconnect() comes to an end even if the server
\* never comes back.
AttemptsEnd == ppc = "rc_loop" ~> ppc = "next"

\* "will automatically reconnect to the server unless stopped manually": after a
\* disconnect() of the user the client is not connected again.
StaysStopped == stopped => ~engine[cur]

\* "If the underlying engineIO connection is closed, throw an error so we know
\* to reconnect": the item that says so leads to a new connection.
StoppedReconnects ==
    (ppc = "body" /\ item = "stopped" /\ made < MaxConnections) ~> (Live \/ stopped)
=============================================================================
