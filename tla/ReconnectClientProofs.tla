----------------------- MODULE ReconnectClientProofs -----------------------
(***************************************************************************)
(* What is proved of the socket.io Client that reconnects, for any number  *)
(* of users, connections, outages and calls, and any settings of the       *)
(* builder.                                                                *)
(***************************************************************************)
EXTENDS ReconnectClient, FiniteSetTheorems, TLAPS

USE BuilderAssumption, BoundsAssumption

\* reconnect_attempts + 1 as a u8, where reconnect() goes on or panics.
LEMMA AttemptsCounted ==
    ASSUME attempts \in 0..MostAttempts,
           ~(MaxAttempts # NoLimit /\ attempts > MaxAttempts)
    PROVE  (attempts + 1) % U8 \in 0..MostAttempts
<1>1. MostAttempts \in Nat /\ MostAttempts <= 255
  BY DEF MostAttempts, U8
<1>2. attempts + 1 \in 1..256
  BY <1>1
<1>3. (attempts + 1) % U8 = IF attempts + 1 = 256 THEN 0 ELSE attempts + 1
  BY <1>2 DEF U8
<1>4. CASE attempts + 1 = 256
  BY <1>1, <1>3, <1>4
<1>5. CASE attempts + 1 # 256
  <2>1. CASE MaxAttempts = NoLimit \/ MaxAttempts + 1 = U8
    BY <1>2, <1>3, <1>5, <2>1 DEF MostAttempts, U8
  <2>2. CASE MaxAttempts # NoLimit /\ MaxAttempts + 1 # U8
    BY <1>2, <1>3, <1>5, <2>2 DEF MostAttempts, U8
  <2> QED
    BY <2>1, <2>2
<1> QED
  BY <1>4, <1>5

\* Client with its poll thread and users: every variable keeps its type, there is
\* always a RawClient, and reconnect_attempts passes max_reconnect_attempts by one
\* at most and never leaves a u8.
THEOREM Typing == Spec => []TypeOK
<1>1. ASSUME Init PROVE TypeOK
  <2>1. 1 \in Connections /\ 1 \in 1..1 /\ 0 \in 0..MaxCalls /\ 0 \in 0..MaxOutages
    BY DEF Connections
  <2>2. 0 \in 0..MostAttempts
    BY DEF MostAttempts, U8
  <2>3. engine \in [Connections -> BOOLEAN] /\ link \in [Connections -> {"up", "down"}]
    BY <1>1 DEF Init
  <2>4. closes \in [Connections -> Nat]
    BY <1>1 DEF Init
  <2> QED
    BY <1>1, <2>1, <2>2, <2>3, <2>4 DEF Init, TypeOK, PollPC, Item
<1>2. TypeOK /\ [Next]_vars => TypeOK'
  <2> SUFFICES ASSUME TypeOK, [Next]_vars
               PROVE  TypeOK'
    OBVIOUS
  <2> USE DEF TypeOK
  <2>0. /\ 1..made \subseteq Connections /\ cur \in Connections /\ made \in Nat
        /\ \A u \in Users : uses[u] \in Connections
    BY DEF Connections
  <2>1. CASE IterNext \/ Receive \/ LoopBody
    <3>1. ppc' \in PollPC /\ item' \in Item
      BY <2>1 DEF IterNext, Receive, RecvPlain, RecvPing, RecvDisconnect, RecvClose, RecvFails,
                  LoopBody, Yield, PollPC, Item
    <3>2. /\ engine' \in [Connections -> BOOLEAN] /\ closes' \in [Connections -> Nat]
          /\ left' \subseteq Connections
      <4>1. CASE RecvDisconnect
        BY <2>0, <4>1 DEF RecvDisconnect
      <4>2. CASE RecvClose
        BY <2>0, <4>2 DEF RecvClose, worldVars
      <4>3. CASE ~RecvDisconnect /\ ~RecvClose
        BY <2>1, <4>3 DEF IterNext, Receive, RecvPlain, RecvPing, RecvFails, LoopBody, worldVars
      <4> QED
        BY <4>1, <4>2, <4>3
    <3>3. UNCHANGED <<cur, made, link, attempts, userVars, server, outages>>
      BY <2>1 DEF IterNext, Receive, RecvPlain, RecvPing, RecvDisconnect, RecvClose, RecvFails,
                  LoopBody, worldVars
    <3> QED
      BY <3>1, <3>2, <3>3 DEF userVars
  <2>2. CASE CloseOld
    BY <2>0, <2>2 DEF CloseOld, CloseConnection, PollPC, userVars, worldVars, MostAttempts, U8
  <2>3. CASE Attempt
    <3>1. attempts' \in 0..MostAttempts
      BY <2>3, AttemptsCounted DEF Attempt
    <3>2. ppc' \in PollPC
      BY <2>3 DEF Attempt, PollPC
    <3> QED
      BY <2>3, <3>1, <3>2 DEF Attempt, userVars, worldVars
  <2>4. CASE ConnectRaw
    <3>1. CASE server = "up" /\ made < MaxConnections
      <4>1. made' = made + 1 /\ made' \in Connections /\ 1..made \subseteq 1..made'
        BY <2>0, <2>4, <3>1 DEF ConnectRaw, Connections
      <4>2. /\ engine' \in [Connections -> BOOLEAN] /\ link' \in [Connections -> {"up", "down"}]
            /\ ppc' \in PollPC
        BY <2>4, <3>1, <4>1 DEF ConnectRaw, PollPC
      <4> QED
        BY <2>4, <4>1, <4>2 DEF ConnectRaw, userVars, worldVars
    <3>2. CASE ~(server = "up" /\ made < MaxConnections)
      BY <2>4, <3>2 DEF ConnectRaw, PollPC, userVars, worldVars
    <3> QED
      BY <3>1, <3>2
  <2>5. CASE Swap
    BY <2>0, <2>5 DEF Swap, PollPC, userVars, worldVars
  <2>6. ASSUME NEW u \in Users, Call(u, "emit") \/ Call(u, "disconnect")
        PROVE  TypeOK'
    <3>1. /\ upc' \in [Users -> {"idle", "emit", "disconnect"}] /\ uses' \in [Users -> 1..made]
          /\ calls' \in [Users -> 0..MaxCalls]
      BY <2>6 DEF Call
    <3> QED
      BY <2>6, <3>1 DEF Call, pollVars, worldVars
  <2>7. ASSUME NEW u \in Users, UserReturn(u)
        PROVE  TypeOK'
    <3>1. /\ upc' \in [Users -> {"idle", "emit", "disconnect"}]
          /\ stopped' \in BOOLEAN
      BY <2>7 DEF UserReturn, EmitReturn, DisconnectReturn
    <3>2. engine' \in [Connections -> BOOLEAN] /\ closes' \in [Connections -> Nat]
      <4>1. CASE EmitReturn(u)
        BY <4>1 DEF EmitReturn
      <4>2. CASE DisconnectReturn(u)
        BY <2>0, <4>2 DEF DisconnectReturn, CloseConnection
      <4> QED
        BY <2>7, <4>1, <4>2 DEF UserReturn
    <3> QED
      BY <2>7, <3>1, <3>2 DEF UserReturn, EmitReturn, DisconnectReturn, pollVars, worldVars
  <2>8. CASE ServerDown \/ ServerUp \/ LinkLost
    <3>1. link' \in [Connections -> {"up", "down"}]
      BY <2>0, <2>8 DEF ServerDown, ServerUp, LinkLost
    <3>2. server' \in {"up", "down"} /\ outages' \in 0..MaxOutages
      BY <2>8 DEF ServerDown, ServerUp, LinkLost, worldVars
    <3> QED
      BY <2>8, <3>1, <3>2 DEF ServerDown, ServerUp, LinkLost, pollVars, userVars, worldVars
  <2>9. CASE UNCHANGED vars
    BY <2>9 DEF vars, userVars
  <2> QED
    BY <2>1, <2>2, <2>3, <2>4, <2>5, <2>6, <2>7, <2>8, <2>9 DEF Next, PollThread
<1> QED
  BY <1>1, <1>2, PTL DEF Spec

----------------------------------------------------------------------------
(* The current connection and those it replaces *)

\* The RawClient in the lock has the newest connection, but for the one that has
\* just been made and still waits for the write lock.
Current == made = IF ppc = "rc_swap" THEN cur + 1 ELSE cur

\* Only the newest connection is open, and none once reconnect() has begun and
\* until it has made one.
OthersClosed ==
    /\ \A c \in Connections : engine[c] => c = made
    /\ ppc \in {"rc_loop", "rc_connect"} => ~engine[cur]

\* The connection that is going to be replaced was announced.
Announced == ppc \in {"rc_loop", "rc_connect", "rc_swap"} => closes[cur] > 0

ReplaceInv == Current /\ OthersClosed /\ Announced /\ CallsUseCurrent /\ ReplacedIsAnnounced

\* Connections are closed and announced; the poll thread goes nowhere near a
\* replacement without having closed the current one.
LEMMA KeepsReplaceInv ==
    ASSUME TypeOK, ReplaceInv, UNCHANGED <<cur, made>>,
           \A c \in Connections : engine'[c] => engine[c],
           \A c \in Connections : closes[c] > 0 => closes'[c] > 0,
           ppc' = "rc_swap" <=> ppc = "rc_swap",
           ppc' \in {"rc_loop", "rc_connect", "rc_swap"} =>
               \/ ppc \in {"rc_loop", "rc_connect", "rc_swap"}
               \/ ~engine'[cur] /\ closes'[cur] > 0,
           \A u \in Users : upc'[u] # "idle" => uses'[u] = cur
    PROVE  ReplaceInv'
<1>1. cur \in Connections /\ 1..(cur - 1) \subseteq Connections
  BY BoundsAssumption DEF TypeOK, Connections
<1>2. Current' /\ CallsUseCurrent'
  BY DEF ReplaceInv, Current, CallsUseCurrent
<1>3. OthersClosed'
  BY <1>1 DEF ReplaceInv, OthersClosed
<1>4. Announced'
  BY <1>1 DEF ReplaceInv, Announced
<1>5. ReplacedIsAnnounced'
  BY <1>1 DEF ReplaceInv, ReplacedIsAnnounced
<1> QED
  BY <1>2, <1>3, <1>4, <1>5 DEF ReplaceInv

\* RawClient::disconnect closes one connection and announces it.
LEMMA ClosesOne ==
    ASSUME TypeOK, NEW d \in Connections, CloseConnection(d)
    PROVE  /\ ~engine'[d] /\ closes'[d] > 0
           /\ \A c \in Connections : engine'[c] => engine[c]
           /\ \A c \in Connections : closes[c] > 0 => closes'[c] > 0
BY DEF CloseConnection, TypeOK

LEMMA ReplaceHolds == Spec => []ReplaceInv
<1>1. ASSUME Init PROVE ReplaceInv
  <2>1. Current /\ Announced /\ CallsUseCurrent
    BY <1>1 DEF Init, Current, Announced, CallsUseCurrent
  <2>2. OthersClosed
    BY <1>1 DEF Init, OthersClosed
  <2>3. 1..(cur - 1) = {}
    BY <1>1 DEF Init
  <2> QED
    BY <2>1, <2>2, <2>3 DEF ReplaceInv, ReplacedIsAnnounced
<1>2. TypeOK /\ ReplaceInv /\ [Next]_vars => ReplaceInv'
  <2> SUFFICES ASSUME TypeOK, ReplaceInv, [Next]_vars
               PROVE  ReplaceInv'
    OBVIOUS
  <2>0. /\ cur \in Connections /\ made \in Connections /\ made \in Nat /\ cur \in Nat
        /\ \A u \in Users : upc[u] # "idle" => uses[u] = cur
    BY DEF TypeOK, Connections, ReplaceInv, CallsUseCurrent
  <2>1. CASE IterNext \/ Receive \/ LoopBody
    <3>1. ppc \notin {"rc_loop", "rc_connect", "rc_swap"}
          /\ ppc' \notin {"rc_loop", "rc_connect", "rc_swap"}
      BY <2>1 DEF IterNext, Receive, RecvPlain, RecvPing, RecvDisconnect, RecvClose, RecvFails,
                  LoopBody, Yield
    <3>2. UNCHANGED <<cur, made, upc, uses>>
      BY <2>1 DEF IterNext, Receive, RecvPlain, RecvPing, RecvDisconnect, RecvClose, RecvFails,
                  LoopBody, userVars
    <3>3. \A c \in Connections : (engine'[c] => engine[c]) /\ (closes[c] > 0 => closes'[c] > 0)
      <4>1. CASE RecvDisconnect
        BY <4>1 DEF RecvDisconnect, TypeOK
      <4>2. CASE RecvClose
        BY <4>2 DEF RecvClose, TypeOK
      <4>3. CASE ~RecvDisconnect /\ ~RecvClose
        BY <2>1, <4>3 DEF IterNext, Receive, RecvPlain, RecvPing, RecvFails, LoopBody
      <4> QED
        BY <4>1, <4>2, <4>3
    <3> QED
      BY <2>0, <3>1, <3>2, <3>3, KeepsReplaceInv
  <2>2. CASE CloseOld
    <3>1. ppc = "rc_disconnect" /\ ppc' # "rc_swap" /\ UNCHANGED <<cur, made, upc, uses>>
      BY <2>2 DEF CloseOld, userVars
    <3> QED
      BY <2>0, <2>2, <3>1, ClosesOne, KeepsReplaceInv DEF CloseOld
  <2>3. CASE Attempt
    BY <2>0, <2>3, KeepsReplaceInv DEF Attempt, userVars
  <2>4. CASE ConnectRaw
    <3>1. CASE server = "up" /\ made < MaxConnections
      <4>1. /\ cur' = cur /\ made = cur /\ made' = cur + 1 /\ ppc' = "rc_swap"
            /\ made' \in Connections /\ UNCHANGED <<closes, upc, uses>>
            /\ engine' = [engine EXCEPT ![made'] = TRUE]
        BY <2>0, <2>4, <3>1 DEF ConnectRaw, ReplaceInv, Current, Connections, userVars
      <4>2. \A c \in Connections : ~engine[c]
        BY <2>4 DEF ConnectRaw, ReplaceInv, OthersClosed, Current
      <4>3. \A c \in Connections : engine'[c] => c = made'
        BY <4>1, <4>2 DEF TypeOK
      <4>4. closes[cur] > 0
        BY <2>4 DEF ConnectRaw, ReplaceInv, Announced
      <4> QED
        BY <4>1, <4>3, <4>4 DEF ReplaceInv, Current, OthersClosed, Announced, CallsUseCurrent,
                                ReplacedIsAnnounced
    <3>2. CASE ~(server = "up" /\ made < MaxConnections)
      BY <2>0, <2>4, <3>2, KeepsReplaceInv DEF ConnectRaw, userVars
    <3> QED
      BY <3>1, <3>2
  <2>5. CASE Swap
    <3>1. /\ ppc = "rc_swap" /\ ppc' = "next" /\ cur' = made /\ made' = cur + 1
          /\ UNCHANGED <<made, engine, closes, upc, uses>>
          /\ \A u \in Users : upc[u] = "idle"
      BY <2>5 DEF Swap, ReplaceInv, Current, userVars
    <3>2. Current' /\ OthersClosed' /\ Announced' /\ CallsUseCurrent'
      BY <3>1 DEF ReplaceInv, Current, OthersClosed, Announced, CallsUseCurrent
    <3>3. ReplacedIsAnnounced'
      <4>1. \A c \in 1..(cur' - 1) : c \in 1..(cur - 1) \/ c = cur
        BY <2>0, <3>1
      <4> QED
        BY <3>1, <4>1 DEF ReplaceInv, ReplacedIsAnnounced, Announced
    <3> QED
      BY <3>2, <3>3 DEF ReplaceInv
  <2>6. ASSUME NEW u \in Users, Call(u, "emit") \/ Call(u, "disconnect")
        PROVE  ReplaceInv'
    <3>1. /\ UNCHANGED <<cur, made, engine, closes, ppc>>
          /\ \A v \in Users : upc'[v] # "idle" => uses'[v] = cur
      BY <2>0, <2>6 DEF Call, pollVars, TypeOK
    <3> QED
      BY <3>1, KeepsReplaceInv
  <2>7. ASSUME NEW u \in Users, UserReturn(u)
        PROVE  ReplaceInv'
    <3>1. /\ UNCHANGED <<cur, made, ppc>>
          /\ \A v \in Users : upc'[v] # "idle" => uses'[v] = cur
      BY <2>0, <2>7 DEF UserReturn, EmitReturn, DisconnectReturn, pollVars, TypeOK
    <3>2. CASE EmitReturn(u)
      BY <3>1, <3>2, KeepsReplaceInv DEF EmitReturn
    <3>3. CASE DisconnectReturn(u)
      <4>1. uses[u] = cur
        BY <2>0, <3>3 DEF DisconnectReturn
      <4> QED
        BY <2>0, <3>1, <3>3, <4>1, ClosesOne, KeepsReplaceInv DEF DisconnectReturn
    <3> QED
      BY <2>7, <3>2, <3>3 DEF UserReturn
  <2>8. CASE ServerDown \/ ServerUp \/ LinkLost
    <3>1. UNCHANGED <<cur, made, engine, closes, ppc, upc, uses>>
      BY <2>8 DEF ServerDown, ServerUp, LinkLost, pollVars, userVars
    <3> QED
      BY <2>0, <3>1, KeepsReplaceInv
  <2>9. CASE UNCHANGED vars
    <3>1. UNCHANGED <<cur, made, engine, closes, ppc, upc, uses>>
      BY <2>9 DEF vars
    <3> QED
      BY <2>0, <3>1, KeepsReplaceInv
  <2> QED
    BY <2>1, <2>2, <2>3, <2>4, <2>5, <2>6, <2>7, <2>8, <2>9 DEF Next, PollThread
<1> QED
  BY <1>1, <1>2, Typing, PTL DEF Spec

\* The poll thread closes a connection before it makes the next, and makes one at
\* a time: there are never two open, whatever users, server and network do.
THEOREM OneOpen == Spec => []OneLiveConnection
<1>1. TypeOK /\ ReplaceInv => OneLiveConnection
  <2> SUFFICES ASSUME TypeOK, ReplaceInv
               PROVE  OneLiveConnection
    OBVIOUS
  <2> DEFINE open == {c \in Connections : engine[c]}
  <2>1. open \subseteq {made}
    BY DEF ReplaceInv, OthersClosed
  <2>2. Cardinality(open) <= Cardinality({made})
    BY <2>1, FS_Singleton, FS_Subset
  <2>3. Cardinality({made}) = 1
    BY FS_Singleton
  <2> QED
    BY <2>2, <2>3 DEF OneLiveConnection
<1> QED
  BY <1>1, Typing, ReplaceHolds, PTL

\* The write lock waits for the calls that hold the read lock: none finds its
\* RawClient replaced before it returns.
THEOREM Used == Spec => []CallsUseCurrent
<1>1. ReplaceInv => CallsUseCurrent
  BY DEF ReplaceInv
<1> QED
  BY <1>1, ReplaceHolds, PTL

\* Every connection that was replaced was announced by its close callback.
THEOREM Told == Spec => []ReplacedIsAnnounced
<1>1. ReplaceInv => ReplacedIsAnnounced
  BY DEF ReplaceInv
<1> QED
  BY <1>1, ReplaceHolds, PTL
=============================================================================
