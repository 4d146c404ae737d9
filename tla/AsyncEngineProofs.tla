------------------------- MODULE AsyncEngineProofs -------------------------
(***************************************************************************)
(* What is proved of the asynchronous engine.io client for any number of   *)
(* tasks that poll clones of it and of tasks that call it, packets,        *)
(* payload sizes and calls.                                                *)
(***************************************************************************)
EXTENDS AsyncEngine, TLAPS, SequenceTheorems

USE TasksAssumption, ServerIdsAssumption, BoundsAssumption

\* What heads, tails and extensions of packet sequences are.
LEMMA PacketSeqs ==
    ASSUME NEW s \in Seq(Packet)
    PROVE  /\ <<>> \in Seq(Packet)
           /\ Len(s) \in Nat /\ (s # <<>> <=> Len(s) > 0)
           /\ \A i \in 1 .. Len(s) : s[i] \in Packet
           /\ Numbers(s) \subseteq Nat
           /\ s # <<>> => /\ Head(s) = s[1] /\ Head(s) \in Packet
                          /\ Tail(s) \in Seq(Packet) /\ Len(Tail(s)) = Len(s) - 1
                          /\ \A i \in 1 .. Len(s) - 1 : Tail(s)[i] = s[i + 1]
           /\ \A e \in Packet : /\ Append(s, e) \in Seq(Packet)
                                /\ Len(Append(s, e)) = Len(s) + 1
                                /\ Append(s, e)[Len(s) + 1] = e
                                /\ \A i \in 1 .. Len(s) : Append(s, e)[i] = s[i]
<1>1. /\ <<>> \in Seq(Packet) /\ Len(s) \in Nat /\ (s # <<>> <=> Len(s) > 0)
      /\ \A i \in 1 .. Len(s) : s[i] \in Packet
  BY EmptySeq, ElementOfSeq, LenProperties
<1>2. Numbers(s) \subseteq Nat
  BY <1>1 DEF Numbers, Packet
<1>3. ASSUME s # <<>>
      PROVE  /\ Head(s) = s[1] /\ Head(s) \in Packet
             /\ Tail(s) \in Seq(Packet) /\ Len(Tail(s)) = Len(s) - 1
             /\ \A i \in 1 .. Len(s) - 1 : Tail(s)[i] = s[i + 1]
  BY <1>1, <1>3, HeadTailProperties
<1>4. ASSUME NEW e \in Packet
      PROVE  /\ Append(s, e) \in Seq(Packet)
             /\ Len(Append(s, e)) = Len(s) + 1
             /\ Append(s, e)[Len(s) + 1] = e
             /\ \A i \in 1 .. Len(s) : Append(s, e)[i] = s[i]
  BY AppendProperties
<1> QED
  BY <1>1, <1>2, <1>3, <1>4

\* A payload of the transport as the numbered packets of the generator.
LEMMA PayloadSeq ==
    ASSUME NEW ids \in Seq(ServerIds), NEW m \in Nat
    PROVE  LET s == [i \in 1 .. Len(ids) |-> [n |-> m + i, id |-> ids[i]]]
           IN  s \in Seq(Packet) /\ Len(s) = Len(ids) /\ (ids # <<>> => s # <<>>)
<1> DEFINE s == [i \in 1 .. Len(ids) |-> [n |-> m + i, id |-> ids[i]]]
<1>1. Len(ids) \in Nat /\ (ids # <<>> => Len(ids) > 0) /\ \A i \in 1 .. Len(ids) : ids[i] \in ServerIds
  BY LenProperties, ElementOfSeq, EmptySeq
<1>2. \A i \in 1 .. Len(ids) : s[i] \in Packet
  BY <1>1 DEF Packet
<1>3. s \in Seq(Packet)
  BY <1>1, <1>2, SeqDef
<1>4. Len(s) = Len(ids)
  BY <1>1, <1>3, LenProperties
<1> QED
  BY <1>1, <1>3, <1>4, PacketSeqs

-----------------------------------------------------------------------------
(* Types and wake-ups *)

\* A waker is left only where the generator waits, by a task that sleeps: what it
\* waits for uses it up, and only a task that waits in its place replaces it.
Wakers == waker # Nobody => pc[waker] = "asleep" /\ Waits

TypeInv == TypeOK /\ Wakers

\* The lock of the transport stays with who has it, or the generator drops it.
LEMMA LockedKeeps ==
    ASSUME TypeOK, at' \notin {"pong_send", "pong_sent", "pong_failed"},
           \A u \in Users : pc'[u] = pc[u],
           \/ at \notin {"pong_send", "pong_sent", "pong_failed"} /\ UNCHANGED sending
           \/ at \in {"pong_send", "pong_sent", "pong_failed"} /\ sending' = Nobody
    PROVE  Locked'
<1>1. Nobody # Generator /\ \A u \in Users : u # Nobody /\ u # Generator
  BY DEF Nobody, Generator
<1>2. CASE at \notin {"pong_send", "pong_sent", "pong_failed"} /\ UNCHANGED sending
  BY <1>2 DEF TypeOK, Locked
<1>3. CASE at \in {"pong_send", "pong_sent", "pong_failed"} /\ sending' = Nobody
  BY <1>1, <1>3 DEF TypeOK, Locked
<1> QED
  BY <1>2, <1>3

\* The poller inside poll_next() lets go of the generator.
LEMMA LetGoKeeps ==
    ASSUME TaskTypes, Inside, NEW p \in Pollers, holder = p,
           NEW label \in {"awake", "asleep", "over"}, LetGo(p, label),
           waker' \in Pollers \cup {Nobody}, sending' \in Users \cup {Generator, Nobody},
           UNCHANGED users
    PROVE  /\ TaskTypes' /\ Inside'
           /\ \A u \in Users : pc'[u] = pc[u]
<1>1. /\ pc' \in [Pollers \cup Users -> PollerPC \cup UserPC]
      /\ \A t \in Pollers \cup Users : pc'[t] = IF t = p THEN label ELSE pc[t]
  BY DEF TaskTypes, LetGo, Goto, PollerPC
<1>2. TaskTypes'
  BY <1>1 DEF TaskTypes, LetGo, users
<1>3. Inside'
  BY <1>1 DEF Inside, LetGo, PollerPC
<1>4. \A u \in Users : pc'[u] = pc[u]
  BY <1>1
<1> QED
  BY <1>2, <1>3, <1>4

\* A packet is yielded.
LEMMA YieldKeeps ==
    ASSUME TypeInv, NEW p \in Pollers, holder = p, rest # <<>>, ~Waits, Yield(p),
           connected' \in BOOLEAN, closed' \in BOOLEAN,
           UNCHANGED <<network, users, waker, answered>>,
           \/ at = "packet" /\ UNCHANGED sending
           \/ at = "pong_sent" /\ sending' = Nobody
    PROVE  TypeInv'
<1>1. waker = Nobody /\ waker' = Nobody
  BY DEF TypeInv, Wakers
<1>2. /\ TaskTypes' /\ Inside'
      /\ \A u \in Users : pc'[u] = pc[u]
  BY <1>1, LetGoKeeps DEF TypeInv, TypeOK, TaskTypes, Yield
<1>3. StreamTypes'
  <2>1. Head(rest) \in Packet /\ Tail(rest) \in Seq(Packet)
        /\ (Len(rest) = 1 <=> Tail(rest) = <<>>)
    <3>1. /\ Head(rest) \in Packet /\ Tail(rest) \in Seq(Packet)
          /\ Len(rest) \in Nat /\ Len(Tail(rest)) = Len(rest) - 1
      BY PacketSeqs DEF TypeInv, TypeOK, StreamTypes
    <3>2. Tail(rest) # <<>> <=> Len(Tail(rest)) > 0
      BY <3>1, PacketSeqs
    <3> QED
      BY <3>1, <3>2
  <2>2. delivered' \in Seq(Packet)
    BY <2>1, PacketSeqs DEF Yield, TypeInv, TypeOK, StreamTypes
  <2> QED
    BY <2>1, <2>2 DEF Yield, TypeInv, TypeOK, StreamTypes, network, Places
<1>4. Locked'
  BY <1>2, LockedKeeps DEF Yield, TypeInv
<1>5. Wakers'
  BY <1>1 DEF Wakers
<1> QED
  BY <1>2, <1>3, <1>4, <1>5 DEF TypeInv, TypeOK

\* The stream ends with an error.
LEMMA FailKeeps ==
    ASSUME TypeInv, NEW p \in Pollers, holder = p, ~Waits, Fail(p),
           UNCHANGED <<network, users, connected, waker, answered, closed>>,
           \/ at \in {"payload", "parse", "packet"} /\ UNCHANGED sending
           \/ at = "pong_failed" /\ sending' = Nobody
    PROVE  TypeInv'
<1>1. waker = Nobody /\ waker' = Nobody
  BY DEF TypeInv, Wakers
<1>2. /\ TaskTypes' /\ Inside'
      /\ \A u \in Users : pc'[u] = pc[u]
  BY <1>1, LetGoKeeps DEF TypeInv, TypeOK, TaskTypes, Fail
<1>3. StreamTypes'
  BY PacketSeqs DEF Fail, TypeInv, TypeOK, StreamTypes, network, Places
<1>4. Locked'
  BY <1>2, LockedKeeps DEF Fail, TypeInv
<1>5. Wakers'
  BY <1>1 DEF Wakers
<1> QED
  BY <1>2, <1>3, <1>4, <1>5 DEF TypeInv, TypeOK

\* The generator's place changes and nothing of the tasks.
LEMMA PlaceKeeps ==
    ASSUME TypeInv, ~Waits, StreamTypes', Locked',
           UNCHANGED <<users, holder, pc, waker>>, sending' \in Users \cup {Generator, Nobody}
    PROVE  TypeInv'
<1>1. TaskTypes' /\ Inside'
  BY DEF TypeInv, TypeOK, TaskTypes, Inside, users
<1>2. Wakers'
  BY DEF TypeInv, Wakers
<1> QED
  BY <1>1, <1>2 DEF TypeInv, TypeOK

\* What the generator waits for has happened: its waker is used up.
LEMMA WakeKeeps ==
    ASSUME TypeInv, Wake, StreamTypes', UNCHANGED <<users, holder, sending>>,
           (at' \in {"pong_send", "pong_sent", "pong_failed"})
               <=> (at \in {"pong_send", "pong_sent", "pong_failed"})
    PROVE  TypeInv'
<1>1. CASE waker = Nobody
  BY <1>1 DEF TypeInv, TypeOK, TaskTypes, Inside, Locked, Wakers, Wake, users
<1>2. CASE waker # Nobody
  <2>1. /\ waker \in Pollers /\ pc[waker] = "asleep" /\ waker # holder
        /\ waker' = Nobody /\ pc' = [pc EXCEPT ![waker] = "awake"]
    BY <1>2 DEF TypeInv, TypeOK, TaskTypes, Inside, Wakers, Wake
  <2>2. pc' \in [Pollers \cup Users -> PollerPC \cup UserPC]
    BY <2>1 DEF TypeInv, TypeOK, TaskTypes, PollerPC
  <2>3. \A t \in Pollers \cup Users : pc'[t] = IF t = waker THEN "awake" ELSE pc[t]
    BY <2>1 DEF TypeInv, TypeOK, TaskTypes
  <2>4. TaskTypes'
    BY <2>1, <2>2 DEF TypeInv, TypeOK, TaskTypes, users
  <2>5. Inside'
    BY <2>1, <2>3 DEF TypeInv, TypeOK, TaskTypes, Inside, PollerPC
  <2>6. \A u \in Users : pc'[u] = pc[u]
    BY <2>1, <2>3
  <2>7. Locked'
    BY <2>6 DEF TypeInv, TypeOK, Locked
  <2>8. Wakers'
    BY <2>1 DEF Wakers
  <2> QED
    BY <2>4, <2>5, <2>7, <2>8 DEF TypeInv, TypeOK
<1> QED
  BY <1>1, <1>2

\* A call of a user goes on, without the lock of the transport.
LEMMA CallKeeps ==
    ASSUME TypeInv, NEW u \in Users, NEW label \in UserPC, Goto(u, label),
           pc[u] \notin {"send", "sent", "failed"}, label \notin {"send", "sent", "failed"},
           out' \in [Users -> PacketId], calls' \in [Users -> 0 .. MaxCalls],
           connected' \in BOOLEAN, closed' \in BOOLEAN,
           UNCHANGED <<network, packets, at, rest, holder, waker, sending, answered>>
    PROVE  TypeInv'
<1>1. /\ pc' \in [Pollers \cup Users -> PollerPC \cup UserPC]
      /\ \A t \in Pollers \cup Users : pc'[t] = IF t = u THEN label ELSE pc[t]
      /\ \A p \in Pollers : p # u
  BY DEF TypeInv, TypeOK, TaskTypes, Goto, UserPC
<1>2. StreamTypes'
  BY DEF TypeInv, TypeOK, StreamTypes, network, packets
<1>3. TaskTypes'
  BY <1>1 DEF TypeInv, TypeOK, TaskTypes
<1>4. Inside'
  BY <1>1 DEF TypeInv, TypeOK, TaskTypes, Inside
<1>5. Locked'
  BY <1>1 DEF TypeInv, TypeOK, Locked
<1>6. Wakers'
  BY <1>1 DEF TypeInv, TypeOK, TaskTypes, Wakers, Waits, network
<1> QED
  BY <1>2, <1>3, <1>4, <1>5, <1>6 DEF TypeInv, TypeOK

LEMMA InitTypes == Init => TypeInv
<1> SUFFICES ASSUME Init PROVE TypeInv
  OBVIOUS
<1>1. StreamTypes
  BY EmptySeq DEF Init, StreamTypes, Places
<1>2. /\ \A p \in Pollers : pc[p] = "awake"
      /\ \A u \in Users : pc[u] = "idle"
  BY DEF Init
<1>3. TaskTypes
  BY DEF Init, TaskTypes, PollerPC, UserPC, PacketId
<1>4. Inside
  BY <1>2 DEF Init, Inside, PollerPC
<1>5. Locked
  BY <1>2 DEF Init, Locked, UserPC, Nobody, Generator
<1>6. Wakers
  BY DEF Init, Wakers
<1> QED
  BY <1>1, <1>3, <1>4, <1>5, <1>6 DEF TypeInv, TypeOK

\* What a poller does keeps the types.
LEMMA PollerTypes ==
    ASSUME TypeInv, NEW p \in Pollers, PollNext(p) \/ Run(p)
    PROVE  TypeInv'
<1>1. CASE PollNext(p)
  <2>1. /\ \A t \in Pollers \cup Users : t # p => pc'[t] = pc[t]
        /\ pc'[p] = IF holder = Nobody THEN "polling" ELSE "asleep"
        /\ holder' = IF holder = Nobody THEN p ELSE holder
        /\ pc' \in [Pollers \cup Users -> PollerPC \cup UserPC]
        /\ p # Nobody /\ p # holder
    BY <1>1 DEF PollNext, TypeInv, TypeOK, TaskTypes, Inside, Goto, PollerPC
  <2>2. StreamTypes'
    BY <1>1 DEF PollNext, TypeInv, TypeOK, StreamTypes, network, packets
  <2>3. TaskTypes'
    BY <1>1, <2>1 DEF PollNext, TypeInv, TypeOK, TaskTypes, users
  <2>4. Inside'
    BY <2>1 DEF TypeInv, TypeOK, TaskTypes, Inside, PollerPC
  <2>5. \A u \in Users : pc'[u] = pc[u]
    BY <2>1
  <2>6. Locked'
    BY <1>1, <2>5 DEF PollNext, TypeInv, TypeOK, Locked
  <2>7. waker # Nobody => waker # p
    BY <1>1 DEF PollNext, TypeInv, Wakers
  <2>8. Wakers'
    BY <1>1, <2>1, <2>7 DEF PollNext, TypeInv, TypeOK, TaskTypes, Wakers, Waits, network
  <2> QED
    BY <2>2, <2>3, <2>4, <2>6, <2>8 DEF TypeInv, TypeOK
<1>2. ASSUME holder = p, at = "payload", incoming # <<>>, Take,
             UNCHANGED <<users, connected, waker, sending, answered, closed>>
      PROVE  TypeInv'
  <2>1. ~Waits /\ UNCHANGED <<users, holder, pc, waker, sending>>
    BY <1>2 DEF Waits, Take
  <2>2. rest' \in Seq(Packet) /\ rest' # <<>> /\ taken' \in Nat
    <3>1. incoming \in Seq(ServerIds) /\ taken \in Nat
      BY DEF TypeInv, TypeOK, StreamTypes
    <3>2. rest' \in Seq(Packet) /\ rest' # <<>>
      BY <1>2, <3>1, PayloadSeq DEF Take
    <3> QED
      BY <1>2, <3>1, <3>2, LenProperties DEF Take
  <2>3. StreamTypes'
    BY <1>2, <2>2, EmptySeq DEF Take, TypeInv, TypeOK, StreamTypes, Places
  <2>4. Locked'
    BY <1>2, <2>1, LockedKeeps DEF Take, TypeInv
  <2> QED
    BY <2>1, <2>3, <2>4, PlaceKeeps DEF TypeInv, TypeOK, TaskTypes
<1>3. ASSUME WebsocketNext(p) \/ PollingNext(p) PROVE TypeInv'
  <2>1. ASSUME at = "payload", link = "down", Fail(p), holder = p,
               UNCHANGED <<network, users, connected, waker, sending, answered, closed>>
        PROVE  TypeInv'
    BY <2>1, FailKeeps DEF Waits
  <2>2. ASSUME holder = p, at = "payload", link = "closed", at' = "done",
               UNCHANGED <<network, packets, rest, holder, pc>>,
               UNCHANGED <<users, connected, waker, sending, answered, closed>>
        PROVE  TypeInv'
    <3>1. ~Waits
      BY <2>2 DEF Waits
    <3>2. StreamTypes'
      BY <2>2 DEF TypeInv, TypeOK, StreamTypes, network, packets, Places
    <3>3. Locked'
      BY <2>2, LockedKeeps DEF TypeInv
    <3> QED
      BY <2>2, <3>1, <3>2, <3>3, PlaceKeeps DEF TypeInv, TypeOK, TaskTypes
  <2> QED
    BY <1>2, <1>3, <2>1, <2>2 DEF WebsocketNext, PollingNext
<1>4. CASE Parse(p)
  <2>1. ~Waits
    BY <1>4 DEF Parse, Waits
  <2>2. CASE Fail(p)
    BY <1>4, <2>1, <2>2, FailKeeps DEF Parse
  <2>3. ASSUME at' = "packet", UNCHANGED <<packets, rest, holder, pc>>
        PROVE  TypeInv'
    <3>1. StreamTypes'
      BY <1>4, <2>3 DEF Parse, TypeInv, TypeOK, StreamTypes, network, packets, Places
    <3>2. Locked'
      BY <1>4, <2>3, LockedKeeps DEF Parse, TypeInv
    <3> QED
      BY <1>4, <2>1, <2>3, <3>1, <3>2, PlaceKeeps DEF Parse, TypeInv, TypeOK, TaskTypes
  <2> QED
    BY <1>4, <2>2, <2>3 DEF Parse
<1>5. CASE HandlePlain(p) \/ HandleClose(p)
  <2>1. /\ holder = p /\ at = "packet" /\ Yield(p)
        /\ connected' \in BOOLEAN /\ closed' \in BOOLEAN
        /\ UNCHANGED <<network, users, waker, answered, sending>>
    BY <1>5 DEF HandlePlain, HandleClose, TypeInv, TypeOK, StreamTypes
  <2>2. ~Waits /\ rest # <<>>
    BY <2>1 DEF Waits, TypeInv, TypeOK, StreamTypes
  <2> QED
    BY <2>1, <2>2, YieldKeeps
<1>6. CASE HandlePing(p)
  <2>1. ~Waits
    BY <1>6 DEF HandlePing, Waits
  <2>2. CASE Fail(p)
    BY <1>6, <2>1, <2>2, FailKeeps DEF HandlePing
  <2>3. ASSUME at' = "pong_lock", UNCHANGED <<packets, rest, holder, pc>>
        PROVE  TypeInv'
    <3>1. StreamTypes'
      BY <1>6, <2>3 DEF HandlePing, TypeInv, TypeOK, StreamTypes, network, packets, Places
    <3>2. Locked'
      BY <1>6, <2>3, LockedKeeps DEF HandlePing, TypeInv
    <3> QED
      BY <1>6, <2>1, <2>3, <3>1, <3>2, PlaceKeeps DEF HandlePing, TypeInv, TypeOK, TaskTypes
  <2> QED
    BY <1>6, <2>2, <2>3 DEF HandlePing
<1>7. CASE HandleUnexpected(p)
  <2>1. ~Waits
    BY <1>7 DEF HandleUnexpected, Waits
  <2> QED
    BY <1>7, <2>1, FailKeeps DEF HandleUnexpected
<1>8. CASE PongLock(p)
  <2>1. ~Waits
    BY <1>8 DEF PongLock, Waits
  <2>2. StreamTypes'
    BY <1>8 DEF PongLock, TypeInv, TypeOK, StreamTypes, network, packets, Places
  <2>3. \A u \in Users : u # Generator /\ u # Nobody
    BY DEF Generator, Nobody
  <2>4. Locked'
    BY <1>8, <2>3 DEF PongLock, TypeInv, TypeOK, Locked
  <2> QED
    BY <1>8, <2>1, <2>2, <2>4, PlaceKeeps DEF PongLock
<1>9. CASE PongReturn(p)
  <2>1. ~Waits /\ rest # <<>>
    BY <1>9 DEF PongReturn, Waits, TypeInv, TypeOK, StreamTypes
  <2>2. CASE at = "pong_sent" /\ Yield(p)
    BY <1>9, <2>1, <2>2, YieldKeeps DEF PongReturn, TypeInv, TypeOK, StreamTypes
  <2>3. CASE at = "pong_failed" /\ Fail(p)
    BY <1>9, <2>1, <2>3, FailKeeps DEF PongReturn
  <2> QED
    BY <1>9, <2>2, <2>3 DEF PongReturn
<1>10. ASSUME holder = p, NEW label \in {"asleep", "over"}, LetGo(p, label),
              waker' \in Pollers \cup {Nobody}, Wakers',
              UNCHANGED <<network, users, packets, connected, at, rest, sending, answered, closed>>
       PROVE  TypeInv'
  <2>1. /\ TaskTypes' /\ Inside'
        /\ \A u \in Users : pc'[u] = pc[u]
    BY <1>10, LetGoKeeps DEF TypeInv, TypeOK, TaskTypes
  <2>2. StreamTypes'
    BY <1>10 DEF TypeInv, TypeOK, StreamTypes, network, packets
  <2>3. Locked'
    BY <1>10, <2>1 DEF TypeInv, TypeOK, Locked
  <2> QED
    BY <1>10, <2>1, <2>2, <2>3 DEF TypeInv, TypeOK
<1>11. CASE Pending(p)
  <2>1. pc'[p] = "asleep" /\ waker' = p /\ Waits'
    BY <1>11 DEF Pending, LetGo, Goto, Waits, network, TypeInv, TypeOK, TaskTypes
  <2>2. Wakers'
    BY <2>1 DEF Wakers
  <2> QED
    BY <1>10, <1>11, <2>2 DEF Pending
<1>12. CASE PollDone(p)
  <2>1. waker' = Nobody
    BY <1>12 DEF PollDone, Waits, TypeInv, Wakers
  <2>2. Wakers'
    BY <2>1 DEF Wakers
  <2> QED
    BY <1>10, <1>12, <2>1, <2>2 DEF PollDone
<1> QED
  BY <1>1, <1>3, <1>4, <1>5, <1>6, <1>7, <1>8, <1>9, <1>11, <1>12 DEF Run

\* What a call does keeps the types.
LEMMA UserTypes ==
    ASSUME TypeInv, NEW u \in Users,
           Connect(u) \/ Emit(u) \/ Disconnect(u) \/ UserStep(u)
    PROVE  TypeInv'
<1> USE DEF Goto, UserPC
<1>1. ASSUME NEW id \in PacketId, Start(u, id), connected' \in BOOLEAN
      PROVE  TypeInv'
  <2>1. /\ out' \in [Users -> PacketId] /\ calls' \in [Users -> 0 .. MaxCalls]
        /\ closed' \in BOOLEAN
    BY <1>1 DEF Start, TypeInv, TypeOK, TaskTypes, StreamTypes
  <2> QED
    BY <1>1, <2>1, CallKeeps DEF Start
<1>2. CASE Connect(u) \/ Emit(u) \/ Disconnect(u)
  <2>1. connected' \in BOOLEAN
    BY <1>2 DEF Connect, Emit, Disconnect, TypeInv, TypeOK, StreamTypes
  <2> QED
    BY <1>1, <1>2, <2>1 DEF Connect, Emit, Disconnect, PacketId
<1>3. CASE EmitCheck(u) \/ DisconnectStore(u)
  <2>1. /\ out' \in [Users -> PacketId] /\ calls' \in [Users -> 0 .. MaxCalls]
        /\ connected' \in BOOLEAN /\ closed' \in BOOLEAN
    BY <1>3 DEF EmitCheck, DisconnectStore, users, TypeInv, TypeOK, TaskTypes, StreamTypes
  <2>2. CASE EmitCheck(u)
    BY <2>1, <2>2, CallKeeps DEF EmitCheck
  <2>3. CASE DisconnectStore(u)
    BY <2>1, <2>3, CallKeeps DEF DisconnectStore
  <2> QED
    BY <1>3, <2>2, <2>3
<1>4. ASSUME EmitLock(u) \/ EmitSend(u)
      PROVE  TypeInv'
  <2>1. \E label \in {"send", "sent", "failed"} :
            \A t \in Pollers \cup Users : pc'[t] = IF t = u THEN label ELSE pc[t]
    BY <1>4 DEF EmitLock, EmitSend, TypeInv, TypeOK, TaskTypes
  <2>2. /\ \A p \in Pollers : pc'[p] = pc[p]
        /\ \A v \in Users : v # u => pc'[v] = pc[v]
        /\ pc'[u] \in {"send", "sent", "failed"}
    BY <2>1
  <2>3. /\ sending' = u /\ sending \in {Nobody, u}
        /\ UNCHANGED <<network, packets, connected, at, rest, holder, waker, answered>>
        /\ UNCHANGED users
        /\ pc' \in [Pollers \cup Users -> PollerPC \cup UserPC]
        /\ closed' \in BOOLEAN
    BY <1>4 DEF EmitLock, EmitSend, TypeInv, TypeOK, TaskTypes, Locked, StreamTypes
  <2>4. StreamTypes'
    BY <2>3 DEF TypeInv, TypeOK, StreamTypes, network, packets
  <2>5. TaskTypes'
    BY <2>3 DEF TypeInv, TypeOK, TaskTypes, users
  <2>6. Inside'
    BY <2>2, <2>3 DEF TypeInv, TypeOK, TaskTypes, Inside
  <2>7. Nobody # Generator /\ \A v \in Users : v # Nobody /\ v # Generator
    BY DEF Nobody, Generator
  <2>8. Locked'
    BY <2>2, <2>3, <2>7 DEF TypeInv, TypeOK, Locked
  <2>9. Wakers'
    <3>1. Waits => Waits'
      BY <2>3, <2>7 DEF Waits, network
    <3> QED
      BY <2>2, <2>3, <3>1 DEF TypeInv, TypeOK, TaskTypes, Wakers
  <2> QED
    BY <2>4, <2>5, <2>6, <2>8, <2>9 DEF TypeInv, TypeOK
<1>5. CASE EmitReturn(u)
  <2> DEFINE after == IF pc[u] = "sent" /\ out[u] = "Close" THEN "store" ELSE "idle"
             woken == IF at = "pong_lock" THEN {waker} \ {Nobody} ELSE {}
  <2>1. /\ pc' = [t \in DOMAIN pc |-> IF t = u THEN after ELSE IF t \in woken THEN "awake" ELSE pc[t]]
        /\ waker' = IF at = "pong_lock" THEN Nobody ELSE waker
        /\ sending = u /\ sending' = Nobody
        /\ UNCHANGED <<network, users, packets, connected, at, rest, holder, answered, closed>>
    BY <1>5 DEF EmitReturn, TypeInv, TypeOK, Locked
  <2>2. /\ woken \subseteq Pollers /\ holder \notin woken
        /\ \A p \in woken : pc[p] = "asleep"
    BY DEF TypeInv, TypeOK, TaskTypes, Inside, Wakers
  <2>3. after \in {"store", "idle"}
    OBVIOUS
  <2> HIDE DEF after
  <2>4. /\ pc' \in [Pollers \cup Users -> PollerPC \cup UserPC]
        /\ \A p \in Pollers : pc'[p] = IF p \in woken THEN "awake" ELSE pc[p]
        /\ \A v \in Users : pc'[v] = IF v = u THEN after ELSE pc[v]
    <3> HIDE DEF woken
    <3> QED
      BY <2>1, <2>2, <2>3 DEF TypeInv, TypeOK, TaskTypes, PollerPC
  <2>5. StreamTypes'
    BY <2>1 DEF TypeInv, TypeOK, StreamTypes, network, packets
  <2>6. TaskTypes'
    BY <2>1, <2>4 DEF TypeInv, TypeOK, TaskTypes, users
  <2>7. Inside'
    <3> HIDE DEF woken
    <3> QED
      BY <2>1, <2>2, <2>4 DEF TypeInv, TypeOK, TaskTypes, Inside, PollerPC
  <2>8. Nobody # Generator /\ \A v \in Users : v # Nobody /\ v # Generator
    BY DEF Nobody, Generator
  <2>9. Locked'
    BY <2>1, <2>3, <2>4, <2>8 DEF TypeInv, TypeOK, Locked
  <2>10. Wakers'
    <3>1. CASE at = "pong_lock"
      BY <2>1, <3>1 DEF Wakers
    <3>2. CASE at # "pong_lock"
      <4>1. waker' = waker /\ (Waits => Waits') /\ woken = {}
        BY <2>1, <3>2 DEF Waits, network
      <4>2. \A p \in Pollers : pc'[p] = pc[p]
        BY <2>4, <4>1
      <4> QED
        BY <4>1, <4>2 DEF TypeInv, TypeOK, TaskTypes, Wakers
    <3> QED
      BY <3>1, <3>2
  <2> QED
    BY <2>5, <2>6, <2>7, <2>9, <2>10 DEF TypeInv, TypeOK
<1> QED
  BY <1>2, <1>3, <1>4, <1>5 DEF UserStep

\* What the transport does keeps the types.
LEMMA TransportTypes ==
    ASSUME TypeInv,
           \/ \E k \in 1 .. MaxBatch : \E ids \in [1 .. k -> ServerIds] : Arrive(ids)
           \/ LinkChange \/ Write
    PROVE  TypeInv'
<1>1. ASSUME NEW ids \in Seq(ServerIds), Arrive(ids) \/ LinkChange
      PROVE  TypeInv'
  <2>1. /\ StreamTypes'
        /\ UNCHANGED <<kind, users, packets, connected, at, rest, holder, sending, answered, closed>>
    BY <1>1 DEF Arrive, LinkChange, TypeInv, TypeOK, StreamTypes, packets
  <2>2. CASE at = "payload"
    <3>1. Wake
      BY <1>1, <2>2 DEF Arrive, LinkChange
    <3> QED
      BY <2>1, <3>1, WakeKeeps
  <2>3. CASE at # "payload"
    <3>1. UNCHANGED <<pc, waker>>
      BY <1>1, <2>3 DEF Arrive, LinkChange
    <3>2. Waits' <=> Waits
      BY <2>1, <2>3 DEF Waits
    <3>3. TaskTypes' /\ Inside' /\ Locked' /\ Wakers'
      BY <2>1, <3>1, <3>2 DEF TypeInv, TypeOK, TaskTypes, Inside, Locked, Wakers, users
    <3> QED
      BY <2>1, <3>3 DEF TypeInv, TypeOK
  <2> QED
    BY <2>2, <2>3
<1>2. ASSUME NEW k \in 1 .. MaxBatch, NEW ids \in [1 .. k -> ServerIds]
      PROVE  ids \in Seq(ServerIds)
  BY SeqDef
<1>3. CASE Write
  <2>1. StreamTypes'
    <3>1. Head(rest) \in Packet
      BY <1>3, PacketSeqs DEF Write, TypeInv, TypeOK, StreamTypes
    <3> QED
      BY <1>3, <3>1 DEF Write, TypeInv, TypeOK, StreamTypes, network, packets, Places, Packet
  <2> QED
    BY <1>3, <2>1, WakeKeeps DEF Write
<1>4. <<>> \in Seq(ServerIds)
  BY EmptySeq
<1> QED
  BY <1>1, <1>2, <1>3, <1>4

LEMMA InvHolds == Spec => []TypeInv
<1>1. Init => TypeInv
  BY InitTypes
<1>2. TypeInv /\ [Next]_vars => TypeInv'
  <2> SUFFICES ASSUME TypeInv, [Next]_vars PROVE TypeInv'
    OBVIOUS
  <2>1. CASE UNCHANGED vars
    BY <2>1 DEF vars, network, users, packets, TypeInv, TypeOK, StreamTypes, TaskTypes,
                Inside, Locked, Wakers, Waits
  <2> QED
    BY <2>1, PollerTypes, UserTypes, TransportTypes DEF Next
<1> QED
  BY <1>1, <1>2, PTL DEF Spec

\* Every variable keeps its type; who is inside poll_next() is the holder of the
\* generator, and the lock of the transport is held where a frame is sent.
THEOREM Typing == Spec => []TypeOK
<1>1. TypeInv => TypeOK
  BY DEF TypeInv
<1> QED
  BY <1>1, InvHolds, PTL

-----------------------------------------------------------------------------
(* Somebody listens *)

\* A poller inside poll_next() goes on, or yields to a task that is awake.
LEMMA RunListens ==
    ASSUME TypeInv, NEW p \in Pollers, PollNext(p) \/ Run(p), TypeInv'
    PROVE  SomebodyListens'
<1>1. CASE PollNext(p)
  <2>1. CASE holder = Nobody
    BY <1>1, <2>1 DEF PollNext, Goto, TypeInv, TypeOK, TaskTypes, SomebodyListens
  <2>2. CASE holder # Nobody
    <3>1. holder \in Pollers /\ holder # p /\ pc[holder] = "polling"
      BY <1>1, <2>2 DEF PollNext, TypeInv, TypeOK, TaskTypes, Inside
    <3>2. pc'[holder] = "polling"
      BY <1>1, <2>2, <3>1 DEF PollNext, Goto, TypeInv, TypeOK, TaskTypes
    <3> QED
      BY <3>1, <3>2 DEF SomebodyListens
  <2> QED
    BY <2>1, <2>2
<1>2. CASE Pending(p)
  BY <1>2 DEF Pending, TypeInv, Wakers, SomebodyListens
<1>3. CASE PollDone(p)
  BY <1>3 DEF PollDone, SomebodyListens
<1>4. CASE Run(p) /\ ~Pending(p) /\ ~PollDone(p)
  <2>1. \/ pc' = [pc EXCEPT ![p] = "awake"]
        \/ UNCHANGED pc /\ holder = p
    BY <1>4 DEF Run, WebsocketNext, PollingNext, Take, Parse, HandlePlain, HandleClose,
                HandlePing, HandleUnexpected, PongLock, PongReturn, Yield, Fail, LetGo, Goto
  <2>2. holder = p => pc[p] = "polling"
    BY DEF TypeInv, TypeOK, Inside
  <2>3. pc'[p] \in {"awake", "polling"}
    BY <2>1, <2>2 DEF TypeInv, TypeOK, TaskTypes
  <2> QED
    BY <2>3 DEF SomebodyListens
<1> QED
  BY <1>1, <1>2, <1>3, <1>4

\* Other steps put no poller to sleep, and a waker that is used up wakes.
LEMMA OthersListen ==
    ASSUME TypeInv, SomebodyListens, TypeInv', at = "done" => at' = "done",
           \A p \in Pollers : pc'[p] \in {pc[p], "awake"},
           waker' = waker \/ waker = Nobody \/ pc'[waker] = "awake"
    PROVE  SomebodyListens'
<1>1. CASE at = "done"
  BY <1>1 DEF SomebodyListens
<1>2. CASE \E p \in Pollers : pc[p] \in {"awake", "polling"}
  BY <1>2 DEF SomebodyListens
<1>3. CASE waker # Nobody
  <2>1. waker \in Pollers
    BY <1>3 DEF TypeInv, TypeOK, TaskTypes
  <2>2. CASE waker' = waker
    BY <1>3, <2>2 DEF TypeInv, Wakers, SomebodyListens
  <2>3. CASE pc'[waker] = "awake"
    BY <2>1, <2>3 DEF SomebodyListens
  <2> QED
    BY <1>3, <2>2, <2>3
<1> QED
  BY <1>1, <1>2, <1>3 DEF SomebodyListens

\* With any number of clones that are polled, and however often a task finds the
\* generator locked, not all of them sleep for good.
THEOREM Listens ==
    ASSUME Pollers # {}
    PROVE  Spec => []SomebodyListens
<1>1. Init => SomebodyListens
  BY DEF Init, SomebodyListens
<1>2. SomebodyListens /\ TypeInv /\ TypeInv' /\ [Next]_vars => SomebodyListens'
  <2> SUFFICES ASSUME SomebodyListens, TypeInv, TypeInv', [Next]_vars
               PROVE  SomebodyListens'
    OBVIOUS
  <2>1. ASSUME NEW u \in Users, Connect(u) \/ Emit(u) \/ Disconnect(u) \/ UserStep(u)
        PROVE  SomebodyListens'
    <3>1. at' = at /\ \A p \in Pollers : p # u
      BY <2>1 DEF Connect, Emit, Disconnect, Start, UserStep, EmitCheck, EmitLock, EmitSend,
                  EmitReturn, DisconnectStore
    <3>2. CASE EmitReturn(u)
      <4>1. \A p \in Pollers : pc'[p] \in {pc[p], "awake"}
        BY <3>1, <3>2 DEF EmitReturn, TypeInv, TypeOK, TaskTypes
      <4>2. waker' = waker \/ waker = Nobody \/ pc'[waker] = "awake"
        BY <3>1, <3>2 DEF EmitReturn, TypeInv, TypeOK, TaskTypes
      <4> QED
        BY <3>1, <4>1, <4>2, OthersListen
    <3>3. CASE ~EmitReturn(u)
      <4>1. waker' = waker /\ \E label : pc' = [pc EXCEPT ![u] = label]
        BY <2>1, <3>3 DEF Connect, Emit, Disconnect, Start, UserStep, EmitCheck, EmitLock,
                          EmitSend, DisconnectStore, Goto
      <4>2. \A p \in Pollers : pc'[p] = pc[p]
        BY <3>1, <4>1 DEF TypeInv, TypeOK, TaskTypes
      <4> QED
        BY <3>1, <4>1, <4>2, OthersListen
    <3> QED
      BY <3>2, <3>3
  <2>2. ASSUME NEW ids, Arrive(ids) \/ LinkChange \/ Write
        PROVE  SomebodyListens'
    <3>1. at = "done" => at' = "done"
      BY <2>2 DEF Arrive, LinkChange, Write
    <3>2. Wake \/ UNCHANGED <<pc, waker>>
      BY <2>2 DEF Arrive, LinkChange, Write
    <3>3. /\ \A p \in Pollers : pc'[p] \in {pc[p], "awake"}
          /\ waker' = waker \/ waker = Nobody \/ pc'[waker] = "awake"
      BY <3>2 DEF Wake, TypeInv, TypeOK, TaskTypes
    <3> QED
      BY <3>1, <3>3, OthersListen
  <2>3. CASE UNCHANGED vars
    BY <2>3, OthersListen DEF vars
  <2> QED
    BY <2>1, <2>2, <2>3, RunListens DEF Next
<1> QED
  BY <1>1, <1>2, InvHolds, PTL DEF Spec

-----------------------------------------------------------------------------
(* One stream of packets *)

Settled == taken - Len(rest)

\* What the generator has left are the packets behind those that are settled.
Numbered ==
    /\ Len(rest) <= taken
    /\ \A i \in 1 .. Len(rest) : rest[i].n = Settled + i

\* A packet is settled by being yielded.
LEMMA YieldIsReturn ==
    ASSUME TypeInv, Numbered, NEW p \in Pollers, Yield(p), rest # <<>>
    PROVE  /\ Numbered' /\ Settled' = Settled + 1
           /\ Head(rest).n = Settled + 1
           /\ Stream!ReturnNext
<1>1. /\ rest \in Seq(Packet) /\ delivered \in Seq(Packet) /\ taken \in Nat
      /\ delivered' = Append(delivered, Head(rest)) /\ rest' = Tail(rest)
      /\ UNCHANGED <<taken, reported>>
  BY DEF Yield, TypeInv, TypeOK, StreamTypes
<1>2. /\ Len(rest) \in Nat /\ Len(rest) > 0 /\ Head(rest) = rest[1] /\ Head(rest) \in Packet
      /\ Len(rest') = Len(rest) - 1
      /\ \A i \in 1 .. Len(rest) - 1 : rest'[i] = rest[i + 1]
  BY <1>1, PacketSeqs
<1>3. /\ Len(delivered) \in Nat /\ Len(delivered') = Len(delivered) + 1
      /\ delivered'[Len(delivered) + 1] = Head(rest)
      /\ \A i \in 1 .. Len(delivered) : delivered'[i] = delivered[i]
  BY <1>1, <1>2, PacketSeqs
<1>4. Settled' = Settled + 1 /\ Settled \in Nat
  BY <1>1, <1>2 DEF Settled, Numbered
<1>5. rest[1].n = Settled + 1
  BY <1>2 DEF Numbered
<1>6. Numbered'
  <2>1. Len(rest') <= taken'
    BY <1>1, <1>2 DEF Numbered
  <2>2. ASSUME NEW i \in 1 .. Len(rest')
        PROVE  rest'[i].n = Settled' + i
    <3>1. i + 1 \in 1 .. Len(rest) /\ rest'[i] = rest[i + 1]
      BY <1>2, <2>2
    <3>2. rest[i + 1].n = Settled + (i + 1)
      BY <3>1 DEF Numbered
    <3> QED
      BY <1>4, <2>2, <3>1, <3>2
  <2> QED
    BY <2>1, <2>2 DEF Numbered
<1>7. Stream!ReturnNext
  BY <1>1, <1>2, <1>3, <1>4, <1>5 DEF Stream!ReturnNext, Settled
<1> QED
  BY <1>2, <1>4, <1>5, <1>6, <1>7

\* What an error takes away is refused, unless there was nothing.
LEMMA FailIsRefuse ==
    ASSUME TypeInv, Numbered, NEW p \in Pollers, Fail(p)
    PROVE  /\ Numbered' /\ Settled' = taken /\ Settled <= taken
           /\ Stream!Refuse \/ UNCHANGED Stream!vars
<1>1. /\ rest \in Seq(Packet) /\ taken \in Nat /\ rest' = <<>>
      /\ reported' = reported \cup Numbers(rest)
      /\ UNCHANGED <<taken, delivered>>
  BY DEF Fail, TypeInv, TypeOK, StreamTypes
<1>2. Len(rest) \in Nat /\ (rest # <<>> <=> Len(rest) > 0) /\ Len(rest') = 0
  BY <1>1, PacketSeqs
<1>3. Numbered' /\ Settled' = taken /\ Settled <= taken /\ Settled \in Nat
  BY <1>1, <1>2 DEF Numbered, Settled
<1>4. Numbers(rest) = (Settled + 1) .. taken
  <2>1. \A i \in 1 .. Len(rest) : rest[i].n = Settled + i
    BY DEF Numbered
  <2>2. ASSUME NEW n \in (Settled + 1) .. taken
        PROVE  n \in Numbers(rest)
    <3>1. n - Settled \in 1 .. Len(rest) /\ Settled + (n - Settled) = n
      BY <1>1, <1>2, <1>3 DEF Settled
    <3>2. rest[n - Settled].n = n
      BY <2>1, <3>1
    <3> QED
      BY <3>1, <3>2 DEF Numbers
  <2>3. ASSUME NEW i \in 1 .. Len(rest)
        PROVE  Settled + i \in (Settled + 1) .. taken
    BY <1>1, <1>2, <1>3 DEF Settled
  <2> QED
    BY <2>1, <2>2, <2>3 DEF Numbers
<1>5. CASE rest = <<>>
  <2>1. Numbers(rest) = {}
    BY <1>2, <1>5 DEF Numbers
  <2> QED
    BY <1>1, <1>3, <1>5, <2>1 DEF Stream!vars
<1>6. CASE rest # <<>>
  <2>1. Settled + 1 <= taken
    BY <1>1, <1>2, <1>6 DEF Settled
  <2> QED
    BY <1>1, <1>2, <1>3, <1>4, <2>1 DEF Stream!Refuse, Settled
<1> QED
  BY <1>3, <1>5, <1>6

\* Packets that are taken are not settled by that.
LEMMA TakeIsFetch ==
    ASSUME TypeInv, Numbered, Take, incoming # <<>>, rest = <<>>
    PROVE  /\ Numbered' /\ Settled' = Settled /\ Stream!Fetch
<1>1. /\ incoming \in Seq(ServerIds) /\ taken \in Nat
      /\ taken' = taken + Len(incoming) /\ UNCHANGED <<delivered, reported>>
      /\ rest' = [i \in 1 .. Len(incoming) |-> [n |-> taken + i, id |-> incoming[i]]]
  BY DEF Take, TypeInv, TypeOK, StreamTypes
<1>2. Len(rest') = Len(incoming) /\ rest' \in Seq(Packet) /\ rest' # <<>>
  BY <1>1, PayloadSeq
<1>3. Len(incoming) \in Nat /\ Len(incoming) > 0 /\ Len(rest) = 0
  BY <1>1, <1>2, PacketSeqs
<1>4. Settled' = taken /\ Settled = taken
  BY <1>1, <1>2, <1>3 DEF Settled
<1>5. Numbered'
  BY <1>1, <1>2, <1>3, <1>4 DEF Numbered
<1> QED
  BY <1>1, <1>2, <1>3, <1>4, <1>5 DEF Stream!Fetch, Settled

\* The rest of the code moves no packet.
LEMMA StillKeepsNumbered ==
    ASSUME Numbered, UNCHANGED <<taken, rest, delivered, reported>>
    PROVE  Numbered' /\ Settled' = Settled /\ UNCHANGED Stream!vars
BY DEF Numbered, Settled, Stream!vars

\* Every step is one of these.
LEMMA Moves ==
    ASSUME TypeInv, [Next]_vars
    PROVE  \/ \E p \in Pollers : Yield(p) /\ rest # <<>>
           \/ \E p \in Pollers : Fail(p)
           \/ Take /\ incoming # <<>> /\ rest = <<>>
           \/ UNCHANGED <<taken, rest, delivered, reported>>
<1>1. ASSUME NEW p \in Pollers, PollNext(p) \/ Run(p)
      PROVE  \/ Yield(p) /\ rest # <<>>
             \/ Fail(p)
             \/ Take /\ incoming # <<>> /\ rest = <<>>
             \/ UNCHANGED <<taken, rest, delivered, reported>>
  <2>1. CASE WebsocketNext(p) \/ PollingNext(p) \/ Parse(p)
    BY <2>1 DEF WebsocketNext, PollingNext, Parse, packets, TypeInv, TypeOK, StreamTypes
  <2>2. CASE HandlePlain(p) \/ HandleClose(p) \/ HandlePing(p) \/ HandleUnexpected(p)
    BY <2>2 DEF HandlePlain, HandleClose, HandlePing, HandleUnexpected, packets,
                TypeInv, TypeOK, StreamTypes
  <2>3. CASE PongReturn(p)
    BY <2>3 DEF PongReturn, TypeInv, TypeOK, StreamTypes
  <2>4. CASE PollNext(p) \/ PongLock(p) \/ Pending(p) \/ PollDone(p)
    BY <2>4 DEF PollNext, PongLock, Pending, PollDone, packets
  <2> QED
    BY <1>1, <2>1, <2>2, <2>3, <2>4 DEF Run
<1>2. ASSUME NEW u \in Users, Connect(u) \/ Emit(u) \/ Disconnect(u) \/ UserStep(u)
      PROVE  UNCHANGED <<taken, rest, delivered, reported>>
  BY <1>2 DEF Connect, Emit, Disconnect, Start, UserStep, EmitCheck, EmitLock, EmitSend,
              EmitReturn, DisconnectStore, packets
<1>3. ASSUME NEW ids, Arrive(ids) \/ LinkChange \/ Write
      PROVE  UNCHANGED <<taken, rest, delivered, reported>>
  BY <1>3 DEF Arrive, LinkChange, Write, packets
<1>4. CASE UNCHANGED vars
  BY <1>4 DEF vars, packets
<1> QED
  BY <1>1, <1>2, <1>3, <1>4 DEF Next

LEMMA NumberedHolds == Spec => []Numbered
<1>1. Init => Numbered
  BY DEF Init, Numbered, Settled
<1>2. Numbered /\ TypeInv /\ [Next]_vars => Numbered'
  BY Moves, YieldIsReturn, FailIsRefuse, TakeIsFetch, StillKeepsNumbered
<1> QED
  BY <1>1, <1>2, InvHolds, PTL DEF Spec

\* However many clones are polled, what they return is one stream of the packets in
\* order, each once, and what is left out went with an error.
THEOREM Streams == Spec => StreamSpec
<1>1. Init => Stream!Init
  <2> SUFFICES ASSUME Init PROVE Stream!Init
    OBVIOUS
  <2>1. taken = 0 /\ rest = <<>> /\ delivered = <<>> /\ reported = {}
    BY DEF Init
  <2>2. Len(rest) = 0
    BY <2>1
  <2>3. taken - Len(rest) = 0
    BY <2>1, <2>2, 0 - 0 = 0
  <2> QED
    BY <2>1, <2>3 DEF Stream!Init
<1>2. Numbered /\ TypeInv /\ [Next]_vars => [Stream!Next]_(Stream!vars)
  <2> SUFFICES ASSUME Numbered, TypeInv, [Next]_vars
               PROVE  Stream!Next \/ UNCHANGED Stream!vars
    OBVIOUS
  <2> QED
    BY Moves, YieldIsReturn, FailIsRefuse, TakeIsFetch, StillKeepsNumbered DEF Stream!Next
<1> QED
  BY <1>1, <1>2, InvHolds, NumberedHolds, PTL DEF Spec, StreamSpec, Stream!Spec

-----------------------------------------------------------------------------
(* Pings are answered before they are yielded *)

Ponging == {"pong_lock", "pong_send", "pong_sent", "pong_failed"}

\* Only the packet that is handled may be answered and not yet settled, and it is
\* a Ping then.
PingInv ==
    /\ PingsAnswered
    /\ \A n \in answered : n \in 1 .. Settled \/ (at = "pong_sent" /\ n = Settled + 1)
    /\ \A i \in 1 .. Len(delivered) : delivered[i].n \in 1 .. Settled
    /\ at \in Ponging => Head(rest).id = "Ping"
    /\ at = "pong_sent" => Head(rest).n \in answered

LEMMA YieldAnswered ==
    ASSUME TypeInv, Numbered, PingInv, NEW p \in Pollers, Yield(p), rest # <<>>,
           UNCHANGED answered,
           at = "pong_sent" \/ (at \notin Ponging /\ Head(rest).id # "Ping")
    PROVE  PingInv'
<1>1. Settled' = Settled + 1 /\ Head(rest).n = Settled + 1 /\ Settled \in Nat
  BY YieldIsReturn, PacketSeqs DEF Settled, Numbered, TypeInv, TypeOK, StreamTypes
<1>2. /\ delivered \in Seq(Packet) /\ Head(rest) \in Packet
      /\ delivered' = Append(delivered, Head(rest))
  BY PacketSeqs DEF Yield, TypeInv, TypeOK, StreamTypes
<1>3. /\ Len(delivered) \in Nat /\ Len(delivered') = Len(delivered) + 1
      /\ delivered'[Len(delivered) + 1] = Head(rest)
      /\ \A i \in 1 .. Len(delivered) : delivered'[i] = delivered[i]
  BY <1>2, PacketSeqs
<1>4. (Head(rest).id = "Ping") <=> (Head(rest).n \in answered)
  <2>1. CASE at = "pong_sent"
    BY <2>1 DEF PingInv, Ponging
  <2>2. CASE at \notin Ponging /\ Head(rest).id # "Ping"
    BY <1>1, <2>2 DEF PingInv, Ponging
  <2> QED
    BY <2>1, <2>2
<1>5. \A i \in 1 .. Len(delivered') : delivered'[i] = Head(rest) \/ (i \in 1 .. Len(delivered) /\ delivered'[i] = delivered[i])
  BY <1>3
<1>6. PingsAnswered'
  BY <1>4, <1>5 DEF PingInv, PingsAnswered
<1>7. \A n \in answered' : n \in 1 .. Settled'
  BY <1>1 DEF PingInv
<1>8. \A i \in 1 .. Len(delivered') : delivered'[i].n \in 1 .. Settled'
  <2>1. ASSUME NEW i \in 1 .. Len(delivered')
        PROVE  delivered'[i].n = Settled + 1 \/ delivered'[i].n \in 1 .. Settled
    BY <1>1, <1>5 DEF PingInv
  <2> QED
    BY <1>1, <2>1
<1>9. at' \notin Ponging
  BY DEF Yield, Ponging
<1> QED
  BY <1>6, <1>7, <1>8, <1>9 DEF PingInv, Ponging

LEMMA FailAnswered ==
    ASSUME TypeInv, Numbered, PingInv, NEW p \in Pollers, Fail(p), at # "pong_sent",
           UNCHANGED answered
    PROVE  PingInv'
<1>1. /\ Settled' = taken /\ Settled <= taken /\ taken \in Nat /\ Settled \in Nat
      /\ UNCHANGED delivered /\ at' = "done"
  BY FailIsRefuse, PacketSeqs DEF Fail, TypeInv, TypeOK, StreamTypes, Numbered, Settled
<1>2. 1 .. Settled \subseteq 1 .. Settled'
  BY <1>1
<1> QED
  BY <1>1, <1>2 DEF PingInv, PingsAnswered, Ponging

\* Steps that settle nothing and answer nothing.
LEMMA StillAnswered ==
    ASSUME PingInv, Settled' = Settled, UNCHANGED <<delivered, answered>>,
           \/ UNCHANGED <<at, rest>>
           \/ at # "pong_sent" /\ at' \notin Ponging
           \/ at # "pong_sent" /\ at' # "pong_sent" /\ UNCHANGED rest /\ Head(rest).id = "Ping"
    PROVE  PingInv'
<1>1. PingsAnswered'
  BY DEF PingInv, PingsAnswered
<1>2. (at = "pong_sent") => UNCHANGED <<at, rest>>
  OBVIOUS
<1>3. \A n \in answered' : n \in 1 .. Settled' \/ (at' = "pong_sent" /\ n = Settled' + 1)
  BY <1>2 DEF PingInv
<1>4. \A i \in 1 .. Len(delivered') : delivered'[i].n \in 1 .. Settled'
  BY DEF PingInv
<1>5. (at' \in Ponging => Head(rest').id = "Ping") /\ (at' = "pong_sent" => Head(rest').n \in answered')
  BY DEF PingInv, Ponging
<1> QED
  BY <1>1, <1>3, <1>4, <1>5 DEF PingInv

LEMMA PollerAnswers ==
    ASSUME TypeInv, Numbered, PingInv, NEW p \in Pollers, PollNext(p) \/ Run(p)
    PROVE  PingInv'
<1>1. ASSUME Take, incoming # <<>>, at = "payload", UNCHANGED answered
      PROVE  PingInv'
  <2>1. rest = <<>> /\ at' = "parse" /\ UNCHANGED delivered
    BY <1>1 DEF Take, TypeInv, TypeOK, StreamTypes
  <2>2. Settled' = Settled
    BY <1>1, <2>1, TakeIsFetch
  <2> QED
    BY <1>1, <2>1, <2>2, StillAnswered DEF Ponging
<1>2. CASE WebsocketNext(p) \/ PollingNext(p)
  <2>1. ASSUME at = "payload", at' = "done", UNCHANGED <<packets, rest, answered>>
        PROVE  PingInv'
    BY <2>1, StillAnswered DEF packets, Settled, Ponging
  <2>2. ASSUME at = "payload", Fail(p), UNCHANGED answered
        PROVE  PingInv'
    BY <2>2, FailAnswered
  <2> QED
    BY <1>1, <1>2, <2>1, <2>2 DEF WebsocketNext, PollingNext
<1>3. CASE Parse(p)
  <2>1. CASE Fail(p)
    BY <1>3, <2>1, FailAnswered DEF Parse
  <2>2. CASE at' = "packet" /\ UNCHANGED <<packets, rest>>
    BY <1>3, <2>2, StillAnswered DEF Parse, packets, Settled, Ponging
  <2> QED
    BY <1>3, <2>1, <2>2 DEF Parse
<1>4. CASE HandlePlain(p) \/ HandleClose(p)
  <2>1. rest # <<>> /\ at \notin Ponging /\ Head(rest).id # "Ping" /\ Yield(p) /\ UNCHANGED answered
    BY <1>4 DEF HandlePlain, HandleClose, TypeInv, TypeOK, StreamTypes, Ponging
  <2> QED
    BY <2>1, YieldAnswered
<1>5. CASE HandlePing(p)
  <2>1. CASE Fail(p)
    BY <1>5, <2>1, FailAnswered DEF HandlePing
  <2>2. CASE at' = "pong_lock" /\ UNCHANGED <<packets, rest>>
    BY <1>5, <2>2, StillAnswered DEF HandlePing, packets, Settled
  <2> QED
    BY <1>5, <2>1, <2>2 DEF HandlePing
<1>6. CASE HandleUnexpected(p)
  BY <1>6, FailAnswered DEF HandleUnexpected
<1>7. CASE PongLock(p)
  <2>1. Head(rest).id = "Ping"
    BY <1>7 DEF PongLock, PingInv, Ponging
  <2> QED
    BY <1>7, <2>1, StillAnswered DEF PongLock, packets, Settled
<1>8. CASE PongReturn(p)
  <2>1. rest # <<>>
    BY <1>8 DEF PongReturn, TypeInv, TypeOK, StreamTypes
  <2> QED
    BY <1>8, <2>1, YieldAnswered, FailAnswered DEF PongReturn
<1>9. CASE PollNext(p) \/ Pending(p) \/ PollDone(p)
  BY <1>9, StillAnswered DEF PollNext, Pending, PollDone, packets, Settled
<1> QED
  BY <1>2, <1>3, <1>4, <1>5, <1>6, <1>7, <1>8, <1>9 DEF Run

\* A Ping is yielded only after its Pong was written, and only Pings are answered.
THEOREM Answers == Spec => []PingsAnswered
<1>1. Init => PingInv
  BY DEF Init, PingInv, PingsAnswered, Ponging
<1>2. TypeInv /\ Numbered /\ PingInv /\ [Next]_vars => PingInv'
  <2> SUFFICES ASSUME TypeInv, Numbered, PingInv, [Next]_vars PROVE PingInv'
    OBVIOUS
  <2>1. ASSUME NEW u \in Users, Connect(u) \/ Emit(u) \/ Disconnect(u) \/ UserStep(u)
        PROVE  PingInv'
    <3>1. UNCHANGED <<taken, rest, delivered, at, answered>>
      BY <2>1 DEF Connect, Emit, Disconnect, Start, UserStep, EmitCheck, EmitLock, EmitSend,
                  EmitReturn, DisconnectStore, packets
    <3> QED
      BY <3>1, StillAnswered DEF Settled
  <2>2. ASSUME NEW ids, Arrive(ids) \/ LinkChange
        PROVE  PingInv'
    BY <2>2, StillAnswered DEF Arrive, LinkChange, packets, Settled
  <2>3. CASE Write
    <3>1. /\ at = "pong_send" /\ UNCHANGED <<taken, rest, delivered>> /\ Settled' = Settled
          /\ \/ at' = "pong_sent" /\ answered' = answered \cup {Head(rest).n}
             \/ at' = "pong_failed" /\ UNCHANGED answered
      BY <2>3 DEF Write, packets, Settled
    <3>2. CASE at' = "pong_failed" /\ UNCHANGED answered
      <4>1. Head(rest).id = "Ping"
        BY <3>1 DEF PingInv, Ponging
      <4> QED
        BY <3>1, <3>2, <4>1, StillAnswered
    <3>3. CASE at' = "pong_sent" /\ answered' = answered \cup {Head(rest).n}
      <4>1. /\ rest # <<>> /\ rest \in Seq(Packet) /\ Settled \in Nat
        BY <3>1, PacketSeqs DEF TypeInv, TypeOK, StreamTypes, Numbered, Settled
      <4>2. Head(rest).n = Settled + 1
        BY <4>1, PacketSeqs DEF Numbered
      <4>3. PingsAnswered'
        BY <3>1, <3>3, <4>1, <4>2 DEF PingInv, PingsAnswered
      <4>4. Head(rest).id = "Ping"
        BY <3>1 DEF PingInv, Ponging
      <4>5. \A n \in answered' : n \in 1 .. Settled' \/ (at' = "pong_sent" /\ n = Settled' + 1)
        BY <3>1, <3>3, <4>2 DEF PingInv
      <4> QED
        BY <3>1, <3>3, <4>3, <4>4, <4>5 DEF PingInv
    <3> QED
      BY <3>1, <3>2, <3>3
  <2>4. CASE UNCHANGED vars
    BY <2>4, StillAnswered DEF vars, packets, Settled
  <2> QED
    BY <2>1, <2>2, <2>3, <2>4, PollerAnswers DEF Next
<1>3. PingInv => PingsAnswered
  BY DEF PingInv
<1> QED
  BY <1>1, <1>2, <1>3, InvHolds, NumberedHolds, PTL DEF Spec

-----------------------------------------------------------------------------
(* The flag is cleared when the other side knows *)

\* A disconnect() that goes on has sent its Close.
CloseInv ==
    \A u \in Users : pc[u] = "store" \/ (pc[u] = "sent" /\ out[u] = "Close") => closed

LEMMA CloseHolds == Spec => []CloseInv
<1>1. Init => CloseInv
  BY DEF Init, CloseInv
<1>2. TypeInv /\ CloseInv /\ [Next]_vars => CloseInv'
  <2> SUFFICES ASSUME TypeInv, CloseInv, [Next]_vars, NEW v \in Users,
                      pc'[v] = "store" \/ (pc'[v] = "sent" /\ out'[v] = "Close")
               PROVE  closed'
    BY DEF CloseInv
  <2>1. ASSUME pc'[v] = pc[v], out'[v] = out[v], closed => closed'
        PROVE  closed'
    BY <2>1 DEF CloseInv
  <2>2. ASSUME NEW u \in Users, Connect(u) \/ Emit(u) \/ Disconnect(u) \/ UserStep(u)
        PROVE  closed'
    <3> USE DEF TypeInv, TypeOK, TaskTypes, Goto
    <3>1. CASE v # u
      <4>1. out'[v] = out[v] /\ (closed => closed')
        <5>1. CASE Connect(u) \/ Emit(u) \/ Disconnect(u)
          BY <3>1, <5>1 DEF Connect, Emit, Disconnect, Start
        <5>2. CASE UserStep(u)
          <6>1. CASE EmitSend(u)
            BY <6>1 DEF EmitSend, users
          <6>2. CASE ~EmitSend(u)
            BY <5>2, <6>2 DEF UserStep, EmitCheck, EmitLock, EmitReturn, DisconnectStore, users
          <6> QED
            BY <6>1, <6>2
        <5> QED
          BY <2>2, <5>1, <5>2
      <4>2. CASE EmitReturn(u)
        <5>1. v # waker
          BY DEF Nobody
        <5>2. pc'[v] = pc[v]
          BY <3>1, <4>2, <5>1 DEF EmitReturn
        <5> QED
          BY <2>1, <4>1, <5>2
      <4>3. CASE ~EmitReturn(u)
        <5>1. \E label : pc' = [pc EXCEPT ![u] = label]
          BY <2>2, <4>3 DEF Connect, Emit, Disconnect, Start, UserStep, EmitCheck, EmitLock,
                            EmitSend, DisconnectStore
        <5>2. pc'[v] = pc[v]
          BY <3>1, <5>1
        <5> QED
          BY <2>1, <4>1, <5>2
      <4> QED
        BY <4>2, <4>3
    <3>2. CASE v = u
      <4>1. CASE EmitSend(u)
        BY <3>2, <4>1 DEF EmitSend, users
      <4>2. CASE EmitReturn(u)
        BY <3>2, <4>2 DEF EmitReturn, users, CloseInv
      <4>3. CASE EmitCheck(u) \/ EmitLock(u) \/ DisconnectStore(u)
        BY <3>2, <4>3 DEF EmitCheck, EmitLock, DisconnectStore
      <4>4. CASE Connect(u) \/ Emit(u) \/ Disconnect(u)
        BY <3>2, <4>4 DEF Connect, Emit, Disconnect, Start
      <4> QED
        BY <2>2, <4>1, <4>2, <4>3, <4>4 DEF UserStep
    <3> QED
      BY <3>1, <3>2
  <2>3. ASSUME NEW p \in Pollers, PollNext(p) \/ Run(p)
        PROVE  closed'
    <3>1. v # p /\ (closed => closed') /\ UNCHANGED users
      BY <2>3 DEF PollNext, Run, WebsocketNext, PollingNext, Parse, HandlePlain, HandleClose,
                  HandlePing, HandleUnexpected, PongLock, PongReturn, Pending, PollDone
    <3>2. UNCHANGED pc \/ \E label : pc' = [pc EXCEPT ![p] = label]
      BY <2>3 DEF PollNext, Run, WebsocketNext, PollingNext, Take, Parse, HandlePlain, HandleClose,
                  HandlePing, HandleUnexpected, PongLock, PongReturn, Pending, PollDone,
                  Yield, Fail, LetGo, Goto
    <3>3. pc'[v] = pc[v]
      BY <3>1, <3>2 DEF TypeInv, TypeOK, TaskTypes
    <3> QED
      BY <2>1, <3>1, <3>3 DEF users
  <2>4. ASSUME NEW ids, Arrive(ids) \/ LinkChange \/ Write
        PROVE  closed'
    <3>1. UNCHANGED <<out, closed>> /\ (Wake \/ UNCHANGED pc)
      BY <2>4 DEF Arrive, LinkChange, Write, users
    <3>2. v # waker
      BY DEF TypeInv, TypeOK, TaskTypes, Nobody
    <3>3. pc'[v] = pc[v]
      BY <3>1, <3>2 DEF Wake, TypeInv, TypeOK, TaskTypes
    <3> QED
      BY <2>1, <3>1, <3>3
  <2>5. CASE UNCHANGED vars
    BY <2>1, <2>5 DEF vars, users
  <2> QED
    BY <2>2, <2>3, <2>4, <2>5 DEF Next
<1> QED
  BY <1>1, <1>2, InvHolds, PTL DEF Spec

\* The flag of the client is cleared only once a Close was sent or received.
THEOREM Known == Spec => ClosedIsKnown
<1>1. CloseInv /\ [Next]_vars => [connected /\ ~connected' => closed']_vars
  <2> SUFFICES ASSUME CloseInv, Next, connected, ~connected'
               PROVE  closed'
    OBVIOUS
  <2>1. ASSUME NEW u \in Users, Connect(u) \/ Emit(u) \/ Disconnect(u) \/ UserStep(u)
        PROVE  closed'
    <3>1. DisconnectStore(u)
      BY <2>1 DEF Connect, Emit, Disconnect, UserStep, EmitCheck, EmitLock, EmitSend, EmitReturn
    <3> QED
      BY <3>1 DEF DisconnectStore, CloseInv
  <2>2. ASSUME NEW p \in Pollers, PollNext(p) \/ Run(p)
        PROVE  closed'
    BY <2>2 DEF PollNext, Run, WebsocketNext, PollingNext, Parse, HandlePlain, HandleClose,
                HandlePing, HandleUnexpected, PongLock, PongReturn, Pending, PollDone
  <2>3. ASSUME NEW ids, Arrive(ids) \/ LinkChange \/ Write
        PROVE  closed'
    BY <2>3 DEF Arrive, LinkChange, Write
  <2> QED
    BY <2>1, <2>2, <2>3 DEF Next
<1> QED
  BY <1>1, CloseHolds, PTL DEF Spec, ClosedIsKnown
=============================================================================
