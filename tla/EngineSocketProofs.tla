------------------------- MODULE EngineSocketProofs -------------------------
(***************************************************************************)
(* What is proved of the engine.io socket for any number of polling and    *)
(* calling threads, packets, payload sizes and calls.                      *)
(***************************************************************************)
EXTENDS EngineSocketStream, SequenceTheorems, TLAPS

USE ThreadsAssumption, ServerIdsAssumption, ReopensAssumption, BoundsAssumption

\* The parts of a payload that the transport hands over are packets.
LEMMA PayloadIsSeq ==
    ASSUME NEW k \in Nat, NEW m \in Nat, NEW ids \in [1..k -> ServerIds]
    PROVE  [i \in 1..k |-> [n |-> m + i, id |-> ids[i]]] \in Seq(Packet)
<1> DEFINE s == [i \in 1..k |-> [n |-> m + i, id |-> ids[i]]]
<1>1. \A i \in 1..k : s[i] \in Packet
  BY DEF Packet
<1>2. s \in [1..k -> Packet]
  BY <1>1
<1> QED
  BY <1>2, SeqDef

\* What the heads and tails of packet sequences are.
LEMMA PacketSeqs ==
    ASSUME NEW s \in Seq(Packet)
    PROVE  /\ <<>> \in Seq(Packet)
           /\ Numbers(s) \subseteq Nat
           /\ s # <<>> => /\ Head(s) \in Packet
                          /\ Tail(s) \in Seq(Packet)
                          /\ <<Head(s)>> \in Seq(Packet)
                          /\ Len(<<Head(s)>>) = 1
                          /\ <<Head(s)>> # <<>>
           /\ Len(s) = 1 => s # <<>>
<1>1. \A i \in 1..Len(s) : s[i] \in Packet
  BY ElementOfSeq
<1>2. Numbers(s) \subseteq Nat
  BY <1>1 DEF Numbers, Packet
<1>3. s # <<>> => Head(s) \in Packet /\ Tail(s) \in Seq(Packet)
  BY HeadTailProperties
<1>4. Len(s) = 1 => s # <<>>
  BY EmptySeq
<1> QED
  BY <1>2, <1>3, <1>4

\* A poller that takes packets into its hand is where it may hold them.
LEMMA TakeTypes ==
    ASSUME ThreadTypes, Places, NEW p \in Pollers, NEW s \in Seq(Packet),
           NEW label \in {"p_parse", "p_handle"}, s # <<>>,
           label = "p_handle" => Len(s) = 1,
           pc' = [pc EXCEPT ![p] = label], hand' = [hand EXCEPT ![p] = s]
    PROVE  /\ pc' \in [Threads -> PollerPC \cup UserPC]
           /\ hand' \in [Pollers -> Seq(Packet)]
           /\ Places'
<1>1. pc' \in [Threads -> PollerPC \cup UserPC] /\ hand' \in [Pollers -> Seq(Packet)]
  BY DEF ThreadTypes, PollerPC
<1>2. p \in Threads /\ \A u \in Users : u \in Threads /\ u # p
  BY ThreadsAssumption DEF Threads
<1>3. InPlace(p)'
  BY <1>2 DEF ThreadTypes, InPlace, PollerPC
<1>4. ASSUME NEW q \in Pollers, q # p
      PROVE  InPlace(q)'
  BY <1>4 DEF ThreadTypes, Places, InPlace, Threads
<1>5. \A u \in Users : pc'[u] \in UserPC
  BY <1>2 DEF ThreadTypes, Places
<1> QED
  BY <1>1, <1>3, <1>4, <1>5 DEF Places

\* A poller with nothing in its hand goes where it may have nothing.
LEMMA MoveTypes ==
    ASSUME ThreadTypes, Places, NEW p \in Pollers, hand[p] = <<>>,
           NEW label \in {"idle", "p_check", "p_next", "p_recv"},
           pc' = [pc EXCEPT ![p] = label], hand' = hand
    PROVE  pc' \in [Threads -> PollerPC \cup UserPC] /\ Places'
<1>1. pc' \in [Threads -> PollerPC \cup UserPC]
  BY DEF ThreadTypes, PollerPC
<1>2. p \in Threads /\ \A u \in Users : u \in Threads /\ u # p
  BY ThreadsAssumption DEF Threads
<1>3. InPlace(p)'
  BY <1>2 DEF ThreadTypes, InPlace, PollerPC
<1>4. ASSUME NEW q \in Pollers, q # p
      PROVE  InPlace(q)'
  BY <1>4 DEF ThreadTypes, Places, InPlace, Threads
<1>5. \A u \in Users : pc'[u] \in UserPC
  BY <1>2 DEF ThreadTypes, Places
<1> QED
  BY <1>1, <1>3, <1>4, <1>5 DEF Places

\* poll() returns the packet in the poller's hand.
LEMMA ReturnTypes ==
    ASSUME TypeOK, NEW p \in Pollers,
           pc[p] \in {"p_handle", "e_check", "e_send"}, Return(p)
    PROVE  /\ delivered' \in Seq(Packet) /\ reported' \subseteq Nat
           /\ pc' \in [Threads -> PollerPC \cup UserPC]
           /\ hand' \in [Pollers -> Seq(Packet)]
           /\ Places'
<1>1. /\ hand[p] \in Seq(Packet) /\ Len(hand[p]) = 1
      /\ delivered \in Seq(Packet) /\ reported \subseteq Nat
  BY DEF TypeOK, SharedTypes, ThreadTypes, Places, InPlace
<1>2. Head(hand[p]) \in Packet
  BY <1>1, PacketSeqs
<1>3. delivered' \in Seq(Packet) /\ reported' \subseteq Nat
  BY <1>1, <1>2, AppendProperties DEF Return
<1>4. hand' \in [Pollers -> Seq(Packet)]
  BY <1>1, PacketSeqs DEF Return, TypeOK, ThreadTypes
<1>5. pc' \in [Threads -> PollerPC \cup UserPC]
  BY DEF Return, Goto, TypeOK, ThreadTypes, PollerPC, Threads
<1>6. Places'
  BY DEF Return, Goto, TypeOK, ThreadTypes, Places, InPlace, PollerPC, UserPC, Threads
<1> QED
  BY <1>3, <1>4, <1>5, <1>6

\* poll() drops what is in the poller's hand.
LEMMA GiveUpTypes ==
    ASSUME TypeOK, NEW p \in Pollers, NEW label \in {"idle", "panicked"},
           GiveUp(p, label)
    PROVE  /\ delivered' \in Seq(Packet) /\ reported' \subseteq Nat
           /\ pc' \in [Threads -> PollerPC \cup UserPC]
           /\ hand' \in [Pollers -> Seq(Packet)]
           /\ Places'
<1>1. /\ hand[p] \in Seq(Packet)
      /\ delivered \in Seq(Packet) /\ reported \subseteq Nat
  BY DEF TypeOK, SharedTypes, ThreadTypes
<1>2. Numbers(hand[p]) \subseteq Nat /\ <<>> \in Seq(Packet)
  BY <1>1, PacketSeqs
<1>3. delivered' \in Seq(Packet) /\ reported' \subseteq Nat
  BY <1>1, <1>2 DEF GiveUp
<1>4. hand' \in [Pollers -> Seq(Packet)]
  BY <1>2 DEF GiveUp, TypeOK, ThreadTypes
<1>5. pc' \in [Threads -> PollerPC \cup UserPC]
  BY DEF GiveUp, Goto, TypeOK, ThreadTypes, PollerPC, Threads
<1>6. Places'
  BY DEF GiveUp, Goto, TypeOK, ThreadTypes, Places, InPlace, PollerPC, UserPC, Threads
<1> QED
  BY <1>3, <1>4, <1>5, <1>6

\* Every variable keeps its type, and what a polling thread holds fits the
\* place where it is in Client::poll.
THEOREM Typing == Spec => []TypeOK
<1> USE DEF PollerPC, UserPC
<1>1. ASSUME Init PROVE TypeOK
  <2>1. SharedTypes
    BY <1>1, EmptySeq DEF Init, SharedTypes
  <2>2. ThreadTypes
    BY <1>1, EmptySeq DEF Init, ThreadTypes
  <2>3. Places
    BY <1>1 DEF Init, Places, InPlace, Threads
  <2> QED
    BY <2>1, <2>2, <2>3 DEF TypeOK
<1>2. TypeOK /\ [Next]_vars => TypeOK'
  <2> SUFFICES ASSUME TypeOK, [Next]_vars
               PROVE  TypeOK'
    OBVIOUS
  <2>0. /\ SharedTypes /\ ThreadTypes /\ Places
        /\ \A p \in Pollers : hand[p] \in Seq(Packet)
        /\ \A t \in Threads : late[t] \in Nat
        /\ Pollers \subseteq Threads /\ Users \subseteq Threads
    BY DEF TypeOK, ThreadTypes, Threads
  <2>1. ASSUME NEW p \in Pollers, Poll(p)
         PROVE  TypeOK'
    <3>1. SharedTypes'
      BY <2>0, <2>1 DEF SharedTypes, Poll, Goto
    <3>2. ThreadTypes'
      BY <2>0, <2>1 DEF ThreadTypes, Poll, Goto
    <3>3. Places'
      BY <2>0, <2>1 DEF ThreadTypes, Places, InPlace, Poll, Goto
    <3> QED
      BY <3>1, <3>2, <3>3 DEF TypeOK
  <2>2. ASSUME NEW p \in Pollers, PollCheck(p)
         PROVE  TypeOK'
    <3>1. SharedTypes'
      BY <2>0, <2>2 DEF SharedTypes, PollCheck, Goto
    <3>2. ThreadTypes'
      BY <2>0, <2>2 DEF ThreadTypes, PollCheck, Goto
    <3>3. Places'
      BY <2>0, <2>2 DEF ThreadTypes, Places, InPlace, PollCheck, Goto
    <3> QED
      BY <3>1, <3>2, <3>3 DEF TypeOK
  <2>3. ASSUME NEW p \in Pollers, PollNext(p)
         PROVE  TypeOK'
    <3>0. CASE remaining = <<>>
      <4>1. SharedTypes'
        BY <2>0, <2>3, <3>0 DEF SharedTypes, PollNext
      <4>a. hand[p] = <<>> /\ hand' = hand /\ pc' = [pc EXCEPT ![p] = "p_recv"]
        BY <2>0, <2>3, <3>0 DEF Places, InPlace, PollNext, Goto
      <4>b. pc' \in [Threads -> PollerPC \cup UserPC] /\ Places'
        BY <2>0, <4>a, MoveTypes
      <4>2. ThreadTypes'
        BY <2>0, <2>3, <4>a, <4>b DEF ThreadTypes, PollNext
      <4>3. Places'
        BY <4>b
      <4> QED
        BY <4>1, <4>2, <4>3 DEF TypeOK
    <3>1. CASE remaining # <<>>
      <4>0. /\ <<Head(remaining)>> \in Seq(Packet) /\ Tail(remaining) \in Seq(Packet)
            /\ Len(<<Head(remaining)>>) = 1 /\ <<Head(remaining)>> # <<>>
        BY <2>0, <3>1, PacketSeqs DEF SharedTypes
      <4>1. SharedTypes'
        BY <2>0, <2>3, <3>1, <4>0 DEF SharedTypes, PollNext
      <4>a. /\ pc' = [pc EXCEPT ![p] = "p_handle"]
            /\ hand' = [hand EXCEPT ![p] = <<Head(remaining)>>]
        BY <2>3, <3>1 DEF PollNext, Goto
      <4>b. /\ pc' \in [Threads -> PollerPC \cup UserPC]
            /\ hand' \in [Pollers -> Seq(Packet)]
            /\ Places'
        BY <2>0, <4>0, <4>a, TakeTypes
      <4>2. ThreadTypes'
        BY <2>0, <2>3, <4>b DEF ThreadTypes, PollNext
      <4>3. Places'
        BY <4>b
      <4> QED
        BY <4>1, <4>2, <4>3 DEF TypeOK
    <3> QED
      BY <3>0, <3>1
  <2>4. ASSUME NEW p \in Pollers, PollRecv(p)
         PROVE  TypeOK'
    <3>1. CASE /\ Goto(p, "idle") \/ Goto(p, "p_check")
               /\ UNCHANGED <<hand, received>>
      <4>1. SharedTypes'
        BY <2>0, <2>4, <3>1 DEF SharedTypes, PollRecv
      <4>a. hand[p] = <<>> /\ hand' = hand
        BY <2>0, <2>4, <3>1 DEF Places, InPlace, PollRecv
      <4>b. PICK label \in {"idle", "p_check"} : pc' = [pc EXCEPT ![p] = label]
        BY <3>1 DEF Goto
      <4>c. pc' \in [Threads -> PollerPC \cup UserPC] /\ Places'
        BY <2>0, <4>a, <4>b, MoveTypes
      <4>2. ThreadTypes'
        BY <2>0, <2>4, <4>a, <4>c DEF ThreadTypes, PollRecv
      <4>3. Places'
        BY <4>c
      <4> QED
        BY <4>1, <4>2, <4>3 DEF TypeOK
    <3>2. ASSUME NEW k \in 1..MaxBatch, NEW ids \in [1..k -> ServerIds],
                 hand' = [hand EXCEPT ![p] =
                            [i \in 1..k |-> [n |-> received + i, id |-> ids[i]]]],
                 received' = received + k, Goto(p, "p_parse")
          PROVE  TypeOK'
      <4> DEFINE s == [i \in 1..k |-> [n |-> received + i, id |-> ids[i]]]
      <4>0. s \in Seq(Packet) /\ s # <<>>
        <5>1. k \in Nat /\ received \in Nat
          BY <2>0 DEF SharedTypes
        <5>2. s \in Seq(Packet)
          BY <5>1, PayloadIsSeq
        <5>3. Len(s) = k
          BY <5>1
        <5> QED
          BY <5>2, <5>3
      <4> HIDE DEF s
      <4>1. SharedTypes'
        BY <2>0, <2>4, <3>2 DEF SharedTypes, PollRecv
      <4>a. hand' = [hand EXCEPT ![p] = s]
        BY <3>2 DEF s
      <4>b. pc' = [pc EXCEPT ![p] = "p_parse"]
        BY <3>2 DEF Goto
      <4>c. /\ pc' \in [Threads -> PollerPC \cup UserPC]
            /\ hand' \in [Pollers -> Seq(Packet)]
            /\ Places'
        BY <2>0, <4>0, <4>a, <4>b, TakeTypes
      <4>2. ThreadTypes'
        BY <2>0, <2>4, <4>c DEF ThreadTypes, PollRecv
      <4>3. Places'
        BY <4>c
      <4> QED
        BY <4>1, <4>2, <4>3 DEF TypeOK
    <3> QED
      BY <2>4, <3>1, <3>2 DEF PollRecv
  <2>5. ASSUME NEW p \in Pollers, PollParse(p)
         PROVE  TypeOK'
    <3>1. CASE GiveUp(p, "idle") /\ UNCHANGED remaining
      BY <2>0, <2>5, <3>1, GiveUpTypes DEF TypeOK, SharedTypes, ThreadTypes, PollParse
    <3>2. CASE /\ remaining' = Tail(hand[p])
               /\ hand' = [hand EXCEPT ![p] = <<Head(hand[p])>>]
               /\ Goto(p, "p_handle")
               /\ UNCHANGED <<delivered, reported>>
      <4>0. /\ <<Head(hand[p])>> \in Seq(Packet) /\ Tail(hand[p]) \in Seq(Packet)
            /\ Len(<<Head(hand[p])>>) = 1
        BY <2>0, <2>5, PacketSeqs DEF PollParse, Places, InPlace
      <4>1. SharedTypes'
        BY <2>0, <2>5, <3>2, <4>0 DEF SharedTypes, PollParse
      <4>2. ThreadTypes'
        BY <2>0, <2>5, <3>2, <4>0 DEF ThreadTypes, PollParse, Goto
      <4>3. Places'
        BY <2>0, <2>5, <3>2, <4>0 DEF ThreadTypes, Places, InPlace, PollParse, Goto
      <4> QED
        BY <4>1, <4>2, <4>3 DEF TypeOK
    <3> QED
      BY <2>5, <3>1, <3>2 DEF PollParse
  <2>6. ASSUME NEW p \in Pollers, HandlePlain(p)
         PROVE  TypeOK'
    BY <2>0, <2>6, ReturnTypes DEF TypeOK, SharedTypes, ThreadTypes, HandlePlain
  <2>7. ASSUME NEW p \in Pollers, HandleClose(p)
         PROVE  TypeOK'
    <3>1. late' \in [Threads -> Nat] /\ connected' \in BOOLEAN
      BY <2>0, <2>7 DEF HandleClose, Store, ThreadTypes
    <3> QED
      BY <2>0, <2>7, <3>1, ReturnTypes DEF TypeOK, SharedTypes, ThreadTypes, HandleClose
  <2>8. ASSUME NEW p \in Pollers, HandlePing(p)
         PROVE  TypeOK'
    <3>1. SharedTypes'
      BY <2>0, <2>8 DEF SharedTypes, HandlePing, Goto, PacketId
    <3>2. ThreadTypes'
      BY <2>0, <2>8 DEF ThreadTypes, HandlePing, Goto, PacketId
    <3>3. Places'
      BY <2>0, <2>8 DEF ThreadTypes, Places, InPlace, HandlePing, Goto, PacketId
    <3> QED
      BY <3>1, <3>2, <3>3 DEF TypeOK
  <2>9. ASSUME NEW p \in Pollers, HandleUnreachable(p)
         PROVE  TypeOK'
    BY <2>0, <2>9, GiveUpTypes DEF TypeOK, SharedTypes, ThreadTypes, HandleUnreachable
  <2>10. ASSUME NEW u \in Users, UserCall(u)
         PROVE  TypeOK'
    <3>1. PICK id \in {"Pong", "Message", "Close"} : Start(u, id)
      BY <2>10 DEF UserCall, Connect, Emit, Disconnect
    <3>2. late' \in [Threads -> Nat] /\ connected' \in BOOLEAN
      <4>1. Store(TRUE) \/ UNCHANGED <<connected, late>>
        BY <2>10 DEF UserCall, Connect, Emit, Disconnect
      <4>2. CASE Store(TRUE)
        BY <2>0, <4>2 DEF Store, ThreadTypes
      <4>3. CASE UNCHANGED <<connected, late>>
        BY <2>0, <4>3 DEF ThreadTypes, SharedTypes
      <4> QED
        BY <4>1, <4>2, <4>3
    <3>3. calls' \in [Users -> 0..MaxCalls]
      BY <2>0, <3>1 DEF Start, ThreadTypes
    <3>4. SharedTypes'
      BY <2>0, <3>1, <3>2 DEF SharedTypes, Start
    <3>5. ThreadTypes'
      BY <2>0, <3>1, <3>2, <3>3 DEF ThreadTypes, Start, Goto, PacketId
    <3>6. Places'
      BY <2>0, <3>1 DEF ThreadTypes, Places, InPlace, Start, Goto
    <3> QED
      BY <3>4, <3>5, <3>6 DEF TypeOK
  <2>11. ASSUME NEW u \in Users, DisconnectStore(u)
         PROVE  TypeOK'
    <3>1. SharedTypes'
      BY <2>0, <2>11 DEF SharedTypes, DisconnectStore, Store, Goto
    <3>2. ThreadTypes'
      BY <2>0, <2>11 DEF ThreadTypes, DisconnectStore, Store, Goto
    <3>3. Places'
      BY <2>0, <2>11 DEF ThreadTypes, Places, InPlace, DisconnectStore, Store, Goto
    <3> QED
      BY <3>1, <3>2, <3>3 DEF TypeOK
  <2>12. ASSUME NEW t \in Threads, NEW ok \in BOOLEAN, AfterEmit(t, ok),
                pc[t] \in {"e_check", "e_send"}
         PROVE  /\ delivered' \in Seq(Packet) /\ reported' \subseteq Nat
                /\ pc' \in [Threads -> PollerPC \cup UserPC]
                /\ hand' \in [Pollers -> Seq(Packet)]
                /\ out' \in [Threads -> PacketId \cup {NoFrame}]
                /\ Places'
    <3>1. out' \in [Threads -> PacketId \cup {NoFrame}]
      BY <2>0, <2>12 DEF ThreadTypes, AfterEmit
    <3>2. CASE t \in Pollers
      BY <2>0, <2>12, <3>1, <3>2, ReturnTypes, GiveUpTypes DEF AfterEmit
    <3>3. CASE t \notin Pollers
      <4>a. PICK label \in UserPC : pc' = [pc EXCEPT ![t] = label] /\ hand' = hand
        BY <2>12, <3>3 DEF AfterEmit, Goto, UserPC
      <4>b. \A q \in Pollers : pc'[q] = pc[q]
        BY <2>0, <3>3, <4>a DEF ThreadTypes, Threads
      <4>c. \A q \in Pollers : InPlace(q)'
        BY <2>0, <4>a, <4>b DEF Places, InPlace
      <4>1. pc' \in [Threads -> PollerPC \cup UserPC] /\ Places'
        BY <2>0, <4>a, <4>c DEF ThreadTypes, Places, Threads
      <4> QED
        BY <2>0, <2>12, <3>1, <3>3, <4>1 DEF SharedTypes, ThreadTypes, AfterEmit
    <3> QED
      BY <3>2, <3>3
  <2>13. ASSUME NEW t \in Threads, EmitCheck(t)
         PROVE  TypeOK'
    <3>1. CASE connected
      <4>1. SharedTypes'
        BY <2>0, <2>13, <3>1 DEF SharedTypes, EmitCheck
      <4>2. ThreadTypes'
        BY <2>0, <2>13, <3>1 DEF ThreadTypes, EmitCheck, Goto
      <4>3. Places'
        <5>1. pc[t] = "e_check" /\ pc' = [pc EXCEPT ![t] = "e_send"] /\ hand' = hand
          BY <2>13, <3>1 DEF EmitCheck, Goto
        <5>2. \A q \in Pollers : InPlace(q)'
          BY <2>0, <5>1 DEF ThreadTypes, Places, InPlace, PollerPC, Threads
        <5>3. \A u \in Users : pc'[u] \in UserPC
          BY <2>0, <5>1 DEF ThreadTypes, Places, UserPC, Threads
        <5> QED
          BY <5>2, <5>3 DEF Places
      <4> QED
        BY <4>1, <4>2, <4>3 DEF TypeOK
    <3>2. CASE ~connected
      <4>1. AfterEmit(t, FALSE) /\ pc[t] \in {"e_check", "e_send"}
        BY <2>13, <3>2 DEF EmitCheck
      <4> QED
        BY <2>0, <2>12, <2>13, <4>1 DEF TypeOK, SharedTypes, ThreadTypes, EmitCheck
    <3> QED
      BY <3>1, <3>2
  <2>14. ASSUME NEW t \in Threads, EmitSend(t)
         PROVE  TypeOK'
    <3>1. AfterEmit(t, link = "up") /\ pc[t] \in {"e_check", "e_send"}
      BY <2>14 DEF EmitSend
    <3>2. late' \in [Threads -> Nat]
      BY <2>0, <2>14 DEF EmitSend, ThreadTypes
    <3>3. answered' \subseteq Nat
      <4>1. CASE t \in Pollers
        <5>1. Head(hand[t]) \in Packet
          BY <2>0, <2>14, <4>1, PacketSeqs DEF EmitSend, Places, InPlace
        <5> QED
          BY <2>0, <2>14, <5>1 DEF EmitSend, SharedTypes, Packet
      <4>2. CASE t \notin Pollers
        BY <2>0, <2>14, <4>2 DEF EmitSend, SharedTypes
      <4> QED
        BY <4>1, <4>2
    <3>4. /\ delivered' \in Seq(Packet) /\ reported' \subseteq Nat
          /\ pc' \in [Threads -> PollerPC \cup UserPC]
          /\ hand' \in [Pollers -> Seq(Packet)]
          /\ out' \in [Threads -> PacketId \cup {NoFrame}]
          /\ Places'
      BY <2>12, <3>1
    <3> QED
      BY <2>0, <2>14, <3>2, <3>3, <3>4 DEF TypeOK, SharedTypes, ThreadTypes, EmitSend
  <2>15. CASE LinkChange
    BY <2>0, <2>15 DEF TypeOK, SharedTypes, ThreadTypes, Places, InPlace, LinkChange
  <2>16. CASE UNCHANGED vars
    BY <2>0, <2>16 DEF TypeOK, SharedTypes, ThreadTypes, Places, InPlace, vars
  <2> QED
    BY <2>1, <2>2, <2>3, <2>4, <2>5, <2>6, <2>7, <2>8, <2>9, <2>10, <2>11, <2>13,
       <2>14, <2>15, <2>16 DEF Next, PollerStep, EmitStep
<1> QED
  BY <1>1, <1>2, PTL DEF Spec

----------------------------------------------------------------------------
(* Late frames *)

\* Nothing counts as late while connected; a thread that has passed the check
\* of emit() on a closed socket has not sent anything since it was closed.
LateInv ==
    \A t \in Threads :
        /\ connected => late[t] = 0
        /\ ~connected => late[t] <= 1
        /\ ~connected /\ pc[t] = "e_send" => late[t] = 0

\* Clearing or setting the flag, where no thread starts to send.
LEMMA StoreKeepsLateInv ==
    ASSUME TypeOK, LateInv, NEW b \in BOOLEAN, Store(b),
           NEW t \in Threads, NEW label \in PollerPC \cup UserPC,
           Goto(t, label), label # "e_send"
    PROVE  LateInv'
<1>1. \A u \in Threads : pc'[u] = IF u = t THEN label ELSE pc[u]
  BY DEF TypeOK, ThreadTypes, Goto
<1>2. CASE connected # b
  BY <1>1, <1>2 DEF Store, LateInv
<1>3. CASE connected = b
  BY <1>1, <1>3 DEF Store, LateInv
<1> QED
  BY <1>2, <1>3

\* Steps that leave the flag and the counts alone and do not get to e_send.
LEMMA QuietKeepsLateInv ==
    ASSUME TypeOK, LateInv, UNCHANGED <<connected, late>>,
           NEW t \in Threads, NEW label \in PollerPC \cup UserPC,
           Goto(t, label), connected \/ label # "e_send"
    PROVE  LateInv'
<1>1. \A u \in Threads : pc'[u] = IF u = t THEN label ELSE pc[u]
  BY DEF TypeOK, ThreadTypes, Goto
<1> QED
  BY <1>1 DEF LateInv

\* Once the socket is closed, by the server or by any thread, each thread gets
\* at most one more frame onto the transport: emit() reads the flag and then
\* sends without a lock, but reads it anew for every frame.
THEOREM LateFrames == Spec => []LateFrameBound
<1>1. Init => LateInv
  BY DEF Init, LateInv
<1>2. TypeOK /\ LateInv /\ [Next]_vars => LateInv'
  <2> SUFFICES ASSUME TypeOK, LateInv, [Next]_vars
               PROVE  LateInv'
    OBVIOUS
  <2> USE DEF PollerPC, UserPC, Threads
  <2>1. ASSUME NEW p \in Pollers, Poll(p)
        PROVE  LateInv'
    BY <2>1, QuietKeepsLateInv DEF Poll
  <2>2. ASSUME NEW p \in Pollers, PollCheck(p)
        PROVE  LateInv'
    BY <2>2, QuietKeepsLateInv DEF PollCheck
  <2>3. ASSUME NEW p \in Pollers, PollNext(p)
        PROVE  LateInv'
    BY <2>3, QuietKeepsLateInv DEF PollNext
  <2>4. ASSUME NEW p \in Pollers, PollRecv(p)
        PROVE  LateInv'
    <3>1. UNCHANGED <<connected, late>>
      BY <2>4 DEF PollRecv
    <3>2. PICK label \in {"idle", "p_check", "p_parse"} : Goto(p, label)
      BY <2>4 DEF PollRecv
    <3> QED
      BY <3>1, <3>2, QuietKeepsLateInv
  <2>5. ASSUME NEW p \in Pollers, PollParse(p)
        PROVE  LateInv'
    BY <2>5, QuietKeepsLateInv DEF PollParse, GiveUp
  <2>6. ASSUME NEW p \in Pollers, HandlePlain(p)
        PROVE  LateInv'
    BY <2>6, QuietKeepsLateInv DEF HandlePlain, Return
  <2>7. ASSUME NEW p \in Pollers, HandleClose(p)
        PROVE  LateInv'
    BY <2>7, StoreKeepsLateInv DEF HandleClose, Return
  <2>8. ASSUME NEW p \in Pollers, HandlePing(p)
        PROVE  LateInv'
    BY <2>8, QuietKeepsLateInv DEF HandlePing
  <2>9. ASSUME NEW p \in Pollers, HandleUnreachable(p)
        PROVE  LateInv'
    BY <2>9, QuietKeepsLateInv DEF HandleUnreachable, GiveUp
  <2>10. ASSUME NEW u \in Users, UserCall(u)
         PROVE  LateInv'
    <3>1. Goto(u, "e_check")
      BY <2>10 DEF UserCall, Connect, Emit, Disconnect, Start
    <3>2. Store(TRUE) \/ UNCHANGED <<connected, late>>
      BY <2>10 DEF UserCall, Connect, Emit, Disconnect
    <3>3. CASE Store(TRUE)
      BY <3>1, <3>3, StoreKeepsLateInv
    <3>4. CASE UNCHANGED <<connected, late>>
      BY <3>1, <3>4, QuietKeepsLateInv
    <3> QED
      BY <3>2, <3>3, <3>4
  <2>11. ASSUME NEW u \in Users, DisconnectStore(u)
         PROVE  LateInv'
    BY <2>11, StoreKeepsLateInv DEF DisconnectStore
  <2>12. ASSUME NEW t \in Threads, NEW ok \in BOOLEAN, AfterEmit(t, ok)
         PROVE  \E label \in {"idle", "d_store"} : Goto(t, label)
    BY <2>12 DEF AfterEmit, Return, GiveUp
  <2>13. ASSUME NEW t \in Threads, EmitCheck(t)
         PROVE  LateInv'
    <3>1. UNCHANGED <<connected, late>>
      BY <2>13 DEF EmitCheck
    <3>2. CASE connected
      BY <2>13, <3>1, <3>2, QuietKeepsLateInv DEF EmitCheck
    <3>3. CASE ~connected
      <4>1. PICK label \in {"idle", "d_store"} : Goto(t, label)
        BY <2>12, <2>13, <3>3 DEF EmitCheck
      <4> QED
        BY <3>1, <4>1, QuietKeepsLateInv
    <3> QED
      BY <3>2, <3>3
  <2>14. ASSUME NEW t \in Threads, EmitSend(t)
         PROVE  LateInv'
    <3>1. AfterEmit(t, link = "up") /\ UNCHANGED connected /\ pc[t] = "e_send"
      BY <2>14 DEF EmitSend
    <3>2. PICK label \in {"idle", "d_store"} : Goto(t, label)
      BY <2>12, <3>1
    <3>3. CASE UNCHANGED late
      BY <3>1, <3>2, <3>3, QuietKeepsLateInv
    <3>4. CASE ~connected /\ late' = [late EXCEPT ![t] = @ + 1]
      <4>1. \A u \in Threads : /\ pc'[u] = IF u = t THEN label ELSE pc[u]
                               /\ late'[u] = IF u = t THEN late[u] + 1 ELSE late[u]
        BY <3>2, <3>4 DEF TypeOK, ThreadTypes, Goto
      <4>2. late[t] = 0
        BY <3>1, <3>4 DEF LateInv
      <4> QED
        BY <3>1, <3>4, <4>1, <4>2 DEF LateInv
    <3> QED
      BY <2>14, <3>3, <3>4 DEF EmitSend
  <2>15. CASE LinkChange
    BY <2>15 DEF LinkChange, LateInv
  <2>16. CASE UNCHANGED vars
    BY <2>16 DEF vars, LateInv
  <2> QED
    BY <2>1, <2>2, <2>3, <2>4, <2>5, <2>6, <2>7, <2>8, <2>9, <2>10, <2>11, <2>13,
       <2>14, <2>15, <2>16 DEF Next, PollerStep, EmitStep
<1>3. LateInv => LateFrameBound
  BY DEF LateInv, LateFrameBound
<1> QED
  BY <1>1, <1>2, <1>3, Typing, PTL DEF Spec

----------------------------------------------------------------------------
(* Each packet once *)

Distinct(s) == \A i, j \in 1..Len(s) : i # j => s[i].n # s[j].n

\* No number is twice among the packets delivered, reported, left over and held.
OnceInv ==
    /\ Distinct(delivered) /\ Distinct(remaining)
    /\ \A p \in Pollers : Distinct(hand[p]) /\ Numbers(hand[p]) \subseteq 1..received
    /\ Numbers(delivered) \cup reported \cup Numbers(remaining) \subseteq 1..received
    /\ Numbers(delivered) \cap reported = {}
    /\ Numbers(delivered) \cap Numbers(remaining) = {}
    /\ reported \cap Numbers(remaining) = {}
    /\ \A p \in Pollers :
         /\ Numbers(hand[p]) \cap (Numbers(delivered) \cup reported
                                     \cup Numbers(remaining)) = {}
         /\ \A q \in Pollers \ {p} : Numbers(hand[p]) \cap Numbers(hand[q]) = {}

\* Taking the first packet of a sequence splits its numbers.
LEMMA HeadNumbers ==
    ASSUME NEW s \in Seq(Packet), s # <<>>, Distinct(s)
    PROVE  /\ Distinct(<<Head(s)>>) /\ Distinct(Tail(s))
           /\ Numbers(<<Head(s)>>) = {Head(s).n}
           /\ Head(s).n \in Numbers(s)
           /\ Numbers(Tail(s)) \subseteq Numbers(s)
           /\ Head(s).n \notin Numbers(Tail(s))
<1>1. /\ Len(s) \in Nat /\ Len(s) > 0 /\ Head(s) = s[1]
      /\ Len(Tail(s)) = Len(s) - 1
      /\ \A i \in 1..Len(Tail(s)) : Tail(s)[i] = s[i + 1]
  BY HeadTailProperties, EmptySeq, LenProperties
<1>2. \A i \in 1..Len(Tail(s)) : i + 1 \in 1..Len(s) /\ i + 1 # 1
  BY <1>1
<1>3. Distinct(Tail(s))
  BY <1>1, <1>2 DEF Distinct
<1>4. Numbers(Tail(s)) \subseteq Numbers(s) /\ Head(s).n \in Numbers(s)
  BY <1>1, <1>2 DEF Numbers
<1>5. Head(s).n \notin Numbers(Tail(s))
  BY <1>1, <1>2 DEF Numbers, Distinct
<1>6. Distinct(<<Head(s)>>) /\ Numbers(<<Head(s)>>) = {Head(s).n}
  BY DEF Distinct, Numbers
<1> QED
  BY <1>3, <1>4, <1>5, <1>6

\* Appending a packet adds its number.
LEMMA AppendNumbers ==
    ASSUME NEW s \in Seq(Packet), NEW e \in Packet, Distinct(s), e.n \notin Numbers(s)
    PROVE  /\ Distinct(Append(s, e))
           /\ Numbers(Append(s, e)) = Numbers(s) \cup {e.n}
<1>1. /\ Len(s) \in Nat /\ Len(Append(s, e)) = Len(s) + 1
      /\ \A i \in 1..Len(s) : Append(s, e)[i] = s[i]
      /\ Append(s, e)[Len(s) + 1] = e
  BY AppendProperties, LenProperties
<1>2. \A i \in 1..Len(s) : s[i].n # e.n
  BY DEF Numbers
<1>3. Distinct(Append(s, e))
  BY <1>1, <1>2 DEF Distinct
<1>4. Numbers(Append(s, e)) = Numbers(s) \cup {e.n}
  BY <1>1 DEF Numbers
<1> QED
  BY <1>3, <1>4

\* A payload consists of new packets.
LEMMA PayloadNumbers ==
    ASSUME NEW k \in Nat, NEW m \in Nat, NEW ids \in [1..k -> ServerIds], NEW s,
           s = [i \in 1..k |-> [n |-> m + i, id |-> ids[i]]]
    PROVE  Distinct(s) /\ Numbers(s) \subseteq (m + 1)..(m + k)
<1>1. s \in Seq(Packet)
  BY PayloadIsSeq
<1>2. Len(s) = k /\ \A i \in 1..k : s[i].n = m + i
  OBVIOUS
<1> QED
  BY <1>2 DEF Distinct, Numbers

\* No packet moves.
LEMMA StillKeepsOnceInv ==
    ASSUME OnceInv, UNCHANGED <<delivered, reported, remaining, hand, received>>
    PROVE  OnceInv'
<1>1. /\ Distinct(delivered)' = Distinct(delivered)
      /\ Distinct(remaining)' = Distinct(remaining)
      /\ Numbers(delivered)' = Numbers(delivered)
      /\ Numbers(remaining)' = Numbers(remaining)
  BY DEF Distinct, Numbers
<1>2. /\ \A p \in Pollers : hand'[p] = hand[p]
      /\ reported' = reported /\ received' = received
  OBVIOUS
<1> QED
  BY <1>1, <1>2 DEF OnceInv

\* A packet moves from a poller's hand to the caller.
LEMMA ReturnKeepsOnceInv ==
    ASSUME TypeOK, OnceInv, NEW p \in Pollers, Len(hand[p]) = 1, Return(p),
           UNCHANGED <<remaining, received>>
    PROVE  OnceInv'
<1> DEFINE e == Head(hand[p])
<1>1. hand[p] \in Seq(Packet) /\ hand[p] # <<>> /\ delivered \in Seq(Packet)
  BY PacketSeqs DEF TypeOK, SharedTypes, ThreadTypes
<1>2. e \in Packet /\ e.n \in Numbers(hand[p])
  BY <1>1, PacketSeqs, HeadNumbers DEF OnceInv
<1>3. e.n \notin Numbers(delivered)
  BY <1>2 DEF OnceInv
<1>4. /\ Distinct(delivered') /\ Numbers(delivered') = Numbers(delivered) \cup {e.n}
  BY <1>1, <1>2, <1>3, AppendNumbers DEF Return, OnceInv
<1>5. \A q \in Pollers : hand'[q] = IF q = p THEN <<>> ELSE hand[q]
  BY DEF Return, TypeOK, ThreadTypes
<1>6. Numbers(<<>>) = {} /\ Distinct(<<>>)
  BY DEF Numbers, Distinct
<1>7. reported' = reported /\ Numbers(remaining)' = Numbers(remaining)
      /\ Distinct(remaining)' = Distinct(remaining)
  BY DEF Return, Numbers, Distinct
<1>8. \A q \in Pollers : Distinct(hand'[q]) /\ Numbers(hand'[q]) \subseteq 1..received
  BY <1>5, <1>6 DEF OnceInv
<1>9. \A q \in Pollers : Numbers(hand'[q]) \cap
                           (Numbers(delivered') \cup reported \cup Numbers(remaining)) = {}
  BY <1>2, <1>4, <1>5, <1>6 DEF OnceInv
<1>10. \A q, r \in Pollers : q # r => Numbers(hand'[q]) \cap Numbers(hand'[r]) = {}
  BY <1>5, <1>6 DEF OnceInv
<1>11. /\ Numbers(delivered') \subseteq 1..received
       /\ Numbers(delivered') \cap reported = {}
       /\ Numbers(delivered') \cap Numbers(remaining) = {}
  BY <1>2, <1>4 DEF OnceInv
<1> QED
  BY <1>4, <1>7, <1>8, <1>9, <1>10, <1>11 DEF OnceInv

\* What a poller holds moves to the packets given up.
LEMMA GiveUpKeepsOnceInv ==
    ASSUME TypeOK, OnceInv, NEW p \in Pollers, NEW label, GiveUp(p, label),
           UNCHANGED <<remaining, received>>
    PROVE  OnceInv'
<1>1. \A q \in Pollers : hand'[q] = IF q = p THEN <<>> ELSE hand[q]
  BY DEF GiveUp, TypeOK, ThreadTypes
<1>2. Numbers(<<>>) = {} /\ Distinct(<<>>)
  BY DEF Numbers, Distinct
<1>3. reported' = reported \cup Numbers(hand[p]) /\ delivered' = delivered
  BY DEF GiveUp
<1>4. \A q \in Pollers : Distinct(hand'[q]) /\ Numbers(hand'[q]) \subseteq 1..received
  BY <1>1, <1>2 DEF OnceInv
<1>5. \A q \in Pollers : Numbers(hand'[q]) \cap
                           (Numbers(delivered) \cup reported' \cup Numbers(remaining)) = {}
  BY <1>1, <1>2, <1>3 DEF OnceInv
<1>6. \A q, r \in Pollers : q # r => Numbers(hand'[q]) \cap Numbers(hand'[r]) = {}
  BY <1>1, <1>2 DEF OnceInv
<1>7. /\ reported' \subseteq 1..received
      /\ Numbers(delivered) \cap reported' = {}
      /\ reported' \cap Numbers(remaining) = {}
  BY <1>3 DEF OnceInv
<1> QED
  BY <1>3, <1>4, <1>5, <1>6, <1>7 DEF OnceInv

\* The first packet left over moves to a poller with empty hands.
LEMMA PopKeepsOnceInv ==
    ASSUME TypeOK, OnceInv, NEW p \in Pollers, hand[p] = <<>>, remaining # <<>>,
           hand' = [hand EXCEPT ![p] = <<Head(remaining)>>],
           remaining' = Tail(remaining),
           UNCHANGED <<delivered, reported, received>>
    PROVE  OnceInv'
<1> DEFINE e == Head(remaining)
<1>1. remaining \in Seq(Packet) /\ Distinct(remaining)
  BY DEF TypeOK, SharedTypes, OnceInv
<1>2. /\ Distinct(<<e>>) /\ Numbers(<<e>>) = {e.n} /\ e.n \in Numbers(remaining)
      /\ Distinct(Tail(remaining)) /\ Numbers(Tail(remaining)) \subseteq Numbers(remaining)
      /\ e.n \notin Numbers(Tail(remaining))
  BY <1>1, HeadNumbers
<1>3. \A q \in Pollers : hand'[q] = IF q = p THEN <<e>> ELSE hand[q]
  BY DEF TypeOK, ThreadTypes
<1>4. /\ Distinct(remaining') /\ Numbers(remaining') \subseteq Numbers(remaining)
      /\ e.n \notin Numbers(remaining')
  BY <1>2
<1>5. Distinct(delivered)' = Distinct(delivered) /\ Numbers(delivered)' = Numbers(delivered)
      /\ reported' = reported /\ received' = received
  BY DEF Distinct, Numbers
<1>6. \A q \in Pollers : Distinct(hand'[q]) /\ Numbers(hand'[q]) \subseteq 1..received
  BY <1>2, <1>3 DEF OnceInv
<1>7. \A q \in Pollers : Numbers(hand'[q]) \cap
                           (Numbers(delivered) \cup reported \cup Numbers(remaining')) = {}
  BY <1>2, <1>3, <1>4 DEF OnceInv
<1>8. \A q, r \in Pollers : q # r => Numbers(hand'[q]) \cap Numbers(hand'[r]) = {}
  BY <1>2, <1>3 DEF OnceInv
<1>9. /\ Numbers(delivered) \cup reported \cup Numbers(remaining') \subseteq 1..received
      /\ Numbers(delivered) \cap Numbers(remaining') = {}
      /\ reported \cap Numbers(remaining') = {}
  BY <1>4 DEF OnceInv
<1>10. Distinct(delivered) /\ Numbers(delivered) \cap reported = {}
  BY DEF OnceInv
<1> QED
  BY <1>4, <1>5, <1>6, <1>7, <1>8, <1>9, <1>10 DEF OnceInv

\* A poller keeps the head of its payload and leaves the rest to everyone,
\* whatever it overwrites.
LEMMA StoreRestKeepsOnceInv ==
    ASSUME TypeOK, OnceInv, NEW p \in Pollers, hand[p] # <<>>,
           hand' = [hand EXCEPT ![p] = <<Head(hand[p])>>],
           remaining' = Tail(hand[p]),
           UNCHANGED <<delivered, reported, received>>
    PROVE  OnceInv'
<1> DEFINE s == hand[p]
<1> DEFINE e == Head(s)
<1>1. s \in Seq(Packet) /\ Distinct(s)
  BY DEF TypeOK, ThreadTypes, OnceInv
<1>2. /\ Distinct(<<e>>) /\ Numbers(<<e>>) = {e.n} /\ e.n \in Numbers(s)
      /\ Distinct(Tail(s)) /\ Numbers(Tail(s)) \subseteq Numbers(s)
      /\ e.n \notin Numbers(Tail(s))
  BY <1>1, HeadNumbers
<1>3. \A q \in Pollers : hand'[q] = IF q = p THEN <<e>> ELSE hand[q]
  BY DEF TypeOK, ThreadTypes
<1>4. /\ Distinct(remaining') /\ Numbers(remaining') \subseteq Numbers(s)
      /\ e.n \notin Numbers(remaining')
  BY <1>2
<1>5. Distinct(delivered)' = Distinct(delivered) /\ Numbers(delivered)' = Numbers(delivered)
      /\ reported' = reported /\ received' = received
  BY DEF Distinct, Numbers
<1>6. /\ Numbers(s) \subseteq 1..received
      /\ Numbers(s) \cap (Numbers(delivered) \cup reported) = {}
      /\ \A q \in Pollers \ {p} : Numbers(s) \cap Numbers(hand[q]) = {}
  BY DEF OnceInv
<1> HIDE DEF s, e
<1>7. \A q \in Pollers : Distinct(hand'[q]) /\ Numbers(hand'[q]) \subseteq 1..received
  BY <1>2, <1>3, <1>6 DEF OnceInv
<1>8. \A q \in Pollers : Numbers(hand'[q]) \cap
                           (Numbers(delivered) \cup reported \cup Numbers(remaining')) = {}
  BY <1>2, <1>3, <1>4, <1>6 DEF OnceInv
<1>9. \A q, r \in Pollers : q # r => Numbers(hand'[q]) \cap Numbers(hand'[r]) = {}
  <2>1. \A q, r \in Pollers : q # r => Numbers(hand[q]) \cap Numbers(hand[r]) = {}
    BY DEF OnceInv
  <2>2. \A r \in Pollers \ {p} : Numbers(<<e>>) \cap Numbers(hand[r]) = {}
    BY <1>2, <1>6
  <2>3. ASSUME NEW q \in Pollers, NEW r \in Pollers, q # r
        PROVE  Numbers(hand'[q]) \cap Numbers(hand'[r]) = {}
    <3>1. CASE q = p
      <4>1. hand'[q] = <<e>> /\ hand'[r] = hand[r]
        BY <1>3, <2>3, <3>1
      <4> QED
        BY <2>2, <2>3, <3>1, <4>1
    <3>2. CASE r = p
      <4>1. hand'[r] = <<e>> /\ hand'[q] = hand[q]
        BY <1>3, <2>3, <3>2
      <4> QED
        BY <2>2, <2>3, <3>2, <4>1
    <3>3. CASE q # p /\ r # p
      BY <1>3, <2>1, <2>3, <3>3
    <3> QED
      BY <3>1, <3>2, <3>3
  <2> QED
    BY <2>3
<1>10. /\ Numbers(delivered) \cup reported \cup Numbers(remaining') \subseteq 1..received
       /\ Numbers(delivered) \cap Numbers(remaining') = {}
       /\ reported \cap Numbers(remaining') = {}
  BY <1>4, <1>6 DEF OnceInv
<1>11. Distinct(delivered) /\ Numbers(delivered) \cap reported = {}
  BY DEF OnceInv
<1> QED
  BY <1>4, <1>5, <1>7, <1>8, <1>9, <1>10, <1>11 DEF OnceInv

\* New packets come into the hand of a poller.
LEMMA RecvKeepsOnceInv ==
    ASSUME TypeOK, OnceInv, NEW p \in Pollers, NEW k \in 1..MaxBatch,
           NEW ids \in [1..k -> ServerIds],
           hand' = [hand EXCEPT ![p] =
                      [i \in 1..k |-> [n |-> received + i, id |-> ids[i]]]],
           received' = received + k,
           UNCHANGED <<remaining, delivered, reported>>
    PROVE  OnceInv'
<1> DEFINE s == [i \in 1..k |-> [n |-> received + i, id |-> ids[i]]]
<1>1. k \in Nat /\ received \in Nat
  BY BoundsAssumption DEF TypeOK, SharedTypes
<1>2. Distinct(s) /\ Numbers(s) \subseteq (received + 1)..(received + k)
  BY <1>1, PayloadNumbers
<1>3. \A q \in Pollers : hand'[q] = IF q = p THEN s ELSE hand[q]
  BY DEF TypeOK, ThreadTypes
<1>4. /\ Distinct(delivered)' = Distinct(delivered)
      /\ Distinct(remaining)' = Distinct(remaining)
      /\ Numbers(delivered)' = Numbers(delivered)
      /\ Numbers(remaining)' = Numbers(remaining)
      /\ reported' = reported
  BY DEF Distinct, Numbers
<1>5. /\ 1..received \subseteq 1..received'
      /\ (received + 1)..(received + k) \subseteq 1..received'
      /\ (received + 1)..(received + k) \cap 1..received = {}
  BY <1>1
<1> HIDE DEF s
<1>6. Numbers(s) \subseteq 1..received' /\ Numbers(s) \cap 1..received = {}
  BY <1>2, <1>5
<1>7. \A q \in Pollers : Distinct(hand'[q]) /\ Numbers(hand'[q]) \subseteq 1..received'
  BY <1>2, <1>3, <1>5, <1>6 DEF OnceInv
<1>8. \A q \in Pollers : Numbers(hand'[q]) \cap
                           (Numbers(delivered) \cup reported \cup Numbers(remaining)) = {}
  BY <1>3, <1>6 DEF OnceInv
<1>9. ASSUME NEW q \in Pollers, NEW r \in Pollers, q # r
      PROVE  Numbers(hand'[q]) \cap Numbers(hand'[r]) = {}
  <2>1. CASE q = p
    <3>1. Numbers(hand[r]) \subseteq 1..received
      BY DEF OnceInv
    <3> QED
      BY <1>3, <1>6, <1>9, <2>1, <3>1
  <2>2. CASE r = p
    <3>1. Numbers(hand[q]) \subseteq 1..received
      BY DEF OnceInv
    <3> QED
      BY <1>3, <1>6, <1>9, <2>2, <3>1
  <2>3. CASE q # p /\ r # p
    BY <1>3, <1>9, <2>3 DEF OnceInv
  <2> QED
    BY <2>1, <2>2, <2>3
<1>10. Numbers(delivered) \cup reported \cup Numbers(remaining) \subseteq 1..received'
  BY <1>5 DEF OnceInv
<1> QED
  BY <1>4, <1>7, <1>8, <1>9, <1>10 DEF OnceInv

\* What a thread that emits a packet does with the one in its hand.
LEMMA AfterEmitKeepsOnceInv ==
    ASSUME TypeOK, OnceInv, NEW t \in Threads, NEW ok \in BOOLEAN, AfterEmit(t, ok),
           pc[t] \in {"e_check", "e_send"}, UNCHANGED <<remaining, received>>
    PROVE  OnceInv'
<1>1. CASE t \in Pollers /\ ok
  <2>1. Return(t) /\ Len(hand[t]) = 1
    BY <1>1 DEF AfterEmit, TypeOK, Places, InPlace
  <2> QED
    BY <1>1, <2>1, ReturnKeepsOnceInv
<1>2. CASE t \in Pollers /\ ~ok
  BY <1>2, GiveUpKeepsOnceInv DEF AfterEmit
<1>3. CASE t \notin Pollers
  BY <1>3, StillKeepsOnceInv DEF AfterEmit
<1> QED
  BY <1>1, <1>2, <1>3

LEMMA OnceHolds == Spec => []OnceInv
<1>1. Init => OnceInv
  <2>1. Numbers(<<>>) = {} /\ Distinct(<<>>)
    BY DEF Numbers, Distinct
  <2> QED
    BY <2>1 DEF Init, OnceInv
<1>2. TypeOK /\ OnceInv /\ [Next]_vars => OnceInv'
  <2> SUFFICES ASSUME TypeOK, OnceInv, [Next]_vars
               PROVE  OnceInv'
    OBVIOUS
  <2>1. ASSUME NEW p \in Pollers, Poll(p) \/ PollCheck(p) \/ HandlePing(p)
        PROVE  OnceInv'
    BY <2>1, StillKeepsOnceInv DEF Poll, PollCheck, HandlePing
  <2>2. ASSUME NEW p \in Pollers, PollNext(p)
        PROVE  OnceInv'
    <3>1. CASE remaining = <<>>
      BY <2>2, <3>1, StillKeepsOnceInv DEF PollNext
    <3>2. CASE remaining # <<>>
      <4>1. hand[p] = <<>>
        BY <2>2 DEF PollNext, TypeOK, Places, InPlace
      <4> QED
        BY <2>2, <3>2, <4>1, PopKeepsOnceInv DEF PollNext
    <3> QED
      BY <3>1, <3>2
  <2>3. ASSUME NEW p \in Pollers, PollRecv(p)
        PROVE  OnceInv'
    <3>1. CASE UNCHANGED <<hand, received>>
      BY <2>3, <3>1, StillKeepsOnceInv DEF PollRecv
    <3>2. CASE ~UNCHANGED <<hand, received>>
      <4>1. PICK k \in 1..MaxBatch :
              /\ \E ids \in [1..k -> ServerIds] :
                   hand' = [hand EXCEPT ![p] =
                              [i \in 1..k |-> [n |-> received + i, id |-> ids[i]]]]
              /\ received' = received + k
        BY <2>3, <3>2 DEF PollRecv
      <4>2. PICK ids \in [1..k -> ServerIds] :
              hand' = [hand EXCEPT ![p] =
                         [i \in 1..k |-> [n |-> received + i, id |-> ids[i]]]]
        BY <4>1
      <4>3. UNCHANGED <<remaining, delivered, reported>>
        BY <2>3 DEF PollRecv
      <4> QED
        BY <4>1, <4>2, <4>3, RecvKeepsOnceInv
    <3> QED
      BY <3>1, <3>2
  <2>4. ASSUME NEW p \in Pollers, PollParse(p)
        PROVE  OnceInv'
    <3>1. hand[p] # <<>> /\ UNCHANGED received
      BY <2>4 DEF PollParse, TypeOK, Places, InPlace
    <3>2. CASE GiveUp(p, "idle") /\ UNCHANGED remaining
      BY <3>1, <3>2, GiveUpKeepsOnceInv
    <3>3. CASE ~(GiveUp(p, "idle") /\ UNCHANGED remaining)
      <4>1. /\ remaining' = Tail(hand[p])
            /\ hand' = [hand EXCEPT ![p] = <<Head(hand[p])>>]
            /\ UNCHANGED <<delivered, reported>>
        BY <2>4, <3>3 DEF PollParse
      <4> QED
        BY <3>1, <4>1, StoreRestKeepsOnceInv
    <3> QED
      BY <3>2, <3>3
  <2>5. ASSUME NEW p \in Pollers, HandlePlain(p) \/ HandleClose(p)
        PROVE  OnceInv'
    <3>1. Return(p) /\ pc[p] = "p_handle" /\ UNCHANGED <<remaining, received>>
      BY <2>5 DEF HandlePlain, HandleClose
    <3>2. Len(hand[p]) = 1
      BY <3>1 DEF TypeOK, Places, InPlace
    <3> QED
      BY <3>1, <3>2, ReturnKeepsOnceInv
  <2>6. ASSUME NEW p \in Pollers, HandleUnreachable(p)
        PROVE  OnceInv'
    BY <2>6, GiveUpKeepsOnceInv DEF HandleUnreachable
  <2>7. ASSUME NEW u \in Users, UserCall(u) \/ DisconnectStore(u)
        PROVE  OnceInv'
    BY <2>7, StillKeepsOnceInv
       DEF UserCall, Connect, Emit, Disconnect, Start, DisconnectStore
  <2>8. ASSUME NEW t \in Threads, EmitCheck(t)
        PROVE  OnceInv'
    <3>1. CASE connected
      BY <2>8, <3>1, StillKeepsOnceInv DEF EmitCheck
    <3>2. CASE ~connected
      BY <2>8, <3>2, AfterEmitKeepsOnceInv DEF EmitCheck
    <3> QED
      BY <3>1, <3>2
  <2>9. ASSUME NEW t \in Threads, EmitSend(t)
        PROVE  OnceInv'
    BY <2>9, AfterEmitKeepsOnceInv DEF EmitSend
  <2>10. CASE LinkChange
    BY <2>10, StillKeepsOnceInv DEF LinkChange
  <2>11. CASE UNCHANGED vars
    BY <2>11, StillKeepsOnceInv DEF vars
  <2> QED
    BY <2>1, <2>2, <2>3, <2>4, <2>5, <2>6, <2>7, <2>8, <2>9, <2>10, <2>11
       DEF Next, PollerStep, EmitStep
<1> QED
  BY <1>1, <1>2, Typing, PTL DEF Spec

\* Socket::poll on any number of clones: no packet is returned twice, and none
\* both returned and given up.  What a packet's number is in, the hand of one
\* poller, the leftovers, the deliveries or the failures, it is in alone.
THEOREM Once == Spec => []EachPacketOnce
<1>1. OnceInv => EachPacketOnce
  BY DEF OnceInv, EachPacketOnce, Distinct
<1> QED
  BY <1>1, OnceHolds, PTL

----------------------------------------------------------------------------
(* Pings are answered before they are returned *)

\* The Pong is the last step of the poll() that returns its Ping, and a poller
\* that emits has a Ping in its hand.
PingInv ==
    /\ PingsAnswered
    /\ answered \subseteq Numbers(delivered)
    /\ \A p \in Pollers : pc[p] \in {"e_check", "e_send"} => Head(hand[p]).id = "Ping"

\* No Pong is sent and no packet returned.
LEMMA QuietKeepsPingInv ==
    ASSUME PingInv, UNCHANGED <<delivered, answered>>,
           \A p \in Pollers : pc'[p] \in {"e_check", "e_send"} =>
               \/ pc[p] \in {"e_check", "e_send"} /\ hand'[p] = hand[p]
               \/ Head(hand'[p]).id = "Ping"
    PROVE  PingInv'
<1>1. PingsAnswered' /\ Numbers(delivered)' = Numbers(delivered)
  BY DEF PingInv, PingsAnswered, Numbers
<1> QED
  BY <1>1 DEF PingInv

\* A packet is returned: a Ping with its Pong, any other without.
LEMMA ReturnKeepsPingInv ==
    ASSUME TypeOK, OnceInv, PingInv, NEW p \in Pollers,
           pc[p] \in {"p_handle", "e_check", "e_send"}, Return(p),
           answered' = answered \cup
               IF Head(hand[p]).id = "Ping" THEN {Head(hand[p]).n} ELSE {}
    PROVE  PingInv'
<1> DEFINE e == Head(hand[p])
<1>1. hand[p] \in Seq(Packet) /\ hand[p] # <<>> /\ delivered \in Seq(Packet)
  BY PacketSeqs DEF TypeOK, SharedTypes, ThreadTypes, Places, InPlace
<1>2. e \in Packet /\ e.n \in Numbers(hand[p])
  BY <1>1, PacketSeqs, HeadNumbers DEF OnceInv
<1>3. e.n \notin Numbers(delivered)
  BY <1>2 DEF OnceInv
<1>4. Numbers(delivered') = Numbers(delivered) \cup {e.n} /\ delivered' = Append(delivered, e)
  BY <1>1, <1>2, <1>3, AppendNumbers DEF Return, OnceInv
<1>5. /\ Len(delivered) \in Nat /\ Len(delivered') = Len(delivered) + 1
      /\ \A i \in 1..Len(delivered) : delivered'[i] = delivered[i]
      /\ delivered'[Len(delivered) + 1] = e
  BY <1>1, <1>2, <1>4, AppendProperties, LenProperties
<1>6. answered' = answered \cup IF e.id = "Ping" THEN {e.n} ELSE {}
  OBVIOUS
<1> HIDE DEF e
<1>7. ASSUME NEW i \in 1..Len(delivered')
      PROVE  delivered'[i].id = "Ping" <=> delivered'[i].n \in answered'
  <2>1. CASE i \in 1..Len(delivered)
    <3>1. delivered'[i] = delivered[i] /\ delivered[i].n # e.n
      BY <1>3, <1>5, <2>1 DEF Numbers
    <3>2. delivered[i].id = "Ping" <=> delivered[i].n \in answered
      BY <2>1 DEF PingInv, PingsAnswered
    <3> QED
      BY <1>6, <3>1, <3>2
  <2>2. CASE i \notin 1..Len(delivered)
    <3>1. delivered'[i] = e
      BY <1>5, <1>7, <2>2
    <3>2. e.n \notin answered
      BY <1>3 DEF PingInv
    <3> QED
      BY <1>6, <3>1, <3>2
  <2> QED
    BY <2>1, <2>2
<1>8. PingsAnswered'
  BY <1>7 DEF PingsAnswered
<1>9. answered' \subseteq Numbers(delivered')
  BY <1>4, <1>6 DEF PingInv
<1>10. ASSUME NEW q \in Pollers, pc'[q] \in {"e_check", "e_send"}
       PROVE  Head(hand'[q]).id = "Ping"
  <2>1. q # p /\ pc'[q] = pc[q] /\ hand'[q] = hand[q]
    BY <1>10 DEF Return, Goto, TypeOK, ThreadTypes, Threads
  <2> QED
    BY <1>10, <2>1 DEF PingInv
<1> QED
  BY <1>8, <1>9, <1>10 DEF PingInv

\* Client::poll: a Ping comes out only after its Pong was sent, and nothing
\* but a Ping is answered, for any number of clones.
THEOREM Answers == Spec => []PingsAnswered
<1>1. Init => PingInv
  BY DEF Init, PingInv, PingsAnswered, Threads
<1>2. TypeOK /\ OnceInv /\ PingInv /\ [Next]_vars => PingInv'
  <2> SUFFICES ASSUME TypeOK, OnceInv, PingInv, [Next]_vars
               PROVE  PingInv'
    OBVIOUS
  <2>0. /\ pc \in [Threads -> PollerPC \cup UserPC] /\ hand \in [Pollers -> Seq(Packet)]
        /\ Pollers \subseteq Threads /\ Users \subseteq Threads
    BY DEF TypeOK, ThreadTypes, Threads
  <2>1. ASSUME NEW p \in Pollers, Poll(p) \/ PollCheck(p) \/ PollNext(p) \/ PollRecv(p)
        PROVE  PingInv'
    <3>1. /\ pc[p] \notin {"e_check", "e_send"} /\ UNCHANGED <<delivered, answered>>
          /\ \A q \in Pollers : q # p => pc'[q] = pc[q] /\ hand'[q] = hand[q]
          /\ pc'[p] \notin {"e_check", "e_send"}
      BY <2>0, <2>1 DEF Poll, PollCheck, PollNext, PollRecv, Goto
    <3> QED
      BY <3>1, QuietKeepsPingInv
  <2>2. ASSUME NEW p \in Pollers, PollParse(p) \/ HandleUnreachable(p)
        PROVE  PingInv'
    <3>1. /\ UNCHANGED <<delivered, answered>>
          /\ \A q \in Pollers : q # p => pc'[q] = pc[q] /\ hand'[q] = hand[q]
          /\ pc'[p] \notin {"e_check", "e_send"}
      BY <2>0, <2>2 DEF PollParse, HandleUnreachable, GiveUp, Goto
    <3> QED
      BY <3>1, QuietKeepsPingInv
  <2>3. ASSUME NEW p \in Pollers, HandlePlain(p) \/ HandleClose(p)
        PROVE  PingInv'
    <3>1. /\ pc[p] = "p_handle" /\ Return(p) /\ answered' = answered
          /\ Head(hand[p]).id # "Ping"
      BY <2>3 DEF HandlePlain, HandleClose
    <3> QED
      BY <3>1, ReturnKeepsPingInv
  <2>4. ASSUME NEW p \in Pollers, HandlePing(p)
        PROVE  PingInv'
    <3>1. /\ UNCHANGED <<delivered, answered, hand>> /\ Head(hand[p]).id = "Ping"
          /\ \A q \in Pollers : q # p => pc'[q] = pc[q]
      BY <2>0, <2>4 DEF HandlePing, Goto
    <3> QED
      BY <3>1, QuietKeepsPingInv
  <2>5. ASSUME NEW u \in Users, UserCall(u) \/ DisconnectStore(u)
        PROVE  PingInv'
    <3>1. /\ UNCHANGED <<delivered, answered, hand>>
          /\ \A q \in Pollers : pc'[q] = pc[q]
      BY <2>0, <2>5 DEF UserCall, Connect, Emit, Disconnect, Start, DisconnectStore, Goto
    <3> QED
      BY <3>1, QuietKeepsPingInv
  <2>6. ASSUME NEW t \in Threads, EmitCheck(t) \/ EmitSend(t), t \notin Pollers
        PROVE  PingInv'
    <3>1. /\ UNCHANGED <<delivered, answered, hand>>
          /\ \A q \in Pollers : pc'[q] = pc[q]
      BY <2>0, <2>6 DEF EmitCheck, EmitSend, AfterEmit, Goto
    <3> QED
      BY <3>1, QuietKeepsPingInv
  <2>7. ASSUME NEW p \in Pollers, EmitCheck(p)
        PROVE  PingInv'
    <3>1. /\ UNCHANGED <<delivered, answered>>
          /\ \A q \in Pollers : q # p => pc'[q] = pc[q] /\ hand'[q] = hand[q]
          /\ \/ pc'[p] \notin {"e_check", "e_send"}
             \/ pc[p] = "e_check" /\ hand'[p] = hand[p]
      BY <2>0, <2>7 DEF EmitCheck, AfterEmit, GiveUp, Goto
    <3> QED
      BY <3>1, QuietKeepsPingInv
  <2>8. ASSUME NEW p \in Pollers, EmitSend(p)
        PROVE  PingInv'
    <3>1. CASE link = "up"
      <4>1. /\ pc[p] = "e_send" /\ Return(p) /\ Head(hand[p]).id = "Ping"
            /\ answered' = answered \cup {Head(hand[p]).n}
        BY <2>8, <3>1 DEF EmitSend, AfterEmit, PingInv
      <4> QED
        BY <4>1, ReturnKeepsPingInv
    <3>2. CASE link # "up"
      <4>1. /\ UNCHANGED <<delivered, answered>> /\ pc'[p] \notin {"e_check", "e_send"}
            /\ \A q \in Pollers : q # p => pc'[q] = pc[q] /\ hand'[q] = hand[q]
        BY <2>0, <2>8, <3>2 DEF EmitSend, AfterEmit, GiveUp, Goto
      <4> QED
        BY <4>1, QuietKeepsPingInv
    <3> QED
      BY <3>1, <3>2
  <2>9. CASE LinkChange \/ UNCHANGED vars
    BY <2>9, QuietKeepsPingInv DEF LinkChange, vars
  <2> QED
    BY <2>1, <2>2, <2>3, <2>4, <2>5, <2>6, <2>7, <2>8, <2>9
       DEF Next, PollerStep, EmitStep
<1>3. PingInv => PingsAnswered
  BY DEF PingInv
<1> QED
  BY <1>1, <1>2, <1>3, Typing, OnceHolds, PTL DEF Spec

----------------------------------------------------------------------------
(* One polling thread: a stream of packets *)

\* The packets that came out of the transport before those that are left over or
\* in the poller's hand.
Settled == received - (Len(remaining) + Len(hand[Poller]))

\* The packets in the poller's hand are the next in order, and the leftovers are
\* those behind them; there are none where a payload is on its way.
StreamInv ==
    /\ Len(remaining) + Len(hand[Poller]) <= received
    /\ \A i \in 1..Len(hand[Poller]) : hand[Poller][i].n = Settled + i
    /\ \A i \in 1..Len(remaining) :
         remaining[i].n = Settled + Len(hand[Poller]) + i
    /\ pc[Poller] \in {"p_recv", "p_parse"} => remaining = <<>>

\* Settled and the lengths it is made from are numbers.
LEMMA Lengths ==
    ASSUME OnePoller, TypeOK, StreamInv
    PROVE  /\ Poller \in Pollers /\ received \in Nat
           /\ hand[Poller] \in Seq(Packet) /\ Len(hand[Poller]) \in Nat
           /\ remaining \in Seq(Packet) /\ Len(remaining) \in Nat
           /\ delivered \in Seq(Packet) /\ Len(delivered) \in Nat
           /\ Settled \in Nat
<1>1. /\ Poller \in Pollers /\ received \in Nat /\ hand[Poller] \in Seq(Packet)
      /\ remaining \in Seq(Packet) /\ delivered \in Seq(Packet)
  BY DEF OnePoller, TypeOK, SharedTypes, ThreadTypes
<1>2. Len(hand[Poller]) \in Nat /\ Len(remaining) \in Nat /\ Len(delivered) \in Nat
  BY <1>1, LenProperties
<1> QED
  BY <1>1, <1>2 DEF StreamInv, Settled

\* A packet that is returned is the next.
LEMMA ReturnIsNext ==
    ASSUME OnePoller, TypeOK, StreamInv, Len(hand[Poller]) = 1, Return(Poller),
           UNCHANGED <<remaining, received>>
    PROVE  StreamInv' /\ Stream!ReturnNext
<1>1. /\ hand'[Poller] = <<>> /\ pc'[Poller] = "idle" /\ Len(hand'[Poller]) = 0
      /\ delivered' = Append(delivered, Head(hand[Poller])) /\ UNCHANGED reported
  BY Lengths DEF Return, Goto, TypeOK, ThreadTypes, Threads
<1>2. Settled' = Settled + 1 /\ Settled + 1 <= received
  BY <1>1, Lengths DEF Settled, StreamInv
<1>3. Head(hand[Poller]).n = Settled + 1 /\ Head(hand[Poller]) \in Packet
  <2>0. hand[Poller] # <<>>
    OBVIOUS
  <2>1. Head(hand[Poller]) = hand[Poller][1]
    BY <2>0, Lengths
  <2>2. 1 \in 1..Len(hand[Poller])
    OBVIOUS
  <2>3. hand[Poller][1].n = Settled + 1 /\ hand[Poller][1] \in Packet
    BY <2>2, Lengths, ElementOfSeq DEF StreamInv
  <2> QED
    BY <2>1, <2>3
<1>4. /\ Len(delivered') = Len(delivered) + 1
      /\ delivered'[Len(delivered) + 1] = Head(hand[Poller])
      /\ \A i \in 1..Len(delivered) : delivered'[i] = delivered[i]
  BY <1>1, <1>3, Lengths, AppendProperties
<1>5. StreamInv'
  <2>1. \A i \in 1..Len(remaining) : remaining[i].n = Settled + 1 + i
    BY DEF StreamInv
  <2>2. \A i \in 1..Len(remaining') : remaining'[i].n = Settled' + Len(hand'[Poller]) + i
    BY <1>1, <1>2, <2>1, Lengths
  <2>3. Len(remaining') + Len(hand'[Poller]) <= received'
    BY <1>1, Lengths DEF StreamInv
  <2> QED
    BY <1>1, <2>2, <2>3 DEF StreamInv
<1>6. Stream!ReturnNext
  BY <1>1, <1>2, <1>3, <1>4, Lengths DEF Stream!ReturnNext, Settled
<1> QED
  BY <1>5, <1>6

\* Packets given up are refused.
LEMMA GiveUpIsRefuse ==
    ASSUME OnePoller, TypeOK, StreamInv, hand[Poller] # <<>>,
           NEW label \in {"idle", "panicked"}, GiveUp(Poller, label),
           UNCHANGED <<remaining, received>>
    PROVE  StreamInv' /\ Stream!Refuse
<1> DEFINE k == Len(hand[Poller])
<1>1. /\ hand'[Poller] = <<>> /\ pc'[Poller] = label /\ Len(hand'[Poller]) = 0
      /\ reported' = reported \cup Numbers(hand[Poller]) /\ UNCHANGED delivered
  BY Lengths DEF GiveUp, Goto, TypeOK, ThreadTypes, Threads
<1>2. k \in Nat /\ k > 0
  BY Lengths, EmptySeq
<1>3. Settled' = Settled + k /\ Settled' \in (Settled + 1)..received
  BY <1>1, <1>2, Lengths DEF Settled, StreamInv
<1>4. Numbers(hand[Poller]) = (Settled + 1)..(Settled + k)
  <2>1. \A i \in 1..k : hand[Poller][i].n = Settled + i
    BY DEF StreamInv
  <2>2. ASSUME NEW n \in (Settled + 1)..(Settled + k)
        PROVE  n \in Numbers(hand[Poller])
    <3>1. n - Settled \in 1..k /\ Settled + (n - Settled) = n
      BY <1>2, Lengths
    <3>2. hand[Poller][n - Settled].n = n
      BY <2>1, <3>1
    <3> QED
      BY <3>1, <3>2 DEF Numbers
  <2>3. ASSUME NEW i \in 1..k
        PROVE  Settled + i \in (Settled + 1)..(Settled + k)
    BY <1>2, Lengths
  <2> QED
    BY <2>1, <2>2, <2>3 DEF Numbers
<1>5. StreamInv'
  <2>1. \A i \in 1..Len(remaining) : remaining[i].n = Settled + k + i
    BY DEF StreamInv
  <2>2. \A i \in 1..Len(remaining') : remaining'[i].n = Settled' + Len(hand'[Poller]) + i
    BY <1>1, <1>2, <1>3, <2>1, Lengths
  <2>3. Len(remaining') + Len(hand'[Poller]) <= received'
    BY <1>1, <1>2, Lengths DEF StreamInv
  <2> QED
    BY <1>1, <2>2, <2>3 DEF StreamInv
<1>6. Stream!Refuse
  BY <1>1, <1>3, <1>4, Lengths DEF Stream!Refuse, Settled
<1> QED
  BY <1>5, <1>6

\* The next packet goes from the leftovers to the hand.
LEMMA PopIsStill ==
    ASSUME OnePoller, TypeOK, StreamInv, hand[Poller] = <<>>, remaining # <<>>,
           Goto(Poller, "p_handle"),
           hand' = [hand EXCEPT ![Poller] = <<Head(remaining)>>],
           remaining' = Tail(remaining), UNCHANGED <<delivered, reported, received>>
    PROVE  StreamInv' /\ UNCHANGED Stream!vars
<1>1. /\ Len(remaining) > 0 /\ Len(remaining') = Len(remaining) - 1
      /\ Head(remaining) = remaining[1]
      /\ \A i \in 1..Len(remaining') : remaining'[i] = remaining[i + 1]
  BY Lengths, EmptySeq, HeadTailProperties
<1>2. /\ hand'[Poller] = <<Head(remaining)>> /\ Len(hand'[Poller]) = 1 /\ Len(hand[Poller]) = 0
      /\ hand'[Poller][1] = remaining[1] /\ pc'[Poller] = "p_handle"
  BY <1>1, Lengths DEF Goto, TypeOK, ThreadTypes, Threads
<1>3. Settled' = Settled
  BY <1>1, <1>2, Lengths DEF Settled
<1>4. \A i \in 1..Len(remaining) : remaining[i].n = Settled + i
  BY <1>2, Lengths DEF StreamInv
<1>5. \A i \in 1..Len(hand'[Poller]) : hand'[Poller][i].n = Settled' + i
  BY <1>1, <1>2, <1>3, <1>4
<1>6. \A i \in 1..Len(remaining') : remaining'[i].n = Settled' + Len(hand'[Poller]) + i
  <2> SUFFICES ASSUME NEW i \in 1..Len(remaining')
               PROVE  remaining'[i].n = Settled + 1 + i
    BY <1>2, <1>3
  <2>1. i + 1 \in 1..Len(remaining) /\ remaining'[i] = remaining[i + 1]
    BY <1>1, Lengths
  <2>2. remaining[i + 1].n = Settled + (i + 1)
    BY <1>4, <2>1
  <2> QED
    BY <2>1, <2>2, Lengths
<1>7. StreamInv'
  BY <1>1, <1>2, <1>5, <1>6, Lengths DEF StreamInv
<1> QED
  BY <1>3, <1>7 DEF Stream!vars, Settled

\* The rest of a payload goes from the hand to the leftovers.
LEMMA StoreIsStill ==
    ASSUME OnePoller, TypeOK, StreamInv, hand[Poller] # <<>>, remaining = <<>>,
           Goto(Poller, "p_handle"),
           hand' = [hand EXCEPT ![Poller] = <<Head(hand[Poller])>>],
           remaining' = Tail(hand[Poller]), UNCHANGED <<delivered, reported, received>>
    PROVE  StreamInv' /\ UNCHANGED Stream!vars
<1> DEFINE s == hand[Poller]
<1>0. s \in Seq(Packet) /\ s # <<>> /\ Len(s) \in Nat
  BY Lengths
<1>1. /\ Len(s) > 0 /\ Len(remaining') = Len(s) - 1 /\ Len(remaining) = 0
      /\ Head(s) = s[1]
      /\ \A i \in 1..Len(remaining') : remaining'[i] = s[i + 1]
  BY <1>0, EmptySeq, HeadTailProperties
<1>2. /\ hand'[Poller] = <<Head(s)>> /\ Len(hand'[Poller]) = 1
      /\ hand'[Poller][1] = s[1] /\ pc'[Poller] = "p_handle"
  BY <1>1, Lengths DEF Goto, TypeOK, ThreadTypes, Threads
<1>3. Settled' = Settled
  BY <1>0, <1>1, <1>2, Lengths DEF Settled
<1>4. \A i \in 1..Len(s) : s[i].n = Settled + i
  BY DEF StreamInv
<1>5. \A i \in 1..Len(hand'[Poller]) : hand'[Poller][i].n = Settled' + i
  BY <1>0, <1>1, <1>2, <1>3, <1>4
<1>6. \A i \in 1..Len(remaining') : remaining'[i].n = Settled' + Len(hand'[Poller]) + i
  <2> SUFFICES ASSUME NEW i \in 1..Len(remaining')
               PROVE  remaining'[i].n = Settled + 1 + i
    BY <1>2, <1>3
  <2>1. i + 1 \in 1..Len(s) /\ remaining'[i] = s[i + 1]
    BY <1>0, <1>1
  <2>2. s[i + 1].n = Settled + (i + 1)
    BY <1>4, <2>1
  <2> QED
    BY <2>1, <2>2, Lengths
<1>7. Len(remaining') + Len(hand'[Poller]) <= received'
  BY <1>0, <1>1, <1>2, Lengths DEF StreamInv
<1>8. StreamInv'
  BY <1>2, <1>5, <1>6, <1>7 DEF StreamInv
<1> QED
  BY <1>3, <1>8 DEF Stream!vars, Settled

\* A payload that arrives is fetched.
LEMMA RecvIsFetch ==
    ASSUME OnePoller, TypeOK, StreamInv, hand[Poller] = <<>>, remaining = <<>>,
           NEW k \in 1..MaxBatch, NEW ids \in [1..k -> ServerIds],
           hand' = [hand EXCEPT ![Poller] =
                      [i \in 1..k |-> [n |-> received + i, id |-> ids[i]]]],
           received' = received + k, UNCHANGED <<remaining, delivered, reported>>
    PROVE  StreamInv' /\ Stream!Fetch
<1>1. hand'[Poller] = [i \in 1..k |-> [n |-> received + i, id |-> ids[i]]]
  BY Lengths DEF TypeOK, ThreadTypes
<1>2. k \in Nat /\ k > 0 /\ Len(remaining) = 0 /\ Len(hand[Poller]) = 0
  OBVIOUS
<1>3. Len(hand'[Poller]) = k /\ \A i \in 1..k : hand'[Poller][i].n = received + i
  BY <1>1, <1>2
<1>4. Settled = received /\ Settled' = received
  BY <1>2, <1>3, Lengths DEF Settled
<1>5. StreamInv'
  BY <1>2, <1>3, <1>4, Lengths DEF StreamInv
<1>6. Stream!Fetch
  BY <1>2, <1>4, Lengths DEF Stream!Fetch, Settled
<1> QED
  BY <1>5, <1>6

\* Nothing that the stream is made of changes.
LEMMA NothingMoves ==
    ASSUME StreamInv, UNCHANGED <<received, remaining, delivered, reported>>,
           hand'[Poller] = hand[Poller],
           pc'[Poller] \in {"p_recv", "p_parse"} =>
               pc[Poller] \in {"p_recv", "p_parse"} \/ remaining = <<>>
    PROVE  StreamInv' /\ UNCHANGED Stream!vars
<1>1. Settled' = Settled
  BY DEF Settled
<1>2. StreamInv'
  BY <1>1 DEF StreamInv
<1> QED
  BY <1>1, <1>2 DEF Stream!vars, Settled

\* What follows an emit() of the poller or of a user.
LEMMA AfterEmitMoves ==
    ASSUME OnePoller, TypeOK, StreamInv, NEW t \in Threads, NEW ok \in BOOLEAN,
           pc[t] \in {"e_check", "e_send"}, AfterEmit(t, ok),
           UNCHANGED <<remaining, received>>
    PROVE  StreamInv' /\ (Stream!Next \/ UNCHANGED Stream!vars)
<1>1. CASE t \in Pollers
  <2>1. t = Poller /\ Len(hand[Poller]) = 1 /\ hand[Poller] # <<>>
    <3>1. t = Poller /\ Len(hand[Poller]) = 1
      BY <1>1 DEF OnePoller, TypeOK, Places, InPlace
    <3> QED
      BY <3>1, EmptySeq
  <2> QED
    BY <1>1, <2>1, ReturnIsNext, GiveUpIsRefuse DEF AfterEmit, Stream!Next
<1>2. CASE t \notin Pollers
  <2>1. UNCHANGED <<hand, delivered, reported>> /\ pc'[Poller] = pc[Poller]
    BY <1>2, Lengths DEF AfterEmit, Goto, TypeOK, ThreadTypes, Threads
  <2> QED
    BY <2>1, NothingMoves
<1> QED
  BY <1>1, <1>2

\* Every step is a step of PacketStream or none.
LEMMA StreamSteps ==
    ASSUME OnePoller, TypeOK, StreamInv, [Next]_vars
    PROVE  StreamInv' /\ (Stream!Next \/ UNCHANGED Stream!vars)
<1>0. /\ Poller \in Pollers /\ Poller \in Threads /\ Poller \notin Users
      /\ \A p \in Pollers : p = Poller
      /\ InPlace(Poller)
  BY Lengths DEF OnePoller, Threads, TypeOK, Places
<1>1. ASSUME NEW t \in Threads, NEW label, Goto(t, label)
      PROVE  pc'[Poller] = IF t = Poller THEN label ELSE pc[Poller]
  BY <1>0, <1>1 DEF Goto, TypeOK, ThreadTypes
<1>2. ASSUME NEW p \in Pollers, Poll(p) \/ PollCheck(p)
      PROVE  StreamInv' /\ (Stream!Next \/ UNCHANGED Stream!vars)
  BY <1>0, <1>1, <1>2, NothingMoves DEF Poll, PollCheck
<1>3. ASSUME NEW p \in Pollers, PollNext(p)
      PROVE  StreamInv' /\ (Stream!Next \/ UNCHANGED Stream!vars)
  <2>1. CASE remaining = <<>>
    BY <1>0, <1>1, <1>3, <2>1, NothingMoves DEF PollNext
  <2>2. CASE remaining # <<>>
    BY <1>0, <1>3, <2>2, PopIsStill DEF PollNext, InPlace
  <2> QED
    BY <2>1, <2>2
<1>4. ASSUME NEW p \in Pollers, PollRecv(p)
      PROVE  StreamInv' /\ (Stream!Next \/ UNCHANGED Stream!vars)
  <2>1. pc[Poller] = "p_recv" /\ remaining = <<>> /\ hand[Poller] = <<>>
        /\ UNCHANGED <<remaining, delivered, reported>>
    BY <1>0, <1>4 DEF PollRecv, StreamInv, InPlace
  <2>2. CASE UNCHANGED <<hand, received>>
    BY <2>1, <2>2, NothingMoves
  <2>3. CASE ~UNCHANGED <<hand, received>>
    <3>1. PICK k \in 1..MaxBatch :
            /\ \E ids \in [1..k -> ServerIds] :
                 hand' = [hand EXCEPT ![p] =
                            [i \in 1..k |-> [n |-> received + i, id |-> ids[i]]]]
            /\ received' = received + k
      BY <1>4, <2>3 DEF PollRecv
    <3> QED
      BY <1>0, <2>1, <3>1, RecvIsFetch DEF Stream!Next
  <2> QED
    BY <2>2, <2>3
<1>5. ASSUME NEW p \in Pollers, PollParse(p)
      PROVE  StreamInv' /\ (Stream!Next \/ UNCHANGED Stream!vars)
  <2>1. hand[Poller] # <<>> /\ remaining = <<>> /\ UNCHANGED received
    BY <1>0, <1>5 DEF PollParse, StreamInv, InPlace
  <2>2. CASE GiveUp(p, "idle") /\ UNCHANGED remaining
    BY <1>0, <2>1, <2>2, GiveUpIsRefuse DEF Stream!Next
  <2>3. CASE ~(GiveUp(p, "idle") /\ UNCHANGED remaining)
    BY <1>0, <1>5, <2>1, <2>3, StoreIsStill DEF PollParse
  <2> QED
    BY <2>2, <2>3
<1>6. ASSUME NEW p \in Pollers, HandlePlain(p) \/ HandleClose(p)
      PROVE  StreamInv' /\ (Stream!Next \/ UNCHANGED Stream!vars)
  <2>1. Len(hand[Poller]) = 1 /\ Return(Poller) /\ UNCHANGED <<remaining, received>>
    BY <1>0, <1>6 DEF HandlePlain, HandleClose, InPlace
  <2> QED
    BY <2>1, ReturnIsNext DEF Stream!Next
<1>7. ASSUME NEW p \in Pollers, HandlePing(p)
      PROVE  StreamInv' /\ (Stream!Next \/ UNCHANGED Stream!vars)
  BY <1>0, <1>1, <1>7, NothingMoves DEF HandlePing
<1>8. ASSUME NEW p \in Pollers, HandleUnreachable(p)
      PROVE  StreamInv' /\ (Stream!Next \/ UNCHANGED Stream!vars)
  <2>1. Len(hand[Poller]) = 1 /\ GiveUp(Poller, "panicked") /\ UNCHANGED <<remaining, received>>
    BY <1>0, <1>8 DEF HandleUnreachable, InPlace
  <2>2. hand[Poller] # <<>>
    BY <2>1, EmptySeq
  <2> QED
    BY <2>1, <2>2, GiveUpIsRefuse DEF Stream!Next
<1>9. ASSUME NEW u \in Users, UserCall(u) \/ DisconnectStore(u)
      PROVE  StreamInv' /\ (Stream!Next \/ UNCHANGED Stream!vars)
  <2>1. /\ UNCHANGED <<received, remaining, hand, delivered, reported>>
        /\ \E label : Goto(u, label)
    BY <1>9 DEF UserCall, Connect, Emit, Disconnect, Start, DisconnectStore
  <2>2. pc'[Poller] = pc[Poller]
    BY <1>0, <1>1, <2>1 DEF Threads
  <2> QED
    BY <2>1, <2>2, NothingMoves
<1>10. ASSUME NEW t \in Threads, EmitStep(t)
       PROVE  StreamInv' /\ (Stream!Next \/ UNCHANGED Stream!vars)
  <2>1. CASE EmitCheck(t) /\ connected
    BY <1>1, <2>1, NothingMoves DEF EmitCheck
  <2>2. CASE (EmitCheck(t) /\ ~connected) \/ EmitSend(t)
    BY <2>2, AfterEmitMoves DEF EmitCheck, EmitSend
  <2> QED
    BY <1>10, <2>1, <2>2 DEF EmitStep
<1>11. CASE LinkChange \/ UNCHANGED vars
  BY <1>11, NothingMoves DEF LinkChange, vars
<1> QED
  BY <1>2, <1>3, <1>4, <1>5, <1>6, <1>7, <1>8, <1>9, <1>10, <1>11 DEF Next, PollerStep

\* With one polling thread the socket is a stream of packets, in order, each once,
\* none lost silently, whatever other threads send, connect and disconnect.
THEOREM Streams == ASSUME OnePoller PROVE Spec => StreamSpec
<1>1. Init => StreamInv /\ Stream!Init
  <2> SUFFICES ASSUME Init PROVE StreamInv /\ Stream!Init
    OBVIOUS
  <2>1. /\ received = 0 /\ remaining = <<>> /\ hand[Poller] = <<>> /\ delivered = <<>>
        /\ reported = {} /\ pc[Poller] = "idle"
    BY DEF Init, OnePoller, Threads
  <2>2. Len(remaining) = 0 /\ Len(hand[Poller]) = 0
    BY <2>1
  <2>3. Settled = 0
    <3>1. Len(remaining) + Len(hand[Poller]) = 0
      BY <2>2
    <3>2. received - 0 = 0
      BY <2>1
    <3> QED
      BY <3>1, <3>2 DEF Settled
  <2> QED
    BY <2>1, <2>2, <2>3 DEF StreamInv, Stream!Init, Settled
<1>2. TypeOK /\ StreamInv /\ [Next]_vars => StreamInv' /\ [Stream!Next]_(Stream!vars)
  BY StreamSteps
<1> QED
  BY <1>1, <1>2, Typing, PTL DEF Spec, StreamSpec, Stream!Spec
=============================================================================
