------------------------- MODULE SocketFramesProofs -------------------------
(***************************************************************************)
(* What is proved of the socket.io Socket for any number of threads that   *)
(* send and disconnect, and any number and size of packets.                *)
(***************************************************************************)
EXTENDS SocketFrames, TLAPS, SequenceTheorems

USE ThreadsAssumption, SizesAssumption, ServerTypesAssumption, BoundsAssumption

\* What poll() holds is told apart by its kind.
LEMMA Kinds ==
    ASSUME hand \in Header \cup Data \cup Control
    PROVE  /\ hand.kind = "Header" => hand \in Header
           /\ hand.kind = "Data" => hand \in Data
           /\ hand.kind \in {"Header", "Data"} => hand.n \in Nat
BY DEF Header, Data, Control

\* The control results are no messages.
LEMMA Controls ==
    /\ Nothing \in Control /\ Failure \in Control
    /\ NoHeader \notin Header
    /\ Empty \in Outgoing
BY DEF Nothing, Failure, NoHeader, Empty, Plain, Control, Header, Outgoing

\* A thread that goes to another place keeps the types.
LEMMA GotoTypes ==
    ASSUME pc \in [Threads -> PC], NEW t \in Threads, NEW label \in PC,
           Goto(t, label)
    PROVE  /\ pc' \in [Threads -> PC]
           /\ pc'[t] = label
           /\ \A u \in Threads : u # t => pc'[u] = pc[u]
BY DEF Goto

\* A thread that has nothing more to emit keeps the types.
LEMMA LeaveTypes ==
    ASSUME out \in [Threads -> Outgoing], NEW t \in Threads, NEW label,
           Leave(t, label)
    PROVE  /\ out' \in [Threads -> Outgoing]
           /\ out'[t] = Empty
           /\ \A u \in Threads : u # t => out'[u] = out[u]
           /\ Goto(t, label)
BY Controls DEF Leave

\* A failed poll() keeps the types.
LEMMA FailTypes ==
    ASSUME TypeOK, NEW numbers \in SUBSET Nat, Fail(numbers), UNCHANGED handleFrame
    PROVE  TypeOK'
<1>1. Poller \in Threads /\ "idle" \in PC
  BY DEF Threads, PC
<1>2. pc' \in [Threads -> PC]
  BY <1>1, GotoTypes DEF Fail, Continue, TypeOK, SharedTypes
<1>3. SharedTypes'
  BY <1>2 DEF TypeOK, SharedTypes, Fail, handleFrame, outVars
<1>4. PollTypes'
  BY Controls, EmptySeq DEF TypeOK, PollTypes, Fail, Continue, handleFrame
<1>5. Places'
  BY DEF TypeOK, Places, Fail, Continue, handleFrame, outVars, Collecting
<1> QED
  BY <1>3, <1>4, <1>5 DEF TypeOK

\* A control frame is counted.
LEMMA ControlCounted ==
    ASSUME NEW s \in [packets : 0..MaxPackets, frames : Nat,
                      controls : 0..MaxControls, closed : BOOLEAN],
           s.controls < MaxControls
    PROVE  [s EXCEPT !.controls = @ + 1]
             \in [packets : 0..MaxPackets, frames : Nat,
                  controls : 0..MaxControls, closed : BOOLEAN]
<1>1. s.controls + 1 \in 0..MaxControls
  BY BoundsAssumption
<1> QED
  BY <1>1

\* A poll() that goes on keeps the types.
LEMMA ContinueTypes ==
    ASSUME TypeOK, Continue("ask"), UNCHANGED <<connected, delivered, failed>>,
           UNCHANGED handleFrame,
           header' \in Header \cup {NoHeader}, attachments' \in Seq(Header \cup Data),
           IF header' # NoHeader THEN Len(attachments') < header'.size
                                 ELSE attachments' = <<>>
    PROVE  TypeOK'
<1>1. Poller \in Threads /\ "ask" \in PC
  BY DEF Threads, PC
<1>2. pc' \in [Threads -> PC]
  BY <1>1, GotoTypes DEF Continue, TypeOK, SharedTypes
<1>3. SharedTypes'
  BY <1>2 DEF TypeOK, SharedTypes, handleFrame, outVars
<1>4. PollTypes'
  BY Controls DEF TypeOK, PollTypes, Continue, handleFrame
<1>5. Places'
  BY DEF TypeOK, Places, Continue, handleFrame, outVars, Collecting
<1> QED
  BY <1>3, <1>4, <1>5 DEF TypeOK

\* A packet that is returned keeps the types.
LEMMA DeliverTypes ==
    ASSUME TypeOK, NEW h \in Header, NEW parts \in Seq(Header \cup Data),
           Deliver(h, parts), UNCHANGED handleFrame
    PROVE  TypeOK'
<1>1. Poller \in Threads /\ "idle" \in PC
  BY DEF Threads, PC
<1>2. pc' \in [Threads -> PC]
  BY <1>1, GotoTypes DEF Deliver, Continue, TypeOK, SharedTypes
<1>3. connected' \in BOOLEAN
  BY DEF Deliver, TypeOK, SharedTypes
<1>4. SharedTypes'
  BY <1>2, <1>3 DEF TypeOK, SharedTypes, handleFrame, outVars
<1>5. [n |-> h.n, size |-> h.size, parts |-> parts] \in Returned
  BY DEF Returned, Header
<1>6. delivered' \in Seq(Returned)
  BY <1>5, AppendProperties DEF Deliver, TypeOK, PollTypes
<1>7. PollTypes'
  BY <1>6, Controls, EmptySeq DEF TypeOK, PollTypes, Deliver, Continue, handleFrame
<1>8. Places'
  BY DEF TypeOK, Places, Deliver, Continue, handleFrame, outVars, Collecting
<1> QED
  BY <1>4, <1>7, <1>8 DEF TypeOK

\* What follows an emit() keeps the types.
LEMMA AfterEmitTypes ==
    ASSUME TypeOK, NEW t \in Threads, NEW ok \in BOOLEAN,
           pc[t] \in {"e_check", "e_send"}, AfterEmit(t, ok),
           wire' \in Seq(Outgoing),
           UNCHANGED <<engine, connected, opened, sends, stopped, late, accepted,
                       intact, header, attachments, server, delivered, failed>>
    PROVE  TypeOK'
<1> USE DEF TypeOK
<1>1. pc \in [Threads -> PC] /\ out \in [Threads -> Outgoing]
  BY DEF SharedTypes
<1>2. CASE out[t].kind = "Close" /\ Leave(t, "d_store") /\ UNCHANGED <<hand, cut>>
  <2>1. pc' \in [Threads -> PC] /\ out' \in [Threads -> Outgoing]
    BY <1>1, <1>2, GotoTypes, LeaveTypes DEF PC
  <2>2. SharedTypes' /\ PollTypes'
    BY <1>2, <2>1 DEF SharedTypes, PollTypes
  <2>3. Places'
    BY <1>1, <1>2 DEF Places, Leave, Goto, Empty, Plain, Collecting, Threads
  <2> QED
    BY <2>2, <2>3
<1>3. CASE /\ out[t].kind = "Pong" /\ Leave(t, "got")
           /\ hand' = IF ok THEN [kind |-> "Ping"] ELSE Failure
           /\ UNCHANGED cut
  <2>1. pc' \in [Threads -> PC] /\ out' \in [Threads -> Outgoing]
    BY <1>1, <1>3, GotoTypes, LeaveTypes DEF PC
  <2>2. hand' \in Control
    BY <1>3, Controls DEF Control
  <2>3. SharedTypes' /\ PollTypes'
    BY <1>3, <2>1, <2>2 DEF SharedTypes, PollTypes
  <2>4. t = Poller /\ intact
    BY <1>3 DEF Places
  <2>5. Places'
    BY <1>1, <1>3, <2>4 DEF Places, Leave, Goto, Empty, Plain, Collecting
  <2> QED
    BY <2>3, <2>5
<1>4. CASE /\ out[t].kind \in {"Message", "Disconnect"}
           /\ IF ok /\ out[t].i < out[t].size
              THEN Goto(t, "e_check") /\ out' = [out EXCEPT ![t].i = @ + 1]
              ELSE Leave(t, AfterSend(t))
           /\ cut' = IF ok THEN cut ELSE cut \cup {out[t].n}
           /\ UNCHANGED hand
  <2>0. AfterSend(t) \in PC /\ AfterSend(t) # "got"
    BY DEF AfterSend, PC
  <2>1. pc' \in [Threads -> PC]
    BY <1>1, <1>4, <2>0, GotoTypes, LeaveTypes DEF PC
  <2>2. out' \in [Threads -> Outgoing]
    <3>1. CASE out' = [out EXCEPT ![t].i = @ + 1]
      <4>1. out[t] \in Outgoing
        BY <1>1
      <4>2. out[t].i + 1 \in Nat
        BY <4>1 DEF Outgoing
      <4>3. [out[t] EXCEPT !.i = out[t].i + 1] \in Outgoing
        BY <4>1, <4>2, Zenon DEF Outgoing
      <4> QED
        BY <1>1, <3>1, <4>3
    <3>2. CASE Leave(t, AfterSend(t))
      BY <1>1, <3>2, LeaveTypes
    <3> QED
      BY <1>4, <3>1, <3>2
  <2>7. cut' \subseteq Nat
    <3>1. out[t].n \in Nat
      BY <1>1 DEF Outgoing
    <3> QED
      BY <1>4, <3>1 DEF SharedTypes
  <2>3. SharedTypes' /\ PollTypes'
    BY <1>4, <2>1, <2>2, <2>7 DEF SharedTypes, PollTypes
  <2>4. \A u \in Threads : out'[u].kind = "Pong" => out[u].kind = "Pong"
    <3>1. CASE out' = [out EXCEPT ![t].i = @ + 1]
      BY <1>1, <3>1 DEF Outgoing
    <3>2. CASE Leave(t, AfterSend(t))
      BY <1>1, <3>2 DEF Leave, Empty, Plain
    <3> QED
      BY <1>4, <3>1, <3>2
  <2>5. pc'[Poller] # "got" => hand = Nothing /\ intact
    BY <1>1, <1>4, <2>0 DEF Places, Leave, Goto, Threads
  <2>6. Places'
    BY <1>4, <2>4, <2>5 DEF Places, Collecting
  <2> QED
    BY <2>3, <2>6
<1> QED
  BY <1>2, <1>3, <1>4 DEF AfterEmit

\* A send() that begins keeps the types.
LEMMA BeginTypes ==
    ASSUME TypeOK, NEW t \in Threads, NEW frame \in Outgoing, frame.kind # "Pong",
           BeginSend(t, frame)
    PROVE  TypeOK'
<1> USE DEF TypeOK
<1>1. pc \in [Threads -> PC] /\ out \in [Threads -> Outgoing]
  BY DEF SharedTypes
<1>2. pc' \in [Threads -> PC] /\ out' \in [Threads -> Outgoing]
  BY <1>1, GotoTypes DEF BeginSend, PC
<1>3. SharedTypes' /\ PollTypes'
  BY <1>2 DEF SharedTypes, PollTypes, BeginSend, inVars
<1>4. Places'
  BY <1>1 DEF Places, Collecting, BeginSend, Goto, inVars
<1> QED
  BY <1>3, <1>4

\* Socket::poll, send and disconnect: every variable keeps its type, and what the
\* polling thread holds fits the place where it is.
THEOREM Typing == Spec => []TypeOK
<1>1. ASSUME Init PROVE TypeOK
  <2>1. SharedTypes
    <3>1. wire \in Seq(Outgoing)
      BY <1>1, EmptySeq DEF Init
    <3>2. pc \in [Threads -> PC] /\ out \in [Threads -> Outgoing]
      BY <1>1, Controls DEF Init, PC
    <3> QED
      BY <1>1, <3>1, <3>2 DEF Init, SharedTypes
  <2>2. PollTypes
    BY <1>1, Controls, EmptySeq DEF Init, PollTypes
  <2>3. Places
    BY <1>1 DEF Init, Places, Collecting, Empty, Plain
  <2> QED
    BY <2>1, <2>2, <2>3 DEF TypeOK
<1>2. TypeOK /\ [Next]_vars => TypeOK'
  <2> SUFFICES ASSUME TypeOK, [Next]_vars
               PROVE  TypeOK'
    OBVIOUS
  <2> USE DEF TypeOK
  <2>0. /\ pc \in [Threads -> PC] /\ out \in [Threads -> Outgoing]
        /\ hand \in Header \cup Data \cup Control
        /\ Poller \in Threads /\ Senders \subseteq Threads /\ Closers \subseteq Threads
        /\ Users \subseteq Threads
        /\ \A t \in Senders \cup Closers : t # Poller
        /\ server.packets \in Nat /\ server.frames \in Nat /\ server.controls \in Nat
    BY DEF SharedTypes, PollTypes, Threads, Users
  <2>1. ASSUME Connect
        PROVE  TypeOK'
    <3>1. SharedTypes'
      BY <2>0, <2>1 DEF SharedTypes, Connect, inVars, outVars
    <3>2. PollTypes'
      BY <2>0, <2>1 DEF PollTypes, Connect, inVars, outVars
    <3>3. Places'
      BY <2>0, <2>1 DEF Places, Collecting, Connect, inVars, outVars
    <3> QED
      BY <3>1, <3>2, <3>3
  <2>2. ASSUME NEW s \in Senders, Send(s)
        PROVE  TypeOK'
    <3>1. PICK k \in Sizes : BeginSend(s, Message(sends + 1, k))
      BY <2>2 DEF Send
    <3>2. sends \in Nat /\ k \in Nat
      BY DEF SharedTypes
    <3>3. Message(sends + 1, k) \in Outgoing /\ Message(sends + 1, k).kind # "Pong"
      BY <3>2 DEF Outgoing, Message
    <3> QED
      BY <2>0, <3>1, <3>3, BeginTypes
  <2>3. ASSUME NEW s \in Users, SendCheckEngine(s)
        PROVE  TypeOK'
    <3>1. pc' \in [Threads -> PC] /\ out' \in [Threads -> Outgoing]
      BY <2>0, <2>3, GotoTypes, LeaveTypes, Controls DEF SendCheckEngine, AfterSend, PC
    <3>2. SharedTypes'
      BY <2>0, <2>3, <3>1 DEF SharedTypes, SendCheckEngine, outVars, Outgoing
    <3>3. PollTypes'
      BY <2>3 DEF PollTypes, SendCheckEngine, inVars
    <3>4. Places'
      BY <2>0, <2>3 DEF Places, Collecting, SendCheckEngine, AfterSend, Leave, Goto, Empty, Plain, inVars, outVars
    <3> QED
      BY <3>2, <3>3, <3>4
  <2>4. ASSUME NEW s \in Users, SendCheckSocket(s)
        PROVE  TypeOK'
    <3>1. pc' \in [Threads -> PC] /\ out' \in [Threads -> Outgoing]
      BY <2>0, <2>4, GotoTypes, LeaveTypes, Controls DEF SendCheckSocket, AfterSend, PC
    <3>2. out[s].n \in Nat
      BY <2>0 DEF Outgoing
    <3>3. SharedTypes'
      BY <2>0, <2>4, <3>1, <3>2 DEF SharedTypes, SendCheckSocket, outVars, Outgoing
    <3>4. PollTypes'
      BY <2>4 DEF PollTypes, SendCheckSocket, inVars
    <3>5. Places'
      BY <2>0, <2>4 DEF Places, Collecting, SendCheckSocket, AfterSend, Leave, Goto, Empty, Plain, inVars, outVars
    <3> QED
      BY <3>3, <3>4, <3>5
  <2>5. ASSUME NEW c \in Closers, Disconnect(c)
        PROVE  TypeOK'
    <3>1. sends \in Nat
      BY DEF SharedTypes
    <3>2. Farewell(sends + 1) \in Outgoing /\ Farewell(sends + 1).kind # "Pong"
      BY <3>1 DEF Outgoing, Farewell
    <3> QED
      BY <2>0, <2>5, <3>2, BeginTypes DEF Disconnect
  <2>6. ASSUME NEW c \in Closers, DisconnectStore(c)
        PROVE  TypeOK'
    <3>1. pc' \in [Threads -> PC] /\ out' \in [Threads -> Outgoing]
      BY <2>0, <2>6, GotoTypes, LeaveTypes, Controls DEF DisconnectStore, PC, outVars
    <3>2. SharedTypes'
      BY <2>0, <2>6, <3>1 DEF SharedTypes, DisconnectStore, outVars, Outgoing
    <3>3. PollTypes'
      BY <2>6 DEF PollTypes, DisconnectStore, inVars
    <3>4. Places'
      BY <2>0, <2>6 DEF Places, Collecting, DisconnectStore, Goto, inVars, outVars
    <3> QED
      BY <3>2, <3>3, <3>4
  <2>7. ASSUME NEW c \in Closers, DisconnectFlag(c)
        PROVE  TypeOK'
    <3>1. pc' \in [Threads -> PC] /\ out' \in [Threads -> Outgoing]
      BY <2>0, <2>7, GotoTypes, LeaveTypes, Controls DEF DisconnectFlag, PC, outVars
    <3>2. SharedTypes'
      BY <2>0, <2>7, <3>1 DEF SharedTypes, DisconnectFlag, outVars, Outgoing
    <3>3. PollTypes'
      BY <2>7 DEF PollTypes, DisconnectFlag, inVars
    <3>4. Places'
      BY <2>0, <2>7 DEF Places, Collecting, DisconnectFlag, Goto, inVars, outVars
    <3> QED
      BY <3>2, <3>3, <3>4
  <2>8. ASSUME NEW t \in Threads, EmitCheck(t)
        PROVE  TypeOK'
    <3>1. CASE engine
      <4>1. pc' \in [Threads -> PC]
        BY <2>0, <2>8, <3>1, GotoTypes DEF EmitCheck, PC
      <4>2. SharedTypes' /\ PollTypes'
        BY <2>8, <3>1, <4>1 DEF SharedTypes, PollTypes, EmitCheck
      <4>3. Places'
        BY <2>0, <2>8, <3>1 DEF Places, Collecting, EmitCheck, Goto
      <4> QED
        BY <4>2, <4>3
    <3>2. CASE ~engine
      <4>1. wire \in Seq(Outgoing)
        BY DEF SharedTypes
      <4> QED
        BY <2>0, <2>8, <3>2, <4>1, AfterEmitTypes DEF EmitCheck
    <3> QED
      BY <3>1, <3>2
  <2>9. ASSUME NEW t \in Threads, EmitSend(t)
        PROVE  TypeOK'
    <3>1. wire' \in Seq(Outgoing)
      BY <2>0, <2>9, AppendProperties DEF EmitSend, SharedTypes
    <3> QED
      BY <2>0, <2>9, <3>1, AfterEmitTypes DEF EmitSend
  <2>10. ASSUME Poll
         PROVE  TypeOK'
    <3>1. pc' \in [Threads -> PC] /\ out' \in [Threads -> Outgoing]
      BY <2>0, <2>10, GotoTypes, LeaveTypes, Controls DEF Poll, PC, outVars
    <3>2. SharedTypes'
      BY <2>0, <2>10, <3>1 DEF SharedTypes, Poll, outVars, Outgoing
    <3>3. PollTypes'
      BY <2>10 DEF PollTypes, Poll, inVars
    <3>4. Places'
      BY <2>0, <2>10 DEF Places, Collecting, Poll, Goto, inVars, outVars
    <3> QED
      BY <3>2, <3>3, <3>4
  <2>11. ASSUME Ask
         PROVE  TypeOK'
    <3>1. pc' \in [Threads -> PC]
      BY <2>0, <2>11, GotoTypes DEF Ask, PC
    <3>2. SharedTypes'
      BY <2>0, <2>11, <3>1 DEF SharedTypes, Ask, outVars
    <3>3. PollTypes'
      BY <2>11, Controls DEF PollTypes, Ask
    <3>4. Places'
      BY <2>0, <2>11 DEF Places, Collecting, Ask, Goto, outVars
    <3> QED
      BY <3>2, <3>3, <3>4
  <2>12. ASSUME ReceiveHeader
         PROVE  TypeOK'
    <3>1. pc' \in [Threads -> PC] /\ SharedTypes'
      BY <2>0, <2>12, GotoTypes DEF SharedTypes, ReceiveHeader, Receive, PC, outVars
    <3>2. hand' \in Header \cup Data \cup Control /\ (~intact' => hand'.kind \in {"Header", "Data"})
          /\ intact' \in BOOLEAN
      BY <2>0, <2>12, Controls DEF ReceiveHeader, Receive, Header, Data, Control
    <3>3. server' \in [packets : 0..MaxPackets, frames : Nat,
                       controls : 0..MaxControls, closed : BOOLEAN]
      <4>1. PICK k \in ServerSizes :
              server' = [server EXCEPT !.packets = @ + 1, !.frames = k]
        BY <2>12 DEF ReceiveHeader
      <4>2. server.packets + 1 \in 0..MaxPackets /\ k \in Nat
        BY <2>0, <2>12 DEF ReceiveHeader
      <4> QED
        BY <4>1, <4>2 DEF PollTypes
    <3>4. PollTypes'
      BY <2>12, <3>2, <3>3 DEF PollTypes, ReceiveHeader, Receive
    <3>5. Places'
      BY <2>0, <2>12, <3>2 DEF Places, Collecting, ReceiveHeader, Receive, Goto, outVars
    <3> QED
      BY <3>1, <3>4, <3>5
  <2>13. ASSUME ReceiveData
         PROVE  TypeOK'
    <3>1. pc' \in [Threads -> PC] /\ SharedTypes'
      BY <2>0, <2>13, GotoTypes DEF SharedTypes, ReceiveData, Receive, PC, outVars
    <3>2. hand' \in Header \cup Data \cup Control /\ (~intact' => hand'.kind \in {"Header", "Data"})
          /\ intact' \in BOOLEAN
      <4>1. [kind |-> "Data", n |-> server.packets, i |-> server.frames] \in Data
        BY <2>0, <2>13 DEF ReceiveData, Data
      <4> QED
        BY <2>13, <4>1 DEF ReceiveData, Receive
    <3>3. server' \in [packets : 0..MaxPackets, frames : Nat,
                       controls : 0..MaxControls, closed : BOOLEAN]
      BY <2>0, <2>13 DEF ReceiveData, PollTypes
    <3>4. PollTypes'
      BY <2>13, <3>2, <3>3 DEF PollTypes, ReceiveData, Receive
    <3>5. Places'
      BY <2>0, <2>13, <3>2 DEF Places, Collecting, ReceiveData, Receive, Goto, outVars
    <3> QED
      BY <3>1, <3>4, <3>5
  <2>14. ASSUME ReceiveNoop
         PROVE  TypeOK'
    <3>1. pc' \in [Threads -> PC] /\ SharedTypes'
      BY <2>0, <2>14, GotoTypes DEF SharedTypes, ReceiveNoop, Receive, PC, outVars
    <3>2. hand' \in Header \cup Data \cup Control /\ (~intact' => hand'.kind \in {"Header", "Data"})
          /\ intact' \in BOOLEAN
      BY <2>0, <2>14, Controls DEF ReceiveNoop, Receive, Header, Data, Control
    <3>3. server' \in [packets : 0..MaxPackets, frames : Nat,
                       controls : 0..MaxControls, closed : BOOLEAN]
      BY <2>14, ControlCounted DEF ReceiveNoop, PollTypes
    <3>4. PollTypes'
      BY <2>14, <3>2, <3>3 DEF PollTypes, ReceiveNoop, Receive
    <3>5. Places'
      BY <2>0, <2>14, <3>2 DEF Places, Collecting, ReceiveNoop, Receive, Goto, outVars
    <3> QED
      BY <3>1, <3>4, <3>5
  <2>15. ASSUME ReceivePing
         PROVE  TypeOK'
    <3>1. pc' \in [Threads -> PC] /\ out' \in [Threads -> Outgoing]
      BY <2>0, <2>15, GotoTypes DEF ReceivePing, PC, Empty, Plain, Outgoing
    <3>2. SharedTypes'
      BY <2>15, <3>1 DEF SharedTypes, ReceivePing
    <3>3. server' \in [packets : 0..MaxPackets, frames : Nat,
                       controls : 0..MaxControls, closed : BOOLEAN]
      BY <2>15, ControlCounted DEF ReceivePing, PollTypes
    <3>4. PollTypes'
      BY <2>15, <3>3 DEF PollTypes, ReceivePing
    <3>5. Places'
      BY <2>0, <2>15 DEF Places, Collecting, ReceivePing, Goto, Empty, Plain
    <3> QED
      BY <3>2, <3>4, <3>5
  <2>16. ASSUME ReceiveClose
         PROVE  TypeOK'
    <3>1. pc' \in [Threads -> PC] /\ SharedTypes'
      BY <2>0, <2>16, GotoTypes DEF SharedTypes, ReceiveClose, Receive, PC, outVars
    <3>2. hand' \in Header \cup Data \cup Control /\ (~intact' => hand'.kind \in {"Header", "Data"})
          /\ intact' \in BOOLEAN
      BY <2>0, <2>16, Controls DEF ReceiveClose, Receive, Header, Data, Control
    <3>3. server' \in [packets : 0..MaxPackets, frames : Nat,
                       controls : 0..MaxControls, closed : BOOLEAN]
      BY <2>0, <2>16 DEF ReceiveClose, PollTypes
    <3>4. PollTypes'
      BY <2>16, <3>2, <3>3 DEF PollTypes, ReceiveClose, Receive
    <3>5. Places'
      BY <2>0, <2>16, <3>2 DEF Places, Collecting, ReceiveClose, Receive, Goto, outVars
    <3> QED
      BY <3>1, <3>4, <3>5
  <2>17. ASSUME ReceiveFails
         PROVE  TypeOK'
    <3>1. pc' \in [Threads -> PC] /\ SharedTypes'
      BY <2>0, <2>17, GotoTypes DEF SharedTypes, ReceiveFails, Receive, PC, outVars
    <3>2. hand' \in Header \cup Data \cup Control /\ (~intact' => hand'.kind \in {"Header", "Data"})
          /\ intact' \in BOOLEAN
      BY <2>0, <2>17, Controls DEF ReceiveFails, Receive, Header, Data, Control
    <3>3. server' \in [packets : 0..MaxPackets, frames : Nat,
                       controls : 0..MaxControls, closed : BOOLEAN]
      BY <2>0, <2>17 DEF ReceiveFails, PollTypes
    <3>4. PollTypes'
      BY <2>17, <3>2, <3>3 DEF PollTypes, ReceiveFails, Receive
    <3>5. Places'
      BY <2>0, <2>17, <3>2 DEF Places, Collecting, ReceiveFails, Receive, Goto, outVars
    <3> QED
      BY <3>1, <3>4, <3>5
  <2>18. ASSUME HandleNone
         PROVE  TypeOK'
    <3>1. Begun \subseteq Nat
      BY DEF Begun, PollTypes, Collecting, Header
    <3> QED
      BY <2>18, <3>1, FailTypes DEF HandleNone
  <2>19. ASSUME HandleError
         PROVE  TypeOK'
    <3>1. Begun \subseteq Nat
      BY DEF Begun, PollTypes, Collecting, Header
    <3>2. ~intact => hand.n \in Nat
      BY <2>0, Kinds DEF Places
    <3>3. Begun \cup (IF intact THEN {} ELSE {hand.n}) \subseteq Nat
      BY <3>1, <3>2
    <3> QED
      BY <2>19, <3>3, FailTypes DEF HandleError
  <2>20. ASSUME HandleControl
         PROVE  TypeOK'
    <3>1. Begun \subseteq Nat
      BY DEF Begun, PollTypes, Collecting, Header
    <3>2. CASE Collecting
      BY <2>20, <3>1, <3>2, FailTypes DEF HandleControl
    <3>3. CASE ~Collecting
      BY <2>20, <3>3, ContinueTypes DEF HandleControl, PollTypes, Places, Collecting
    <3> QED
      BY <3>2, <3>3
  <2>21. ASSUME HandleHeader
         PROVE  TypeOK'
    <3>1. hand \in Header
      BY <2>0, <2>21, Kinds DEF HandleHeader
    <3>2. CASE hand.size = 0
      BY <2>21, <3>1, <3>2, DeliverTypes, EmptySeq DEF HandleHeader
    <3>3. CASE hand.size # 0
      <4>1. hand.size \in Nat /\ hand # NoHeader
        BY <3>1, Controls DEF Header
      <4>2. attachments = <<>> /\ attachments' = <<>> /\ header' = hand
        BY <2>21, <3>3 DEF HandleHeader, Places
      <4>3. Len(attachments') < header'.size /\ attachments' \in Seq(Header \cup Data)
        BY <3>3, <4>1, <4>2, EmptySeq
      <4> QED
        BY <2>21, <3>1, <3>3, <4>1, <4>2, <4>3, ContinueTypes DEF HandleHeader
    <3> QED
      BY <3>2, <3>3
  <2>22. ASSUME HandleStray
         PROVE  TypeOK'
    <3>1. {hand.n} \subseteq Nat
      BY <2>0, <2>22, Kinds DEF HandleStray
    <3> QED
      BY <2>22, <3>1, FailTypes DEF HandleStray
  <2>23. ASSUME HandleAttachment
         PROVE  TypeOK'
    <3> DEFINE parts == Append(attachments, hand)
    <3>1. hand \in Header \cup Data
      BY <2>0, <2>23, Kinds DEF HandleAttachment
    <3>2. /\ attachments \in Seq(Header \cup Data) /\ header \in Header
          /\ header # NoHeader /\ Len(attachments) < header.size /\ header.size \in Nat
      BY <2>23 DEF HandleAttachment, PollTypes, Places, Collecting, Header
    <3>3. parts \in Seq(Header \cup Data) /\ Len(parts) = Len(attachments) + 1
      BY <3>1, <3>2, AppendProperties
    <3>4. CASE Len(parts) = header.size
      BY <2>23, <3>2, <3>3, <3>4, DeliverTypes DEF HandleAttachment
    <3>5. CASE Len(parts) # header.size
      <4>1. Len(parts) < header.size
        BY <3>2, <3>3, <3>5, LenProperties
      <4>2. header' = header /\ attachments' = parts /\ Continue("ask")
            /\ UNCHANGED <<connected, delivered, failed>> /\ UNCHANGED handleFrame
        BY <2>23, <3>5 DEF HandleAttachment
      <4> QED
        BY <3>2, <3>3, <4>1, <4>2, ContinueTypes
    <3> QED
      BY <3>4, <3>5
  <2>24. ASSUME NEW c \in Closers, DisconnectSocket(c)
         PROVE  TypeOK'
    <3>1. pc' \in [Threads -> PC] /\ out' \in [Threads -> Outgoing]
      BY <2>0, <2>24, GotoTypes, LeaveTypes, Controls DEF DisconnectSocket, PC, Empty, Plain, Outgoing
    <3>2. SharedTypes'
      BY <2>0, <2>24, <3>1 DEF SharedTypes, DisconnectSocket, outVars, Outgoing
    <3>3. PollTypes'
      BY <2>24 DEF PollTypes, DisconnectSocket, inVars
    <3>4. Places'
      BY <2>0, <2>24 DEF Places, Collecting, DisconnectSocket, Goto, Empty, Plain, inVars, outVars
    <3> QED
      BY <3>2, <3>3, <3>4
  <2>25. CASE UNCHANGED vars
    BY <2>25 DEF SharedTypes, PollTypes, Places, Collecting, vars, inVars, outVars
  <2> QED
    BY <2>1, <2>2, <2>3, <2>4, <2>5, <2>6, <2>7, <2>8, <2>9, <2>10, <2>11, <2>12, <2>13, <2>14, <2>15, <2>16, <2>17, <2>18, <2>19, <2>20, <2>21, <2>22, <2>23, <2>24, <2>25
       DEF Next, SendStep, CloseStep, EmitStep, PollStep, Frame, Handle
<1> QED
  BY <1>1, <1>2, PTL DEF Spec

----------------------------------------------------------------------------
\* An emit() moves one thread on, to a place outside send()'s check.
LEMMA EmitMoves ==
    ASSUME TypeOK, NEW t \in Threads, EmitStep(t)
    PROVE  /\ pc[t] \in {"e_check", "e_send"}
           /\ pc'[t] \in {"e_check", "e_send", "d_store", "got", AfterSend(t)}
           /\ \A u \in Threads : u # t => pc'[u] = pc[u] /\ out'[u] = out[u]
           /\ \/ hand' = hand
              \/ t = Poller /\ hand' \in {[kind |-> "Ping"], Failure}
<1>1. pc \in [Threads -> PC] /\ out \in [Threads -> Outgoing]
  BY DEF TypeOK, SharedTypes
<1>2. out[t].kind = "Pong" => t = Poller
  BY DEF TypeOK, Places
<1> QED
  BY <1>1, <1>2 DEF EmitStep, EmitCheck, EmitSend, AfterEmit, Leave, Goto

\* Once a disconnect() has passed the engine.io client, that client is closed for
\* good, so a call that began later finds it so.
RefusedInv ==
    /\ stopped => opened /\ ~engine
    /\ \A c \in Closers : pc[c] # "idle" => opened
    /\ \A c \in Closers : pc[c] = "d_flag" => ~engine
    /\ late # {} => stopped
    /\ accepted \subseteq 1..sends
    /\ \A u \in Users : pc[u] \in {"s_engine", "s_socket"} => out[u].n \in 1..sends
    /\ \A u \in Users : pc[u] = "s_socket" => out[u].n \notin late
    /\ late \cap accepted = {}

\* Socket::send after Socket::disconnect: the flag of the Socket alone would not do,
\* as a Connect packet that was under way sets it again.
THEOREM Refused == Spec => []RefusedAfterDisconnect
<1>1. Init => RefusedInv
  BY DEF Init, RefusedInv, Threads, Users
<1>2. TypeOK /\ RefusedInv /\ [Next]_vars => RefusedInv'
  <2> SUFFICES ASSUME TypeOK, RefusedInv, [Next]_vars
               PROVE  RefusedInv'
    OBVIOUS
  <2>0. /\ pc \in [Threads -> PC] /\ out \in [Threads -> Outgoing]
        /\ sends \in Nat
        /\ Users \subseteq Threads /\ Poller \in Threads
        /\ Users = Senders \cup Closers
        /\ \A t \in Senders \cup Closers : t # Poller
    BY DEF TypeOK, SharedTypes, Threads, Users
  <2>1. CASE Connect
    BY <2>0, <2>1 DEF RefusedInv, Connect
  <2>2. ASSUME NEW u \in Users, NEW frame, frame.n = sends + 1, BeginSend(u, frame)
        PROVE  RefusedInv'
    <3>1. /\ pc'[u] = "s_engine" /\ \A t \in Threads : t # u => pc'[t] = pc[t]
          /\ out'[u].n = sends + 1 /\ \A t \in Threads : t # u => out'[t] = out[t]
      BY <2>0, <2>2 DEF BeginSend, Goto
    <3>2. /\ sends' = sends + 1 /\ UNCHANGED <<stopped, opened, engine, accepted>>
          /\ late' = IF stopped THEN late \cup {sends + 1} ELSE late
          /\ opened
      BY <2>2 DEF BeginSend
    <3> QED
      BY <2>0, <3>1, <3>2 DEF RefusedInv
  <2>3. ASSUME NEW u \in Users, SendCheckEngine(u)
        PROVE  RefusedInv'
    <3>1. /\ pc[u] = "s_engine" /\ pc'[u] \in {"s_socket", "idle", "d_socket"}
          /\ pc'[u] = "s_socket" => engine /\ out' = out
          /\ \A t \in Threads : t # u => pc'[t] = pc[t] /\ out'[t] = out[t]
      BY <2>0, <2>3 DEF SendCheckEngine, AfterSend, Leave, Goto
    <3>2. UNCHANGED <<stopped, opened, engine, accepted, late, sends>>
      BY <2>3 DEF SendCheckEngine
    <3> QED
      BY <2>0, <3>1, <3>2 DEF RefusedInv
  <2>4. ASSUME NEW u \in Users, SendCheckSocket(u)
        PROVE  RefusedInv'
    <3>1. /\ pc[u] = "s_socket" /\ pc'[u] \in {"e_check", "idle", "d_socket"}
          /\ \A t \in Threads : t # u => pc'[t] = pc[t] /\ out'[t] = out[t]
          /\ accepted' \subseteq accepted \cup {out[u].n}
      BY <2>0, <2>4 DEF SendCheckSocket, AfterSend, Leave, Goto
    <3>2. UNCHANGED <<stopped, opened, engine, late, sends>>
      BY <2>4 DEF SendCheckSocket
    <3> QED
      BY <2>0, <3>1, <3>2 DEF RefusedInv
  <2>5. ASSUME NEW c \in Closers, CloseStep(c)
        PROVE  RefusedInv'
    <3>1. CASE DisconnectSocket(c)
      BY <2>0, <3>1 DEF RefusedInv, DisconnectSocket, Goto
    <3>2. CASE DisconnectStore(c)
      BY <2>0, <3>2 DEF RefusedInv, DisconnectStore, Goto, outVars
    <3>3. CASE DisconnectFlag(c)
      BY <2>0, <3>3 DEF RefusedInv, DisconnectFlag, Goto
    <3> QED
      BY <2>5, <3>1, <3>2, <3>3 DEF CloseStep
  <2>6. ASSUME NEW t \in Threads, EmitStep(t)
        PROVE  RefusedInv'
    <3>1. UNCHANGED <<stopped, opened, engine, accepted, late, sends>>
      BY <2>6 DEF EmitStep, EmitCheck, EmitSend
    <3>2. /\ pc[t] \in {"e_check", "e_send"}
          /\ pc'[t] \in {"e_check", "e_send", "d_store", "got", "idle", "d_socket"}
          /\ \A u \in Threads : u # t => pc'[u] = pc[u] /\ out'[u] = out[u]
      BY <2>6, EmitMoves DEF AfterSend
    <3> QED
      BY <2>0, <3>1, <3>2 DEF RefusedInv
  <2>7. CASE Poll \/ PollStep
    <3>1. \A t \in Senders \cup Closers : pc'[t] = pc[t] /\ out'[t] = out[t]
      BY <2>0, <2>7
         DEF Poll, PollStep, Ask, Frame, Handle, ReceiveHeader, ReceiveData,
             ReceiveNoop, ReceivePing, ReceiveClose, ReceiveFails, Receive,
             HandleNone, HandleError, HandleControl, HandleHeader, HandleStray,
             HandleAttachment, Fail, Deliver, Continue, Goto, handleFrame, outVars
    <3>2. /\ UNCHANGED <<stopped, opened, accepted, late, sends>>
          /\ engine' \in {engine, FALSE}
      <4>1. CASE Poll \/ Ask
        BY <4>1 DEF Poll, Ask, outVars
      <4>2. CASE Frame
        BY <4>2
           DEF Frame, ReceiveHeader, ReceiveData, ReceiveNoop, ReceivePing,
               ReceiveClose, ReceiveFails, Receive, outVars
      <4>3. CASE Handle
        BY <4>3
           DEF Handle, HandleNone, HandleError, HandleControl, HandleHeader,
               HandleStray, HandleAttachment, handleFrame, outVars
      <4> QED
        BY <2>7, <4>1, <4>2, <4>3 DEF PollStep
    <3>3. ~engine => ~engine'
      BY <3>2
    <3>4. UNCHANGED <<stopped, opened, accepted, late, sends>>
      BY <3>2
    <3> QED
      BY <2>0, <3>1, <3>3, <3>4 DEF RefusedInv
  <2>8. CASE UNCHANGED vars
    <3>1. UNCHANGED <<stopped, opened, engine, accepted, late, sends, pc, out>>
      BY <2>8 DEF vars, outVars
    <3> QED
      BY <3>1 DEF RefusedInv
  <2>9. ASSUME NEW s \in Senders, Send(s)
        PROVE  RefusedInv'
    BY <2>0, <2>2, <2>9 DEF Send, Message
  <2>10. ASSUME NEW c \in Closers, Disconnect(c)
         PROVE  RefusedInv'
    BY <2>0, <2>2, <2>10 DEF Disconnect, Farewell
  <2> QED
    BY <2>1, <2>3, <2>4, <2>5, <2>6, <2>7, <2>8, <2>9, <2>10 DEF Next, SendStep
<1>3. RefusedInv => RefusedAfterDisconnect
  BY DEF RefusedInv, RefusedAfterDisconnect
<1> QED
  BY <1>1, <1>2, <1>3, Typing, PTL DEF Spec

----------------------------------------------------------------------------
Attachment(n, k, i) == [kind |-> "Data", n |-> n, i |-> k + 1 - i]

\* What the poller holds and what it has collected belong to the last packet of
\* the server, and with what the server still has to send they make it up.
OwnInv ==
    /\ hand.kind = "Data" =>
         hand.n = server.packets /\ hand.i = server.frames + 1
    /\ hand.kind = "Header" =>
         /\ ~Collecting
         /\ hand.n = server.packets /\ hand.size = server.frames
    /\ Collecting =>
         /\ header.n = server.packets
         /\ Len(attachments) + server.frames
              + (IF hand.kind = "Data" THEN 1 ELSE 0) = header.size
         /\ \A i \in 1..Len(attachments) :
              attachments[i] = Attachment(header.n, header.size, i)
    /\ OwnAttachments

\* A step that only makes the poller hold another result without a message.
LEMMA PlainKeepsOwn ==
    ASSUME TypeOK, OwnInv,
           \/ hand' = hand
           \/ hand.kind \notin {"Header", "Data"} /\ hand'.kind \notin {"Header", "Data"},
           server'.packets = server.packets, server'.frames = server.frames,
           UNCHANGED <<header, attachments, delivered>>
    PROVE  OwnInv'
BY DEF OwnInv, Collecting, OwnAttachments, Attachment

\* A poll() that fails has collected nothing.
LEMMA FailKeepsOwn ==
    ASSUME TypeOK, OwnInv, NEW numbers, Fail(numbers), UNCHANGED handleFrame
    PROVE  OwnInv'
BY DEF OwnInv, Fail, Continue, Nothing, Collecting, OwnAttachments

\* A packet is returned with its own attachments.
LEMMA DeliverKeepsOwn ==
    ASSUME TypeOK, OwnInv, NEW h \in Header, NEW parts \in Seq(Header \cup Data),
           Deliver(h, parts), Len(parts) = h.size,
           \A i \in 1..Len(parts) : parts[i] = Attachment(h.n, h.size, i)
    PROVE  OwnInv'
<1> DEFINE d == [n |-> h.n, size |-> h.size, parts |-> parts]
<1>1. delivered' = Append(delivered, d) /\ header' = NoHeader /\ hand' = Nothing
  BY DEF Deliver, Continue
<1>2. /\ delivered \in Seq(Returned) /\ d \in Returned
  BY DEF TypeOK, PollTypes, Returned, Header
<1>3. /\ Len(delivered') = Len(delivered) + 1
      /\ \A j \in 1..Len(delivered) : delivered'[j] = delivered[j]
      /\ delivered'[Len(delivered) + 1] = d
  BY <1>1, <1>2, AppendProperties
<1>4. Len(delivered) \in Nat
  BY <1>2, LenProperties
<1>5. /\ Len(d.parts) = d.size
      /\ \A i \in 1..d.size :
           d.parts[i] = [kind |-> "Data", n |-> d.n, i |-> d.size + 1 - i]
  BY DEF Attachment
<1>6. OwnAttachments'
  <2> SUFFICES ASSUME NEW j \in 1..Len(delivered')
               PROVE  /\ Len(delivered'[j].parts) = delivered'[j].size
                      /\ \A i \in 1..delivered'[j].size :
                           delivered'[j].parts[i] =
                             [kind |-> "Data", n |-> delivered'[j].n,
                              i |-> delivered'[j].size + 1 - i]
    BY DEF OwnAttachments
  <2>1. CASE j = Len(delivered) + 1
    BY <1>3, <1>5, <2>1
  <2>2. CASE j # Len(delivered) + 1
    <3>1. j \in 1..Len(delivered)
      BY <1>3, <1>4, <2>2
    <3> QED
      BY <1>3, <3>1 DEF OwnInv, OwnAttachments
  <2> QED
    BY <2>1, <2>2
<1> QED
  BY <1>1, <1>6 DEF OwnInv, Nothing, Collecting

\* A step keeps what the poller holds and has collected together.
THEOREM OwnHolds == Spec => []OwnInv
<1>1. ASSUME Init PROVE OwnInv
  <2>1. delivered = <<>> /\ header = NoHeader /\ hand = Nothing
    BY <1>1 DEF Init
  <2> QED
    BY <2>1, EmptySeq DEF OwnInv, OwnAttachments, Collecting, Nothing
<1>2. TypeOK /\ OwnInv /\ [Next]_vars => OwnInv'
  <2> SUFFICES ASSUME TypeOK, OwnInv, [Next]_vars
               PROVE  OwnInv'
    OBVIOUS
  <2>0. /\ hand \in Header \cup Data \cup Control
        /\ server.packets \in Nat /\ server.frames \in Nat
        /\ attachments \in Seq(Header \cup Data) /\ Len(attachments) \in Nat
        /\ Collecting => /\ header \in Header /\ header.size \in Nat
                         /\ Len(attachments) < header.size
        /\ pc[Poller] # "got" => hand = Nothing
    <3>1. /\ hand \in Header \cup Data \cup Control
          /\ server.packets \in Nat /\ server.frames \in Nat
          /\ attachments \in Seq(Header \cup Data)
          /\ Collecting => header \in Header
      BY DEF TypeOK, PollTypes, Collecting
    <3>2. header \in Header => header.size \in Nat
      BY DEF Header
    <3> QED
      BY <3>1, <3>2, LenProperties DEF TypeOK, Places
  <2>1. ASSUME NEW t \in Threads, EmitStep(t)
        PROVE  OwnInv'
    <3>1. UNCHANGED <<header, attachments, server, delivered>>
      BY <2>1 DEF EmitStep, EmitCheck, EmitSend
    <3>2. hand' = hand \/ (hand = Nothing /\ hand'.kind \in {"Ping", "Err"})
      BY <2>0, <2>1, EmitMoves DEF Failure
    <3> QED
      BY <3>1, <3>2, PlainKeepsOwn DEF Nothing
  <2>2. CASE \/ Connect \/ Poll \/ UNCHANGED vars
             \/ \E s \in Senders : Send(s)
             \/ \E u \in Users : SendStep(u)
             \/ \E c \in Closers : Disconnect(c) \/ CloseStep(c)
    <3>1. UNCHANGED <<hand, header, attachments, server, delivered>>
      BY <2>2
         DEF Connect, Poll, vars, inVars, Send, BeginSend, SendStep, SendCheckEngine,
             SendCheckSocket, Disconnect, CloseStep, DisconnectSocket,
             DisconnectStore, DisconnectFlag
    <3> QED
      BY <3>1, PlainKeepsOwn
  <2>3. CASE Ask
    BY <2>0, <2>3, PlainKeepsOwn DEF Ask, Nothing
  <2>4. CASE ReceiveHeader
    <3>1. PICK k \in ServerSizes, type \in ServerTypes :
            /\ hand' = [kind |-> "Header", n |-> server.packets + 1, type |-> type,
                        size |-> k]
            /\ server' = [server EXCEPT !.packets = @ + 1, !.frames = k]
      BY <2>4 DEF ReceiveHeader, Receive
    <3>2. server'.packets = server.packets + 1 /\ server'.frames = k
      BY <3>1 DEF TypeOK, PollTypes
    <3>3. UNCHANGED <<header, attachments, delivered>>
      BY <2>4 DEF ReceiveHeader, Receive
    <3>4. ~Collecting
      BY <2>0, <2>4 DEF ReceiveHeader, Receive, OwnInv, Nothing
    <3> QED
      BY <3>1, <3>2, <3>3, <3>4 DEF OwnInv, Collecting, OwnAttachments
  <2>5. CASE ReceiveData
    <3>1. /\ hand' = [kind |-> "Data", n |-> server.packets, i |-> server.frames]
          /\ UNCHANGED <<header, attachments, delivered>>
          /\ hand = Nothing
      BY <2>0, <2>5 DEF ReceiveData, Receive
    <3>2. server'.packets = server.packets /\ server'.frames = server.frames - 1
      BY <2>5 DEF ReceiveData, TypeOK, PollTypes
    <3> QED
      BY <2>0, <3>1, <3>2 DEF OwnInv, Collecting, OwnAttachments, Nothing, Attachment
  <2>6. CASE ReceiveNoop \/ ReceivePing \/ ReceiveClose \/ ReceiveFails
    <3>1. /\ hand = Nothing /\ hand'.kind \notin {"Header", "Data"}
          /\ UNCHANGED <<header, attachments, delivered>>
      BY <2>0, <2>6
         DEF ReceiveNoop, ReceivePing, ReceiveClose, ReceiveFails, Receive, Failure,
             Nothing
    <3>2. server'.packets = server.packets /\ server'.frames = server.frames
      BY <2>6
         DEF ReceiveNoop, ReceivePing, ReceiveClose, ReceiveFails, TypeOK, PollTypes
    <3> QED
      BY <3>1, <3>2, PlainKeepsOwn DEF Nothing
  <2>7. CASE HandleNone \/ HandleError \/ HandleStray
    BY <2>7, FailKeepsOwn DEF HandleNone, HandleError, HandleStray
  <2>8. CASE HandleControl
    <3>1. CASE Collecting
      BY <2>8, <3>1, FailKeepsOwn DEF HandleControl
    <3>2. CASE ~Collecting
      BY <2>8, <3>2, PlainKeepsOwn DEF HandleControl, Continue, Nothing, handleFrame
    <3> QED
      BY <3>1, <3>2
  <2>9. CASE HandleHeader
    <3>1. hand \in Header
      BY <2>0, <2>9, Kinds DEF HandleHeader
    <3>2. CASE hand.size = 0
      <4>1. /\ <<>> \in Seq(Header \cup Data)
            /\ Len(<<>>) = hand.size
            /\ \A i \in 1..Len(<<>>) : <<>>[i] = Attachment(hand.n, hand.size, i)
        BY <3>2, EmptySeq
      <4>2. Deliver(hand, <<>>)
        BY <2>9, <3>2 DEF HandleHeader
      <4> QED
        BY <3>1, <4>1, <4>2, DeliverKeepsOwn
    <3>3. CASE hand.size # 0
      <4>1. /\ header' = hand /\ attachments' = attachments /\ server' = server
            /\ delivered' = delivered /\ hand' = Nothing
        BY <2>9, <3>3 DEF HandleHeader, Continue, handleFrame
      <4>2. attachments = <<>> /\ Len(attachments) = 0
        BY <2>9, EmptySeq DEF HandleHeader, TypeOK, Places
      <4>3. hand.n = server.packets /\ hand.size = server.frames
        BY <2>9 DEF HandleHeader, OwnInv
      <4> QED
        BY <2>0, <4>1, <4>2, <4>3 DEF OwnInv, Nothing, OwnAttachments, Collecting
    <3> QED
      BY <3>2, <3>3
  <2>10. CASE HandleAttachment
    <3> DEFINE parts == Append(attachments, hand)
    <3>1. Collecting /\ hand \in Data /\ hand.kind = "Data"
      BY <2>0, <2>10, Kinds DEF HandleAttachment, OwnInv
    <3>2. /\ parts \in Seq(Header \cup Data) /\ Len(parts) = Len(attachments) + 1
          /\ \A i \in 1..Len(attachments) : parts[i] = attachments[i]
          /\ parts[Len(attachments) + 1] = hand
      BY <2>0, <3>1, AppendProperties
    <3>3. hand = Attachment(header.n, header.size, Len(attachments) + 1)
      <4>1. hand.n = header.n /\ hand.i = header.size + 1 - (Len(attachments) + 1)
        BY <2>0, <3>1 DEF OwnInv
      <4>2. hand = [kind |-> "Data", n |-> hand.n, i |-> hand.i]
        BY <3>1 DEF Data
      <4> QED
        BY <4>1, <4>2 DEF Attachment
    <3>4. \A i \in 1..Len(parts) : parts[i] = Attachment(header.n, header.size, i)
      <4> SUFFICES ASSUME NEW i \in 1..Len(parts)
                   PROVE  parts[i] = Attachment(header.n, header.size, i)
        OBVIOUS
      <4>1. i \in 1..Len(attachments) \/ i = Len(attachments) + 1
        BY <2>0, <3>2
      <4> QED
        BY <3>1, <3>2, <3>3, <4>1 DEF OwnInv
    <3>5. CASE Len(parts) = header.size
      BY <2>0, <2>10, <3>1, <3>2, <3>4, <3>5, DeliverKeepsOwn DEF HandleAttachment
    <3>6. CASE Len(parts) # header.size
      <4>1. /\ attachments' = parts /\ header' = header /\ server' = server
            /\ delivered' = delivered /\ hand' = Nothing
        BY <2>10, <3>6 DEF HandleAttachment, Continue, handleFrame
      <4>2. Len(parts) + server.frames = header.size /\ header.n = server.packets
        BY <2>0, <3>1, <3>2 DEF OwnInv
      <4>3. OwnAttachments'
        BY <4>1 DEF OwnInv, OwnAttachments
      <4> HIDE DEF parts
      <4> QED
        BY <2>0, <3>2, <3>4, <4>1, <4>2, <4>3 DEF OwnInv, Nothing, Collecting
    <3> QED
      BY <3>5, <3>6
  <2> QED
    BY <2>1, <2>2, <2>3, <2>4, <2>5, <2>6, <2>7, <2>8, <2>9, <2>10
       DEF Next, PollStep, Frame, Handle
<1> QED
  BY <1>1, <1>2, Typing, PTL DEF Spec

\* Socket::handle_engineio_packet: whatever control frames, errors and ends come
\* between the frames, a packet is returned with its attachments or not at all.
THEOREM Own == Spec => []OwnAttachments
<1>1. OwnInv => OwnAttachments
  BY DEF OwnInv
<1> QED
  BY <1>1, OwnHolds, PTL

----------------------------------------------------------------------------
(* The packets of the server as a stream *)

\* Of the packets of the server all but the one that is being worked on have been
\* returned or given up.
Working == Collecting \/ hand.kind = "Header"
Settled == IF Working THEN server.packets - 1 ELSE server.packets

\* Attachments without a header are those of a packet that was given up.
StrayInv ==
    ~Working /\ (server.frames > 0 \/ hand.kind = "Data") => server.packets \in failed

\* What is refused, returned or fetched in a step, in terms of the Socket.
LEMMA StreamMoves ==
    ASSUME TypeOK, TypeOK'
    PROVE  /\ /\ UNCHANGED <<delivered, failed, Settled>> /\ server'.packets = server.packets
              => UNCHANGED Packets!vars
           /\ /\ UNCHANGED <<delivered, failed, Settled>>
              /\ server'.packets = server.packets + 1
              => Packets!Fetch
           /\ /\ UNCHANGED delivered /\ server'.packets = server.packets
              /\ Working /\ ~Working' /\ failed' = failed \cup {server.packets}
              => Packets!Refuse
           /\ /\ UNCHANGED failed /\ server'.packets = server.packets
              /\ Working /\ ~Working'
              /\ Len(delivered') = Len(delivered) + 1
              /\ \A i \in 1..Len(delivered) : delivered'[i] = delivered[i]
              /\ delivered'[Len(delivered')].n = server.packets
              => Packets!ReturnNext
<1>1. server.packets \in Nat
  BY DEF TypeOK, PollTypes
<1>2. /\ Working <=> Collecting \/ (pc[Poller] = "got" /\ hand.kind = "Header")
      /\ Working' <=> Collecting' \/ (pc'[Poller] = "got" /\ hand'.kind = "Header")
  BY DEF TypeOK, Places, Working, Nothing
<1> HIDE DEF Working
<1>3. UNCHANGED <<delivered, failed, Settled>> /\ server'.packets = server.packets
      => UNCHANGED Packets!vars
  BY <1>2 DEF Packets!vars, Settled
<1>4. UNCHANGED <<delivered, failed, Settled>> /\ server'.packets = server.packets + 1
      => Packets!Fetch
  BY <1>1, <1>2 DEF Packets!Fetch, Settled
<1>5. /\ UNCHANGED delivered /\ server'.packets = server.packets
      /\ Working /\ ~Working' /\ failed' = failed \cup {server.packets}
      => Packets!Refuse
  BY <1>1, <1>2 DEF Packets!Refuse
<1>6. /\ UNCHANGED failed /\ server'.packets = server.packets
      /\ Working /\ ~Working'
      /\ Len(delivered') = Len(delivered) + 1
      /\ \A i \in 1..Len(delivered) : delivered'[i] = delivered[i]
      /\ delivered'[Len(delivered')].n = server.packets
      => Packets!ReturnNext
  BY <1>1, <1>2 DEF Packets!ReturnNext
<1> QED
  BY <1>3, <1>4, <1>5, <1>6

\* A poll() that fails gives up the packet it was working on.
LEMMA FailRefuses ==
    ASSUME TypeOK, TypeOK', StrayInv, NEW numbers, Fail(numbers), UNCHANGED handleFrame,
           numbers = IF Working \/ hand.kind = "Data" THEN {server.packets} ELSE {}
    PROVE  StrayInv' /\ (Packets!Refuse \/ UNCHANGED Packets!vars)
<1>1. /\ failed' = failed \cup numbers /\ UNCHANGED <<delivered, server>>
      /\ header' = NoHeader /\ hand' = Nothing
  BY DEF Fail, Continue, handleFrame
<1>2. ~Working' /\ hand'.kind # "Data"
  BY <1>1 DEF Working, Collecting, Nothing
<1>3. StrayInv'
  BY <1>1, <1>2 DEF StrayInv
<1>4. CASE Working
  <2>1. failed' = failed \cup {server.packets}
    BY <1>1, <1>4
  <2> QED
    BY <1>1, <1>2, <1>3, <1>4, <2>1, StreamMoves
<1>5. CASE ~Working
  <2>1. failed' = failed /\ UNCHANGED Settled
    BY <1>1, <1>2, <1>5 DEF StrayInv, Settled
  <2> QED
    BY <1>1, <1>3, <2>1, StreamMoves
<1> QED
  BY <1>4, <1>5

\* A packet that is returned is the one that was worked on.
LEMMA DeliverReturns ==
    ASSUME TypeOK, TypeOK', NEW h \in Header, NEW parts \in Seq(Header \cup Data),
           Deliver(h, parts), UNCHANGED handleFrame,
           Working, h.n = server.packets, server.frames = 0
    PROVE  StrayInv' /\ Packets!ReturnNext
<1> DEFINE d == [n |-> h.n, size |-> h.size, parts |-> parts]
<1>1. /\ delivered' = Append(delivered, d) /\ UNCHANGED <<failed, server>>
      /\ header' = NoHeader /\ hand' = Nothing
  BY DEF Deliver, Continue, handleFrame
<1>2. delivered \in Seq(Returned) /\ d \in Returned
  BY DEF TypeOK, PollTypes, Returned, Header
<1>3. /\ Len(delivered') = Len(delivered) + 1
      /\ \A i \in 1..Len(delivered) : delivered'[i] = delivered[i]
      /\ delivered'[Len(delivered) + 1] = d
  BY <1>1, <1>2, AppendProperties
<1>4. ~Working' /\ StrayInv'
  BY <1>1 DEF Working, Collecting, Nothing, StrayInv
<1>5. delivered'[Len(delivered')].n = server.packets
  BY <1>3
<1> QED
  BY <1>1, <1>3, <1>4, <1>5, StreamMoves

\* A step that neither begins a packet nor ends one.
LEMMA StillWorks ==
    ASSUME TypeOK, TypeOK', StrayInv, UNCHANGED <<header, failed, delivered>>,
           hand' = hand \/ (hand.kind \notin {"Header", "Data"} /\ hand'.kind # "Header"),
           server'.packets = server.packets, server'.frames <= server.frames,
           hand' # hand /\ hand'.kind = "Data" => server.frames > 0
    PROVE  StrayInv' /\ UNCHANGED Packets!vars
<1>1. Working' <=> Working
  BY DEF Working, Collecting
<1>2. UNCHANGED Settled
  BY <1>1 DEF Settled
<1>3. server.frames \in Nat /\ server'.frames \in Nat
  BY DEF TypeOK, PollTypes
<1>4. StrayInv'
  BY <1>1, <1>3 DEF StrayInv
<1> QED
  BY <1>2, <1>4, StreamMoves

LEMMA StreamSteps ==
    ASSUME TypeOK, TypeOK', OwnInv, StrayInv, [Next]_vars
    PROVE  StrayInv' /\ [Packets!Next]_(Packets!vars)
<1>0. /\ hand \in Header \cup Data \cup Control
      /\ server.packets \in Nat /\ server.frames \in Nat
      /\ pc[Poller] # "got" => hand = Nothing /\ intact
      /\ Collecting => header \in Header /\ header.n = server.packets
      /\ hand.kind \in {"Header", "Data"} => hand.n = server.packets
      /\ hand.kind = "Header" => ~Collecting
  BY DEF TypeOK, PollTypes, Places, OwnInv, Collecting
<1>1. ASSUME NEW t \in Threads, EmitStep(t)
      PROVE  StrayInv' /\ UNCHANGED Packets!vars
  <2>1. UNCHANGED <<header, failed, server, delivered>>
    BY <1>1 DEF EmitStep, EmitCheck, EmitSend
  <2>2. hand' = hand \/ (hand = Nothing /\ hand'.kind \in {"Ping", "Err"})
    BY <1>0, <1>1, EmitMoves DEF Failure
  <2> QED
    BY <1>0, <2>1, <2>2, StillWorks DEF Nothing
<1>2. CASE \/ Connect \/ Poll \/ UNCHANGED vars
           \/ \E s \in Senders : Send(s)
           \/ \E u \in Users : SendStep(u)
           \/ \E c \in Closers : Disconnect(c) \/ CloseStep(c)
  <2>1. UNCHANGED <<hand, header, failed, server, delivered>>
    BY <1>2
       DEF Connect, Poll, vars, inVars, Send, BeginSend, SendStep, SendCheckEngine,
           SendCheckSocket, Disconnect, CloseStep, DisconnectSocket,
           DisconnectStore, DisconnectFlag
  <2> QED
    BY <1>0, <2>1, StillWorks
<1>3. CASE Ask
  <2>1. UNCHANGED <<header, failed, server, delivered>>
    BY <1>3 DEF Ask
  <2>2. hand' = hand
    BY <1>0, <1>3 DEF Ask
  <2> QED
    BY <1>0, <2>1, <2>2, StillWorks
<1>4. CASE ReceiveHeader
  <2>1. PICK k \in ServerSizes, type \in ServerTypes :
          /\ hand' = [kind |-> "Header", n |-> server.packets + 1, type |-> type,
                      size |-> k]
          /\ server' = [server EXCEPT !.packets = @ + 1, !.frames = k]
    BY <1>4 DEF ReceiveHeader, Receive
  <2>2. server'.packets = server.packets + 1
    BY <2>1 DEF TypeOK, PollTypes
  <2>3. UNCHANGED <<header, failed, delivered>> /\ hand = Nothing /\ server.frames = 0
    BY <1>0, <1>4 DEF ReceiveHeader, Receive
  <2>4. ~Working /\ Working'
    <3>1. ~Collecting
      BY <2>3 DEF OwnInv, TypeOK, Places, Collecting, Nothing
    <3> QED
      BY <2>1, <2>3, <3>1 DEF Working, Nothing
  <2>5. UNCHANGED Settled /\ StrayInv'
    BY <1>0, <2>2, <2>4 DEF Settled, StrayInv
  <2> QED
    BY <2>2, <2>3, <2>5, StreamMoves DEF Packets!Next
<1>5. CASE ReceiveData
  <2>1. /\ hand'.kind = "Data" /\ hand = Nothing /\ server.frames > 0
        /\ UNCHANGED <<header, failed, delivered>>
    BY <1>0, <1>5 DEF ReceiveData, Receive
  <2>2. server'.packets = server.packets /\ server'.frames = server.frames - 1
    BY <1>5 DEF ReceiveData, TypeOK, PollTypes
  <2> QED
    BY <1>0, <2>1, <2>2, StillWorks DEF Nothing
<1>6. CASE ReceiveNoop \/ ReceivePing \/ ReceiveClose \/ ReceiveFails
  <2>1. /\ hand = Nothing /\ hand'.kind \notin {"Header", "Data"}
        /\ UNCHANGED <<header, failed, delivered>>
    BY <1>0, <1>6
       DEF ReceiveNoop, ReceivePing, ReceiveClose, ReceiveFails, Receive, Failure, Nothing
  <2>2. server'.packets = server.packets /\ server'.frames = server.frames
    BY <1>6
       DEF ReceiveNoop, ReceivePing, ReceiveClose, ReceiveFails, TypeOK, PollTypes
  <2> QED
    BY <1>0, <2>1, <2>2, StillWorks DEF Nothing
<1>7. CASE HandleNone
  <2>1. Begun = IF Working \/ hand.kind = "Data" THEN {server.packets} ELSE {}
    BY <1>0, <1>7 DEF HandleNone, Begun, Working
  <2> QED
    BY <1>7, <2>1, FailRefuses DEF HandleNone, Packets!Next
<1>8. CASE HandleError
  <2> DEFINE numbers == Begun \cup (IF intact THEN {} ELSE {hand.n})
  <2>1. numbers = IF Working \/ hand.kind = "Data" THEN {server.packets} ELSE {}
    BY <1>0, <1>8 DEF HandleError, Begun, Working, TypeOK, Places
  <2>2. Fail(numbers) /\ UNCHANGED handleFrame
    BY <1>8 DEF HandleError
  <2> HIDE DEF numbers
  <2> QED
    BY <2>1, <2>2, FailRefuses DEF Packets!Next
<1>9. CASE HandleControl
  <2>1. CASE Collecting
    <3>1. Begun = IF Working \/ hand.kind = "Data" THEN {server.packets} ELSE {}
      BY <1>0, <2>1 DEF Begun, Working
    <3> QED
      BY <1>9, <2>1, <3>1, FailRefuses DEF HandleControl, Packets!Next
  <2>2. CASE ~Collecting
    <3>1. /\ hand.kind \notin {"Header", "Data"} /\ hand' = Nothing
          /\ UNCHANGED <<header, failed, delivered, server>>
      BY <1>9, <2>2 DEF HandleControl, Continue, handleFrame
    <3> QED
      BY <1>0, <3>1, StillWorks DEF Nothing
  <2> QED
    BY <2>1, <2>2
<1>10. CASE HandleStray
  <2>1. {hand.n} = IF Working \/ hand.kind = "Data" THEN {server.packets} ELSE {}
    BY <1>0, <1>10 DEF HandleStray
  <2> QED
    BY <1>10, <2>1, FailRefuses DEF HandleStray, Packets!Next
<1>11. CASE HandleHeader
  <2>1. hand \in Header /\ Working /\ hand.size = server.frames
    BY <1>0, <1>11, Kinds DEF HandleHeader, Working, OwnInv
  <2>2. CASE hand.size = 0
    <3>1. <<>> \in Seq(Header \cup Data) /\ Deliver(hand, <<>>) /\ UNCHANGED handleFrame
      BY <1>11, <2>2 DEF HandleHeader
    <3> QED
      BY <1>0, <1>11, <2>1, <2>2, <3>1, DeliverReturns DEF HandleHeader, Packets!Next
  <2>3. CASE hand.size # 0
    <3>1. header' = hand /\ UNCHANGED <<failed, delivered, server>>
      BY <1>11, <2>3 DEF HandleHeader, handleFrame
    <3>2. Working'
      BY <2>1, <3>1, Controls DEF Working, Collecting
    <3>3. UNCHANGED Settled /\ StrayInv'
      BY <2>1, <3>1, <3>2 DEF Settled, StrayInv
    <3> QED
      BY <3>1, <3>3, StreamMoves
  <2> QED
    BY <2>2, <2>3
<1>12. CASE HandleAttachment
  <2> DEFINE parts == Append(attachments, hand)
  <2>1. Collecting /\ hand \in Data /\ hand.kind = "Data" /\ Working
    BY <1>0, <1>12, Kinds DEF HandleAttachment, Working
  <2>2. /\ attachments \in Seq(Header \cup Data)
        /\ parts \in Seq(Header \cup Data) /\ Len(parts) = Len(attachments) + 1
        /\ Len(attachments) \in Nat
    BY <2>1, AppendProperties, LenProperties DEF TypeOK, PollTypes
  <2>3. CASE Len(parts) = header.size
    <3>1. Deliver(header, parts) /\ UNCHANGED handleFrame
      BY <1>12, <2>3 DEF HandleAttachment
    <3>2. server.frames = 0
      <4>1. Len(attachments) + server.frames + 1 = header.size
        BY <2>1 DEF OwnInv
      <4> QED
        BY <1>0, <2>2, <2>3, <4>1
    <3> HIDE DEF parts
    <3> QED
      BY <1>0, <2>1, <2>2, <3>1, <3>2, DeliverReturns DEF Packets!Next
  <2>4. CASE Len(parts) # header.size
    <3>1. header' = header /\ UNCHANGED <<failed, delivered, server>>
      BY <1>12, <2>4 DEF HandleAttachment, handleFrame
    <3>2. Working'
      BY <2>1, <3>1 DEF Working, Collecting
    <3>3. UNCHANGED Settled /\ StrayInv'
      BY <2>1, <3>1, <3>2 DEF Settled, StrayInv
    <3> QED
      BY <3>1, <3>3, StreamMoves
  <2> QED
    BY <2>3, <2>4
<1> QED
  BY <1>1, <1>2, <1>3, <1>4, <1>5, <1>6, <1>7, <1>8, <1>9, <1>10, <1>11, <1>12
     DEF Next, PollStep, Frame, Handle, Packets!Next

\* Towards its caller poll() is a stream of packets: in the order of the server, each
\* once, and one that does not come out belongs to a call that failed.
THEOREM InOrder == Spec => PacketsInOrder
<1>1. Init => StrayInv /\ Packets!Init
  BY DEF Init, StrayInv, Working, Collecting, Nothing, Packets!Init
<1>2. TypeOK /\ TypeOK' /\ OwnInv /\ StrayInv /\ [Next]_vars
        => StrayInv' /\ [Packets!Next]_(Packets!vars)
  BY StreamSteps
<1> QED
  BY <1>1, <1>2, Typing, OwnHolds, PTL DEF Spec, PacketsInOrder, Packets!Spec

----------------------------------------------------------------------------
(* The frames on the wire *)

\* What PacketsReadable is about: one thread calls emit(), others may disconnect.
OneSender == \A s, u \in Senders : s = u

\* Thread s is between two frames of a packet.
InPacket(s) == pc[s] \in {"e_check", "e_send"} /\ out[s].i > 0

\* Frame j is the last that a sender has put on the wire.
Last(j) ==
    wire[j].kind = "Message" /\ \A m \in j + 1 .. Len(wire) : wire[m].kind = "Disconnect"

\* Only send() emits messages; those of the senders are the frames of their packets,
\* and the other threads have no more than Disconnect packets.
Emits ==
    /\ \A t \in Threads \ Senders :
         pc[t] \in {"s_engine", "s_socket", "e_check", "e_send"} => out[t].kind # "Message"
    /\ \A s \in Senders :
         /\ pc[s] \in {"s_engine", "s_socket"} => out[s].kind = "Message" /\ out[s].i = 0
         /\ pc[s] \in {"e_check", "e_send"} => out[s].kind = "Message" /\ out[s].i <= out[s].size

\* Within a packet the sender's last frame on the wire is the one before the one it is
\* about to emit; between packets it is the end of a packet, or of one that was cut.
Ready(s) ==
    IF InPacket(s)
    THEN \E j \in 1 .. Len(wire) : Last(j) /\ wire[j] = [out[s] EXCEPT !.i = @ - 1]
    ELSE \A j \in 1 .. Len(wire) : Last(j) => wire[j].i = wire[j].size \/ wire[j].n \in cut

ReadInv == Emits /\ PacketsReadable /\ \A s \in Senders : Ready(s)

\* There is one last frame.
LEMMA OneLast ==
    ASSUME wire \in Seq(Outgoing), NEW j \in 1 .. Len(wire), NEW k \in 1 .. Len(wire),
           Last(j), Last(k)
    PROVE  j = k
<1>1. Len(wire) \in Nat
  BY LenProperties
<1>2. CASE j < k
  BY <1>1, <1>2 DEF Last
<1>3. CASE k < j
  BY <1>1, <1>3 DEF Last
<1> QED
  BY <1>1, <1>2, <1>3

\* When nothing arrives what is on the wire stays readable.
LEMMA NothingArrives ==
    ASSUME PacketsReadable, UNCHANGED wire, cut \subseteq cut'
    PROVE  PacketsReadable' /\ \A j : Last(j)' <=> Last(j)
<1>1. \A j, k : (Follows(j, k)' <=> Follows(j, k)) /\ (First(k)' <=> First(k))
  BY DEF Follows, First
<1>2. \A j : Last(j)' <=> Last(j)
  BY DEF Last
<1>3. PacketsReadable'
  BY <1>1 DEF PacketsReadable
<1> QED
  BY <1>2, <1>3

\* What lies before a frame that arrives is as it was.
LEMMA Arrives ==
    ASSUME wire \in Seq(Outgoing), NEW n, n = Len(wire) + 1, NEW f \in Outgoing, wire' = Append(wire, f)
    PROVE  /\ Len(wire) \in Nat /\ Len(wire') = n /\ wire'[n] = f
           /\ \A k \in 1 .. Len(wire) : wire'[k] = wire[k]
           /\ \A k \in 1 .. Len(wire) : First(k)' <=> First(k)
           /\ \A j, k \in 1 .. Len(wire) : Follows(j, k)' <=> Follows(j, k)
<1>1. /\ Len(wire) \in Nat /\ Len(wire') = n /\ wire'[n] = f
      /\ \A k \in 1 .. Len(wire) : wire'[k] = wire[k]
  BY LenProperties, AppendProperties
<1>2. ASSUME NEW k \in 1 .. Len(wire) PROVE First(k)' <=> First(k)
  <2>1. \A m \in 1 .. k - 1 : m \in 1 .. Len(wire)
    BY <1>1
  <2> QED
    BY <1>1, <2>1 DEF First
<1>3. ASSUME NEW j \in 1 .. Len(wire), NEW k \in 1 .. Len(wire)
      PROVE  Follows(j, k)' <=> Follows(j, k)
  <2>1. \A m \in j + 1 .. k - 1 : m \in 1 .. Len(wire)
    BY <1>1
  <2> QED
    BY <1>1, <2>1 DEF Follows
<1> QED
  BY <1>1, <1>2, <1>3

\* A Disconnect packet that arrives changes nothing for the packets of the sender.
LEMMA FarewellArrives ==
    ASSUME wire \in Seq(Outgoing), NEW n, n = Len(wire) + 1, NEW f \in Outgoing, f.kind = "Disconnect",
           wire' = Append(wire, f), PacketsReadable, cut \subseteq cut'
    PROVE  /\ PacketsReadable'
           /\ \A j \in 1 .. Len(wire) : Last(j)' <=> Last(j)
           /\ ~Last(n)'
<1>1. /\ Len(wire) \in Nat /\ Len(wire') = n /\ wire'[n] = f
      /\ \A k \in 1 .. Len(wire) : wire'[k] = wire[k]
      /\ \A k \in 1 .. Len(wire) : First(k)' <=> First(k)
      /\ \A j, k \in 1 .. Len(wire) : Follows(j, k)' <=> Follows(j, k)
  BY Arrives
<1>2. \A k \in 1 .. Len(wire') : k # n => k \in 1 .. Len(wire)
  BY <1>1
<1>3. ~First(n)' /\ ~Last(n)'
  BY <1>1 DEF First, Last
<1>4. \A j \in 1 .. Len(wire') : ~Follows(j, n)' /\ ~Follows(n, j)'
  BY <1>1 DEF Follows
<1>5. \A k \in 1 .. Len(wire') : First(k)' => wire'[k].i = 0
  BY <1>1, <1>2, <1>3 DEF PacketsReadable
<1>6. ASSUME NEW j \in 1 .. Len(wire'), NEW k \in 1 .. Len(wire'), Follows(j, k)'
      PROVE  IF wire'[k].i = 0
             THEN wire'[j].i = wire'[j].size \/ wire'[j].n \in cut'
             ELSE wire'[j] = [wire'[k] EXCEPT !.i = @ - 1]
  <2>1. j \in 1 .. Len(wire) /\ k \in 1 .. Len(wire)
    BY <1>2, <1>4, <1>6
  <2>2. Follows(j, k) /\ wire'[j] = wire[j] /\ wire'[k] = wire[k]
    BY <1>1, <1>6, <2>1
  <2> QED
    BY <2>1, <2>2 DEF PacketsReadable
<1>7. ASSUME NEW j \in 1 .. Len(wire) PROVE Last(j)' <=> Last(j)
  <2>1. \A m \in j + 1 .. Len(wire) : m \in 1 .. Len(wire)
    BY <1>1
  <2>2. \A m \in j + 1 .. Len(wire') : m \in j + 1 .. Len(wire) \/ m = n
    BY <1>1
  <2>3. \A m \in j + 1 .. Len(wire) : m \in j + 1 .. Len(wire')
    BY <1>1
  <2> QED
    BY <1>1, <2>1, <2>2, <2>3 DEF Last
<1> QED
  BY <1>3, <1>5, <1>6, <1>7 DEF PacketsReadable

\* The sender's next frame arrives.
LEMMA FrameArrives ==
    ASSUME wire \in Seq(Outgoing), NEW n, n = Len(wire) + 1, NEW f \in Outgoing, f.kind = "Message",
           wire' = Append(wire, f), PacketsReadable, cut \subseteq cut',
           IF f.i > 0
           THEN \E j \in 1 .. Len(wire) : Last(j) /\ wire[j] = [f EXCEPT !.i = @ - 1]
           ELSE \A j \in 1 .. Len(wire) :
                  Last(j) => wire[j].i = wire[j].size \/ wire[j].n \in cut
    PROVE  /\ PacketsReadable'
           /\ Len(wire') = n /\ n \in 1 .. n /\ wire'[n] = f /\ Last(n)'
           /\ \A j \in 1 .. n : Last(j)' => j = n
<1>1. /\ Len(wire) \in Nat /\ Len(wire') = n /\ wire'[n] = f
      /\ \A k \in 1 .. Len(wire) : wire'[k] = wire[k]
      /\ \A k \in 1 .. Len(wire) : First(k)' <=> First(k)
      /\ \A j, k \in 1 .. Len(wire) : Follows(j, k)' <=> Follows(j, k)
  BY Arrives
<1>2. \A k \in 1 .. Len(wire') : k # n => k \in 1 .. Len(wire)
  BY <1>1
<1>3. f.i \in Nat
  BY DEF Outgoing
<1>4. ASSUME NEW j \in 1 .. Len(wire), Follows(j, n)' PROVE Last(j)
  <2>1. \A m \in j + 1 .. Len(wire) : m \in 1 .. Len(wire) /\ m \in j + 1 .. n - 1
    BY <1>1
  <2> QED
    BY <1>1, <1>4, <2>1 DEF Follows, Last
<1>5. First(n)' => f.i = 0
  <2>1. CASE f.i > 0
    <3>1. PICK j \in 1 .. Len(wire) : Last(j)
      BY <2>1
    <3>2. wire'[j].kind = "Message" /\ j \in 1 .. n - 1
      BY <1>1, <3>1 DEF Last
    <3> QED
      BY <3>2 DEF First
  <2> QED
    BY <1>3, <2>1
<1>6. \A k \in 1 .. Len(wire') : First(k)' => wire'[k].i = 0
  BY <1>1, <1>2, <1>5 DEF PacketsReadable
<1>7. ASSUME NEW j \in 1 .. Len(wire'), NEW k \in 1 .. Len(wire'), Follows(j, k)'
      PROVE  IF wire'[k].i = 0
             THEN wire'[j].i = wire'[j].size \/ wire'[j].n \in cut'
             ELSE wire'[j] = [wire'[k] EXCEPT !.i = @ - 1]
  <2>1. j < k /\ k <= n /\ j \in 1 .. Len(wire)
    BY <1>1, <1>7 DEF Follows
  <2>2. CASE k = n
    <3>0. Follows(j, n)' /\ wire'[j] = wire[j] /\ wire'[k] = f
      BY <1>1, <1>7, <2>1, <2>2
    <3>1. Last(j)
      BY <1>4, <2>1, <3>0
    <3>2. CASE f.i = 0
      <4>1. wire[j].i = wire[j].size \/ wire[j].n \in cut
        BY <2>1, <3>1, <3>2
      <4> QED
        BY <3>0, <3>2, <4>1
    <3>3. CASE f.i > 0
      <4>1. PICK l \in 1 .. Len(wire) : Last(l) /\ wire[l] = [f EXCEPT !.i = @ - 1]
        BY <3>3
      <4>2. l = j
        BY <2>1, <3>1, <4>1, OneLast
      <4> QED
        BY <1>3, <3>0, <3>3, <4>1, <4>2
    <3>4. f.i = 0 \/ f.i > 0
      BY <1>3
    <3> QED
      BY <3>2, <3>3, <3>4, Zenon
  <2>3. CASE k # n
    <3>1. k \in 1 .. Len(wire)
      BY <1>2, <2>3
    <3>2. Follows(j, k) /\ wire'[j] = wire[j] /\ wire'[k] = wire[k]
      BY <1>1, <1>7, <2>1, <3>1
    <3> QED
      BY <2>1, <3>1, <3>2 DEF PacketsReadable
  <2> QED
    BY <2>2, <2>3
<1>8. Last(n)' /\ n \in 1 .. n
  BY <1>1 DEF Last
<1>9. ASSUME NEW j \in 1 .. Len(wire'), Last(j)' PROVE j = n
  <2>1. j # n => n \in j + 1 .. Len(wire')
    BY <1>1
  <2> QED
    BY <1>1, <1>9, <2>1 DEF Last
<1> QED
  BY <1>1, <1>6, <1>7, <1>8, <1>9 DEF PacketsReadable

\* A step that leaves alone what the senders are at, and brings no more to the wire
\* than a Disconnect packet.
LEMMA OthersRead ==
    ASSUME TypeOK, ReadInv, cut \subseteq cut',
           \/ UNCHANGED wire
           \/ \E f \in Outgoing : f.kind = "Disconnect" /\ wire' = Append(wire, f),
           \A s \in Senders : pc'[s] = pc[s] /\ out'[s] = out[s],
           Emits'
    PROVE  ReadInv'
<1>1. wire \in Seq(Outgoing) /\ PacketsReadable
  BY DEF TypeOK, SharedTypes, ReadInv
<1>2. /\ PacketsReadable' /\ Len(wire) \in Nat
      /\ \A j \in 1 .. Len(wire) : (Last(j)' <=> Last(j)) /\ wire'[j] = wire[j]
      /\ 1 .. Len(wire) \subseteq 1 .. Len(wire')
      /\ \A j \in 1 .. Len(wire') : Last(j)' => j \in 1 .. Len(wire)
  <2>1. CASE UNCHANGED wire
    BY <1>1, <2>1, NothingArrives, LenProperties
  <2>2. CASE ~UNCHANGED wire
    <3>1. PICK f \in Outgoing : f.kind = "Disconnect" /\ wire' = Append(wire, f)
      BY <2>2
    <3>2. PICK n : n = Len(wire) + 1
      OBVIOUS
    <3>3. /\ Len(wire) \in Nat /\ Len(wire') = n
          /\ \A k \in 1 .. Len(wire) : wire'[k] = wire[k]
      BY <1>1, <3>1, <3>2, Arrives
    <3>4. /\ PacketsReadable' /\ ~Last(n)'
          /\ \A j \in 1 .. Len(wire) : Last(j)' <=> Last(j)
      BY <1>1, <3>1, <3>2, FarewellArrives
    <3>5. \A j \in 1 .. Len(wire') : j # n => j \in 1 .. Len(wire)
      BY <3>2, <3>3
    <3>6. 1 .. Len(wire) \subseteq 1 .. Len(wire')
      BY <3>2, <3>3
    <3> QED
      BY <3>3, <3>4, <3>5, <3>6
  <2> QED
    BY <2>1, <2>2
<1>3. ASSUME NEW s \in Senders PROVE Ready(s)'
  <2>1. (InPacket(s)' <=> InPacket(s)) /\ Ready(s) /\ out'[s] = out[s]
    BY <1>3 DEF InPacket, ReadInv
  <2>2. CASE InPacket(s)
    <3>1. PICK j \in 1 .. Len(wire) : Last(j) /\ wire[j] = [out[s] EXCEPT !.i = @ - 1]
      BY <2>1, <2>2 DEF Ready
    <3>2. j \in 1 .. Len(wire') /\ Last(j)' /\ wire'[j] = [out'[s] EXCEPT !.i = @ - 1]
      BY <1>2, <2>1, <3>1
    <3> QED
      BY <2>1, <2>2, <3>2 DEF Ready
  <2>3. CASE ~InPacket(s)
    <3>1. ASSUME NEW j \in 1 .. Len(wire'), Last(j)'
          PROVE  wire'[j].i = wire'[j].size \/ wire'[j].n \in cut'
      <4>1. j \in 1 .. Len(wire) /\ Last(j) /\ wire'[j] = wire[j]
        BY <1>2, <3>1
      <4> QED
        BY <2>1, <2>3, <4>1 DEF Ready
    <3> QED
      BY <2>1, <2>3, <3>1 DEF Ready
  <2> QED
    BY <2>2, <2>3
<1> QED
  BY <1>2, <1>3 DEF ReadInv

\* A step of the sender that brings nothing to the wire and is between packets before
\* and after it.
LEMMA SenderReads ==
    ASSUME OneSender, ReadInv, NEW s \in Senders, UNCHANGED <<wire, cut>>,
           Emits', ~InPacket(s), ~InPacket(s)'
    PROVE  ReadInv'
<1>1. PacketsReadable' /\ \A j : Last(j)' <=> Last(j)
  BY NothingArrives DEF ReadInv
<1>2. Ready(s)'
  BY <1>1 DEF ReadInv, Ready
<1> QED
  BY <1>1, <1>2 DEF ReadInv, OneSender

\* What the sender's emit() leaves behind when it ends its send().
LEMMA SenderLeaves ==
    ASSUME TypeOK, OneSender, ReadInv, NEW s \in Senders,
           pc[s] \in {"e_check", "e_send"}, Leave(s, "idle")
    PROVE  Emits' /\ ~InPacket(s)'
<1>1. pc \in [Threads -> PC] /\ out \in [Threads -> Outgoing] /\ s \in Threads
  BY DEF TypeOK, SharedTypes, Threads, Users
<1>2. /\ pc'[s] = "idle"
      /\ \A t \in Threads : t # s => pc'[t] = pc[t] /\ out'[t] = out[t]
  BY <1>1 DEF Leave, Goto
<1> QED
  BY <1>2 DEF ReadInv, Emits, OneSender, InPacket

\* The sender's emit() that has failed, and whose frame has not arrived, ends its
\* send() with an Err.
LEMMA EmitFailed ==
    ASSUME TypeOK, OneSender, ReadInv, NEW s \in Senders,
           pc[s] \in {"e_check", "e_send"}, AfterEmit(s, FALSE), UNCHANGED wire
    PROVE  ReadInv'
<1>1. /\ out \in [Threads -> Outgoing] /\ wire \in Seq(Outgoing)
      /\ s \in Threads /\ s \notin Closers
  BY DEF TypeOK, SharedTypes, Threads, Users
<1>2. Leave(s, "idle") /\ cut' = cut \cup {out[s].n}
  BY <1>1 DEF AfterEmit, AfterSend, ReadInv, Emits
<1>3. Emits' /\ ~InPacket(s)'
  BY <1>2, SenderLeaves
<1>4. PacketsReadable' /\ \A j : Last(j)' <=> Last(j)
  BY <1>2, NothingArrives DEF ReadInv
<1>5. ASSUME NEW j \in 1 .. Len(wire), Last(j)
      PROVE  wire[j].i = wire[j].size \/ wire[j].n \in cut'
  <2>1. CASE InPacket(s)
    <3>1. PICK l \in 1 .. Len(wire) : Last(l) /\ wire[l] = [out[s] EXCEPT !.i = @ - 1]
      BY <2>1 DEF ReadInv, Ready
    <3>2. l = j
      BY <1>1, <1>5, <3>1, OneLast
    <3>3. wire[l].n = out[s].n
      BY <1>1, <3>1 DEF Outgoing
    <3> QED
      BY <1>2, <3>2, <3>3
  <2>2. CASE ~InPacket(s)
    BY <1>2, <1>5, <2>2 DEF ReadInv, Ready
  <2> QED
    BY <2>1, <2>2
<1>6. Ready(s)'
  BY <1>3, <1>4, <1>5 DEF Ready
<1> QED
  BY <1>3, <1>4, <1>6 DEF ReadInv, OneSender

\* The flag that emit() checks: the next step sends, or the send() ends.
LEMMA EmitChecked ==
    ASSUME TypeOK, OneSender, ReadInv, NEW s \in Senders, EmitCheck(s)
    PROVE  ReadInv'
<1>1. pc \in [Threads -> PC] /\ s \in Threads
  BY DEF TypeOK, SharedTypes, Threads, Users
<1>2. CASE engine
  <2>1. /\ UNCHANGED <<wire, out, cut>>
        /\ pc[s] = "e_check" /\ pc'[s] = "e_send"
        /\ \A t \in Threads : t # s => pc'[t] = pc[t]
    BY <1>1, <1>2 DEF EmitCheck, Goto
  <2>2. Emits' /\ PacketsReadable' /\ \A j : Last(j)' <=> Last(j)
    BY <2>1, NothingArrives DEF ReadInv, Emits, OneSender
  <2>3. InPacket(s)' <=> InPacket(s)
    BY <2>1 DEF InPacket
  <2>4. Ready(s)'
    BY <2>1, <2>2, <2>3 DEF ReadInv, Ready
  <2> QED
    BY <2>2, <2>4 DEF ReadInv, OneSender
<1>3. CASE ~engine
  <2>1. UNCHANGED wire /\ AfterEmit(s, FALSE) /\ pc[s] = "e_check"
    BY <1>3 DEF EmitCheck
  <2> QED
    BY <2>1, EmitFailed
<1> QED
  BY <1>2, <1>3

\* The frame after a frame.
LEMMA NextFrame ==
    ASSUME NEW m \in Outgoing, NEW q, q = [m EXCEPT !.i = @ + 1]
    PROVE  /\ q.kind = m.kind /\ q.n = m.n /\ q.i = m.i + 1 /\ q.size = m.size
           /\ m = [q EXCEPT !.i = @ - 1]
<1>1. m.i \in Nat
  BY DEF Outgoing
<1>2. q.kind = m.kind /\ q.n = m.n /\ q.i = m.i + 1 /\ q.size = m.size
  BY DEF Outgoing
<1>3. q.i - 1 = m.i
  BY <1>1, <1>2
<1>4. m = [q EXCEPT !.i = m.i]
  BY DEF Outgoing
<1> QED
  BY <1>2, <1>3, <1>4

\* A frame of the sender that has arrived, whether its emit() says so or fails.
LEMMA EmitArrived ==
    ASSUME TypeOK, OneSender, ReadInv, NEW s \in Senders, NEW ok \in BOOLEAN,
           pc[s] = "e_send", wire' = Append(wire, out[s]), AfterEmit(s, ok)
    PROVE  ReadInv'
<1>1. /\ pc \in [Threads -> PC] /\ out \in [Threads -> Outgoing] /\ s \in Threads
      /\ wire \in Seq(Outgoing) /\ s \notin Closers
  BY DEF TypeOK, SharedTypes, Threads, Users
<1>2. out[s].kind = "Message" /\ out[s].i <= out[s].size
  BY DEF ReadInv, Emits
<1>3. out[s] \in Outgoing /\ out[s].i \in Nat /\ out[s].size \in Nat
  BY <1>1 DEF Outgoing
<1>4. /\ cut' = IF ok THEN cut ELSE cut \cup {out[s].n}
      /\ IF ok /\ out[s].i < out[s].size
         THEN Goto(s, "e_check") /\ out' = [out EXCEPT ![s].i = @ + 1]
         ELSE Leave(s, "idle")
  BY <1>1, <1>2 DEF AfterEmit, AfterSend
<1>5. cut \subseteq cut'
  BY <1>4
<1>6. PICK n : n = Len(wire) + 1
  OBVIOUS
<1>7. IF out[s].i > 0
      THEN \E j \in 1 .. Len(wire) : Last(j) /\ wire[j] = [out[s] EXCEPT !.i = @ - 1]
      ELSE \A j \in 1 .. Len(wire) :
             Last(j) => wire[j].i = wire[j].size \/ wire[j].n \in cut
  <2>1. InPacket(s) <=> out[s].i > 0
    BY DEF InPacket
  <2>2. Ready(s)
    BY DEF ReadInv
  <2> QED
    BY <2>1, <2>2 DEF Ready
<1>8. /\ PacketsReadable'
      /\ Len(wire') = n /\ n \in 1 .. n /\ wire'[n] = out[s] /\ Last(n)'
      /\ \A j \in 1 .. n : Last(j)' => j = n
  <2>1. PacketsReadable
    BY DEF ReadInv
  <2> QED
    BY <1>1, <1>2, <1>3, <1>5, <1>6, <1>7, <2>1, FrameArrives
<1>9. CASE ok /\ out[s].i < out[s].size
  <2>1. /\ pc'[s] = "e_check" /\ out'[s] = [out[s] EXCEPT !.i = @ + 1]
        /\ \A t \in Threads : t # s => pc'[t] = pc[t] /\ out'[t] = out[t]
    BY <1>1, <1>4, <1>9 DEF Goto
  <2>2. /\ out'[s].kind = "Message" /\ out'[s].i = out[s].i + 1
        /\ out'[s].size = out[s].size /\ out[s] = [out'[s] EXCEPT !.i = @ - 1]
    BY <1>2, <1>3, <2>1, NextFrame
  <2>4. InPacket(s)' /\ out'[s].i <= out'[s].size
    BY <1>3, <1>9, <2>1, <2>2 DEF InPacket
  <2>5. Ready(s)'
    BY <1>8, <2>2, <2>4 DEF Ready
  <2>6. \A t \in Threads \ Senders :
          pc'[t] \in {"s_engine", "s_socket", "e_check", "e_send"} => out'[t].kind # "Message"
    BY <2>1 DEF ReadInv, Emits
  <2>7. Emits'
    BY <2>1, <2>2, <2>4, <2>6 DEF Emits, OneSender
  <2> QED
    BY <1>8, <2>5, <2>7 DEF ReadInv, OneSender
<1>10. CASE ~(ok /\ out[s].i < out[s].size)
  <2>1. Emits' /\ ~InPacket(s)'
    BY <1>4, <1>10, SenderLeaves
  <2>2. out[s].i = out[s].size \/ out[s].n \in cut'
    BY <1>2, <1>3, <1>4, <1>10
  <2>3. Ready(s)'
    BY <1>8, <2>1, <2>2 DEF Ready
  <2> QED
    BY <1>8, <2>1, <2>3 DEF ReadInv, OneSender
<1> QED
  BY <1>9, <1>10

\* The steps of the sender before it emits.
LEMMA SendReads ==
    ASSUME TypeOK, TypeOK', OneSender, ReadInv, NEW s \in Senders, Send(s) \/ SendStep(s)
    PROVE  ReadInv'
<1>1. /\ pc \in [Threads -> PC] /\ out \in [Threads -> Outgoing] /\ s \in Threads
      /\ s \notin Closers
  BY DEF TypeOK, SharedTypes, Threads, Users
<1>2. /\ UNCHANGED <<wire, cut>>
      /\ \A t \in Threads : t # s => pc'[t] = pc[t] /\ out'[t] = out[t]
  BY <1>1 DEF Send, BeginSend, SendStep, SendCheckEngine, SendCheckSocket, Leave, Goto
<1>3. ~InPacket(s)
  BY DEF InPacket, Send, BeginSend, SendStep, SendCheckEngine, SendCheckSocket
<1>4. /\ pc'[s] \in {"s_engine", "s_socket", "e_check", "idle"}
      /\ pc'[s] # "idle" => out'[s].kind = "Message" /\ out'[s].i = 0
  <2>1. CASE Send(s)
    BY <1>1, <2>1 DEF Send, BeginSend, Goto, Message
  <2>2. CASE SendCheckEngine(s)
    BY <1>1, <2>2 DEF SendCheckEngine, AfterSend, Leave, Goto, ReadInv, Emits
  <2>3. CASE SendCheckSocket(s)
    BY <1>1, <2>3 DEF SendCheckSocket, AfterSend, Leave, Goto, ReadInv, Emits
  <2> QED
    BY <2>1, <2>2, <2>3 DEF SendStep
<1>5. out'[s].size \in Nat
  <2>1. out' \in [Threads -> Outgoing]
    BY DEF TypeOK, SharedTypes
  <2> QED
    BY <1>1, <2>1 DEF Outgoing
<1>6. Emits'
  BY <1>2, <1>4, <1>5 DEF ReadInv, Emits, OneSender
<1>7. ~InPacket(s)'
  BY <1>4 DEF InPacket
<1> QED
  BY <1>2, <1>3, <1>6, <1>7, SenderReads

\* The other threads' emit(), and the send() of a disconnect().
LEMMA OtherEmits ==
    ASSUME TypeOK, ReadInv, NEW t \in Threads \ Senders,
           EmitStep(t) \/ SendStep(t) \/ Disconnect(t)
    PROVE  ReadInv'
<1>1. /\ pc \in [Threads -> PC] /\ out \in [Threads -> Outgoing] /\ Senders \subseteq Threads
  BY DEF TypeOK, SharedTypes, Threads, Users
<1>2. \A u \in Threads : u # t => pc'[u] = pc[u] /\ out'[u] = out[u]
  BY <1>1
     DEF EmitStep, EmitCheck, EmitSend, AfterEmit, SendStep, SendCheckEngine,
         SendCheckSocket, Disconnect, BeginSend, Leave, Goto
<1>3. /\ pc'[t] \in {"s_engine", "s_socket", "e_check", "e_send"} => out'[t].kind # "Message"
      /\ cut \subseteq cut'
      /\ UNCHANGED wire \/ (out[t].kind = "Disconnect" /\ wire' = Append(wire, out[t]))
  <2>1. CASE EmitCheck(t)
    BY <1>1, <2>1 DEF EmitCheck, AfterEmit, AfterSend, Leave, Goto, ReadInv, Emits, Outgoing
  <2>2. CASE EmitSend(t)
    <3>1. PICK ok \in BOOLEAN, arrives \in BOOLEAN :
            /\ wire' = IF arrives /\ out[t].kind \in {"Message", "Disconnect"}
                       THEN Append(wire, out[t]) ELSE wire
            /\ AfterEmit(t, ok)
      BY <2>2 DEF EmitSend
    <3>2. out[t].kind # "Message"
      BY <2>2 DEF EmitSend, ReadInv, Emits
    <3>3. cut \subseteq cut'
      BY <3>1 DEF AfterEmit
    <3>4. pc'[t] \in {"s_engine", "s_socket", "e_check", "e_send"} => out'[t].kind # "Message"
      BY <1>1, <3>1, <3>2 DEF AfterEmit, AfterSend, Leave, Goto, Outgoing
    <3> QED
      BY <3>1, <3>2, <3>3, <3>4
  <2>3. CASE SendStep(t)
    BY <1>1, <2>3
       DEF SendStep, SendCheckEngine, SendCheckSocket, AfterSend, Leave, Goto, ReadInv, Emits
  <2>4. CASE Disconnect(t)
    BY <1>1, <2>4 DEF Disconnect, BeginSend, Farewell, Goto
  <2> QED
    BY <2>1, <2>2, <2>3, <2>4 DEF EmitStep
<1>4. Emits'
  BY <1>1, <1>2, <1>3 DEF ReadInv, Emits
<1>5. \/ UNCHANGED wire
      \/ \E f \in Outgoing : f.kind = "Disconnect" /\ wire' = Append(wire, f)
  BY <1>1, <1>3
<1> QED
  BY <1>1, <1>2, <1>3, <1>4, <1>5, OthersRead

\* The steps of connect(), Socket::disconnect and poll().
LEMMA RestReads ==
    ASSUME TypeOK, ReadInv,
           \/ Connect \/ Poll \/ PollStep \/ UNCHANGED vars
           \/ \E c \in Closers : CloseStep(c)
    PROVE  ReadInv'
<1>1. /\ pc \in [Threads -> PC] /\ out \in [Threads -> Outgoing]
      /\ Senders \subseteq Threads /\ Poller \in Threads \ Senders
      /\ Closers \subseteq Threads \ Senders
  BY DEF TypeOK, SharedTypes, Threads, Users
<1>2. CASE Connect \/ UNCHANGED vars
  <2>1. UNCHANGED <<wire, cut, pc, out>>
    BY <1>2 DEF Connect, vars, outVars
  <2> QED
    BY <2>1, OthersRead DEF ReadInv, Emits
<1>3. ASSUME NEW c \in Closers, CloseStep(c)
      PROVE  ReadInv'
  <2>1. /\ UNCHANGED <<wire, cut>>
        /\ \A t \in Threads : t # c => pc'[t] = pc[t] /\ out'[t] = out[t]
        /\ pc'[c] \in {"s_engine", "s_socket", "e_check", "e_send"} => out'[c].kind # "Message"
    BY <1>1, <1>3
       DEF CloseStep, DisconnectSocket, DisconnectStore, DisconnectFlag, Goto, Plain, outVars
  <2>2. Emits' /\ \A s \in Senders : pc'[s] = pc[s] /\ out'[s] = out[s]
    BY <1>1, <2>1 DEF ReadInv, Emits
  <2> QED
    BY <2>1, <2>2, OthersRead
<1>4. CASE Poll \/ PollStep
  <2>1. UNCHANGED <<wire, cut>>
    <3>1. CASE Poll \/ Ask
      BY <3>1 DEF Poll, Ask, outVars
    <3>2. CASE ReceiveHeader \/ ReceiveData
      <4>1. \A frame, ok : Receive(frame, ok) => UNCHANGED <<wire, cut>>
        BY DEF Receive, outVars
      <4>2. \E frame, ok : Receive(frame, ok)
        BY <3>2, Zenon DEF ReceiveHeader, ReceiveData
      <4> QED
        BY <4>1, <4>2
    <3>3. CASE ReceiveNoop \/ ReceivePing
      BY <3>3 DEF ReceiveNoop, ReceivePing, Receive, outVars
    <3>4. CASE ReceiveClose \/ ReceiveFails
      BY <3>4 DEF ReceiveClose, ReceiveFails, Receive, outVars
    <3>5. CASE Handle
      BY <3>5
         DEF Handle, HandleNone, HandleError, HandleControl, HandleHeader, HandleStray,
             HandleAttachment, handleFrame, outVars
    <3> QED
      BY <1>4, <3>1, <3>2, <3>3, <3>4, <3>5 DEF PollStep, Frame
  <2>2. \/ UNCHANGED out /\ \E label \in {"ask", "wait", "got", "idle"} : Goto(Poller, label)
        \/ out' = [out EXCEPT ![Poller] = Plain("Pong")] /\ Goto(Poller, "e_check")
    <3>1. CASE Poll \/ Ask
      BY <3>1 DEF Poll, Ask, outVars
    <3>2. CASE Frame
      BY <3>2
         DEF Frame, ReceiveHeader, ReceiveData, ReceiveNoop, ReceivePing, ReceiveClose,
             ReceiveFails, Receive, outVars
    <3>3. CASE Handle
      BY <3>3
         DEF Handle, HandleNone, HandleError, HandleControl, HandleHeader, HandleStray,
             HandleAttachment, handleFrame, outVars, Fail, Deliver, Continue
    <3> QED
      BY <1>4, <3>1, <3>2, <3>3 DEF PollStep
  <2>3. /\ \A t \in Threads : t # Poller => pc'[t] = pc[t] /\ out'[t] = out[t]
        /\ pc'[Poller] \in {"s_engine", "s_socket", "e_check", "e_send"}
             => out'[Poller].kind # "Message"
    BY <1>1, <2>2 DEF Goto, Plain
  <2>4. Emits' /\ \A s \in Senders : pc'[s] = pc[s] /\ out'[s] = out[s]
    BY <1>1, <2>3 DEF ReadInv, Emits
  <2> QED
    BY <2>1, <2>4, OthersRead
<1> QED
  BY <1>2, <1>3, <1>4

\* Socket::send: with one sender whoever reads the frames on the wire finds each header
\* followed by its attachments.  Only the Disconnect packets of threads that disconnect
\* come between them, and a packet that misses some had its sender told so by an Err.
THEOREM Readable ==
    ASSUME OneSender
    PROVE  Spec => []PacketsReadable
<1>1. Init => ReadInv
  BY EmptySeq
     DEF Init, ReadInv, Emits, Ready, PacketsReadable, InPacket, Threads, Users
<1>2. ASSUME TypeOK, TypeOK', ReadInv, [Next]_vars PROVE ReadInv'
  <2>0. Users = Senders \cup Closers /\ Users \subseteq Threads
        /\ \A c \in Closers : c \in Threads \ Senders
    BY DEF Users, Threads
  <2>1. ASSUME NEW s \in Senders, Send(s) \/ SendStep(s) PROVE ReadInv'
    BY <1>2, <2>1, SendReads
  <2>2. ASSUME NEW t \in Threads, EmitStep(t) PROVE ReadInv'
    <3>1. CASE t \notin Senders
      BY <1>2, <2>2, <3>1, OtherEmits
    <3>2. CASE t \in Senders /\ EmitCheck(t)
      BY <1>2, <3>2, EmitChecked
    <3>3. CASE t \in Senders /\ EmitSend(t)
      <4>1. PICK ok \in BOOLEAN, arrives \in BOOLEAN :
              /\ ok => arrives
              /\ wire' = IF arrives /\ out[t].kind \in {"Message", "Disconnect"}
                         THEN Append(wire, out[t]) ELSE wire
              /\ AfterEmit(t, ok)
        BY <3>3 DEF EmitSend
      <4>2. pc[t] = "e_send" /\ out[t].kind = "Message"
        BY <1>2, <3>3 DEF EmitSend, ReadInv, Emits
      <4>3. CASE arrives
        BY <1>2, <3>3, <4>1, <4>2, <4>3, EmitArrived
      <4>4. CASE ~arrives
        <5>1. ok = FALSE /\ UNCHANGED wire
          BY <4>1, <4>4
        <5> QED
          BY <1>2, <3>3, <4>1, <4>2, <5>1, EmitFailed
      <4> QED
        BY <4>3, <4>4
    <3> QED
      BY <2>2, <3>1, <3>2, <3>3 DEF EmitStep
  <2>3. CASE \/ Connect \/ Poll \/ PollStep \/ UNCHANGED vars
             \/ \E c \in Closers : CloseStep(c)
    BY <1>2, <2>3, RestReads
  <2>4. ASSUME NEW c \in Closers, Disconnect(c) \/ SendStep(c) PROVE ReadInv'
    BY <1>2, <2>0, <2>4, OtherEmits
  <2> QED
    BY <1>2, <2>0, <2>1, <2>2, <2>3, <2>4 DEF Next
<1>3. ReadInv => PacketsReadable
  BY DEF ReadInv
<1> QED
  BY <1>1, <1>2, <1>3, Typing, PTL DEF Spec
=============================================================================
