-------------------------- MODULE RawClientProofs --------------------------
(***************************************************************************)
(* RawClient, for any number of threads, requests and events: under the    *)
(* discipline that callbacks have to keep no thread ever waits for itself and *)
(* no two wait for each other; the variables keep their types; as long as the *)
(* ids differ no ack is lost, and what is removed is what was answered.    *)
(***************************************************************************)
EXTENDS RawClient, SequenceTheorems, TLAPS

-----------------------------------------------------------------------------
(* The list of acks: pushing one, and removing one by its position. *)

\* Vec::push: the new element is the last, and all others stay.
LEMMA Appended ==
    ASSUME NEW S, NEW s \in Seq(S), NEW e \in S
    PROVE  /\ Append(s, e) \in Seq(S) /\ Len(s) \in Nat /\ Len(Append(s, e)) = Len(s) + 1
           /\ Append(s, e)[Len(s) + 1] = e
           /\ \A i \in 1 .. Len(s) : s[i] \in S /\ Append(s, e)[i] = s[i]
BY AppendProperties, LenProperties, ElementOfSeq

\* Vec::remove: the elements behind it move up.
LEMMA Removed ==
    ASSUME NEW S, NEW s \in Seq(S), NEW i \in 1 .. Len(s)
    PROVE  /\ RemoveAt(s, i) \in Seq(S) /\ Len(s) \in Nat /\ Len(RemoveAt(s, i)) = Len(s) - 1
           /\ \A j \in 1 .. Len(s) - 1 : RemoveAt(s, i)[j] = IF j < i THEN s[j] ELSE s[j + 1]
<1> DEFINE a == SubSeq(s, 1, i - 1)
           b == SubSeq(s, i + 1, Len(s))
<1>1. Len(s) \in Nat
  BY LenProperties
<1>2. a \in Seq(S) /\ Len(a) = i - 1 /\ \A j \in 1 .. i - 1 : a[j] = s[j]
  BY <1>1, SubSeqProperties
<1>3. b \in Seq(S) /\ Len(b) = Len(s) - i /\ \A j \in 1 .. Len(s) - i : b[j] = s[i + j]
  BY <1>1, SubSeqProperties
<1> HIDE DEF a, b
<1>4. /\ a \o b \in Seq(S) /\ Len(a \o b) = Len(s) - 1
      /\ \A j \in 1 .. Len(s) - 1 : (a \o b)[j] = IF j <= i - 1 THEN a[j] ELSE b[j - (i - 1)]
  <2>1. /\ a \o b \in Seq(S) /\ Len(a \o b) = Len(a) + Len(b)
        /\ \A j \in 1 .. Len(a) + Len(b) : (a \o b)[j] = IF j <= Len(a) THEN a[j] ELSE b[j - Len(a)]
    <3>1. a \in Seq(S) /\ b \in Seq(S)
      BY <1>2, <1>3
    <3> QED
      BY <3>1, ConcatProperties
  <2>2. Len(a) + Len(b) = Len(s) - 1
    BY <1>1, <1>2, <1>3
  <2> QED
    BY <1>2, <2>1, <2>2
<1>5. \A j \in 1 .. Len(s) - 1 : (a \o b)[j] = IF j < i THEN s[j] ELSE s[j + 1]
  <2> SUFFICES ASSUME NEW j \in 1 .. Len(s) - 1
               PROVE  (a \o b)[j] = IF j < i THEN s[j] ELSE s[j + 1]
    OBVIOUS
  <2>1. CASE j < i
    BY <1>1, <1>2, <1>4, <2>1
  <2>2. CASE ~(j < i)
    <3>1. j - (i - 1) \in 1 .. Len(s) - i /\ i + (j - (i - 1)) = j + 1 /\ ~(j <= i - 1)
      BY <1>1, <2>2
    <3>2. (a \o b)[j] = b[j - (i - 1)] /\ b[j - (i - 1)] = s[i + (j - (i - 1))]
      BY <1>3, <1>4, <3>1
    <3> QED
      BY <2>2, <3>1, <3>2
  <2> QED
    BY <2>1, <2>2
<1> QED
  BY <1>1, <1>4, <1>5 DEF RemoveAt, a, b

-----------------------------------------------------------------------------

\* The owner of a lock is inside the call that took it, and what it does there
\* is what its callbacks may do.
LockInv ==
    /\ pc \in [Threads -> PC]
    /\ acksOwner \in {Nobody, Poller}
    /\ onOwner \in Threads \cup {Nobody}
    /\ \A t \in Threads : onOwner = t =>
         /\ pc[t] \in {"body", "rq_push", "rq_send"}
         /\ pc[t] # "body" => "request" \in OnOps
    /\ acksOwner = Poller =>
         /\ pc[Poller] \in {"ack_scan", "body", "dc_close", "on_lock"}
         /\ pc[Poller] \in {"dc_close", "on_lock"} \/ onOwner = Poller
              => "disconnect" \in AckOps

\* Between the locks there is no cycle.
LEMMA LockInvSuffices == Discipline /\ LockInv => NoWaitCycle
<1> SUFFICES ASSUME Discipline, LockInv, NEW t \in Threads, NEW u \in Threads,
                    WaitsFor(t, u), WaitsFor(u, t)
             PROVE  FALSE
  BY DEF NoWaitCycle
<1>1. t # Nobody /\ u # Nobody
  BY ThreadsAssumption
<1>2. ASSUME NEW a \in Threads, NEW b \in Threads, WaitsFor(a, b), acksOwner = b,
             WaitsFor(b, a)
      PROVE  pc[b] = "on_lock" /\ onOwner = a /\ b = Poller
  <2>1. b = Poller
    BY <1>2, ThreadsAssumption DEF LockInv
  <2>2. pc[b] \in {"ack_scan", "body", "dc_close", "on_lock"}
    BY <1>2, <2>1 DEF LockInv
  <2> QED
    BY <1>2, <2>1, <2>2 DEF WaitsFor
<1>3. CASE acksOwner = u
  <2>1. pc[u] = "on_lock" /\ onOwner = t /\ u = Poller
    BY <1>2, <1>3
  <2>2. "disconnect" \in AckOps
    BY <1>3, <2>1 DEF LockInv
  <2>3. pc[t] = "rq_push"
    BY <2>1 DEF WaitsFor, LockInv
  <2>4. "request" \in OnOps
    BY <2>1, <2>3 DEF LockInv
  <2> QED
    BY <2>2, <2>4 DEF Discipline
<1>4. CASE acksOwner = t
  <2>1. pc[t] = "on_lock" /\ onOwner = u /\ t = Poller
    BY <1>2, <1>4
  <2>2. "disconnect" \in AckOps
    BY <1>4, <2>1 DEF LockInv
  <2>3. pc[u] = "rq_push"
    BY <2>1 DEF WaitsFor, LockInv
  <2>4. "request" \in OnOps
    BY <2>1, <2>3 DEF LockInv
  <2> QED
    BY <2>2, <2>4 DEF Discipline
<1>5. CASE acksOwner # u /\ acksOwner # t
  BY <1>5 DEF WaitsFor, LockInv
<1> QED
  BY <1>3, <1>4, <1>5

\* A thread that goes to another place within a call, with the locks unchanged.
LEMMA MoveKeepsLockInv ==
    ASSUME LockInv, NEW t \in Threads, NEW label \in PC, Goto(t, label),
           UNCHANGED <<acksOwner, onOwner>>,
           onOwner = t => /\ label \in {"body", "rq_push", "rq_send"}
                          /\ label # "body" => "request" \in OnOps,
           acksOwner = t /\ t = Poller =>
               /\ label \in {"ack_scan", "body", "dc_close", "on_lock"}
               /\ label \in {"dc_close", "on_lock"} => "disconnect" \in AckOps
    PROVE  LockInv'
<1>1. pc' \in [Threads -> PC]
  BY DEF LockInv, Goto
<1>2. \A u \in Threads : pc'[u] = IF u = t THEN label ELSE pc[u]
  BY DEF LockInv, Goto
<1>3. Poller \in Threads
  BY DEF Threads
<1> QED
  BY <1>1, <1>2, <1>3 DEF LockInv

\* A call that ends leaves the thread in the callback it was made from, if any.
LEMMA ResumeKeepsLockInv ==
    ASSUME LockInv, NEW t \in Threads, Resume(t), UNCHANGED <<acksOwner, onOwner>>
    PROVE  LockInv'
<1>1. CASE t \in {onOwner, acksOwner}
  BY <1>1, MoveKeepsLockInv DEF Resume, PC
<1>2. CASE t \notin {onOwner, acksOwner}
  BY <1>2, MoveKeepsLockInv DEF Resume, PC
<1> QED
  BY <1>1, <1>2

\* RawClient::callback and handle_ack: with the discipline, whatever threads
\* call the client and whatever the callbacks do within it, no thread waits for
\* a lock that it holds and no two threads wait for each other.
THEOREM LockOrder == ASSUME Discipline PROVE Spec => []NoWaitCycle
<1> USE DEF PC
<1>1. Init => LockInv
  BY ThreadsAssumption DEF Init, LockInv, Threads
<1>2. LockInv /\ [Next]_vars => LockInv'
  <2> SUFFICES ASSUME LockInv, [Next]_vars
               PROVE  LockInv'
    OBVIOUS
  <2>0. Poller \in Threads /\ Nobody \notin Threads
    BY ThreadsAssumption DEF Threads
  <2>1. ASSUME NEW t \in Threads, RequestStart(t)
        PROVE  LockInv'
    <3>1. UNCHANGED <<acksOwner, onOwner>> /\ Goto(t, "rq_push") /\ Free(t, "request")
      BY <2>1 DEF RequestStart
    <3>2. CASE pc[t] = "idle"
      <4>1. onOwner # t /\ ~(acksOwner = t /\ t = Poller)
        BY <3>2 DEF LockInv
      <4> QED
        BY <3>1, <4>1, MoveKeepsLockInv
    <3>3. CASE pc[t] = "body"
      <4>1. onOwner = t /\ "request" \in OnOps
        BY <3>1, <3>3 DEF Free, Discipline
      <4>2. ~(acksOwner = t /\ t = Poller)
        BY <4>1 DEF LockInv, Discipline
      <4> QED
        BY <3>1, <4>1, <4>2, MoveKeepsLockInv
    <3> QED
      BY <3>1, <3>2, <3>3 DEF Free
  <2>2. ASSUME NEW t \in Threads, Disconnect(t)
        PROVE  LockInv'
    <3>1. UNCHANGED <<acksOwner, onOwner>> /\ Goto(t, "dc_close") /\ Free(t, "disconnect")
      BY <2>2 DEF Disconnect
    <3>2. CASE pc[t] = "idle"
      <4>1. onOwner # t /\ ~(acksOwner = t /\ t = Poller)
        BY <3>2 DEF LockInv
      <4> QED
        BY <3>1, <4>1, MoveKeepsLockInv
    <3>3. CASE pc[t] = "body"
      <4>1. onOwner # t /\ "disconnect" \in AckOps
        BY <3>1, <3>3 DEF Free, Discipline
      <4> QED
        BY <3>1, <4>1, MoveKeepsLockInv
    <3> QED
      BY <3>1, <3>2, <3>3 DEF Free
  <2>3. ASSUME NEW t \in Threads, RequestPush(t)
        PROVE  LockInv'
    <3>1. UNCHANGED <<acksOwner, onOwner>> /\ pc[t] = "rq_push" /\ acksOwner = Nobody
      BY <2>3 DEF RequestPush
    <3>2. CASE Resume(t)
      BY <3>1, <3>2, ResumeKeepsLockInv
    <3>3. CASE Goto(t, "rq_send")
      <4>1. onOwner = t => "request" \in OnOps
        BY <3>1 DEF LockInv
      <4> QED
        BY <2>0, <3>1, <3>3, <4>1, MoveKeepsLockInv
    <3> QED
      BY <2>3, <3>2, <3>3 DEF RequestPush
  <2>4. ASSUME NEW t \in Threads, RequestSend(t)
        PROVE  LockInv'
    BY <2>4, ResumeKeepsLockInv DEF RequestSend
  <2>5. ASSUME NEW t \in Threads, DisconnectClose(t)
        PROVE  LockInv'
    <3>1. UNCHANGED <<acksOwner, onOwner>> /\ Goto(t, "on_lock") /\ pc[t] = "dc_close"
      BY <2>5 DEF DisconnectClose
    <3>2. onOwner # t /\ (acksOwner = t /\ t = Poller => "disconnect" \in AckOps)
      BY <3>1 DEF LockInv
    <3> QED
      BY <3>1, <3>2, MoveKeepsLockInv
  <2>6. ASSUME NEW t \in Threads, OnLock(t)
        PROVE  LockInv'
    <3>1. UNCHANGED acksOwner /\ pc[t] = "on_lock" /\ onOwner = Nobody
      BY <2>6 DEF OnLock
    <3>2. CASE Resume(t) /\ UNCHANGED onOwner
      BY <3>1, <3>2, ResumeKeepsLockInv
    <3>3. CASE onOwner' = t /\ Goto(t, "body")
      <4>1. /\ pc' \in [Threads -> PC]
            /\ \A u \in Threads : pc'[u] = IF u = t THEN "body" ELSE pc[u]
        BY <3>3 DEF LockInv, Goto
      <4>2. t = Poller /\ acksOwner = Poller => "disconnect" \in AckOps
        BY <3>1 DEF LockInv
      <4> QED
        BY <2>0, <3>1, <3>3, <4>1, <4>2 DEF LockInv
    <3> QED
      BY <2>6, <3>2, <3>3 DEF OnLock
  <2>7. ASSUME NEW t \in Threads, OnReturn(t)
        PROVE  LockInv'
    <3>1. PICK label \in {"body", "idle"} : /\ Goto(t, label)
                                            /\ acksOwner = t => label = "body"
      BY <2>7 DEF OnReturn
    <3>2. /\ pc' \in [Threads -> PC]
          /\ \A u \in Threads : pc'[u] = IF u = t THEN label ELSE pc[u]
      BY <3>1 DEF LockInv, Goto
    <3>3. onOwner' = Nobody /\ acksOwner' = acksOwner /\ onOwner = t
      BY <2>7 DEF OnReturn
    <3> QED
      BY <2>0, <3>1, <3>2, <3>3 DEF LockInv
  <2>8. ASSUME NEW t \in Threads, BodyPanic(t)
        PROVE  LockInv'
    <3>1. /\ pc' \in [Threads -> PC]
          /\ \A u \in Threads : pc'[u] = IF u = t THEN "panicked" ELSE pc[u]
      BY <2>8 DEF BodyPanic, LockInv, Goto
    <3>2. /\ onOwner' = IF onOwner = t THEN Nobody ELSE onOwner
          /\ acksOwner' = IF acksOwner = t THEN Nobody ELSE acksOwner
      BY <2>8 DEF BodyPanic
    <3> QED
      BY <2>0, <3>1, <3>2 DEF LockInv
  <2>9. CASE PollStart \/ RecvEvent \/ RecvForeign \/ RecvEmptyArray \/ RecvClose
             \/ RecvAck
    <3>1. UNCHANGED <<acksOwner, onOwner>> /\ pc[Poller] \in {"idle", "recv"}
      BY <2>9 DEF PollStart, RecvEvent, RecvForeign, RecvEmptyArray, RecvClose, RecvAck
    <3>2. \E label \in PC : Goto(Poller, label)
      BY <2>9 DEF PollStart, RecvEvent, RecvForeign, RecvEmptyArray, RecvClose, RecvAck
    <3>3. onOwner # Poller /\ acksOwner # Poller
      BY <2>0, <3>1 DEF LockInv
    <3> QED
      BY <2>0, <3>1, <3>2, <3>3, MoveKeepsLockInv
  <2>10. CASE AckLock
    <3>1. /\ pc[Poller] = "ack_lock" /\ acksOwner = Nobody /\ UNCHANGED onOwner
          /\ onOwner # Poller
      BY <2>0, <2>10 DEF AckLock, LockInv
    <3>2. CASE Goto(Poller, "on_lock") /\ UNCHANGED acksOwner
      BY <2>0, <3>1, <3>2, MoveKeepsLockInv
    <3>3. CASE Goto(Poller, "ack_scan") /\ acksOwner' = Poller
      <4>1. /\ pc' \in [Threads -> PC]
            /\ \A u \in Threads : pc'[u] = IF u = Poller THEN "ack_scan" ELSE pc[u]
        BY <2>0, <3>3 DEF LockInv, Goto
      <4> QED
        BY <2>0, <3>1, <3>3, <4>1 DEF LockInv
    <3> QED
      BY <2>10, <3>2, <3>3 DEF AckLock
  <2>11. CASE AckMatch \/ AckReturn
    <3>1. UNCHANGED <<acksOwner, onOwner>> /\ onOwner # Poller
      BY <2>0, <2>11 DEF AckMatch, AckReturn, LockInv
    <3>2. \E label \in {"body", "ack_scan"} : Goto(Poller, label)
      BY <2>11 DEF AckMatch, AckReturn
    <3> QED
      BY <2>0, <3>1, <3>2, MoveKeepsLockInv
  <2>12. CASE AckScanned
    <3>1. /\ pc[Poller] = "ack_scan" /\ acksOwner' = Nobody /\ UNCHANGED onOwner
          /\ onOwner # Poller
      BY <2>0, <2>12 DEF AckScanned, LockInv
    <3>2. /\ pc' \in [Threads -> PC]
          /\ \A u \in Threads : pc'[u] = IF u = Poller THEN "ack_remove" ELSE pc[u]
      BY <2>0, <2>12 DEF AckScanned, LockInv, Goto
    <3> QED
      BY <2>0, <3>1, <3>2 DEF LockInv
  <2>13. CASE AckRemove \/ AckDone
    <3>1. UNCHANGED <<acksOwner, onOwner>> /\ pc[Poller] = "ack_remove"
      BY <2>13 DEF AckRemove, AckDone
    <3>2. onOwner # Poller /\ acksOwner # Poller
      BY <2>0, <3>1 DEF LockInv
    <3>3. UNCHANGED pc \/ \E label \in PC : Goto(Poller, label)
      BY <2>13 DEF AckRemove, AckDone, RemoveAck
    <3>4. CASE UNCHANGED pc
      BY <3>1, <3>4 DEF LockInv
    <3>5. CASE \E label \in PC : Goto(Poller, label)
      BY <2>0, <3>1, <3>2, <3>5, MoveKeepsLockInv
    <3> QED
      BY <3>3, <3>4, <3>5
  <2>14. CASE Expire \/ UNCHANGED vars
    BY <2>14 DEF Expire, vars, LockInv
  <2> QED
    BY <2>1, <2>2, <2>3, <2>4, <2>5, <2>6, <2>7, <2>8, <2>9, <2>10, <2>11, <2>12,
       <2>13, <2>14 DEF Next, InCall, HandleAck
<1>3. LockInv => NoWaitCycle
  BY LockInvSuffices
<1> QED
  BY <1>1, <1>2, <1>3, PTL DEF Spec

----------------------------------------------------------------------------
(* Types *)

\* A thread that goes to another place, with the locks unchanged.
LEMMA MoveKeepsPlaces ==
    ASSUME TypeOK, NEW t \in Threads, NEW label \in PC, Goto(t, label),
           UNCHANGED <<acksOwner, onOwner>>,
           Len(ids) \in Nat, Len(ids') \in Nat, Len(ids) <= Len(ids'),
           pend' \in [Threads -> Nat], \A u \in Threads \ {t} : pend'[u] = pend[u],
           acksOwner \in {t, Nobody} \/ UNCHANGED scan,
           label \in {"rq_push", "rq_send"} => pend'[t] \in 1..Len(ids'),
           label = "body" => t \in {onOwner, acksOwner},
           onOwner = t => label \in {"body", "rq_push", "rq_send", "dc_close", "on_lock"},
           label = "ack_scan" => acksOwner = t,
           acksOwner = t => \/ label = "ack_scan"
                            \/ /\ label \in {"body", "rq_push", "dc_close", "on_lock"}
                               /\ scan'.left > 0
    PROVE  pc' \in [Threads -> PC] /\ \A u \in Threads : InPlace(u)'
<1>1. /\ pc' \in [Threads -> PC]
      /\ \A u \in Threads : pc'[u] = IF u = t THEN label ELSE pc[u]
  BY DEF TypeOK, VarTypes, Goto
<1>2. InPlace(t)'
  BY <1>1 DEF InPlace
<1>3. ASSUME NEW u \in Threads, u # t
      PROVE  InPlace(u)'
  <2>1. pc'[u] = pc[u] /\ pend'[u] = pend[u] /\ InPlace(u) /\ u # Nobody
    BY <1>1, <1>3, ThreadsAssumption DEF TypeOK
  <2>2. acksOwner = u => scan' = scan
    BY <1>3, <2>1
  <2>3. pend'[u] \in 1..Len(ids) => pend'[u] \in 1..Len(ids')
    OBVIOUS
  <2> QED
    BY <2>1, <2>2, <2>3 DEF InPlace
<1> QED
  BY <1>1, <1>2, <1>3

\* A call returns to the callback it was made from, if any.
LEMMA ResumeKeepsPlaces ==
    ASSUME TypeOK, NEW t \in Threads, Resume(t), UNCHANGED <<acksOwner, onOwner, ids, scan>>,
           pend' \in [Threads -> Nat], \A u \in Threads \ {t} : pend'[u] = pend[u],
           pc[t] # "ack_scan"
    PROVE  pc' \in [Threads -> PC] /\ \A u \in Threads : InPlace(u)'
<1>1. Len(ids) \in Nat /\ Len(ids') = Len(ids) /\ scan' = scan
  BY LenProperties DEF TypeOK, VarTypes
<1>2. acksOwner = t => scan.left > 0
  BY DEF TypeOK, InPlace
<1>3. CASE t \in {onOwner, acksOwner}
  BY <1>1, <1>2, <1>3, MoveKeepsPlaces DEF Resume, PC
<1>4. CASE t \notin {onOwner, acksOwner}
  BY <1>1, <1>4, MoveKeepsPlaces DEF Resume, PC
<1> QED
  BY <1>3, <1>4

\* What user threads and callbacks do.
LEMMA CallTyped ==
    ASSUME TypeOK, NEW t \in Threads,
           \/ RequestStart(t) \/ RequestPush(t) \/ RequestSend(t)
           \/ Disconnect(t) \/ DisconnectClose(t)
    PROVE  TypeOK'
<1>0. /\ VarTypes /\ InPlace(t) /\ Len(ids) \in Nat
      /\ pend \in [Threads -> Nat] /\ asked \subseteq 1..Len(ids)
  BY LenProperties DEF TypeOK, VarTypes
<1>1. CASE RequestStart(t)
  <2>1. PICK id \in Ids : ids' = Append(ids, id)
    BY <1>1 DEF RequestStart
  <2>2. /\ ids' \in Seq(Ids) /\ Len(ids') = Len(ids) + 1
    BY <1>0, <2>1, Appended DEF VarTypes
  <2>3. /\ pend' \in [Threads -> Nat] /\ pend'[t] = Len(ids')
        /\ \A u \in Threads \ {t} : pend'[u] = pend[u]
    BY <1>0, <1>1, <2>2 DEF RequestStart
  <2>4. /\ UNCHANGED <<acksOwner, onOwner, scan>> /\ Goto(t, "rq_push")
        /\ pc[t] \in {"idle", "body"}
    BY <1>1 DEF RequestStart, Free
  <2>5. acksOwner = t => scan.left > 0
    BY <1>0, <2>4 DEF InPlace
  <2>6. pc' \in [Threads -> PC] /\ \A u \in Threads : InPlace(u)'
    BY <1>0, <2>2, <2>3, <2>4, <2>5, MoveKeepsPlaces DEF PC
  <2>7. asked \subseteq 1..Len(ids') /\ expired \subseteq 1..Len(ids')
    BY <1>0, <2>2 DEF VarTypes
  <2> QED
    BY <1>0, <1>1, <2>2, <2>3, <2>6, <2>7 DEF RequestStart, TypeOK, VarTypes
<1>2. CASE RequestPush(t)
  <2>1. /\ pc[t] = "rq_push" /\ pend[t] \in 1..Len(ids) /\ ids[pend[t]] \in Ids
        /\ acksOwner = Nobody /\ t # Nobody
    BY <1>0, <1>2, ElementOfSeq, ThreadsAssumption DEF RequestPush, InPlace, VarTypes
  <2>2. CASE "acks" \in poisoned
    <3>1. /\ pend' \in [Threads -> Nat] /\ \A u \in Threads \ {t} : pend'[u] = pend[u]
          /\ Resume(t) /\ UNCHANGED <<acks, acksOwner, onOwner, ids, scan>>
      BY <1>0, <1>2, <2>2 DEF RequestPush
    <3>2. pc' \in [Threads -> PC] /\ \A u \in Threads : InPlace(u)'
      BY <2>1, <3>1, ResumeKeepsPlaces
    <3> QED
      BY <1>0, <1>2, <3>1, <3>2 DEF RequestPush, TypeOK, VarTypes
  <2>3. CASE "acks" \notin poisoned
    <3>1. /\ acks' = Append(acks, [id |-> ids[pend[t]], req |-> pend[t]])
          /\ Goto(t, "rq_send") /\ UNCHANGED <<acksOwner, onOwner, ids, scan, pend>>
      BY <1>2, <2>3 DEF RequestPush
    <3>2. acks' \in Seq(Ack)
      BY <1>0, <2>1, <3>1, Appended DEF VarTypes, Ack
    <3>3. pc' \in [Threads -> PC] /\ \A u \in Threads : InPlace(u)'
      BY <1>0, <2>1, <3>1, MoveKeepsPlaces DEF PC
    <3> QED
      BY <1>0, <1>2, <3>1, <3>2, <3>3 DEF RequestPush, TypeOK, VarTypes
  <2> QED
    BY <2>2, <2>3
<1>3. CASE RequestSend(t)
  <2>1. pc[t] = "rq_send" /\ pend[t] \in 1..Len(ids)
    BY <1>0, <1>3 DEF RequestSend, InPlace
  <2>2. /\ pend' \in [Threads -> Nat] /\ \A u \in Threads \ {t} : pend'[u] = pend[u]
        /\ Resume(t) /\ UNCHANGED <<acksOwner, onOwner, ids, scan>>
    BY <1>0, <1>3 DEF RequestSend
  <2>3. pc' \in [Threads -> PC] /\ \A u \in Threads : InPlace(u)'
    BY <2>1, <2>2, ResumeKeepsPlaces
  <2>4. asked' \subseteq 1..Len(ids)
    BY <1>0, <1>3, <2>1 DEF RequestSend
  <2> QED
    BY <1>0, <1>3, <2>2, <2>3, <2>4 DEF RequestSend, TypeOK, VarTypes
<1>4. CASE Disconnect(t) \/ DisconnectClose(t)
  <2>1. PICK label \in {"dc_close", "on_lock"} : Goto(t, label)
    BY <1>4 DEF Disconnect, DisconnectClose
  <2>2. /\ UNCHANGED <<acksOwner, onOwner, ids, scan, pend>>
        /\ pc[t] \in {"idle", "body", "dc_close"}
    BY <1>4 DEF Disconnect, DisconnectClose, Free
  <2>3. acksOwner = t => scan.left > 0
    BY <1>0, <2>2 DEF InPlace
  <2>4. pc' \in [Threads -> PC] /\ \A u \in Threads : InPlace(u)'
    BY <1>0, <2>1, <2>2, <2>3, MoveKeepsPlaces DEF PC
  <2>5. engine' \in BOOLEAN /\ open' \in BOOLEAN
    <3>1. engine \in BOOLEAN /\ open \in BOOLEAN
      BY <1>0 DEF VarTypes
    <3>2. (engine' = engine /\ open' = open) \/ (engine' = FALSE /\ open' = FALSE)
      BY <1>4 DEF Disconnect, DisconnectClose
    <3> QED
      BY <3>1, <3>2
  <2>6. disconnects' \in Nat
    <3>1. disconnects \in Nat /\ disconnects' \in {disconnects, disconnects + 1}
      BY <1>0, <1>4 DEF Disconnect, DisconnectClose, VarTypes
    <3> QED
      BY <3>1
  <2>7. UNCHANGED <<acks, acksOwner, onOwner, poisoned, pend, scan, ids, asked, expired, called,
                    inTime, events>>
    BY <1>4 DEF Disconnect, DisconnectClose
  <2> QED
    BY <1>0, <2>4, <2>5, <2>6, <2>7 DEF TypeOK, VarTypes
<1> QED
  BY <1>1, <1>2, <1>3, <1>4

\* Event callbacks, with their lock.
LEMMA CallbackTyped ==
    ASSUME TypeOK, NEW t \in Threads, OnLock(t) \/ OnReturn(t) \/ BodyPanic(t)
    PROVE  TypeOK'
<1>0. /\ VarTypes /\ InPlace(t) /\ Len(ids) \in Nat /\ t # Nobody
      /\ pend \in [Threads -> Nat] /\ pc \in [Threads -> PC]
  BY LenProperties, ThreadsAssumption DEF TypeOK, VarTypes
<1>1. CASE OnLock(t)
  <2>1. pc[t] = "on_lock" /\ onOwner = Nobody /\ UNCHANGED <<acksOwner, ids, scan, pend>>
    BY <1>1 DEF OnLock
  <2>2. CASE "on" \in poisoned
    <3>1. pc' \in [Threads -> PC] /\ \A u \in Threads : InPlace(u)'
      BY <1>0, <1>1, <2>1, <2>2, ResumeKeepsPlaces DEF OnLock
    <3> QED
      BY <1>0, <1>1, <2>2, <3>1 DEF OnLock, TypeOK, VarTypes
  <2>3. CASE "on" \notin poisoned
    <3>1. /\ onOwner' = t /\ pc' \in [Threads -> PC]
          /\ \A u \in Threads : pc'[u] = IF u = t THEN "body" ELSE pc[u]
      BY <1>0, <1>1, <2>3 DEF OnLock, Goto, PC
    <3>2. InPlace(t)'
      BY <1>0, <2>1, <3>1 DEF InPlace
    <3>3. ASSUME NEW u \in Threads, u # t
          PROVE  InPlace(u)'
      <4>1. pc'[u] = pc[u] /\ onOwner # u /\ onOwner' # u /\ InPlace(u)
        BY <2>1, <3>1, <3>3, ThreadsAssumption DEF TypeOK
      <4>2. acksOwner' = acksOwner /\ ids' = ids /\ scan' = scan /\ pend' = pend
        BY <2>1
      <4> QED
        BY <4>1, <4>2 DEF InPlace
    <3> QED
      BY <1>0, <1>1, <3>1, <3>2, <3>3 DEF OnLock, TypeOK, VarTypes
  <2> QED
    BY <2>2, <2>3
<1>2. CASE OnReturn(t)
  <2>1. /\ onOwner = t /\ onOwner' = Nobody /\ pc[t] = "body"
        /\ UNCHANGED <<acksOwner, ids, scan, pend>>
    BY <1>2 DEF OnReturn
  <2>2. /\ pc' \in [Threads -> PC]
        /\ \A u \in Threads : pc'[u] = IF u = t THEN (IF acksOwner = t THEN "body" ELSE "idle")
                                                ELSE pc[u]
    BY <1>0, <1>2 DEF OnReturn, Goto, PC
  <2>3. \A u \in Threads : InPlace(u)'
    BY <1>0, <2>1, <2>2, ThreadsAssumption DEF TypeOK, InPlace
  <2> QED
    BY <1>0, <1>2, <2>2, <2>3 DEF OnReturn, TypeOK, VarTypes
<1>3. CASE BodyPanic(t)
  <2>1. /\ onOwner' = IF onOwner = t THEN Nobody ELSE onOwner
        /\ acksOwner' = IF acksOwner = t THEN Nobody ELSE acksOwner
        /\ UNCHANGED <<ids, scan, pend>> /\ poisoned' \subseteq {"on", "acks"}
    BY <1>0, <1>3 DEF BodyPanic, VarTypes
  <2>2. /\ pc' \in [Threads -> PC]
        /\ \A u \in Threads : pc'[u] = IF u = t THEN "panicked" ELSE pc[u]
    BY <1>0, <1>3 DEF BodyPanic, Goto, PC
  <2>3. \A u \in Threads : InPlace(u)'
    BY <1>0, <2>1, <2>2, ThreadsAssumption DEF TypeOK, InPlace
  <2> QED
    BY <1>0, <1>3, <2>1, <2>2, <2>3 DEF BodyPanic, TypeOK, VarTypes
<1> QED
  BY <1>1, <1>2, <1>3

\* NoScan is what handle_ack starts from.
LEMMA ScanTypes == NoScan \in Scan
BY EmptySeq DEF NoScan, Scan

\* The polling thread between two packets.
LEMMA RecvTyped ==
    ASSUME TypeOK,
           PollStart \/ RecvEvent \/ RecvForeign \/ RecvEmptyArray \/ RecvClose \/ RecvAck
    PROVE  TypeOK'
<1>0. /\ VarTypes /\ Poller \in Threads /\ InPlace(Poller) /\ Len(ids) \in Nat
      /\ pend \in [Threads -> Nat] /\ acksOwner \in {Nobody, Poller}
  BY LenProperties DEF TypeOK, VarTypes, Threads
<1>1. /\ pc[Poller] \in {"idle", "recv"}
      /\ UNCHANGED <<acks, acksOwner, onOwner, poisoned, pend, ids, expired, called, inTime,
                     disconnects>>
  BY DEF PollStart, RecvEvent, RecvForeign, RecvEmptyArray, RecvClose, RecvAck
<1>2. acksOwner = Nobody /\ onOwner # Poller
  BY <1>0, <1>1 DEF InPlace
<1>3. PICK label \in {"recv", "on_lock", "idle", "panicked", "ack_lock"} : Goto(Poller, label)
  BY DEF PollStart, RecvEvent, RecvForeign, RecvEmptyArray, RecvClose, RecvAck
<1>4. pc' \in [Threads -> PC] /\ \A u \in Threads : InPlace(u)'
  BY <1>0, <1>1, <1>2, <1>3, ThreadsAssumption, MoveKeepsPlaces DEF PC
<1>5. engine' \in BOOLEAN /\ events' \in Nat /\ asked' \subseteq 1..Len(ids)
  <2>1. engine' \in {engine, FALSE}
    BY DEF PollStart, RecvEvent, RecvForeign, RecvEmptyArray, RecvClose, RecvAck
  <2>2. events' \in {events, events + 1}
    BY DEF PollStart, RecvEvent, RecvForeign, RecvEmptyArray, RecvClose, RecvAck
  <2>3. asked' \subseteq asked
    BY DEF PollStart, RecvEvent, RecvForeign, RecvEmptyArray, RecvClose, RecvAck
  <2>4. engine \in BOOLEAN /\ events \in Nat /\ asked \subseteq 1..Len(ids)
    BY <1>0 DEF VarTypes
  <2>5. engine' \in BOOLEAN
    BY <2>1, <2>4
  <2>6. events' \in Nat
    BY <2>2, <2>4
  <2> QED
    BY <2>3, <2>4, <2>5, <2>6
<1>6. open' \in BOOLEAN
  <2>1. \A kind \in {"Event", "Connect", "Disconnect", "ConnectError", "Failure"} :
           PacketOpens(kind) \in BOOLEAN
    BY <1>0 DEF PacketOpens, VarTypes
  <2> QED
    BY <1>0, <2>1 DEF PollStart, RecvEvent, RecvForeign, RecvEmptyArray, RecvClose, RecvAck,
                      VarTypes
<1>7. scan' \in Scan
  <2>1. CASE RecvAck
    <3>1. PICK r \in asked, calls \in 0..2 :
            scan' = [NoScan EXCEPT !.req = r, !.id = ids[r], !.calls = calls]
      BY <2>1 DEF RecvAck
    <3>2. r \in Nat /\ ids[r] \in Ids
      BY <1>0, ElementOfSeq DEF VarTypes
    <3> QED
      BY <3>1, <3>2, ScanTypes DEF Scan
  <2>2. CASE ~RecvAck
    BY <1>0, <2>2 DEF PollStart, RecvEvent, RecvForeign, RecvEmptyArray, RecvClose, VarTypes
  <2> QED
    BY <2>1, <2>2
<1> QED
  BY <1>0, <1>1, <1>4, <1>5, <1>6, <1>7 DEF TypeOK, VarTypes

\* handle_ack.
LEMMA HandleAckTyped ==
    ASSUME TypeOK, HandleAck
    PROVE  TypeOK'
<1>0. /\ VarTypes /\ Poller \in Threads /\ InPlace(Poller) /\ Len(ids) \in Nat
      /\ pend \in [Threads -> Nat] /\ pc \in [Threads -> PC] /\ scan \in Scan
      /\ acksOwner \in {Nobody, Poller} /\ Poller # Nobody
  BY LenProperties, ThreadsAssumption DEF TypeOK, VarTypes, Threads
<1>1. CASE AckLock
  <2>1. /\ pc[Poller] = "ack_lock" /\ acksOwner = Nobody /\ onOwner # Poller
        /\ UNCHANGED <<onOwner, pend, ids>>
    BY <1>0, <1>1 DEF AckLock, InPlace
  <2>2. CASE "acks" \in poisoned
    <3>1. scan' = NoScan /\ Goto(Poller, "on_lock") /\ UNCHANGED acksOwner
      BY <1>1, <2>2 DEF AckLock
    <3>2. pc' \in [Threads -> PC] /\ \A u \in Threads : InPlace(u)'
      BY <1>0, <2>1, <3>1, MoveKeepsPlaces DEF PC
    <3> QED
      BY <1>0, <1>1, <3>1, <3>2, ScanTypes DEF AckLock, TypeOK, VarTypes
  <2>3. CASE "acks" \notin poisoned
    <3>1. acksOwner' = Poller /\ scan' = scan
      BY <1>1, <2>3 DEF AckLock
    <3>2. /\ pc' \in [Threads -> PC]
          /\ \A u \in Threads : pc'[u] = IF u = Poller THEN "ack_scan" ELSE pc[u]
      BY <1>0, <1>1, <2>3 DEF AckLock, Goto, PC
    <3>3. InPlace(Poller)'
      BY <1>0, <2>1, <3>1, <3>2 DEF InPlace
    <3>4. ASSUME NEW u \in Threads, u # Poller
          PROVE  InPlace(u)'
      <4>1. pc'[u] = pc[u] /\ acksOwner # u /\ acksOwner' # u /\ InPlace(u)
        BY <2>1, <3>1, <3>2, <3>4, ThreadsAssumption DEF TypeOK
      <4>2. onOwner' = onOwner /\ ids' = ids /\ pend' = pend
        BY <2>1
      <4> QED
        BY <4>1, <4>2 DEF InPlace
    <3> QED
      BY <1>0, <1>1, <3>1, <3>2, <3>3, <3>4 DEF AckLock, TypeOK, VarTypes
  <2> QED
    BY <2>2, <2>3
<1>2. CASE AckMatch
  <2>1. PICK i \in Matches :
          LET call == acks[i].req \notin expired /\ scan.calls > 0
          IN  /\ scan' = [scan EXCEPT !.from = i + 1,
                                      !.left = IF call THEN scan.calls ELSE 0,
                                      !.doomed = Append(@, i)]
              /\ called' = IF call THEN called \cup {acks[i].req} ELSE called
              /\ Goto(Poller, IF call THEN "body" ELSE "ack_scan")
    BY <1>2 DEF AckMatch
  <2>2. /\ pc[Poller] = "ack_scan" /\ acksOwner = Poller /\ onOwner # Poller
        /\ UNCHANGED <<acksOwner, onOwner, pend, ids>>
    BY <1>0, <1>2 DEF AckMatch, InPlace
  <2>3. i \in Nat \ {0} /\ i \in 1..Len(acks)
    <3>1. i \in scan.from..Len(acks) /\ scan.from \in Nat \ {0} /\ Len(acks) \in Nat
      BY <1>0, LenProperties DEF Matches, VarTypes, Scan
    <3> QED
      BY <3>1
  <2>4. acks[i].req \in Nat
    <3>1. acks[i] \in Ack
      BY <1>0, <2>3, ElementOfSeq DEF VarTypes
    <3> QED
      BY <3>1 DEF Ack
  <2>5. Append(scan.doomed, i) \in Seq(Nat \ {0})
    BY <1>0, <2>3, Appended DEF Scan
  <2>6. scan' \in Scan
    <3>1. PICK n \in 0..2 : scan' = [scan EXCEPT !.from = i + 1, !.left = n,
                                                !.doomed = Append(scan.doomed, i)]
      <4> DEFINE call == acks[i].req \notin expired /\ scan.calls > 0
                 n == IF call THEN scan.calls ELSE 0
      <4>1. n \in 0..2
        BY <1>0 DEF Scan
      <4>2. scan' = [scan EXCEPT !.from = i + 1, !.left = n, !.doomed = Append(scan.doomed, i)]
        BY <2>1
      <4> QED
        BY <4>1, <4>2
    <3>2. i + 1 \in Nat \ {0}
      BY <2>3
    <3> QED
      BY <1>0, <2>5, <3>1, <3>2 DEF Scan
  <2>7. called' \subseteq Nat
    BY <1>0, <2>1, <2>4 DEF VarTypes
  <2>8. PICK label \in {"body", "ack_scan"} :
          Goto(Poller, label) /\ (label = "body" => scan'.left > 0)
    BY <1>0, <2>1 DEF Scan
  <2>9. pc' \in [Threads -> PC] /\ \A u \in Threads : InPlace(u)'
    BY <1>0, <2>2, <2>8, MoveKeepsPlaces DEF PC
  <2> QED
    BY <1>0, <1>2, <2>6, <2>7, <2>9 DEF AckMatch, TypeOK, VarTypes
<1>3. CASE AckReturn
  <2>1. /\ pc[Poller] = "body" /\ onOwner # Poller
        /\ UNCHANGED <<acksOwner, onOwner, pend, ids>>
        /\ scan' = [scan EXCEPT !.left = @ - 1]
        /\ Goto(Poller, IF scan.left > 1 THEN "body" ELSE "ack_scan")
    BY <1>3 DEF AckReturn
  <2>2. acksOwner = Poller /\ scan.left > 0
    BY <1>0, <2>1 DEF InPlace
  <2>3. scan' \in Scan /\ scan'.left = scan.left - 1
    <3>1. scan.left - 1 \in 0..2
      BY <1>0, <2>2 DEF Scan
    <3> QED
      BY <1>0, <2>1, <3>1 DEF Scan
  <2>4. PICK label \in {"body", "ack_scan"} :
          Goto(Poller, label) /\ (label = "body" => scan'.left > 0)
    BY <1>0, <2>1, <2>3 DEF Scan
  <2>5. pc' \in [Threads -> PC] /\ \A u \in Threads : InPlace(u)'
    BY <1>0, <2>1, <2>2, <2>4, MoveKeepsPlaces DEF PC
  <2> QED
    BY <1>0, <1>3, <2>3, <2>5 DEF AckReturn, TypeOK, VarTypes
<1>4. CASE AckScanned
  <2>1. /\ pc[Poller] = "ack_scan" /\ acksOwner = Poller /\ acksOwner' = Nobody
        /\ onOwner # Poller /\ UNCHANGED <<onOwner, pend, ids, scan>>
    BY <1>0, <1>4 DEF AckScanned, InPlace
  <2>2. /\ pc' \in [Threads -> PC]
        /\ \A u \in Threads : pc'[u] = IF u = Poller THEN "ack_remove" ELSE pc[u]
    BY <1>0, <1>4 DEF AckScanned, Goto, PC
  <2>3. \A u \in Threads : InPlace(u)'
    BY <1>0, <2>1, <2>2, ThreadsAssumption DEF TypeOK, InPlace
  <2>4. inTime' \subseteq Nat
    <3>1. scan.req \in Nat /\ inTime \subseteq Nat
      BY <1>0 DEF VarTypes, Scan
    <3> QED
      BY <1>4, <3>1 DEF AckScanned
  <2> QED
    BY <1>0, <1>4, <2>1, <2>2, <2>3, <2>4 DEF AckScanned, TypeOK, VarTypes
<1>5. CASE AckRemove
  <2>1. /\ pc[Poller] = "ack_remove" /\ acksOwner = Nobody /\ onOwner # Poller
        /\ scan.doomed # <<>> /\ UNCHANGED <<acksOwner, onOwner, pend, ids>>
    BY <1>0, <1>5 DEF AckRemove, InPlace
  <2>2. Head(scan.doomed) \in Nat \ {0} /\ Tail(scan.doomed) \in Seq(Nat \ {0})
    BY <1>0, <2>1, HeadTailProperties DEF Scan
  <2>3. acks' \in Seq(Ack)
    <3>1. CASE UNCHANGED acks
      BY <1>0, <3>1 DEF VarTypes
    <3>2. CASE ~UNCHANGED acks
      <4>1. Head(scan.doomed) <= Len(acks) /\ acks' = RemoveAt(acks, Head(scan.doomed))
        BY <1>5, <3>2 DEF AckRemove, RemoveAck
      <4> QED
        BY <1>0, <2>2, <4>1, Removed DEF VarTypes
    <3> QED
      BY <3>1, <3>2
  <2>4. scan' \in Scan
    BY <1>0, <1>5, <2>2, ScanTypes DEF AckRemove, RemoveAck, Scan
  <2>5. poisoned' \subseteq {"acks", "on"}
    BY <1>0, <1>5 DEF AckRemove, RemoveAck, VarTypes
  <2>6. PICK label \in {"on_lock", "ack_remove", "panicked"} : Goto(Poller, label)
    <3>1. UNCHANGED pc => Goto(Poller, "ack_remove")
      BY <1>0, <2>1 DEF Goto
    <3> QED
      BY <1>5, <3>1 DEF AckRemove, RemoveAck
  <2>7. pc' \in [Threads -> PC] /\ \A u \in Threads : InPlace(u)'
    BY <1>0, <2>1, <2>6, MoveKeepsPlaces DEF PC
  <2> QED
    BY <1>0, <1>5, <2>3, <2>4, <2>5, <2>7 DEF AckRemove, TypeOK, VarTypes
<1>6. CASE AckDone
  <2>1. /\ pc[Poller] = "ack_remove" /\ acksOwner = Nobody /\ onOwner # Poller
        /\ UNCHANGED <<acksOwner, onOwner, pend, ids>> /\ Goto(Poller, "idle")
    BY <1>0, <1>6 DEF AckDone, InPlace
  <2>2. pc' \in [Threads -> PC] /\ \A u \in Threads : InPlace(u)'
    BY <1>0, <2>1, MoveKeepsPlaces DEF PC
  <2> QED
    BY <1>0, <1>6, <2>2, ScanTypes DEF AckDone, TypeOK, VarTypes
<1> QED
  BY <1>1, <1>2, <1>3, <1>4, <1>5, <1>6 DEF HandleAck

\* RawClient: every variable keeps its type, a lock is owned exactly by a
\* thread that is inside the call that took it, and a callback only runs under
\* its lock, whatever threads and callbacks do.
THEOREM Typing == Spec => []TypeOK
<1>1. Init => TypeOK
  BY EmptySeq, ScanTypes, ThreadsAssumption DEF Init, TypeOK, VarTypes, InPlace, PC, NoScan
<1>2. TypeOK /\ [Next]_vars => TypeOK'
  <2> SUFFICES ASSUME TypeOK, [Next]_vars
               PROVE  TypeOK'
    OBVIOUS
  <2>1. CASE Expire
    BY <2>1 DEF Expire, TypeOK, VarTypes, InPlace
  <2>2. CASE UNCHANGED vars
    BY <2>2 DEF vars, TypeOK, VarTypes, InPlace
  <2> QED
    BY <2>1, <2>2, CallTyped, CallbackTyped, RecvTyped, HandleAckTyped DEF Next, InCall
<1> QED
  BY <1>1, <1>2, PTL DEF Spec

----------------------------------------------------------------------------
(* The acks, as long as the ids differ *)

\* handle_ack looks for the ack of scan.req, or has found it and removes it.
Searching == pc[Poller] = "ack_lock" \/ acksOwner = Poller
Removing == pc[Poller] = "ack_remove"

Outgoing(t) == pc[t] \in {"rq_push", "rq_send"}

\* An ack has the id of its request and is alone.
AcksInv ==
    /\ \A i \in 1..Len(acks) : /\ acks[i].req \in 1..Len(ids)
                               /\ acks[i].id = ids[acks[i].req]
    /\ \A i, j \in 1..Len(acks) : acks[i].req = acks[j].req => i = j

\* A request on its way is registered before it is asked, and is in the hands of
\* one thread.
OutgoingInv ==
    /\ \A t \in Threads : Outgoing(t) =>
         /\ Registered(pend[t]) <=> pc[t] = "rq_send"
         /\ pend[t] \notin asked
    /\ \A t, u \in Threads : Outgoing(t) /\ Outgoing(u) /\ pend[t] = pend[u] => t = u

\* The request that is answered is neither on its way nor answered again.
AnswerInv ==
    Searching \/ Removing =>
        /\ scan.req \in 1..Len(ids) /\ scan.id = ids[scan.req]
        /\ scan.req \notin asked
        /\ \A t \in Threads : Outgoing(t) => pend[t] # scan.req

\* i is the one position to remove.
Doomed(i) == i \in 1..Len(acks) /\ scan.doomed = <<i>> /\ acks[i].req = scan.req

\* The answered request is registered; the scan has not come to it, or has noted
\* it and called its callback if that was due.
SearchInv ==
    Searching =>
        /\ Registered(scan.req)
        /\ \/ /\ scan.doomed = <<>>
              /\ \A i \in 1..Len(acks) : acks[i].req = scan.req => i >= scan.from
           \/ /\ \E i \in 1..Len(acks) : Doomed(i) /\ i < scan.from
              /\ scan.calls = 0 \/ scan.req \in expired \cup called

RemoveInv == Removing => scan.doomed = <<>> \/ \E i \in 1..Len(acks) : Doomed(i)

KeptInv ==
    /\ AcksInv /\ OutgoingInv /\ AnswerInv /\ SearchInv /\ RemoveInv
    /\ \A r \in asked : Registered(r)
    /\ inTime \subseteq called

\* What RemovalExact says of a step.
Removes ==
    pc[Poller] = "ack_remove" =>
        /\ pc'[Poller] # "panicked"
        /\ \A i \in 1..Len(acks) :
             acks[i].req # scan.req => \E j \in 1..Len(acks') : acks'[j] = acks[i]

\* No ack and no answer moves.
LEMMA StillKept ==
    ASSUME KeptInv, UNCHANGED <<acks, ids, asked, inTime, called>>, expired \subseteq expired',
           \A t \in Threads : Outgoing(t)' => pc'[t] = pc[t] /\ pend'[t] = pend[t],
           Searching' => Searching, Removing' => Removing,
           Searching' \/ Removing' =>
               /\ scan'.req = scan.req /\ scan'.id = scan.id /\ scan'.calls = scan.calls
               /\ scan'.from = scan.from /\ scan'.doomed = scan.doomed
    PROVE  KeptInv'
<1>1. \A r : Registered(r)' <=> Registered(r)
  BY DEF Registered
<1>2. \A t \in Threads : Outgoing(t)' => Outgoing(t)
  BY DEF Outgoing
<1>3. AcksInv'
  BY DEF KeptInv, AcksInv
<1>4. OutgoingInv'
  BY <1>1, <1>2 DEF KeptInv, OutgoingInv
<1>5. AnswerInv'
  BY <1>2 DEF KeptInv, AnswerInv
<1>6. SearchInv'
  BY <1>1 DEF KeptInv, SearchInv, Doomed
<1>7. RemoveInv'
  BY DEF KeptInv, RemoveInv, Doomed
<1> QED
  BY <1>1, <1>3, <1>4, <1>5, <1>6, <1>7 DEF KeptInv

\* A new request has a new number.
LEMMA RequestKept ==
    ASSUME TypeOK, KeptInv, NEW t \in Threads, RequestStart(t)
    PROVE  KeptInv'
<1>0. /\ Len(ids) \in Nat /\ ids \in Seq(Ids) /\ asked \subseteq 1..Len(ids)
      /\ pc \in [Threads -> PC] /\ pend \in [Threads -> Nat] /\ Poller \in Threads
  BY LenProperties DEF TypeOK, VarTypes, Threads
<1>1. PICK id \in Ids : ids' = Append(ids, id)
  BY DEF RequestStart
<1>2. Len(ids') = Len(ids) + 1 /\ \A r \in 1..Len(ids) : ids'[r] = ids[r]
  BY <1>0, <1>1, Appended
<1>3. /\ \A u \in Threads : pc'[u] = IF u = t THEN "rq_push" ELSE pc[u]
      /\ \A u \in Threads : pend'[u] = IF u = t THEN Len(ids) + 1 ELSE pend[u]
      /\ pc[t] \in {"idle", "body"}
  BY <1>0 DEF RequestStart, Goto, Free
<1>4. UNCHANGED <<acks, asked, inTime, called, expired, scan, acksOwner>>
  BY DEF RequestStart
<1>5. \A r : Registered(r)' <=> Registered(r)
  BY <1>4 DEF Registered
<1>6. ~Registered(Len(ids) + 1) /\ Len(ids) + 1 \notin asked
  BY <1>0 DEF KeptInv, AcksInv, Registered
<1>7. \A u \in Threads \ {t} : Outgoing(u)' => Outgoing(u) /\ pend'[u] = pend[u]
                                               /\ pend[u] \in 1..Len(ids) /\ pc'[u] = pc[u]
  BY <1>3 DEF Outgoing, TypeOK, InPlace
<1>8. (Searching' <=> Searching) /\ (Removing' <=> Removing)
  BY <1>0, <1>3, <1>4 DEF Searching, Removing
<1>9. AcksInv'
  BY <1>0, <1>2, <1>4 DEF KeptInv, AcksInv
<1>10. OutgoingInv'
  <2>1. ASSUME NEW u \in Threads, Outgoing(u)'
        PROVE  (Registered(pend[u])' <=> pc'[u] = "rq_send") /\ pend'[u] \notin asked
    <3>1. CASE u = t
      BY <1>3, <1>5, <1>6, <3>1
    <3>2. CASE u # t
      BY <1>5, <1>7, <2>1, <3>2 DEF KeptInv, OutgoingInv
    <3> QED
      BY <3>1, <3>2
  <2>2. ASSUME NEW u \in Threads, NEW v \in Threads, Outgoing(u)', Outgoing(v)',
               pend'[u] = pend'[v]
        PROVE  u = v
    <3>1. CASE u # t /\ v # t
      BY <1>7, <2>2, <3>1 DEF KeptInv, OutgoingInv
    <3>2. CASE (u = t /\ v # t) \/ (v = t /\ u # t)
      BY <1>0, <1>3, <1>7, <2>2, <3>2
    <3> QED
      BY <3>1, <3>2
  <2> QED
    BY <1>4, <2>1, <2>2 DEF OutgoingInv
<1>11. AnswerInv'
  <2>1. Searching \/ Removing => scan.req \in 1..Len(ids')
    BY <1>0, <1>2 DEF KeptInv, AnswerInv
  <2>2. Searching \/ Removing => \A u \in Threads : Outgoing(u)' => pend'[u] # scan.req
    BY <1>0, <1>3, <1>7 DEF KeptInv, AnswerInv
  <2> QED
    BY <1>2, <1>4, <1>8, <2>1, <2>2 DEF KeptInv, AnswerInv
<1>12. SearchInv' /\ RemoveInv'
  BY <1>4, <1>5, <1>8 DEF KeptInv, SearchInv, RemoveInv, Doomed
<1> QED
  BY <1>4, <1>5, <1>9, <1>10, <1>11, <1>12 DEF KeptInv

\* An ack is pushed behind the others.
LEMMA PushKept ==
    ASSUME TypeOK, KeptInv, NEW t \in Threads, RequestPush(t), "acks" \notin poisoned
    PROVE  /\ KeptInv'
           /\ \A i \in 1..Len(acks) : i \in 1..Len(acks') /\ acks'[i] = acks[i]
<1> DEFINE n == pend[t]
<1>0. /\ acks \in Seq(Ack) /\ n \in 1..Len(ids) /\ ids[n] \in Ids /\ n \in Nat
      /\ pc[t] = "rq_push" /\ pc \in [Threads -> PC] /\ Poller \in Threads
      /\ acksOwner = Nobody /\ Nobody \notin Threads
  BY ElementOfSeq, ThreadsAssumption DEF TypeOK, VarTypes, InPlace, RequestPush, Threads
<1>1. /\ acks' = Append(acks, [id |-> ids[n], req |-> n])
      /\ UNCHANGED <<ids, asked, inTime, called, expired, scan, acksOwner, pend>>
  BY DEF RequestPush
<1>2. /\ Len(acks) \in Nat /\ Len(acks') = Len(acks) + 1
      /\ acks'[Len(acks) + 1] = [id |-> ids[n], req |-> n]
      /\ \A i \in 1..Len(acks) : acks'[i] = acks[i]
  BY <1>0, <1>1, Appended DEF Ack
<1>3. \A u \in Threads : pc'[u] = IF u = t THEN "rq_send" ELSE pc[u]
  BY <1>0 DEF RequestPush, Goto
<1>4. Outgoing(t) /\ ~Registered(n) /\ n \notin asked
  BY <1>0 DEF KeptInv, OutgoingInv, Outgoing
<1> HIDE DEF n
<1>5. \A r : Registered(r)' <=> Registered(r) \/ r = n
  <2>1. \A i : i \in 1..Len(acks') <=> i \in 1..Len(acks) \/ i = Len(acks) + 1
    BY <1>2
  <2> QED
    BY <1>2, <2>1 DEF Registered
<1>6. /\ \A u \in Threads : Outgoing(u)' <=> Outgoing(u)
      /\ (Searching' <=> Searching) /\ (Removing' <=> Removing)
  BY <1>0, <1>1, <1>3 DEF Outgoing, Searching, Removing
<1>7. AcksInv'
  <2>1. ASSUME NEW i \in 1..Len(acks')
        PROVE  acks'[i].req \in 1..Len(ids) /\ acks'[i].id = ids[acks'[i].req]
    BY <1>0, <1>2 DEF KeptInv, AcksInv
  <2>2. ASSUME NEW i \in 1..Len(acks'), NEW j \in 1..Len(acks'), acks'[i].req = acks'[j].req
        PROVE  i = j
    <3>1. \A k \in 1..Len(acks) : acks'[k].req = acks[k].req /\ acks[k].req # n
      BY <1>2, <1>4 DEF Registered
    <3>2. acks'[Len(acks) + 1].req = n
      BY <1>2
    <3>3. /\ i \in 1..Len(acks) \/ i = Len(acks) + 1
          /\ j \in 1..Len(acks) \/ j = Len(acks) + 1
      BY <1>2
    <3>4. CASE i \in 1..Len(acks) /\ j \in 1..Len(acks)
      BY <2>2, <3>1, <3>4 DEF KeptInv, AcksInv
    <3> QED
      BY <2>2, <3>1, <3>2, <3>3, <3>4
  <2> QED
    BY <1>1, <2>1, <2>2 DEF AcksInv
<1>8. \A u \in Threads \ {t} : Outgoing(u) => pend[u] # n
  BY <1>4 DEF KeptInv, OutgoingInv, n
<1>9. OutgoingInv'
  <2>1. ASSUME NEW u \in Threads, Outgoing(u)
        PROVE  (Registered(pend[u])' <=> pc'[u] = "rq_send") /\ pend[u] \notin asked
    <3>1. CASE u = t
      BY <1>1, <1>3, <1>4, <1>5, <3>1 DEF n
    <3>2. CASE u # t
      BY <1>1, <1>3, <1>5, <1>8, <2>1, <3>2 DEF KeptInv, OutgoingInv
    <3> QED
      BY <3>1, <3>2
  <2> QED
    BY <1>1, <1>6, <2>1 DEF KeptInv, OutgoingInv
<1>10. AnswerInv'
  BY <1>1, <1>6 DEF KeptInv, AnswerInv
<1>11. Searching \/ Removing => scan.req # n
  BY <1>4 DEF KeptInv, AnswerInv, n
<1>12. \A i : Doomed(i) => Doomed(i)'
  BY <1>1, <1>2 DEF Doomed
<1>13. RemoveInv'
  BY <1>1, <1>2, <1>6, <1>12 DEF KeptInv, RemoveInv
<1>14. SearchInv'
  <2> SUFFICES ASSUME Searching
               PROVE  SearchInv'
    BY <1>6 DEF SearchInv
  <2>1. Registered(scan.req)'
    BY <1>1, <1>5 DEF KeptInv, SearchInv
  <2>2. CASE scan.doomed = <<>> /\ \A i \in 1..Len(acks) : acks[i].req = scan.req => i >= scan.from
    <3>1. \A i \in 1..Len(acks') : acks'[i].req = scan.req => i >= scan.from
      BY <1>2, <1>11, <2>2
    <3> QED
      BY <1>1, <2>1, <2>2, <3>1 DEF SearchInv
  <2>3. CASE /\ \E i \in 1..Len(acks) : Doomed(i) /\ i < scan.from
             /\ scan.calls = 0 \/ scan.req \in expired \cup called
    BY <1>1, <1>2, <1>12, <2>1, <2>3 DEF SearchInv
  <2> QED
    BY <2>2, <2>3 DEF KeptInv, SearchInv
<1>15. (\A r \in asked' : Registered(r)') /\ inTime' \subseteq called'
  BY <1>1, <1>5 DEF KeptInv
<1> QED
  BY <1>2, <1>7, <1>9, <1>10, <1>13, <1>14, <1>15 DEF KeptInv

\* The packet of a request is sent or not; its ack is there.
LEMMA SendKept ==
    ASSUME TypeOK, KeptInv, NEW t \in Threads, RequestSend(t)
    PROVE  KeptInv'
<1>0. /\ pc[t] = "rq_send" /\ pc \in [Threads -> PC] /\ pend \in [Threads -> Nat]
      /\ Poller \in Threads /\ t \in Threads
  BY DEF RequestSend, TypeOK, VarTypes, Threads
<1>1. /\ UNCHANGED <<acks, ids, inTime, called, expired, scan, acksOwner>>
      /\ asked' \subseteq asked \cup {pend[t]}
  BY DEF RequestSend
<1>2. /\ \A u \in Threads : u # t => pc'[u] = pc[u] /\ pend'[u] = pend[u]
      /\ pc'[t] \in {"body", "idle"}
  BY <1>0 DEF RequestSend, Resume, Goto
<1>3. Outgoing(t) /\ Registered(pend[t])
  BY <1>0 DEF KeptInv, OutgoingInv, Outgoing
<1>4. \A r : Registered(r)' <=> Registered(r)
  BY <1>1 DEF Registered
<1>5. \A u \in Threads : Outgoing(u)' => u # t /\ Outgoing(u) /\ pend'[u] = pend[u]
                                         /\ pc'[u] = pc[u] /\ pend[u] # pend[t]
  BY <1>2, <1>3 DEF Outgoing, KeptInv, OutgoingInv
<1>6. (Searching' => Searching) /\ (Removing' => Removing)
  BY <1>0, <1>1, <1>2 DEF Searching, Removing
<1>7. AcksInv'
  BY <1>1 DEF KeptInv, AcksInv
<1>8. OutgoingInv'
  BY <1>1, <1>4, <1>5 DEF KeptInv, OutgoingInv
<1>9. AnswerInv'
  BY <1>1, <1>3, <1>5, <1>6 DEF KeptInv, AnswerInv
<1>10. SearchInv' /\ RemoveInv'
  BY <1>1, <1>4, <1>6 DEF KeptInv, SearchInv, RemoveInv, Doomed
<1>11. (\A r \in asked' : Registered(r)') /\ inTime' \subseteq called'
  BY <1>1, <1>3, <1>4 DEF KeptInv
<1> QED
  BY <1>7, <1>8, <1>9, <1>10, <1>11 DEF KeptInv

\* An answer arrives.
LEMMA AnswerKept ==
    ASSUME TypeOK, KeptInv, RecvAck
    PROVE  KeptInv'
<1>0. /\ pc[Poller] = "recv" /\ pc \in [Threads -> PC] /\ Poller \in Threads
      /\ asked \subseteq 1..Len(ids) /\ acksOwner = Nobody /\ Poller # Nobody
  BY ThreadsAssumption DEF RecvAck, TypeOK, VarTypes, Threads, InPlace
<1>1. PICK r \in asked, calls \in 0..2 :
        /\ asked' = asked \ {r}
        /\ scan' = [NoScan EXCEPT !.req = r, !.id = ids[r], !.calls = calls]
  BY DEF RecvAck
<1>2. /\ scan'.req = r /\ scan'.id = ids[r] /\ scan'.doomed = <<>> /\ scan'.from = 1
      /\ r \in 1..Len(ids) /\ r \notin asked' /\ asked' \subseteq asked
  BY <1>0, <1>1 DEF NoScan
<1>3. /\ UNCHANGED <<acks, ids, inTime, called, expired, acksOwner, pend>>
      /\ \A u \in Threads : pc'[u] = IF u = Poller THEN "ack_lock" ELSE pc[u]
  BY <1>0 DEF RecvAck, Goto
<1>4. \A n : Registered(n)' <=> Registered(n)
  BY <1>3 DEF Registered
<1>5. \A u \in Threads : Outgoing(u)' => Outgoing(u) /\ pc'[u] = pc[u] /\ pend'[u] = pend[u]
  BY <1>3 DEF Outgoing
<1>6. AcksInv'
  BY <1>3 DEF KeptInv, AcksInv
<1>7. OutgoingInv'
  <2>1. ASSUME NEW u \in Threads, Outgoing(u)'
        PROVE  (Registered(pend[u]) <=> pc[u] = "rq_send")' /\ (pend[u] \notin asked)'
    <3>1. Outgoing(u) /\ pc'[u] = pc[u] /\ pend'[u] = pend[u] /\ UNCHANGED acks
      BY <1>3, <1>5, <2>1
    <3>2. (Registered(pend[u]) <=> pc[u] = "rq_send") /\ pend[u] \notin asked
      BY <3>1 DEF KeptInv, OutgoingInv
    <3> QED
      BY <1>2, <3>1, <3>2 DEF Registered
  <2>2. ASSUME NEW u \in Threads, NEW v \in Threads,
               Outgoing(u)', Outgoing(v)', (pend[u] = pend[v])'
        PROVE  u = v
    BY <1>5, <2>2 DEF KeptInv, OutgoingInv
  <2> QED
    BY <2>1, <2>2 DEF OutgoingInv
<1>8. AnswerInv'
  BY <1>1, <1>2, <1>3, <1>5 DEF KeptInv, AnswerInv, OutgoingInv
<1>9. SearchInv'
  <2>1. Registered(r)'
    BY <1>4 DEF KeptInv
  <2>2. \A i \in 1..Len(acks') : i >= 1
    OBVIOUS
  <2> QED
    BY <1>2, <2>1, <2>2 DEF SearchInv
<1>10. RemoveInv'
  BY <1>2 DEF RemoveInv
<1>11. (\A n \in asked' : Registered(n)') /\ inTime' \subseteq called'
  BY <1>2, <1>3, <1>4 DEF KeptInv
<1> QED
  BY <1>6, <1>7, <1>8, <1>9, <1>10, <1>11 DEF KeptInv

\* While the ids differ, an ack matches the answer only if it is its own.
LEMMA MatchIsOwn ==
    ASSUME TypeOK, KeptInv, Distinct, Searching \/ Removing, NEW i \in 1..Len(acks)
    PROVE  acks[i].id = scan.id <=> acks[i].req = scan.req
BY DEF KeptInv, AcksInv, AnswerInv, Distinct

\* The scan comes to the ack of the answered request.
LEMMA MatchKept ==
    ASSUME TypeOK, KeptInv, Distinct, AckMatch
    PROVE  KeptInv'
<1>0. /\ pc[Poller] = "ack_scan" /\ pc \in [Threads -> PC] /\ Poller \in Threads
      /\ acksOwner = Poller /\ scan \in Scan /\ Len(acks) \in Nat
  BY LenProperties DEF AckMatch, TypeOK, VarTypes, Threads, InPlace
<1>1. PICK i \in Matches :
        LET call == acks[i].req \notin expired /\ scan.calls > 0
        IN  /\ scan' = [scan EXCEPT !.from = i + 1,
                                    !.left = IF call THEN scan.calls ELSE 0,
                                    !.doomed = Append(@, i)]
            /\ called' = IF call THEN called \cup {acks[i].req} ELSE called
            /\ Goto(Poller, IF call THEN "body" ELSE "ack_scan")
  BY DEF AckMatch
<1>2. /\ i \in 1..Len(acks) /\ i >= scan.from /\ acks[i].id = scan.id
  BY <1>0 DEF Matches, Scan
<1>3. Searching /\ acks[i].req = scan.req
  BY <1>0, <1>2, MatchIsOwn DEF Searching
<1>4. scan.doomed = <<>>
  <2> SUFFICES ASSUME NEW k \in 1..Len(acks), Doomed(k), k < scan.from
               PROVE  FALSE
    BY <1>3 DEF KeptInv, SearchInv
  <2>1. k = i
    BY <1>2, <1>3 DEF Doomed, KeptInv, AcksInv
  <2> QED
    BY <1>0, <1>2, <2>1 DEF Scan
<1>5. /\ scan'.req = scan.req /\ scan'.id = scan.id /\ scan'.calls = scan.calls
      /\ scan'.from = i + 1 /\ scan'.doomed = <<i>>
  <2>1. scan' = [scan EXCEPT !.from = i + 1, !.left = scan'.left, !.doomed = Append(scan.doomed, i)]
    BY <1>0, <1>1 DEF Scan
  <2>2. Append(<<>>, i) = <<i>>
    OBVIOUS
  <2> QED
    BY <1>0, <1>4, <2>1, <2>2 DEF Scan
<1>6. /\ UNCHANGED <<acks, ids, asked, inTime, expired, acksOwner, pend>>
      /\ \A u \in Threads : u # Poller => pc'[u] = pc[u]
      /\ pc'[Poller] \in {"body", "ack_scan"}
      /\ called \subseteq called'
  <2>1. \E label \in {"body", "ack_scan"} : Goto(Poller, label)
    BY <1>1
  <2>2. called \subseteq called'
    BY <1>1
  <2> QED
    BY <1>0, <2>1, <2>2 DEF AckMatch, Goto
<1>7. scan.calls = 0 \/ scan.req \in expired \cup called'
  <2>1. scan.calls \in 0..2
    BY <1>0 DEF Scan
  <2> QED
    BY <1>1, <1>3, <2>1
<1>8. \A r : Registered(r)' <=> Registered(r)
  BY <1>6 DEF Registered
<1>9. \A u \in Threads : Outgoing(u)' => Outgoing(u) /\ pc'[u] = pc[u] /\ pend'[u] = pend[u]
  BY <1>6 DEF Outgoing
<1>10. AcksInv' /\ OutgoingInv'
  BY <1>6, <1>8, <1>9 DEF KeptInv, AcksInv, OutgoingInv
<1>11. AnswerInv'
  BY <1>3, <1>5, <1>6, <1>9 DEF KeptInv, AnswerInv
<1>12. SearchInv'
  <2>1. Doomed(i)' /\ i < scan'.from
    BY <1>0, <1>2, <1>3, <1>5, <1>6 DEF Doomed, Scan
  <2>2. Registered(scan.req)'
    BY <1>3, <1>5, <1>8 DEF KeptInv, SearchInv
  <2> QED
    BY <1>2, <1>5, <1>6, <1>7, <2>1, <2>2 DEF SearchInv
<1>13. RemoveInv'
  BY <1>6 DEF RemoveInv, Removing
<1> QED
  BY <1>6, <1>8, <1>10, <1>11, <1>12, <1>13 DEF KeptInv

\* The scan is over: it has found the ack.
LEMMA ScannedKept ==
    ASSUME TypeOK, KeptInv, Distinct, AckScanned
    PROVE  KeptInv'
<1>0. /\ pc[Poller] = "ack_scan" /\ pc \in [Threads -> PC] /\ Poller \in Threads
      /\ acksOwner = Poller /\ acksOwner' # Poller /\ scan \in Scan /\ Len(acks) \in Nat
  BY LenProperties, ThreadsAssumption DEF AckScanned, TypeOK, VarTypes, Threads, InPlace
<1>1. /\ UNCHANGED <<acks, ids, asked, called, expired, pend, scan>>
      /\ \A u \in Threads : pc'[u] = IF u = Poller THEN "ack_remove" ELSE pc[u]
  BY <1>0 DEF AckScanned, Goto
<1>2. Searching
  BY <1>0 DEF Searching
<1>3. PICK k \in 1..Len(acks) : acks[k].req = scan.req
  BY <1>2 DEF KeptInv, SearchInv, Registered
<1>4. ~(k >= scan.from)
  <2>1. acks[k].id = scan.id /\ k \notin Matches
    BY <1>2, <1>3, MatchIsOwn DEF AckScanned
  <2> QED
    BY <1>0, <2>1 DEF Matches, Scan
<1>5. /\ \E i \in 1..Len(acks) : Doomed(i)
      /\ scan.calls = 0 \/ scan.req \in expired \cup called
  BY <1>2, <1>3, <1>4 DEF KeptInv, SearchInv
<1>6. inTime' \subseteq called'
  BY <1>0, <1>1, <1>5 DEF AckScanned, KeptInv, Scan
<1>7. \A r : Registered(r)' <=> Registered(r)
  BY <1>1 DEF Registered
<1>8. \A u \in Threads : Outgoing(u)' => Outgoing(u) /\ pc'[u] = pc[u] /\ pend'[u] = pend[u]
  BY <1>1 DEF Outgoing
<1>9. AcksInv' /\ OutgoingInv'
  BY <1>1, <1>7, <1>8 DEF KeptInv, AcksInv, OutgoingInv
<1>10. AnswerInv'
  BY <1>1, <1>2, <1>8 DEF KeptInv, AnswerInv
<1>11. SearchInv'
  BY <1>0, <1>1 DEF SearchInv, Searching
<1>12. RemoveInv'
  BY <1>1, <1>5 DEF RemoveInv, Doomed
<1> QED
  BY <1>1, <1>6, <1>7, <1>9, <1>10, <1>11, <1>12 DEF KeptInv

\* The removal meets the ack it was noted for, whatever was pushed behind it.
LEMMA RemoveKept ==
    ASSUME TypeOK, KeptInv, AckRemove
    PROVE  KeptInv' /\ Removes
<1>0. /\ pc[Poller] = "ack_remove" /\ pc \in [Threads -> PC] /\ Poller \in Threads
      /\ acksOwner = Nobody /\ Nobody # Poller /\ scan \in Scan /\ scan.doomed # <<>>
      /\ acks \in Seq(Ack)
      /\ UNCHANGED <<ids, asked, called, inTime, expired, pend, acksOwner>>
  BY ThreadsAssumption DEF AckRemove, TypeOK, VarTypes, Threads
<1>1. CASE "acks" \in poisoned
  <2>1. acks' = acks /\ \A u \in Threads : pc'[u] = IF u = Poller THEN "on_lock" ELSE pc[u]
    BY <1>0, <1>1 DEF AckRemove, Goto
  <2>2. ~Searching' /\ ~Removing'
    BY <1>0, <2>1 DEF Searching, Removing
  <2>3. \A u \in Threads : Outgoing(u)' => pc'[u] = pc[u] /\ pend'[u] = pend[u]
    BY <1>0, <2>1 DEF Outgoing
  <2>4. KeptInv'
    BY <1>0, <2>1, <2>2, <2>3, StillKept
  <2> QED
    BY <1>0, <2>1, <2>4 DEF Removes
<1>2. CASE "acks" \notin poisoned
  <2>1. PICK i \in 1..Len(acks) : Doomed(i)
    BY <1>0 DEF KeptInv, RemoveInv, Removing
  <2>2. Head(scan.doomed) = i /\ Tail(scan.doomed) = <<>> /\ i <= Len(acks)
    BY <2>1, LenProperties, <1>0 DEF Doomed
  <2>3. /\ acks' = RemoveAt(acks, i) /\ UNCHANGED pc
        /\ scan' = [scan EXCEPT !.doomed = <<>>]
    BY <1>0, <1>2, <2>2 DEF AckRemove, RemoveAck
  <2>4. /\ Len(acks) \in Nat /\ Len(acks') = Len(acks) - 1
        /\ \A j \in 1..Len(acks) - 1 : acks'[j] = IF j < i THEN acks[j] ELSE acks[j + 1]
    BY <1>0, <2>3, Removed
  <2>5. /\ scan'.req = scan.req /\ scan'.id = scan.id /\ scan'.doomed = <<>>
        /\ acks[i].req = scan.req
    BY <1>0, <2>1, <2>3 DEF Scan, Doomed
  <2>6. \A k \in 1..Len(acks) : acks[k].req = scan.req => k = i
    BY <2>5 DEF KeptInv, AcksInv
  <2>7. ASSUME NEW k \in 1..Len(acks), k # i
        PROVE  \E j \in 1..Len(acks') : acks'[j] = acks[k]
    <3>1. CASE k < i
      BY <2>4, <3>1
    <3>2. CASE k > i
      <4>1. k - 1 \in 1..Len(acks) - 1 /\ ~(k - 1 < i) /\ (k - 1) + 1 = k
        BY <2>4, <3>2
      <4> QED
        BY <2>4, <4>1
    <3> QED
      BY <2>7, <3>1, <3>2
  <2>8. Removes
    BY <1>0, <2>3, <2>5, <2>7 DEF Removes
  <2>9. \A r : Registered(r)' <=> Registered(r) /\ r # scan.req
    <3>1. ASSUME NEW r, Registered(r)
          PROVE  r # scan.req => Registered(r)'
      BY <2>5, <2>7, <3>1 DEF Registered
    <3>2. ASSUME NEW r, Registered(r)'
          PROVE  Registered(r) /\ r # scan.req
      BY <2>4, <2>6, <3>2 DEF Registered
    <3> QED
      BY <3>1, <3>2
  <2>10. \A u \in Threads : (Outgoing(u)' <=> Outgoing(u)) /\ pc'[u] = pc[u] /\ pend'[u] = pend[u]
    BY <1>0, <2>3 DEF Outgoing
  <2>11. Removing /\ Removing' /\ ~Searching'
    BY <1>0, <2>3 DEF Removing, Searching
  <2>12. AcksInv'
    <3>0. \A j \in 1..Len(acks') : \E k \in 1..Len(acks) :
             acks'[j] = acks[k] /\ k = IF j < i THEN j ELSE j + 1
      BY <2>4
    <3>1. ASSUME NEW j \in 1..Len(acks')
          PROVE  acks'[j].req \in 1..Len(ids) /\ acks'[j].id = ids[acks'[j].req]
      BY <3>0 DEF KeptInv, AcksInv
    <3>2. ASSUME NEW j \in 1..Len(acks'), NEW k \in 1..Len(acks'), acks'[j].req = acks'[k].req
          PROVE  j = k
      <4>1. PICK a \in 1..Len(acks) : acks'[j] = acks[a] /\ a = IF j < i THEN j ELSE j + 1
        BY <3>0
      <4>2. PICK b \in 1..Len(acks) : acks'[k] = acks[b] /\ b = IF k < i THEN k ELSE k + 1
        BY <3>0
      <4>3. a = b
        BY <3>2, <4>1, <4>2 DEF KeptInv, AcksInv
      <4> QED
        BY <2>4, <4>1, <4>2, <4>3
    <3> QED
      BY <1>0, <3>1, <3>2 DEF AcksInv
  <2>13. OutgoingInv'
    BY <1>0, <2>9, <2>10, <2>11 DEF KeptInv, OutgoingInv, AnswerInv
  <2>14. AnswerInv' /\ SearchInv' /\ RemoveInv'
    BY <1>0, <2>5, <2>10, <2>11 DEF KeptInv, AnswerInv, SearchInv, RemoveInv
  <2>15. (\A r \in asked' : Registered(r)') /\ inTime' \subseteq called'
    BY <1>0, <2>9, <2>11 DEF KeptInv, AnswerInv
  <2> QED
    BY <2>8, <2>12, <2>13, <2>14, <2>15 DEF KeptInv
<1> QED
  BY <1>1, <1>2

\* As long as the ids differ, every step keeps the acks exact.
LEMMA StepKept ==
    ASSUME TypeOK, KeptInv, Distinct, [Next]_vars
    PROVE  KeptInv' /\ Removes
<1>0. /\ pc \in [Threads -> PC] /\ Poller \in Threads /\ Poller # Nobody /\ scan \in Scan
      /\ acksOwner \in {Nobody, Poller}
  BY ThreadsAssumption DEF TypeOK, VarTypes, Threads
<1>a. UNCHANGED acks /\ (pc[Poller] = "ack_remove" => pc'[Poller] # "panicked") => Removes
  BY DEF Removes
<1>1. ASSUME NEW t \in Threads, RequestStart(t) \/ RequestSend(t)
      PROVE  KeptInv' /\ Removes
  <2>1. /\ UNCHANGED acks /\ \E label \in {"rq_push", "body", "idle"} : Goto(t, label)
    BY <1>1 DEF RequestStart, RequestSend, Resume
  <2>2. Removes
    BY <1>0, <1>a, <2>1 DEF Goto
  <2> QED
    BY <1>1, <2>2, RequestKept, SendKept
<1>2. ASSUME NEW t \in Threads, RequestPush(t)
      PROVE  KeptInv' /\ Removes
  <2>1. /\ pc[t] = "rq_push" /\ \E label \in {"rq_send", "body", "idle"} : Goto(t, label)
        /\ UNCHANGED <<ids, asked, inTime, called, expired, scan, acksOwner>>
    BY <1>2 DEF RequestPush, Resume
  <2>2. pc[Poller] = "ack_remove" => pc'[Poller] # "panicked"
    BY <1>0, <2>1 DEF Goto
  <2>3. CASE "acks" \in poisoned
    <3>1. /\ UNCHANGED acks /\ \A u \in Threads : u # t => pc'[u] = pc[u] /\ pend'[u] = pend[u]
          /\ pc'[t] \in {"body", "idle"}
      BY <1>0, <1>2, <2>3 DEF RequestPush, Resume, Goto, TypeOK, VarTypes
    <3>2. (Searching' => Searching) /\ (Removing' => Removing)
      BY <1>0, <2>1, <3>1 DEF Searching, Removing
    <3>3. \A u \in Threads : Outgoing(u)' => pc'[u] = pc[u] /\ pend'[u] = pend[u]
      BY <3>1 DEF Outgoing
    <3> QED
      BY <1>a, <2>1, <2>2, <3>1, <3>2, <3>3, StillKept
  <2>4. CASE "acks" \notin poisoned
    BY <1>2, <2>2, <2>4, PushKept DEF Removes
  <2> QED
    BY <2>3, <2>4
<1>3. ASSUME NEW t \in Threads,
             Disconnect(t) \/ DisconnectClose(t) \/ OnLock(t) \/ OnReturn(t) \/ BodyPanic(t)
      PROVE  KeptInv' /\ Removes
  <2>1. /\ UNCHANGED <<acks, ids, asked, inTime, called, expired, scan, pend>>
        /\ acksOwner' \in {acksOwner, Nobody}
        /\ pc[t] \in {"idle", "body", "dc_close", "on_lock"}
    BY <1>3 DEF Disconnect, DisconnectClose, OnLock, OnReturn, BodyPanic, Free
  <2>2. PICK label \in {"dc_close", "on_lock", "body", "idle", "panicked"} : Goto(t, label)
    BY <1>3 DEF Disconnect, DisconnectClose, OnLock, OnReturn, BodyPanic, Resume
  <2>3. \A u \in Threads : pc'[u] = IF u = t THEN label ELSE pc[u]
    BY <1>0, <2>2 DEF Goto
  <2>4. (Searching' => Searching) /\ (Removing' => Removing)
    BY <1>0, <2>1, <2>3 DEF Searching, Removing
  <2>5. \A u \in Threads : Outgoing(u)' => pc'[u] = pc[u] /\ pend'[u] = pend[u]
    BY <2>1, <2>3 DEF Outgoing
  <2>6. Removes
    BY <1>0, <1>a, <2>1, <2>3
  <2> QED
    BY <2>1, <2>4, <2>5, <2>6, StillKept
<1>4. CASE PollStart \/ RecvEvent \/ RecvForeign \/ RecvEmptyArray \/ RecvClose
  <2>1. /\ UNCHANGED <<acks, ids, asked, inTime, called, expired, scan, pend, acksOwner>>
        /\ pc[Poller] \in {"idle", "recv"}
    BY <1>4 DEF PollStart, RecvEvent, RecvForeign, RecvEmptyArray, RecvClose
  <2>2. PICK label \in {"recv", "on_lock", "idle", "panicked"} : Goto(Poller, label)
    BY <1>4 DEF PollStart, RecvEvent, RecvForeign, RecvEmptyArray, RecvClose
  <2>3. \A u \in Threads : pc'[u] = IF u = Poller THEN label ELSE pc[u]
    BY <1>0, <2>2 DEF Goto
  <2>4. (Searching' => Searching) /\ (Removing' => Removing)
    BY <1>0, <2>1, <2>3 DEF Searching, Removing
  <2>5. \A u \in Threads : Outgoing(u)' => pc'[u] = pc[u] /\ pend'[u] = pend[u]
    BY <2>1, <2>3 DEF Outgoing
  <2>6. Removes
    BY <1>a, <2>1
  <2> QED
    BY <2>1, <2>4, <2>5, <2>6, StillKept
<1>5. CASE RecvAck
  <2>1. Removes
    BY <1>5, <1>a DEF RecvAck
  <2> QED
    BY <1>5, <2>1, AnswerKept
<1>6. CASE AckMatch \/ AckScanned
  <2>1. Removes
    BY <1>6, <1>a DEF AckMatch, AckScanned
  <2> QED
    BY <1>6, <2>1, MatchKept, ScannedKept
<1>7. CASE AckLock
  <2>1. /\ UNCHANGED <<acks, ids, asked, inTime, called, expired, pend>>
        /\ pc[Poller] = "ack_lock" /\ acksOwner = Nobody
        /\ \A u \in Threads : u # Poller => pc'[u] = pc[u]
        /\ \/ pc'[Poller] = "on_lock" /\ UNCHANGED acksOwner
           \/ pc'[Poller] = "ack_scan" /\ UNCHANGED scan
    BY <1>0, <1>7 DEF AckLock, Goto
  <2>2. Searching /\ ~Removing' /\ (Searching' => UNCHANGED scan)
    BY <1>0, <2>1 DEF Searching, Removing
  <2>3. \A u \in Threads : Outgoing(u)' => pc'[u] = pc[u] /\ pend'[u] = pend[u]
    BY <2>1 DEF Outgoing
  <2> QED
    BY <1>a, <2>1, <2>2, <2>3, StillKept
<1>8. CASE AckReturn
  <2>1. /\ UNCHANGED <<acks, ids, asked, inTime, called, expired, pend, acksOwner>>
        /\ pc[Poller] = "body" /\ scan' = [scan EXCEPT !.left = @ - 1]
        /\ \A u \in Threads : u # Poller => pc'[u] = pc[u]
        /\ pc'[Poller] \in {"body", "ack_scan"}
    BY <1>0, <1>8 DEF AckReturn, Goto
  <2>2. (Searching' => Searching) /\ ~Removing'
    BY <1>0, <2>1 DEF Searching, Removing
  <2>3. \A u \in Threads : Outgoing(u)' => pc'[u] = pc[u] /\ pend'[u] = pend[u]
    BY <2>1 DEF Outgoing
  <2>4. /\ scan'.req = scan.req /\ scan'.id = scan.id /\ scan'.calls = scan.calls
        /\ scan'.from = scan.from /\ scan'.doomed = scan.doomed
    BY <1>0, <2>1 DEF Scan
  <2> QED
    BY <1>a, <2>1, <2>2, <2>3, <2>4, StillKept
<1>9. CASE AckRemove
  BY <1>9, RemoveKept
<1>10. CASE AckDone
  <2>1. /\ UNCHANGED <<acks, ids, asked, inTime, called, expired, pend, acksOwner>>
        /\ pc[Poller] = "ack_remove"
        /\ \A u \in Threads : u # Poller => pc'[u] = pc[u]
        /\ pc'[Poller] = "idle"
    BY <1>0, <1>10 DEF AckDone, Goto
  <2>2. ~Searching' /\ ~Removing'
    BY <1>0, <2>1 DEF Searching, Removing, TypeOK, InPlace
  <2>3. \A u \in Threads : Outgoing(u)' => pc'[u] = pc[u] /\ pend'[u] = pend[u]
    BY <2>1 DEF Outgoing
  <2> QED
    BY <1>a, <2>1, <2>2, <2>3, StillKept
<1>11. CASE Expire \/ UNCHANGED vars
  <2>1. /\ UNCHANGED <<acks, ids, asked, inTime, called, pend, acksOwner, scan, pc>>
        /\ expired \subseteq expired'
    BY <1>11 DEF Expire, vars
  <2>2. (Searching' => Searching) /\ (Removing' => Removing)
    BY <2>1 DEF Searching, Removing
  <2> QED
    BY <1>a, <2>1, <2>2, StillKept
<1> QED
  BY <1>1, <1>2, <1>3, <1>4, <1>5, <1>6, <1>7, <1>8, <1>9, <1>10, <1>11
     DEF Next, InCall, HandleAck

\* The ids that were drawn stay.
LEMMA DistinctBefore ==
    ASSUME TypeOK, [Next]_vars, Distinct'
    PROVE  Distinct
<1>1. CASE UNCHANGED ids
  BY <1>1 DEF Distinct
<1>2. ASSUME NEW t \in Threads, RequestStart(t)
      PROVE  Distinct
  <2>1. ids \in Seq(Ids)
    BY DEF TypeOK, VarTypes
  <2>2. PICK id \in Ids : ids' = Append(ids, id)
    BY <1>2 DEF RequestStart
  <2>3. /\ Len(ids) \in Nat /\ Len(ids') = Len(ids) + 1
        /\ \A r \in 1..Len(ids) : ids'[r] = ids[r]
    BY <2>1, <2>2, Appended
  <2> QED
    BY <2>3 DEF Distinct
<1>3. UNCHANGED ids \/ \E t \in Threads : RequestStart(t)
  BY DEF Next, InCall, HandleAck, vars, RequestPush, RequestSend, Disconnect, DisconnectClose,
         OnLock, OnReturn, BodyPanic, PollStart, RecvEvent, RecvForeign, RecvEmptyArray,
         RecvClose, RecvAck, AckLock, AckMatch, AckReturn, AckScanned, AckRemove, AckDone, Expire
<1> QED
  BY <1>1, <1>2, <1>3

LEMMA KeptHolds == Spec => [](Distinct => KeptInv)
<1>1. Init => KeptInv
  <2> SUFFICES ASSUME Init PROVE KeptInv
    OBVIOUS
  <2>1. Poller \in Threads /\ Poller # Nobody
    BY ThreadsAssumption DEF Threads
  <2>2. /\ acks = <<>> /\ asked = {} /\ inTime = {} /\ acksOwner = Nobody
        /\ \A t \in Threads : pc[t] = "idle"
    BY DEF Init
  <2>3. ~Searching /\ ~Removing /\ \A t \in Threads : ~Outgoing(t)
    BY <2>1, <2>2 DEF Searching, Removing, Outgoing
  <2> QED
    BY <2>2, <2>3 DEF KeptInv, AcksInv, OutgoingInv, AnswerInv, SearchInv, RemoveInv
<1>2. TypeOK /\ (Distinct => KeptInv) /\ [Next]_vars => (Distinct => KeptInv)'
  BY StepKept, DistinctBefore
<1> QED
  BY <1>1, <1>2, Typing, PTL DEF Spec

\* emit_with_ack and handle_ack: as long as the random ids differ, the ack of
\* every request the server may answer is registered, and the callback of every
\* request answered in time was called, whatever else is called or panics.
THEOREM Kept == Spec => []AcksKept
<1>1. (Distinct => KeptInv) => AcksKept
  BY DEF AcksKept, KeptInv
<1> QED
  BY <1>1, KeptHolds, PTL

\* handle_ack: as long as the random ids differ, removing an ack by the position
\* that was noted under an earlier lock never removes another one and never
\* panics, though other threads push in between.
THEOREM Exact == Spec => RemovalExact
<1>1. /\ TypeOK /\ (Distinct => KeptInv) /\ [Next]_vars
      => [Distinct /\ pc[Poller] = "ack_remove" =>
            /\ pc'[Poller] # "panicked"
            /\ \A i \in 1..Len(acks) :
                 acks[i].req # scan.req => \E j \in 1..Len(acks') : acks'[j] = acks[i]]_vars
  BY StepKept DEF Removes
<1> QED
  BY <1>1, Typing, KeptHolds, PTL DEF Spec, RemovalExact
=============================================================================
