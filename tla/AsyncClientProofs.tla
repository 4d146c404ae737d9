------------------------- MODULE AsyncClientProofs -------------------------
(***************************************************************************)
(* What is proved of the asynchronous socket.io client for any number of   *)
(* tasks that call it, ids, packets, attachments and calls, and whatever   *)
(* its callbacks call.                                                     *)
(***************************************************************************)
EXTENDS AsyncClient, SequenceTheorems, TLAPS

-----------------------------------------------------------------------------
(* The list of acks: pushing one, and removing one by its position. *)

\* Vec::push: the new element is the last, and all others stay.
LEMMA Appended ==
    ASSUME NEW S, NEW s \in Seq(S), NEW e \in S
    PROVE  /\ Append(s, e) \in Seq(S) /\ Len(s) \in Nat /\ Len(Append(s, e)) = Len(s) + 1
           /\ Append(s, e)[Len(s) + 1] = e
           /\ \A i \in 1 .. Len(s) : s[i] \in S /\ Append(s, e)[i] = s[i]
BY AppendProperties, LenProperties, ElementOfSeq

\* Vec::remove: the elements behind it move up.
LEMMA Removed ==
    ASSUME NEW S, NEW s \in Seq(S), NEW i \in 1 .. Len(s)
    PROVE  /\ RemoveAt(s, i) \in Seq(S) /\ Len(s) \in Nat /\ Len(RemoveAt(s, i)) = Len(s) - 1
           /\ \A j \in 1 .. Len(s) - 1 : RemoveAt(s, i)[j] = IF j < i THEN s[j] ELSE s[j + 1]
<1> DEFINE a == SubSeq(s, 1, i - 1)
           b == SubSeq(s, i + 1, Len(s))
<1>1. Len(s) \in Nat
  BY LenProperties
<1>2. a \in Seq(S) /\ Len(a) = i - 1 /\ \A j \in 1 .. i - 1 : a[j] = s[j]
  BY <1>1, SubSeqProperties
<1>3. b \in Seq(S) /\ Len(b) = Len(s) - i /\ \A j \in 1 .. Len(s) - i : b[j] = s[i + j]
  BY <1>1, SubSeqProperties
<1> HIDE DEF a, b
<1>4. /\ a \o b \in Seq(S) /\ Len(a \o b) = Len(s) - 1
      /\ \A j \in 1 .. Len(s) - 1 : (a \o b)[j] = IF j <= i - 1 THEN a[j] ELSE b[j - (i - 1)]
  <2>1. /\ a \o b \in Seq(S) /\ Len(a \o b) = Len(a) + Len(b)
        /\ \A j \in 1 .. Len(a) + Len(b) : (a \o b)[j] = IF j <= Len(a) THEN a[j] ELSE b[j - Len(a)]
    <3>1. a \in Seq(S) /\ b \in Seq(S)
      BY <1>2, <1>3
    <3> QED
      BY <3>1, ConcatProperties
  <2>2. Len(a) + Len(b) = Len(s) - 1
    BY <1>1, <1>2, <1>3
  <2> QED
    BY <1>2, <2>1, <2>2
<1>5. \A j \in 1 .. Len(s) - 1 : (a \o b)[j] = IF j < i THEN s[j] ELSE s[j + 1]
  <2> SUFFICES ASSUME NEW j \in 1 .. Len(s) - 1
               PROVE  (a \o b)[j] = IF j < i THEN s[j] ELSE s[j + 1]
    OBVIOUS
  <2>1. CASE j < i
    BY <1>1, <1>2, <1>4, <2>1
  <2>2. CASE ~(j < i)
    <3>1. j - (i - 1) \in 1 .. Len(s) - i /\ i + (j - (i - 1)) = j + 1 /\ ~(j <= i - 1)
      BY <1>1, <2>2
    <3>2. (a \o b)[j] = b[j - (i - 1)] /\ b[j - (i - 1)] = s[i + (j - (i - 1))]
      BY <1>3, <1>4, <3>1
    <3> QED
      BY <2>2, <3>1, <3>2
  <2> QED
    BY <2>1, <2>2
<1> QED
  BY <1>1, <1>4, <1>5 DEF RemoveAt, a, b

-----------------------------------------------------------------------------

USE TasksAssumption

Ack == [n : Nat, id : Ids]

-----------------------------------------------------------------------------
(* Types *)

Bounds == MaxAttachments \in Nat /\ MaxPackets \in Nat /\ MaxCalls \in Nat /\ MaxBodyCalls \in Nat

LEMMA BoundsHold == Bounds
BY BoundsAssumption DEF Bounds

LEMMA InitTypes == Init => TypeOK
<1> SUFFICES ASSUME Init PROVE TypeOK
  OBVIOUS
<1>1. StreamTypes
  <2>1. /\ link = "up" /\ engine = TRUE /\ flag = TRUE /\ ended = FALSE /\ told = FALSE
        /\ stopped = FALSE /\ owed = 0 /\ received = 0 /\ at = "next"
        /\ packet = [kind |-> "event", id |-> 0]
    BY DEF Init, NoPacket
  <2>2. owed \in 0 .. MaxAttachments /\ received \in 0 .. MaxPackets
    BY <2>1, BoundsHold DEF Bounds
  <2>3. packet \in [kind : Kinds, id : Ids \cup {0}]
    BY <2>1 DEF Kinds
  <2> QED
    BY <2>1, <2>2, <2>3 DEF StreamTypes, Ends
<1>2. CallTypes
  <2>1. NoJob \in [op : Op, left : 0 .. 2, n : Nat, id : Ids \cup {0}] /\ NoJob.op # "request"
    BY DEF NoJob, Job, Op
  <2>2. made \in Seq(Ids)
    BY EmptySeq DEF Init
  <2> QED
    BY <2>1, <2>2 DEF Init, CallTypes, Tasks
<1>3. AckTypes
  <2>1. acks \in Seq([n : Nat, id : Ids])
    BY EmptySeq DEF Init
  <2>2. lock = Nobody /\ Poller # Nobody
    BY DEF Init, Tasks
  <2> QED
    BY <2>1, <2>2 DEF Init, AckTypes
<1> QED
  BY <1>1, <1>2, <1>3 DEF TypeOK

\* A call begins, from a callback if it is the Poller's.
LEMMA CallTyped ==
    ASSUME TypeOK, NEW t \in Tasks, NEW o \in Op, Call(t, o),
           t = Poller => at \in {"event", "ack_body"}
    PROVE  TypeOK'
<1>1. ASSUME NEW label \in {"check", "push"}, NEW j, Begin(t, label, j),
             j \in [op : Op, left : 0 .. 2, n : Nat, id : Ids \cup {0}],
             label = "push" => j.op = "request", j.op = "request" => j.id \in Ids,
             made' \in Seq(Ids)
      PROVE  TypeOK'
  <2>1. StreamTypes'
    BY <1>1 DEF Begin, below, poll, TypeOK, StreamTypes
  <2>2. AckTypes'
    BY <1>1 DEF Begin, list, poll, TypeOK, AckTypes
  <2>3. CallTypes'
    BY <1>1 DEF Begin, poll, TypeOK, CallTypes
  <2> QED
    BY <2>1, <2>2, <2>3 DEF TypeOK
<1>2. CASE o = "emit"
  <2>1. PICK k \in Frames : Begin(t, "check", Job("emit", k, 0, 0)) /\ made' = made
    BY <1>2 DEF Call, Emit
  <2>2. /\ Job("emit", k, 0, 0) \in [op : Op, left : 0 .. 2, n : Nat, id : Ids \cup {0}]
        /\ Job("emit", k, 0, 0).op # "request"
    BY FramesAssumption DEF Job, Op
  <2> QED
    BY <1>1, <2>1, <2>2 DEF TypeOK, CallTypes
<1>3. CASE o = "request"
  <2>1. PICK id \in Ids, k \in Frames :
                /\ Begin(t, "push", Job("request", k, Len(made) + 1, id))
                /\ made' = Append(made, id)
    BY <1>3 DEF Call, Request
  <2>2. made' \in Seq(Ids) /\ Len(made) + 1 \in Nat
    BY <2>1, Appended DEF TypeOK, CallTypes
  <2> QED
    BY <1>1, <2>1, <2>2, FramesAssumption DEF Job, Op
<1>4. CASE o = "disconnect"
  <2>1. Begin(t, "check", Job("disconnect", 1, 0, 0)) /\ made' = made
    BY <1>4 DEF Call, Disconnect
  <2>2. /\ Job("disconnect", 1, 0, 0) \in [op : Op, left : 0 .. 2, n : Nat, id : Ids \cup {0}]
        /\ Job("disconnect", 1, 0, 0).op # "request"
    BY DEF Job, Op
  <2> QED
    BY <1>1, <2>1, <2>2 DEF TypeOK, CallTypes
<1> QED
  BY <1>2, <1>3, <1>4 DEF Op

LEMMA PushTyped ==
    ASSUME TypeOK, NEW t \in Tasks, Push(t)
    PROVE  Req(t) \in Ack
<1>1. job \in [Tasks -> [op : Op, left : 0 .. 2, n : Nat, id : Ids \cup {0}]]
  BY DEF TypeOK, CallTypes
<1>2. job[t].n \in Nat
  BY <1>1
<1>3. job[t].op = "request"
  BY DEF Push, TypeOK, CallTypes
<1>4. job[t].id \in Ids
  BY <1>1, <1>3 DEF TypeOK, CallTypes
<1> QED
  BY <1>2, <1>4 DEF Req, Ack

\* A call goes on.
LEMMA CallStepTyped ==
    ASSUME TypeOK, NEW t \in Tasks, CallStep(t)
    PROVE  TypeOK'
<1>1. at' = at /\ UNCHANGED <<calls, made, scan, lock, packet, owed, received, ended, told, answered, link>>
  BY DEF CallStep, Push, SendCheck, SendFrame, CloseCheck, Close, DisconnectStore,
         below, list, poll, requests
<1>2. StreamTypes'
  <2>1. engine' \in BOOLEAN /\ flag' \in BOOLEAN /\ stopped' \in BOOLEAN
    BY DEF CallStep, Push, SendCheck, SendFrame, CloseCheck, Close, DisconnectStore,
           below, list, poll, requests, TypeOK, StreamTypes
  <2> QED
    BY <1>1, <2>1 DEF TypeOK, StreamTypes
<1>3. CallTypes'
  <2>1. \/ \E label \in {"check", "send", "close_check", "close", "store"} : Goto(t, label)
        \/ Return(t)
        \/ job[t].left > 1 /\ job' = [job EXCEPT ![t].left = @ - 1] /\ UNCHANGED pc
    BY DEF CallStep, Push, SendCheck, SendFrame, CloseCheck, Close, DisconnectStore
  <2>2. pc[t] # "idle"
    BY DEF CallStep, Push, SendCheck, SendFrame, CloseCheck, Close, DisconnectStore
  <2>3. CASE \E label \in {"check", "send", "close_check", "close", "store"} : Goto(t, label)
    BY <1>1, <2>2, <2>3 DEF Goto, TypeOK, CallTypes
  <2>4. CASE Return(t)
    BY <1>1, <2>2, <2>4 DEF Return, NoJob, Job, Op, TypeOK, CallTypes
  <2>5. CASE job[t].left > 1 /\ job' = [job EXCEPT ![t].left = @ - 1] /\ UNCHANGED pc
    <3>1. job' \in [Tasks -> [op : Op, left : 0 .. 2, n : Nat, id : Ids \cup {0}]]
      <4>1. job \in [Tasks -> [op : Op, left : 0 .. 2, n : Nat, id : Ids \cup {0}]]
        BY DEF TypeOK, CallTypes
      <4>2. job[t] \in [op : Op, left : 0 .. 2, n : Nat, id : Ids \cup {0}]
        BY <4>1
      <4>3. job[t].left - 1 \in 0 .. 2
        BY <2>5, <4>2
      <4>4. [job[t] EXCEPT !.left = @ - 1] \in [op : Op, left : 0 .. 2, n : Nat, id : Ids \cup {0}]
        BY <4>2, <4>3
      <4> QED
        BY <2>5, <4>1, <4>4
    <3> QED
      BY <1>1, <2>2, <2>5, <3>1 DEF TypeOK, CallTypes
  <2> QED
    BY <2>1, <2>3, <2>4, <2>5
<1>4. AckTypes'
  <2>1. acks' \in Seq(Ack)
    <3>1. CASE Push(t)
      <4>1. Req(t) \in Ack
        BY <3>1, PushTyped
      <4> QED
        BY <3>1, <4>1, Appended DEF Push, Ack, TypeOK, AckTypes
    <3>2. CASE ~Push(t)
      BY <3>2 DEF CallStep, SendCheck, SendFrame, CloseCheck, Close, DisconnectStore, list,
                  TypeOK, AckTypes, Ack
    <3> QED
      BY <3>1, <3>2
  <2>2. asked' \subseteq Ack
    <3>1. CASE SendFrame(t)
      BY <3>1 DEF SendFrame, Req, Ack, TypeOK, CallTypes, AckTypes
    <3>2. CASE ~SendFrame(t)
      BY <3>2 DEF CallStep, Push, SendCheck, CloseCheck, Close, DisconnectStore, requests,
                  TypeOK, AckTypes, Ack
    <3> QED
      BY <3>1, <3>2
  <2> QED
    BY <1>1, <2>1, <2>2 DEF TypeOK, AckTypes, Ack
<1> QED
  BY <1>2, <1>3, <1>4 DEF TypeOK

\* The stream yields a packet, an error or its end.
LEMMA RecvTyped ==
    ASSUME TypeOK, Recv \/ RecvError \/ RecvNone
    PROVE  TypeOK'
<1>1. pc[Poller] = "idle" /\ at \in {"next", "collect"} /\ UNCHANGED <<call, list, made, told, stopped>>
  BY DEF Recv, RecvPacket, RecvAttachment, RecvControl, RecvError, RecvNone, Polls, requests
<1>2. at' \in {"next", "handle", "collect", "torn", "over"}
  BY DEF Recv, RecvPacket, RecvAttachment, RecvControl, RecvError, RecvNone, Polls, StreamFails
<1>3. CallTypes'
  BY <1>1, <1>2 DEF call, TypeOK, CallTypes
<1>4. asked' \subseteq asked /\ answered' \subseteq Nat
  <2>1. UNCHANGED <<asked, answered>>
        \/ \E r \in asked : asked' = asked \ {r} /\ answered' = answered \cup {r.n}
    BY DEF Recv, RecvPacket, RecvAttachment, RecvControl, RecvError, RecvNone, requests
  <2>2. asked \subseteq Ack /\ answered \subseteq Nat
    BY DEF TypeOK, AckTypes, Ack
  <2> QED
    BY <2>1, <2>2 DEF Ack
<1>5. AckTypes'
  BY <1>1, <1>2, <1>4 DEF list, TypeOK, AckTypes
<1>6. StreamTypes'
  <2>1. CASE \E kind \in Kinds \ {"error"} : RecvPacket(kind)
    <3>1. PICK kind \in Kinds \ {"error"} : RecvPacket(kind)
      BY <2>1
    <3>2. flag' \in BOOLEAN
      BY <3>1 DEF RecvPacket, Opened, TypeOK, StreamTypes
    <3>3. packet' \in [kind : Kinds, id : Ids \cup {0}]
      BY <3>1 DEF RecvPacket, TypeOK, AckTypes
    <3>4. received' \in 0 .. MaxPackets
      BY <3>1, BoundsHold DEF RecvPacket, Bounds, TypeOK, StreamTypes
    <3>5. owed' \in 0 .. MaxAttachments /\ (at' = "collect" => owed' > 0)
      BY <3>1, BoundsHold DEF RecvPacket, Bounds
    <3> QED
      BY <1>1, <1>2, <3>1, <3>2, <3>3, <3>4, <3>5 DEF RecvPacket, TypeOK, StreamTypes, Ends
  <2>2. CASE RecvAttachment
    <3>1. owed' \in 0 .. MaxAttachments /\ (at' = "collect" => owed' > 0)
      BY <2>2, BoundsHold DEF RecvAttachment, Polls, Bounds, TypeOK, StreamTypes
    <3> QED
      BY <1>2, <2>2, <3>1 DEF RecvAttachment, TypeOK, StreamTypes, Ends
  <2>3. ASSUME NEW closes \in BOOLEAN, RecvControl(closes)
        PROVE  StreamTypes'
    <3>1. engine' \in BOOLEAN /\ received' \in 0 .. MaxPackets
      BY <2>3, BoundsHold DEF RecvControl, Bounds, TypeOK, StreamTypes
    <3>2. packet' \in [kind : Kinds, id : Ids \cup {0}] /\ ended' \in BOOLEAN /\ at' # "collect"
      <4>1. CASE at = "collect"
        BY <2>3, <4>1 DEF RecvControl, StreamFails, Kinds
      <4>2. CASE at = "next"
        BY <2>3, <4>2 DEF RecvControl, TypeOK, StreamTypes
      <4> QED
        BY <1>1, <4>1, <4>2
    <3> QED
      BY <1>2, <2>3, <3>1, <3>2 DEF RecvControl, TypeOK, StreamTypes, Ends
  <2>4. CASE RecvError
    <3>1. packet' \in [kind : Kinds, id : Ids \cup {0}]
      BY <2>4 DEF RecvError, StreamFails, Kinds
    <3> QED
      BY <1>2, <2>4, <3>1 DEF RecvError, StreamFails, below, TypeOK, StreamTypes, Ends
  <2>5. CASE RecvNone
    BY <1>2, <2>5 DEF RecvNone, below, TypeOK, StreamTypes, Ends
  <2> QED
    BY <2>1, <2>2, <2>3, <2>4, <2>5 DEF Recv
<1> QED
  BY <1>3, <1>5, <1>6 DEF TypeOK

\* The Poller handles a packet, and goes through the acks.
LEMMA WorkTyped ==
    ASSUME TypeOK, Work \/ BodyPanic
    PROVE  TypeOK'
<1>1. pc[Poller] = "idle" /\ UNCHANGED <<below, flag, call, ended, requests, stopped>>
  BY DEF Work, Dispatch, EventReturn, AckLock, AckScan, AckReturn, AckRemove, AcksRemoved, BodyPanic, Polls
<1>2. at' \in {"next", "event", "ack", "ack_scan", "ack_body", "ack_remove", "crashed"}
  BY DEF Work, Dispatch, EventReturn, AckLock, AckScan, NextMatch, AckReturn, AckRemove, AcksRemoved,
         BodyPanic, Polls
<1>3. CallTypes'
  BY <1>1 DEF call, requests, TypeOK, CallTypes
<1>4. StreamTypes'
  <2>1. packet' \in {packet, NoPacket}
    BY DEF Work, Dispatch, EventReturn, AckLock, AckScan, AckReturn, AckRemove, AcksRemoved, BodyPanic
  <2>2. packet' \in [kind : Kinds, id : Ids \cup {0}]
    BY <2>1 DEF NoPacket, Kinds, TypeOK, StreamTypes
  <2>3. told' \in {told, TRUE, packet.kind = "error"}
    BY DEF Work, Dispatch, EventReturn, AckLock, AckScan, AckReturn, AckRemove, AcksRemoved, BodyPanic,
           TypeOK, StreamTypes
  <2>4. told' \in BOOLEAN
    BY <2>3 DEF TypeOK, StreamTypes
  <2> QED
    BY <1>1, <1>2, <2>2, <2>4 DEF below, TypeOK, StreamTypes, Ends
<1>5. AckTypes'
  <2> DEFINE Scan == [call : SUBSET (Nat \ {0}), gone : SUBSET (Nat \ {0}), again : BOOLEAN]
  <2>1. acks' \in Seq(Ack)
    <3>1. CASE AckRemove
      <4>1. PICK i \in scan.gone : IF i > Len(acks) THEN acks' = acks ELSE acks' = RemoveAt(acks, i)
        BY <3>1 DEF AckRemove
      <4>2. acks \in Seq(Ack) /\ Len(acks) \in Nat /\ i \in Nat \ {0}
        BY LenProperties DEF TypeOK, AckTypes, Ack
      <4>3. CASE i \in 1 .. Len(acks)
        BY <4>1, <4>2, <4>3, Removed
      <4> QED
        BY <4>1, <4>2, <4>3
    <3>2. CASE ~AckRemove
      BY <3>2 DEF Work, Dispatch, EventReturn, AckLock, AckScan, AckReturn, AcksRemoved, BodyPanic,
                  list, TypeOK, AckTypes, Ack
    <3> QED
      BY <3>1, <3>2
  <2>2. scan' \in Scan
    <3>1. scan \in Scan
      BY DEF TypeOK, AckTypes
    <3>2. CASE AckLock
      <4>1. Matching(packet.id) \subseteq Nat \ {0}
        BY LenProperties DEF Matching, TypeOK, AckTypes
      <4> QED
        BY <3>2, <4>1 DEF AckLock
    <3>3. CASE AckScan
      <4>1. CASE scan.call = {}
        BY <3>1, <3>3, <4>1 DEF AckScan
      <4>2. CASE scan.call # {}
        <5>1. PICK i \in scan.call :
                \/ scan' = [scan EXCEPT !.call = @ \ {i}]
                \/ scan' = [scan EXCEPT !.call = @ \ {i}, !.again = packet.kind = "binary_ack"]
          BY <3>3, <4>2 DEF AckScan, NextMatch
        <5> QED
          BY <3>1, <5>1
      <4> QED
        BY <4>1, <4>2
    <3>4. CASE AckReturn \/ AckRemove
      BY <3>1, <3>4 DEF AckReturn, AckRemove
    <3>5. CASE Dispatch \/ EventReturn \/ AcksRemoved \/ BodyPanic
      BY <3>1, <3>5 DEF Dispatch, EventReturn, AcksRemoved, BodyPanic, list
    <3> QED
      BY <3>2, <3>3, <3>4, <3>5 DEF Work
  <2>3. lock' \in {Poller, Nobody} /\ ((lock' = Poller) <=> (at' \in {"ack_scan", "ack_body"}))
    <3> HIDE TasksAssumption
    <3>0. Poller # Nobody
      BY TasksAssumption DEF Tasks
    <3>1. lock \in {Poller, Nobody} /\ ((lock = Poller) <=> (at \in {"ack_scan", "ack_body"}))
      BY DEF TypeOK, AckTypes
    <3>2. CASE Dispatch \/ EventReturn \/ AcksRemoved
      BY <3>1, <3>2 DEF Dispatch, EventReturn, AcksRemoved, Polls, list
    <3>3. CASE AckLock \/ BodyPanic
      BY <3>0, <3>3 DEF AckLock, BodyPanic
    <3>4. CASE AckScan
      <4>1. lock = Poller
        BY <3>1, <3>4 DEF AckScan, Polls
      <4>2. \/ lock' = Nobody /\ at' = "ack_remove"
            \/ lock' = lock /\ at' \in {"ack_scan", "ack_body"}
        BY <3>4 DEF AckScan, NextMatch
      <4> QED
        BY <3>0, <4>1, <4>2
    <3>5. CASE AckReturn \/ AckRemove
      BY <3>1, <3>5 DEF AckReturn, AckRemove, Polls
    <3> QED
      BY <3>2, <3>3, <3>4, <3>5 DEF Work
  <2> QED
    BY <1>1, <2>1, <2>2, <2>3 DEF requests, TypeOK, AckTypes, Ack
<1> QED
  BY <1>3, <1>4, <1>5 DEF TypeOK

LEMMA NextTyped == TypeOK /\ [Next]_vars => TypeOK'
<1> SUFFICES ASSUME TypeOK, [Next]_vars PROVE TypeOK'
  OBVIOUS
<1>1. CASE \E u \in Users, o \in Op : Call(u, o)
  BY <1>1, CallTyped DEF Tasks
<1>2. CASE \E t \in Tasks : CallStep(t)
  BY <1>2, CallStepTyped
<1>3. CASE Recv \/ RecvError \/ RecvNone
  BY <1>3, RecvTyped
<1>4. CASE Work \/ BodyPanic
  BY <1>4, WorkTyped
<1>5. CASE EventBody \/ AckBody
  BY <1>5, CallTyped, OpsAssumption DEF EventBody, AckBody, Polls, Tasks
<1>6. CASE LinkChange
  BY <1>6 DEF LinkChange, call, list, poll, requests, TypeOK, StreamTypes, CallTypes, AckTypes
<1>7. CASE UNCHANGED vars
  BY <1>7 DEF vars, below, call, list, poll, requests, TypeOK, StreamTypes, CallTypes, AckTypes
<1> QED
  BY <1>1, <1>2, <1>3, <1>4, <1>5, <1>6, <1>7 DEF Next

\* The variables have their types; the Poller has the lock on the acks exactly where
\* their callbacks run, and calls the client from callbacks only.
THEOREM Typing == Spec => []TypeOK
<1>1. Init => TypeOK
  BY InitTypes
<1>2. TypeOK /\ [Next]_vars => TypeOK'
  BY NextTyped
<1> QED
  BY <1>1, <1>2, PTL DEF Spec

-----------------------------------------------------------------------------
(* Attachments, and the end of the client *)

\* While the server owes attachments the Poller collects them, or its stream is over.
THEOREM Collected == Spec => []AttachmentsCollected
<1>1. Init => AttachmentsCollected
  BY DEF Init, AttachmentsCollected
<1>2. TypeOK /\ AttachmentsCollected /\ [Next]_vars => AttachmentsCollected'
  <2> SUFFICES ASSUME TypeOK, AttachmentsCollected, [Next]_vars
               PROVE  AttachmentsCollected'
    OBVIOUS
  <2>1. CASE UNCHANGED <<owed, at, ended>>
    BY <2>1 DEF AttachmentsCollected
  <2>2. ASSUME NEW kind, RecvPacket(kind)
        PROVE  AttachmentsCollected'
    BY <2>2 DEF RecvPacket, AttachmentsCollected
  <2>3. CASE RecvAttachment
    BY <2>3 DEF RecvAttachment, Polls, AttachmentsCollected, TypeOK, StreamTypes
  <2>4. ASSUME NEW closes, RecvControl(closes)
        PROVE  AttachmentsCollected'
    BY <2>4 DEF RecvControl, StreamFails, Polls, AttachmentsCollected
  <2>5. CASE RecvError
    BY <2>5 DEF RecvError, StreamFails, AttachmentsCollected
  <2>6. CASE RecvNone
    BY <2>6 DEF RecvNone, Polls, below, AttachmentsCollected
  <2>7. CASE Work \/ BodyPanic
    BY <2>7 DEF Work, Dispatch, EventReturn, AckLock, AckScan, AckReturn, AckRemove, AcksRemoved,
                BodyPanic, Polls, below, AttachmentsCollected
  <2>8. CASE \E t \in Tasks, o \in Op : Call(t, o)
    BY <2>1, <2>8 DEF Call, Emit, Request, Disconnect, Begin, below, poll
  <2>9. CASE \E t \in Tasks : CallStep(t)
    BY <2>1, <2>9 DEF CallStep, Push, SendCheck, SendFrame, CloseCheck, Close, DisconnectStore, below, poll
  <2>10. CASE LinkChange
    BY <2>1, <2>10 DEF LinkChange, poll
  <2>11. CASE UNCHANGED vars
    BY <2>1, <2>11 DEF vars, below, poll
  <2>12. EventBody \/ AckBody => \E t \in Tasks, o \in Op : Call(t, o)
    BY OpsAssumption DEF EventBody, AckBody, Tasks
  <2> QED
    BY <2>2, <2>3, <2>4, <2>5, <2>6, <2>7, <2>8, <2>9, <2>10, <2>11, <2>12 DEF Next, Recv, Tasks
<1> QED
  BY <1>1, <1>2, Typing, PTL DEF Spec

\* Inductive for StoppedIsClosed: the flag of the engine.io client is never set again.
CloseInv == StoppedIsClosed /\ \A t \in Tasks : pc[t] = "store" => ~engine

\* After a disconnect() that returned Ok the engine.io client is closed for good.
THEOREM Final == Spec => []StoppedIsClosed
<1>1. Init => CloseInv
  BY DEF Init, CloseInv, StoppedIsClosed
<1>2. TypeOK /\ CloseInv /\ [Next]_vars => CloseInv'
  <2> SUFFICES ASSUME TypeOK, CloseInv, [Next]_vars
               PROVE  CloseInv'
    OBVIOUS
  <2>1. ASSUME engine' => engine, UNCHANGED <<stopped, pc>>
        PROVE  CloseInv'
    BY <2>1 DEF CloseInv, StoppedIsClosed
  <2>2. ASSUME UNCHANGED <<engine, stopped>>, NEW t \in Tasks, NEW place,
               pc' = [pc EXCEPT ![t] = place], place = "store" => ~engine
        PROVE  CloseInv'
    BY <2>2 DEF CloseInv, StoppedIsClosed, TypeOK, CallTypes
  <2>3. ASSUME NEW t \in Tasks, CallStep(t)
        PROVE  CloseInv'
    <3>1. CASE Push(t) \/ SendCheck(t)
      BY <2>1, <2>2, <3>1 DEF Push, SendCheck, Goto, Return, below
    <3>2. CASE SendFrame(t)
      <4>1. UNCHANGED <<engine, stopped>> /\ (UNCHANGED pc \/ Goto(t, "close_check") \/ Return(t))
        BY <3>2 DEF SendFrame, below
      <4> QED
        BY <2>1, <2>2, <4>1 DEF Goto, Return
    <3>3. CASE CloseCheck(t)
      <4>1. UNCHANGED <<engine, stopped>> /\ Goto(t, IF engine THEN "close" ELSE "store")
        BY <3>3 DEF CloseCheck, below
      <4>2. CASE engine
        BY <2>2, <4>1, <4>2 DEF Goto
      <4>3. CASE ~engine
        BY <2>2, <4>1, <4>3 DEF Goto
      <4> QED
        BY <4>2, <4>3
    <3>4. CASE Close(t)
      BY <3>4 DEF Close, Goto, Return, CloseInv, StoppedIsClosed, TypeOK, CallTypes
    <3>5. CASE DisconnectStore(t)
      BY <3>5 DEF DisconnectStore, Return, below, CloseInv, StoppedIsClosed, TypeOK, CallTypes
    <3> QED
      BY <2>3, <3>1, <3>2, <3>3, <3>4, <3>5 DEF CallStep
  <2>4. CASE \E t \in Tasks, o \in Op : Call(t, o)
    <3>1. PICK t \in Tasks, o \in Op : Call(t, o)
      BY <2>4
    <3>2. UNCHANGED <<engine, stopped>> /\ \E place \in {"check", "push"} : pc' = [pc EXCEPT ![t] = place]
      BY <3>1 DEF Call, Emit, Request, Disconnect, Begin, below
    <3> QED
      BY <2>2, <3>2
  <2>5. CASE Recv
    BY <2>1, <2>5 DEF Recv, RecvPacket, RecvAttachment, RecvControl, call
  <2>6. CASE RecvError \/ RecvNone \/ Work \/ BodyPanic
    BY <2>1, <2>6 DEF RecvError, RecvNone, Work, Dispatch, EventReturn, AckLock, AckScan, AckReturn,
                      AckRemove, AcksRemoved, BodyPanic, below, call
  <2>7. CASE LinkChange
    BY <2>1, <2>7 DEF LinkChange, call
  <2>8. CASE UNCHANGED vars
    BY <2>1, <2>8 DEF vars, below, call
  <2>9. EventBody \/ AckBody => \E t \in Tasks, o \in Op : Call(t, o)
    BY OpsAssumption DEF EventBody, AckBody, Tasks
  <2> QED
    BY <2>3, <2>4, <2>5, <2>6, <2>7, <2>8, <2>9 DEF Next, Tasks
<1>3. CloseInv => StoppedIsClosed
  BY DEF CloseInv
<1> QED
  BY <1>1, <1>2, <1>3, Typing, PTL DEF Spec

-----------------------------------------------------------------------------
(* What is outstanding *)

\* r is the n-th request that was made.
Known(r) == r.n \in 1 .. Len(made) /\ made[r.n] = r.id

\* A request that has not been sent yet.
Open(t) == pc[t] # "idle" /\ job[t].op = "request"

Registered == {acks[i].n : i \in 1 .. Len(acks)}

\* Where the Poller goes through the acks, and where it may hold an answer.
AckPlaces == {"ack_scan", "ack_body", "ack_remove"}
HandPlaces == {"collect", "handle", "ack"}

RequestsInv ==
    /\ \A i \in 1 .. Len(acks) : Known(acks[i])
    /\ \A r \in asked : Known(r)
    /\ \A t \in Tasks : Open(t) => Known(Req(t))

AcksDistinct == \A i, j \in 1 .. Len(acks) : acks[i].n = acks[j].n => i = j

OpenDistinct == \A t, u \in Tasks : Open(t) /\ Open(u) /\ job[t].n = job[u].n => t = u

\* A request in a task's hands is registered once the task is past its push.
OpenUnanswered ==
    \A t \in Tasks : Open(t) =>
        /\ job[t].n \notin answered
        /\ \A r \in asked : r.n # job[t].n
        /\ pc[t] = "push" => job[t].n \notin Registered
        /\ pc[t] # "push" => job[t].n \in Registered

AskedRegistered == \A r \in asked : r.n \in Registered /\ r.n \notin answered

\* The answer to request n is in the hands of the Poller, or the stream has ended.
InHand(n) ==
    \/ ended \/ at \in Ends
    \/ at \in HandPlaces /\ packet.kind \in Answers /\ packet.id = made[n]
    \/ at \in AckPlaces /\ \E i \in scan.gone : acks[i].n = n

AnsweredInHand ==
    \A n \in answered : n \in 1 .. Len(made) /\ (n \in Registered => InHand(n))

\* The positions to be removed: one at most, of a request that was answered.
GoneAnswered ==
    at \in AckPlaces =>
        /\ \A i \in scan.gone : i \in 1 .. Len(acks) /\ acks[i].n \in answered
        /\ \A i, j \in scan.gone : i = j

AnswerInHand ==
    /\ at = "ack" => packet.kind \in Answers
    /\ at \in HandPlaces /\ packet.kind \in Answers => \E n \in answered : made[n] = packet.id

AckInv ==
    /\ AcksDistinct /\ OpenDistinct /\ OpenUnanswered /\ AskedRegistered
    /\ AnsweredInHand /\ GoneAnswered /\ AnswerInHand

\* Inductive for OutstandingExact; two requests with one id would confuse the acks.
ExactInv == RequestsInv /\ (IsInjective(made) => AckInv)

LEMMA InitExact == Init => ExactInv
BY DEF Init, ExactInv, RequestsInv, AckInv, AcksDistinct, OpenDistinct, OpenUnanswered,
       AskedRegistered, AnsweredInHand, GoneAnswered, AnswerInHand, Open, AckPlaces, HandPlaces

\* Tasks may leave their calls, or begin and continue those that are no requests.
LEMMA TasksOnly ==
    ASSUME ExactInv, UNCHANGED <<made, acks, asked, answered, poll, scan>>,
           \A t \in Tasks : Open(t)' => /\ Open(t) /\ (pc'[t] = "push" <=> pc[t] = "push")
                                        /\ job'[t].n = job[t].n /\ job'[t].id = job[t].id
    PROVE  ExactInv'
<1>1. RequestsInv'
  BY DEF ExactInv, RequestsInv, Known, Req
<1>2. ASSUME AckInv
      PROVE  AckInv'
  <2>1. OpenDistinct'
    BY <1>2 DEF AckInv, OpenDistinct
  <2>2. OpenUnanswered'
    BY <1>2 DEF AckInv, OpenUnanswered, Registered
  <2> QED
    BY <1>2, <2>1, <2>2 DEF poll, AckInv, AcksDistinct, AskedRegistered, AnsweredInHand, GoneAnswered,
                            AnswerInHand, Registered, InHand
<1> QED
  BY <1>1, <1>2 DEF ExactInv

LEMMA CallExact ==
    ASSUME TypeOK, ExactInv, NEW t \in Tasks, NEW o \in Op, Call(t, o)
    PROVE  ExactInv'
<1>1. CASE o # "request"
  <2>1. PICK j, label : Begin(t, label, j) /\ made' = made /\ j.op # "request"
    <3>1. CASE o = "emit"
      <4>1. PICK k : Begin(t, "check", Job("emit", k, 0, 0)) /\ made' = made
        BY <3>1 DEF Call, Emit
      <4>2. Job("emit", k, 0, 0).op # "request"
        BY DEF Job
      <4> QED
        BY <4>1, <4>2
    <3>2. CASE o = "disconnect"
      BY <3>2 DEF Call, Disconnect, Job
    <3> QED
      BY <1>1, <3>1, <3>2 DEF Op
  <2> QED
    BY <2>1, TasksOnly DEF Begin, list, Open, TypeOK, CallTypes
<1>2. CASE o = "request"
  <2> DEFINE n == Len(made) + 1
  <2>1. PICK id \in Ids, m \in Frames :
                Begin(t, "push", Job("request", m, n, id)) /\ made' = Append(made, id)
    BY <1>2 DEF Call, Request
  <2>2. /\ Len(made) \in Nat /\ Len(made') = n /\ made'[n] = id
        /\ \A i \in 1 .. Len(made) : made'[i] = made[i]
    BY <2>1, Appended DEF TypeOK, CallTypes
  <2>3. /\ job'[t].n = n /\ job'[t].id = id /\ pc'[t] = "push"
        /\ \A u \in Tasks \ {t} : job'[u] = job[u] /\ pc'[u] = pc[u]
        /\ UNCHANGED <<acks, asked, answered, poll, scan>>
    BY <2>1 DEF Begin, Job, list, TypeOK, CallTypes
  <2>4. \A u \in Tasks \ {t} : Open(u)' <=> Open(u)
    BY <2>3 DEF Open
  <2> HIDE DEF n
  <2>5. RequestsInv'
    <3>1. \A r : Known(r) => Known(r)'
      BY <2>2 DEF Known, n
    <3>2. Known(Req(t))'
      BY <2>2, <2>3 DEF Known, Req, n
    <3>3. \A u \in Tasks \ {t} : Req(u)' = Req(u)
      BY <2>3 DEF Req
    <3> QED
      BY <2>3, <2>4, <3>1, <3>2, <3>3 DEF ExactInv, RequestsInv
  <2>6. ASSUME IsInjective(made')
        PROVE  IsInjective(made)
    <3>1. DOMAIN made = 1 .. Len(made) /\ DOMAIN made' = 1 .. n
      BY <2>1, <2>2, Appended, LenProperties DEF TypeOK, CallTypes
    <3> QED
      BY <2>2, <2>6, <3>1 DEF IsInjective, n
  <2>7. ASSUME AckInv
        PROVE  AckInv'
    <3>1. /\ \A u \in Tasks : Open(u) => job[u].n \in 1 .. Len(made)
          /\ \A r \in asked : r.n \in 1 .. Len(made)
          /\ \A k \in Registered : k \in 1 .. Len(made)
          /\ \A k \in answered : k \in 1 .. Len(made)
      BY <2>7 DEF ExactInv, RequestsInv, Known, Req, Registered, AckInv, AnsweredInHand
    <3>2. n \notin 1 .. Len(made)
      BY <2>2 DEF n
    <3>3. OpenDistinct'
      BY <2>3, <2>4, <2>7, <3>1, <3>2 DEF AckInv, OpenDistinct
    <3>4. OpenUnanswered'
      BY <2>3, <2>4, <2>7, <3>1, <3>2 DEF AckInv, OpenUnanswered, Registered
    <3>5. AnsweredInHand' /\ AnswerInHand'
      BY <2>2, <2>3, <2>7, <3>1 DEF poll, AckInv, AnsweredInHand, AnswerInHand, InHand, Registered, n
    <3> QED
      BY <2>3, <2>7, <3>3, <3>4, <3>5
         DEF poll, AckInv, AcksDistinct, AskedRegistered, GoneAnswered, Registered
  <2> QED
    BY <2>5, <2>6, <2>7 DEF ExactInv
<1> QED
  BY <1>1, <1>2

LEMMA CallStepExact ==
    ASSUME TypeOK, ExactInv, NEW t \in Tasks, CallStep(t)
    PROVE  ExactInv'
<1>1. CASE Push(t)
  <2>1. acks \in Seq(Ack) /\ Req(t) \in Ack
    BY <1>1, PushTyped DEF TypeOK, AckTypes, Ack
  <2>2. /\ Len(acks) \in Nat /\ Len(acks') = Len(acks) + 1 /\ acks'[Len(acks) + 1] = Req(t)
        /\ \A i \in 1 .. Len(acks) : acks'[i] = acks[i]
    BY <1>1, <2>1, Appended DEF Push
  <2>3. /\ UNCHANGED <<job, poll, requests, scan>> /\ pc[t] = "push" /\ pc'[t] = "check"
        /\ \A u \in Tasks \ {t} : pc'[u] = pc[u]
    BY <1>1 DEF Push, Goto, TypeOK, CallTypes
  <2>4. Open(t) /\ \A u \in Tasks : Open(u)' <=> Open(u)
    BY <2>3 DEF Open, TypeOK, CallTypes
  <2>5. Registered' = Registered \cup {job[t].n}
    BY <2>2 DEF Registered, Req
  <2>6. RequestsInv'
    <3>1. \A i \in 1 .. Len(acks') : i = Len(acks) + 1 \/ i \in 1 .. Len(acks)
      BY <2>2
    <3>2. Known(Req(t))
      BY <2>4 DEF ExactInv, RequestsInv
    <3>3. \A i \in 1 .. Len(acks') : Known(acks'[i])
      BY <2>2, <3>1, <3>2 DEF ExactInv, RequestsInv
    <3> QED
      BY <2>3, <2>4, <3>3 DEF requests, ExactInv, RequestsInv, Known, Req
  <2>7. ASSUME AckInv
        PROVE  AckInv'
    <3>1. job[t].n \notin Registered /\ job[t].n \notin answered
      BY <2>3, <2>4, <2>7 DEF AckInv, OpenUnanswered
    <3>2. AcksDistinct'
      BY <2>2, <2>7, <3>1 DEF AckInv, AcksDistinct, Registered, Req
    <3>3. OpenDistinct'
      BY <2>3, <2>4, <2>7 DEF AckInv, OpenDistinct
    <3>4. OpenUnanswered'
      BY <2>3, <2>4, <2>5, <2>7, <3>3 DEF requests, AckInv, OpenDistinct, OpenUnanswered
    <3>5. AskedRegistered'
      BY <2>3, <2>5, <2>7 DEF requests, AckInv, AskedRegistered
    <3>6. GoneAnswered'
      BY <2>2, <2>3, <2>7 DEF requests, poll, AckInv, GoneAnswered
    <3>7. AnsweredInHand'
      BY <2>2, <2>3, <2>5, <2>7, <3>1 DEF requests, poll, AckInv, AnsweredInHand, GoneAnswered, InHand
    <3>8. AnswerInHand'
      BY <2>3, <2>7 DEF requests, poll, AckInv, AnswerInHand
    <3> QED
      BY <3>2, <3>3, <3>4, <3>5, <3>6, <3>7, <3>8 DEF AckInv
  <2> QED
    BY <2>3, <2>6, <2>7 DEF requests, ExactInv
<1>2. CASE SendFrame(t) /\ Open(t) /\ asked' # asked
  <2>1. job[t].left = 1
    BY <1>2 DEF SendFrame
  <2>2. /\ asked' = asked \cup {Req(t)} /\ Return(t) /\ pc[t] = "send"
        /\ UNCHANGED <<poll, list, made, answered>>
    BY <1>2, <2>1 DEF SendFrame, Open
  <2>3. ~Open(t)' /\ \A u \in Tasks \ {t} : pc'[u] = pc[u] /\ job'[u] = job[u] /\ (Open(u)' <=> Open(u))
    BY <2>2 DEF Return, Open, TypeOK, CallTypes
  <2>4. RequestsInv'
    BY <1>2, <2>2, <2>3 DEF list, ExactInv, RequestsInv, Known, Req
  <2>5. ASSUME AckInv
        PROVE  AckInv'
    <3>1. job[t].n \in Registered /\ job[t].n \notin answered
      BY <1>2, <2>2, <2>5 DEF AckInv, OpenUnanswered
    <3>2. OpenDistinct'
      BY <2>3, <2>5 DEF AckInv, OpenDistinct
    <3>3. OpenUnanswered'
      BY <1>2, <2>2, <2>3, <2>5 DEF list, AckInv, OpenDistinct, OpenUnanswered, Registered, Req
    <3>4. AskedRegistered'
      BY <2>2, <2>5, <3>1 DEF list, AckInv, AskedRegistered, Registered, Req
    <3> QED
      BY <2>2, <2>5, <3>2, <3>3, <3>4
         DEF list, poll, AckInv, AcksDistinct, AnsweredInHand, GoneAnswered, AnswerInHand, InHand, Registered
  <2> QED
    BY <2>2, <2>4, <2>5 DEF ExactInv
<1>3. CASE ~Push(t) /\ ~(SendFrame(t) /\ Open(t) /\ asked' # asked)
  <2>1. UNCHANGED <<made, acks, answered, poll, scan>>
    BY <1>3 DEF CallStep, SendCheck, SendFrame, CloseCheck, Close, DisconnectStore, list, requests
  <2>2. UNCHANGED asked
    BY <1>3 DEF CallStep, SendCheck, SendFrame, CloseCheck, Close, DisconnectStore, requests, Open
  <2>3. \/ pc[t] \notin {"push", "idle"} /\ \E label \in {"send", "close_check", "close", "store"} : Goto(t, label)
        \/ Return(t)
        \/ job[t].left > 1 /\ job' = [job EXCEPT ![t].left = @ - 1] /\ UNCHANGED pc
    BY <1>3 DEF CallStep, SendCheck, SendFrame, CloseCheck, Close, DisconnectStore
  <2>4. \A u \in Tasks : Open(u)' => /\ Open(u) /\ (pc'[u] = "push" <=> pc[u] = "push")
                                     /\ job'[u].n = job[u].n /\ job'[u].id = job[u].id
    <3>1. CASE /\ pc[t] \notin {"push", "idle"}
               /\ \E label \in {"send", "close_check", "close", "store"} : Goto(t, label)
      BY <3>1 DEF Goto, Open, TypeOK, CallTypes
    <3>2. CASE Return(t)
      BY <3>2 DEF Return, Open, TypeOK, CallTypes
    <3>3. CASE job[t].left > 1 /\ job' = [job EXCEPT ![t].left = @ - 1] /\ UNCHANGED pc
      <4>2. /\ job'[t].op = job[t].op /\ job'[t].n = job[t].n /\ job'[t].id = job[t].id
            /\ \A u \in Tasks \ {t} : job'[u] = job[u]
        BY <3>3 DEF TypeOK, CallTypes
      <4> QED
        BY <3>3, <4>2 DEF Open
    <3> QED
      BY <2>3, <3>1, <3>2, <3>3
  <2> QED
    BY <2>1, <2>2, <2>4, TasksOnly
<1> QED
  BY <1>1, <1>2, <1>3

\* The Poller moves while the tasks and what they made stay.
LEMMA PollExact ==
    ASSUME ExactInv, UNCHANGED <<made, acks, asked, answered, pc, job>>,
           IsInjective(made) /\ AckInv => AnsweredInHand' /\ GoneAnswered' /\ AnswerInHand'
    PROVE  ExactInv'
<1>1. RequestsInv'
  BY DEF ExactInv, RequestsInv, Known, Req, Open
<1>2. ASSUME IsInjective(made), AckInv
      PROVE  AckInv'
  <2>1. OpenDistinct'
    BY <1>2 DEF AckInv, OpenDistinct, Open
  <2>2. OpenUnanswered'
    BY <1>2 DEF AckInv, OpenUnanswered, Open, Registered
  <2> QED
    BY <1>2, <2>1, <2>2 DEF AckInv, AcksDistinct, AskedRegistered, Registered
<1> QED
  BY <1>1, <1>2 DEF ExactInv

LEMMA RecvExact ==
    ASSUME TypeOK, ExactInv, Recv \/ RecvError \/ RecvNone
    PROVE  ExactInv'
<1>1. at \in {"next", "collect"} /\ UNCHANGED <<call, list, made>>
  BY DEF Recv, RecvPacket, RecvAttachment, RecvControl, RecvError, RecvNone, Polls, requests
<1>2. CASE \E kind \in Kinds \ {"error"} : RecvPacket(kind)
  <2>1. PICK kind \in Kinds \ {"error"} : RecvPacket(kind)
    BY <1>2
  <2>2. at = "next" /\ ~ended /\ at' \in {"handle", "collect"}
    BY <2>1 DEF RecvPacket, Polls
  <2>3. CASE kind \in Answers
    <3>1. PICK r \in asked : /\ packet' = [kind |-> kind, id |-> r.id]
                             /\ asked' = asked \ {r} /\ answered' = answered \cup {r.n}
      BY <2>1, <2>3 DEF RecvPacket
    <3>2. UNCHANGED <<made, acks, pc, job, scan>>
      BY <1>1 DEF call, list
    <3>3. RequestsInv'
      BY <3>1, <3>2 DEF ExactInv, RequestsInv, Known, Req, Open
    <3>4. ASSUME IsInjective(made), AckInv
          PROVE  AckInv'
      <4>1. Known(r) /\ asked \subseteq Ack
        BY DEF ExactInv, RequestsInv, TypeOK, AckTypes, Ack
      <4>2. \A q \in asked' : q.n # r.n
        <5> SUFFICES ASSUME NEW q \in asked, q.n = r.n PROVE q = r
          BY <3>1
        <5>1. q.id = r.id
          BY <4>1 DEF ExactInv, RequestsInv, Known
        <5> QED
          BY <4>1, <5>1 DEF Ack
      <4>3. OpenDistinct'
        BY <3>2, <3>4 DEF AckInv, OpenDistinct, Open
      <4>4. OpenUnanswered'
        BY <3>1, <3>2, <3>4 DEF AckInv, OpenUnanswered, Open, Registered
      <4>5. AskedRegistered'
        BY <3>1, <3>2, <3>4, <4>2 DEF AckInv, AskedRegistered, Registered
      <4>6. AnsweredInHand'
        <5>1. \A n \in answered : n \in 1 .. Len(made) /\ n \notin Registered
          BY <2>2, <3>4 DEF AckInv, AnsweredInHand, InHand, Ends, HandPlaces, AckPlaces
        <5>2. InHand(r.n)'
          BY <2>2, <2>3, <3>1, <3>2, <4>1 DEF InHand, Known, HandPlaces
        <5> QED
          BY <3>1, <3>2, <4>1, <5>1, <5>2 DEF AnsweredInHand, Registered, Known
      <4>7. AnswerInHand' /\ GoneAnswered'
        BY <2>2, <3>1, <3>2, <4>1 DEF AnswerInHand, GoneAnswered, Known, AckPlaces
      <4> QED
        BY <3>2, <3>4, <4>3, <4>4, <4>5, <4>6, <4>7 DEF AckInv, AcksDistinct
    <3> QED
      BY <3>2, <3>3, <3>4 DEF ExactInv
  <2>4. CASE kind \notin Answers
    <3>1. packet'.kind = kind /\ UNCHANGED <<asked, answered, ended>>
      BY <2>1, <2>4 DEF RecvPacket
    <3> QED
      BY <1>1, <2>2, <2>4, <3>1, PollExact
         DEF call, list, AckInv, AnsweredInHand, GoneAnswered, AnswerInHand, InHand, Registered,
             Ends, HandPlaces, AckPlaces
  <2> QED
    BY <2>3, <2>4
<1>3. CASE ~\E kind \in Kinds \ {"error"} : RecvPacket(kind)
  <2>1. UNCHANGED <<asked, answered>>
    BY <1>3 DEF Recv, RecvAttachment, RecvControl, RecvError, RecvNone, requests
  <2>2. /\ ended => ended'
        /\ \/ UNCHANGED packet /\ at' \in {at, "torn", "over"}
           \/ UNCHANGED packet /\ at = "collect" /\ at' = "handle"
           \/ ended' /\ at' = "handle" /\ packet'.kind = "error"
    BY <1>3 DEF Recv, RecvAttachment, RecvControl, RecvError, RecvNone, StreamFails, Polls
  <2> QED
    BY <1>1, <2>1, <2>2, PollExact
       DEF call, list, AckInv, AnsweredInHand, GoneAnswered, AnswerInHand, InHand, Registered,
           Ends, HandPlaces, AckPlaces, Answers
<1> QED
  BY <1>2, <1>3

\* What matches an answer is the request that was answered.
LEMMA LockExact ==
    ASSUME TypeOK, ExactInv, AckLock
    PROVE  ExactInv'
<1>1. /\ at = "ack" /\ at' = "ack_scan" /\ scan'.gone = Matching(packet.id)
      /\ UNCHANGED <<made, acks, asked, answered, pc, job, ended>>
  BY DEF AckLock, Polls, call, requests
<1>2. ASSUME IsInjective(made), AckInv
      PROVE  AnsweredInHand' /\ GoneAnswered' /\ AnswerInHand'
  <2>1. PICK n \in answered : made[n] = packet.id
    BY <1>1, <1>2 DEF AckInv, AnswerInHand, HandPlaces
  <2>2. n \in 1 .. Len(made) /\ DOMAIN made = 1 .. Len(made)
    BY <1>2, LenProperties DEF AckInv, AnsweredInHand, TypeOK, CallTypes
  <2>3. \A i \in Matching(packet.id) : i \in 1 .. Len(acks) /\ acks[i].n = n
    <3> SUFFICES ASSUME NEW i \in 1 .. Len(acks), acks[i].id = packet.id PROVE acks[i].n = n
      BY DEF Matching
    <3>1. acks[i].n \in 1 .. Len(made) /\ made[acks[i].n] = packet.id
      BY DEF ExactInv, RequestsInv, Known
    <3> QED
      BY <1>2, <2>1, <2>2, <3>1 DEF IsInjective
  <2>4. GoneAnswered'
    BY <1>1, <1>2, <2>1, <2>3 DEF GoneAnswered, AckInv, AcksDistinct
  <2>5. AnsweredInHand'
    <3> SUFFICES ASSUME NEW m \in answered, m \in Registered
                 PROVE  InHand(m)'
      BY <1>1, <1>2 DEF AckInv, AnsweredInHand, Registered
    <3>1. ended \/ packet.id = made[m]
      BY <1>1, <1>2 DEF AckInv, AnsweredInHand, InHand, Ends, AckPlaces
    <3>2. PICK i \in 1 .. Len(acks) : acks[i].n = m
      BY DEF Registered
    <3>3. made[m] = acks[i].id
      BY <3>2 DEF ExactInv, RequestsInv, Known
    <3> QED
      BY <1>1, <3>1, <3>2, <3>3 DEF InHand, Matching, AckPlaces
  <2>6. AnswerInHand'
    BY <1>1 DEF AnswerInHand, HandPlaces
  <2> QED
    BY <2>4, <2>5, <2>6
<1> QED
  BY <1>1, <1>2, PollExact

\* The one position that is removed is that of the request.
LEMMA RemoveExact ==
    ASSUME TypeOK, ExactInv, AckRemove
    PROVE  ExactInv'
<1>1. at = "ack_remove" /\ UNCHANGED <<made, asked, answered, pc, job, ended, packet>>
  BY DEF AckRemove, Polls, call, requests
<1>2. PICK i \in scan.gone :
        /\ Least(i, scan.gone)
        /\ IF i > Len(acks)
           THEN at' = "crashed" /\ UNCHANGED <<acks, scan>>
           ELSE acks' = RemoveAt(acks, i) /\ scan' = [scan EXCEPT !.gone = @ \ {i}] /\ UNCHANGED at
  BY DEF AckRemove
<1>3. acks \in Seq(Ack) /\ Len(acks) \in Nat /\ i \in Nat \ {0} /\ scan.gone \subseteq Nat
  BY LenProperties DEF TypeOK, AckTypes, Ack
<1>4. CASE i > Len(acks)
  BY <1>1, <1>2, <1>4, PollExact
     DEF AckInv, AnsweredInHand, GoneAnswered, AnswerInHand, InHand, Registered, Ends, HandPlaces, AckPlaces
<1>5. CASE ~(i > Len(acks))
  <2>1. i \in 1 .. Len(acks) /\ at' = at /\ scan'.gone = scan.gone \ {i} /\ acks' = RemoveAt(acks, i)
    BY <1>2, <1>3, <1>5 DEF TypeOK, AckTypes
  <2>2. /\ Len(acks') = Len(acks) - 1
        /\ \A j \in 1 .. Len(acks) - 1 : acks'[j] = IF j < i THEN acks[j] ELSE acks[j + 1]
    BY <1>3, <2>1, Removed
  <2>3. RequestsInv'
    <3>1. \A j \in 1 .. Len(acks') : \E k \in 1 .. Len(acks) : acks'[j] = acks[k]
      BY <1>3, <2>1, <2>2
    <3> QED
      BY <1>1, <3>1 DEF ExactInv, RequestsInv, Known, Req, Open
  <2>4. ASSUME AckInv
        PROVE  AckInv'
    <3>1. scan'.gone = {} /\ acks[i].n \in answered
      BY <1>1, <2>1, <2>4 DEF AckInv, GoneAnswered, AckPlaces
    <3>2. AcksDistinct'
      BY <1>3, <2>1, <2>2, <2>4 DEF AckInv, AcksDistinct
    <3>3. Registered' = Registered \ {acks[i].n}
      <4>1. \A j \in 1 .. Len(acks') : \E k \in 1 .. Len(acks) : k # i /\ acks'[j] = acks[k]
        BY <1>3, <2>1, <2>2
      <4>2. \A k \in 1 .. Len(acks) : k # i => \E j \in 1 .. Len(acks') : acks'[j] = acks[k]
        <5> SUFFICES ASSUME NEW k \in 1 .. Len(acks), k # i
                     PROVE  \E j \in 1 .. Len(acks') : acks'[j] = acks[k]
          OBVIOUS
        <5>1. CASE k < i
          BY <1>3, <2>1, <2>2, <5>1
        <5>2. CASE k > i
          <6>1. k - 1 \in 1 .. Len(acks') /\ ~(k - 1 < i) /\ (k - 1) + 1 = k
            BY <1>3, <2>1, <2>2, <5>2
          <6> QED
            BY <2>2, <6>1
        <5> QED
          BY <1>3, <5>1, <5>2
      <4>3. \A k \in 1 .. Len(acks) : acks[k].n = acks[i].n <=> k = i
        BY <2>1, <2>4 DEF AckInv, AcksDistinct
      <4>4. ASSUME NEW n \in Registered'
            PROVE  n \in Registered \ {acks[i].n}
        <5>1. PICK j \in 1 .. Len(acks') : acks'[j].n = n
          BY DEF Registered
        <5>2. PICK k \in 1 .. Len(acks) : k # i /\ acks'[j] = acks[k]
          BY <4>1
        <5> QED
          BY <4>3, <5>1, <5>2 DEF Registered
      <4>5. ASSUME NEW n \in Registered, n # acks[i].n
            PROVE  n \in Registered'
        <5>1. PICK k \in 1 .. Len(acks) : acks[k].n = n /\ k # i
          BY <4>5 DEF Registered
        <5>2. PICK j \in 1 .. Len(acks') : acks'[j] = acks[k]
          BY <4>2, <5>1
        <5> QED
          BY <5>1, <5>2 DEF Registered
      <4> QED
        BY <4>4, <4>5
    <3>4. OpenDistinct'
      BY <1>1, <2>4 DEF AckInv, OpenDistinct, Open
    <3>5. OpenUnanswered'
      BY <1>1, <2>4, <3>1, <3>3 DEF AckInv, OpenUnanswered, Open
    <3>6. AskedRegistered'
      BY <1>1, <2>4, <3>1, <3>3 DEF AckInv, AskedRegistered
    <3>7. AnsweredInHand'
      <4> SUFFICES ASSUME NEW n \in answered, n \in Registered, n # acks[i].n
                   PROVE  InHand(n)'
        BY <1>1, <2>4, <3>3 DEF AckInv, AnsweredInHand
      <4>1. ended
        BY <1>1, <2>1, <2>4 DEF AckInv, AnsweredInHand, GoneAnswered, InHand, Ends, HandPlaces, AckPlaces
      <4> QED
        BY <1>1, <4>1 DEF InHand
    <3>8. GoneAnswered' /\ AnswerInHand'
      BY <1>1, <2>1, <3>1 DEF GoneAnswered, AnswerInHand, HandPlaces
    <3> QED
      BY <3>2, <3>4, <3>5, <3>6, <3>7, <3>8 DEF AckInv
  <2> QED
    BY <1>1, <2>3, <2>4 DEF ExactInv
<1> QED
  BY <1>4, <1>5

LEMMA WorkExact ==
    ASSUME TypeOK, ExactInv, Work \/ BodyPanic
    PROVE  ExactInv'
<1>1. CASE Dispatch
  <2>1. /\ at = "handle" /\ UNCHANGED <<made, acks, asked, answered, pc, job, ended, scan>>
        /\ IF packet.kind \in Answers THEN at' = "ack" /\ UNCHANGED packet ELSE at' \in {"next", "event"}
    BY <1>1 DEF Dispatch, Polls, call, list, requests, Answers
  <2> QED
    BY <2>1, PollExact
       DEF AckInv, AnsweredInHand, GoneAnswered, AnswerInHand, InHand, Registered, Ends, HandPlaces, AckPlaces
<1>2. CASE AckScan
  <2>1. /\ at = "ack_scan" /\ at' \in AckPlaces /\ scan'.gone = scan.gone
        /\ UNCHANGED <<made, acks, asked, answered, pc, job, ended>>
    BY <1>2 DEF AckScan, NextMatch, Polls, call, requests, AckPlaces, TypeOK, AckTypes
  <2> QED
    BY <2>1, PollExact
       DEF AckInv, AnsweredInHand, GoneAnswered, AnswerInHand, InHand, Registered, Ends, HandPlaces, AckPlaces
<1>3. CASE AckReturn
  <2>1. /\ at = "ack_body" /\ at' \in AckPlaces \ {"ack_remove"} /\ scan'.gone = scan.gone
        /\ UNCHANGED <<made, acks, asked, answered, pc, job, ended>>
    BY <1>3 DEF AckReturn, Polls, call, requests, AckPlaces, TypeOK, AckTypes
  <2> QED
    BY <2>1, PollExact
       DEF AckInv, AnsweredInHand, GoneAnswered, AnswerInHand, InHand, Registered, Ends, HandPlaces, AckPlaces
<1>4. CASE EventReturn \/ BodyPanic \/ AcksRemoved
  <2>1. /\ UNCHANGED <<made, acks, asked, answered, pc, job, ended, packet, scan>>
        /\ \/ at' = "crashed"
           \/ at' = "next" /\ at = "event"
           \/ at' = "next" /\ at = "ack_remove" /\ scan.gone = {}
    <3>1. CASE EventReturn
      BY <3>1 DEF EventReturn, Polls, call, list, requests
    <3>2. CASE BodyPanic
      BY <3>2 DEF BodyPanic, call, requests
    <3>3. CASE AcksRemoved
      BY <3>3 DEF AcksRemoved, Polls, call, list, requests
    <3> QED
      BY <1>4, <3>1, <3>2, <3>3
  <2> QED
    BY <2>1, PollExact
       DEF AckInv, AnsweredInHand, GoneAnswered, AnswerInHand, InHand, Registered, Ends, HandPlaces, AckPlaces
<1> QED
  BY <1>1, <1>2, <1>3, <1>4, LockExact, RemoveExact DEF Work

\* As long as the ids of the requests differ, what is outstanding between two packets
\* is what was not answered: a request is registered before its answer can come, and
\* the position of the ack found under one lock is right under the next one.
THEOREM Exact == Spec => []OutstandingExact
<1>1. Init => ExactInv
  BY InitExact
<1>2. TypeOK /\ ExactInv /\ [Next]_vars => ExactInv'
  <2> SUFFICES ASSUME TypeOK, ExactInv, [Next]_vars
               PROVE  ExactInv'
    OBVIOUS
  <2>1. CASE \E t \in Tasks, o \in Op : Call(t, o)
    BY <2>1, CallExact
  <2>2. CASE \E t \in Tasks : CallStep(t)
    BY <2>2, CallStepExact
  <2>3. CASE Recv \/ RecvError \/ RecvNone
    BY <2>3, RecvExact
  <2>4. CASE Work \/ BodyPanic
    BY <2>4, WorkExact
  <2>5. CASE LinkChange \/ UNCHANGED vars
    BY <2>5, TasksOnly DEF LinkChange, vars, call, list, requests, Open
  <2>6. EventBody \/ AckBody => \E t \in Tasks, o \in Op : Call(t, o)
    BY OpsAssumption DEF EventBody, AckBody, Tasks
  <2> QED
    BY <2>1, <2>2, <2>3, <2>4, <2>5, <2>6 DEF Next, Tasks
<1>3. TypeOK /\ ExactInv => OutstandingExact
  <2> SUFFICES ASSUME TypeOK, AckInv, at = "next", ~ended
               PROVE  LET numbers == {acks[i].n : i \in DOMAIN acks}
                      IN  {r.n : r \in asked} \subseteq numbers /\ numbers \cap answered = {}
    BY DEF ExactInv, OutstandingExact
  <2>1. DOMAIN acks = 1 .. Len(acks)
    BY LenProperties DEF TypeOK, AckTypes
  <2>2. \A n \in answered : n \notin Registered
    BY DEF AckInv, AnsweredInHand, InHand, Ends, HandPlaces, AckPlaces
  <2>3. \A r \in asked : r.n \in Registered
    BY DEF AckInv, AskedRegistered
  <2> QED
    BY <2>1, <2>2, <2>3 DEF Registered
<1> QED
  BY <1>1, <1>2, <1>3, Typing, PTL DEF Spec
=============================================================================
