--------------------------- MODULE WireTripProofs ---------------------------
(***************************************************************************)
(* What is proved of WireTrip for any namespaces, ids, attachments and     *)
(* numbers of messages: what the server sends is read as what it is,       *)
(* whatever answers it comes in, nothing is kept back, and what the        *)
(* application emits arrives as the protocol has it.                       *)
(*                                                                         *)
(* The codecs are folds over texts.  What a fold comes to is shown by      *)
(* induction over the length: the numbers for which a fact holds are a     *)
(* set, and of the others there would be a least one.                      *)
(***************************************************************************)
EXTENDS WireTrip, SequenceTheorems, WellFoundedInduction, TLAPS

-----------------------------------------------------------------------------
(* Induction, and what a fold is *)

\* A set of numbers that is not empty has a least element.
LEMMA Least ==
    ASSUME NEW T \in SUBSET Nat, T # {} PROVE \E n \in T : \A m \in T : n <= m
<1> DEFINE R == OpToRel(<, Nat)
<1>1. R = {ss \in Nat \X Nat : ss[1] < ss[2]}
  BY DEF OpToRel
<1> HIDE DEF R
<1>2. \E n \in T : \A m \in T : <<m, n>> \notin R
  BY NatLessThanWellFounded, WFMin DEF R
<1>3. ASSUME NEW n \in T, \A m \in T : <<m, n>> \notin R
      PROVE  \A m \in T : n <= m
  <2> SUFFICES ASSUME NEW m \in T PROVE n <= m
    OBVIOUS
  <2>1. <<m, n>> \in Nat \X Nat /\ <<m, n>> \notin R
    BY <1>3
  <2>2. ~(m < n)
    BY <1>1, <2>1
  <2> QED
    BY <2>2
<1> QED
  BY <1>2, <1>3

\* Induction over the numbers, by the set of those for which a fact holds.
LEMMA Induction ==
    ASSUME NEW P, 0 \in P, \A n \in Nat : n \in P => n + 1 \in P PROVE Nat \subseteq P
<1> SUFFICES ASSUME ~(Nat \subseteq P) PROVE FALSE
  OBVIOUS
<1>1. PICK n \in Nat \ P : \A m \in Nat \ P : n <= m
  BY Least
<1>2. n - 1 \in Nat /\ n - 1 \in P
  BY <1>1
<1> QED
  BY <1>1, <1>2

\* The last position of those up to n.
LEMMA Last1 ==
    ASSUME NEW n \in Nat, NEW s \in SUBSET (1 .. n + 1), n + 1 \in s
    PROVE  Max(s) = n + 1 /\ s \ {n + 1} \in SUBSET (1 .. n)
<1>1. \A y \in s : n + 1 >= y
  OBVIOUS
<1>2. Max(s) \in s /\ \A y \in s : Max(s) >= y
  BY <1>1 DEF Max
<1>3. Max(s) >= n + 1 /\ Max(s) \in 1 .. n + 1
  BY <1>2
<1>4. Max(s) = n + 1
  BY <1>3
<1> QED
  BY <1>4

\* Of any positions there is a last one.
LEMMA MaxIn ==
    ASSUME NEW n \in Nat, NEW s \in SUBSET (1 .. n), s # {} PROVE Max(s) \in s
<1> DEFINE T == {m \in Nat : \E i \in s : m = n - i}
<1>1. PICK m \in T : \A k \in T : m <= k
  <2>1. T \in SUBSET Nat
    OBVIOUS
  <2>2. T # {}
    <3>1. PICK i \in s : TRUE
      OBVIOUS
    <3>2. n - i \in T
      OBVIOUS
    <3> QED
      BY <3>2
  <2> HIDE DEF T
  <2> QED
    BY <2>1, <2>2, Least
<1>2. PICK j \in s : m = n - j
  OBVIOUS
<1>3. \A i \in s : j >= i
  BY <1>1, <1>2
<1> QED
  BY <1>3 DEF Max

\* What a fold is defined by: a function of the positions that are left.
FoldFunctions(n, V, base, step) ==
    {h \in [SUBSET (1 .. n) -> V] :
        \A s \in SUBSET (1 .. n) :
           h[s] = IF s = {} THEN base ELSE step[<<Max(s), h[s \ {Max(s)}]>>]}

\* There is such a function.
LEMMA FoldExists ==
    ASSUME NEW n \in Nat, NEW V, NEW base \in V, NEW step \in [(1 .. n) \X V -> V]
    PROVE  FoldFunctions(n, V, base, step) # {}
<1> DEFINE Folds(k, h) ==
              \A s \in SUBSET (1 .. k) :
                 h[s] = IF s = {} THEN base ELSE step[<<Max(s), h[s \ {Max(s)}]>>]
           Is(k) == \E h \in [SUBSET (1 .. k) -> V] : Folds(k, h)
           P == {k \in Nat : k <= n => Is(k)}
<1>1. 0 \in P
  <2> DEFINE h == [s \in SUBSET (1 .. 0) |-> base]
  <2>1. h \in [SUBSET (1 .. 0) -> V] /\ Folds(0, h)
    OBVIOUS
  <2> QED
    BY <2>1
<1>2. ASSUME NEW k \in Nat, Is(k), k + 1 <= n PROVE Is(k + 1)
  <2>1. PICK g \in [SUBSET (1 .. k) -> V] : Folds(k, g)
    BY <1>2
  <2> DEFINE h == [s \in SUBSET (1 .. k + 1) |->
                     IF s \in SUBSET (1 .. k) THEN g[s]
                     ELSE step[<<k + 1, g[s \ {k + 1}]>>]]
  <2>2. \A s \in SUBSET (1 .. k + 1) : s \notin SUBSET (1 .. k) => k + 1 \in s
    OBVIOUS
  <2>3. h \in [SUBSET (1 .. k + 1) -> V]
    <3>1. ASSUME NEW s \in SUBSET (1 .. k + 1), s \notin SUBSET (1 .. k)
          PROVE  step[<<k + 1, g[s \ {k + 1}]>>] \in V
      <4>1. s \ {k + 1} \in SUBSET (1 .. k) /\ k + 1 \in 1 .. n
        BY <1>2, <2>2, <3>1, Last1
      <4> QED
        BY <4>1
    <3> QED
      BY <3>1
  <2>4. ASSUME NEW s \in SUBSET (1 .. k + 1)
        PROVE  h[s] = IF s = {} THEN base ELSE step[<<Max(s), h[s \ {Max(s)}]>>]
    <3>1. CASE s \in SUBSET (1 .. k)
      <4>1. s # {} => s \ {Max(s)} \in SUBSET (1 .. k) /\ s \ {Max(s)} \in SUBSET (1 .. k + 1)
        BY <3>1
      <4> QED
        BY <2>1, <3>1, <4>1
    <3>2. CASE s \notin SUBSET (1 .. k)
      <4>1. s # {} /\ Max(s) = k + 1 /\ s \ {k + 1} \in SUBSET (1 .. k)
        BY <2>2, <3>2, Last1
      <4>2. h[s \ {k + 1}] = g[s \ {k + 1}]
        BY <4>1
      <4> QED
        BY <3>2, <4>1, <4>2
    <3> QED
      BY <3>1, <3>2
  <2> HIDE DEF h
  <2> QED
    BY <2>3, <2>4
<1>3. n \in P
  <2>1. \A k \in Nat : k \in P => k + 1 \in P
    <3> HIDE DEF Is
    <3> QED
      BY <1>2
  <2> HIDE DEF P
  <2> QED
    BY <1>1, <2>1, Induction
<1>4. Is(n)
  <2> HIDE DEF Is
  <2> QED
    BY <1>3
<1> QED
  BY <1>4 DEF FoldFunctions

\* What a fold is over: its values, the elements, and the step for an element.
Folding(V, B, base, op) == base \in V /\ op \in [V \X B -> V]

\* The values that a fold over a sequence runs through, and the one it comes to.
Run(op, base, V, seq) ==
    {r \in [0 .. Len(seq) -> V] :
        r[0] = base /\ \A i \in 1 .. Len(seq) : r[i] = op[<<r[i - 1], seq[i]>>]}
Value(op, base, V, seq) == (CHOOSE r \in Run(op, base, V, seq) : TRUE)[Len(seq)]

\* Of two runs, over sequences with the same beginning, that beginning is the same.
LEMMA RunsAgree ==
    ASSUME NEW V, NEW B, NEW base, NEW op,
           NEW s \in Seq(B), NEW t \in Seq(B), Len(s) <= Len(t),
           \A i \in 1 .. Len(s) : t[i] = s[i],
           NEW r \in Run(op, base, V, s), NEW q \in Run(op, base, V, t)
    PROVE  \A i \in 0 .. Len(s) : q[i] = r[i]
<1> DEFINE P == {i \in Nat : i <= Len(s) => q[i] = r[i]}
<1>1. Len(s) \in Nat /\ Len(t) \in Nat
  OBVIOUS
<1>2. 0 \in P
  BY DEF Run
<1>3. ASSUME NEW i \in Nat, i \in P PROVE i + 1 \in P
  <2> SUFFICES ASSUME i + 1 <= Len(s) PROVE q[i + 1] = r[i + 1]
    OBVIOUS
  <2>1. i + 1 \in 1 .. Len(s) /\ i + 1 \in 1 .. Len(t) /\ (i + 1) - 1 = i /\ q[i] = r[i]
    BY <1>1, <1>3
  <2>2. q[i + 1] = op[<<q[i], t[i + 1]>>] /\ r[i + 1] = op[<<r[i], s[i + 1]>>]
    BY <2>1 DEF Run
  <2> QED
    BY <2>1, <2>2
<1>4. Nat \subseteq P
  <2> HIDE DEF P
  <2> QED
    BY <1>2, <1>3, Induction
<1> QED
  BY <1>1, <1>4

\* F is as the definition of a fold has it, wherever its values are in V.
Follows(F, op, base, V, seq) ==
    /\ F[{}] = base
    /\ \A s \in SUBSET (1 .. Len(seq)) : s # {} /\ F[s \ {Max(s)}] \in V =>
           F[s] = op[<<F[s \ {Max(s)}], seq[Max(s)]>>]

\* Such a function runs through the values of the fold.
LEMMA FoldRuns ==
    ASSUME NEW V, NEW B, NEW base, NEW op, Folding(V, B, base, op), NEW seq \in Seq(B), NEW F,
           Follows(F, op, base, V, seq)
    PROVE  [i \in 0 .. Len(seq) |-> F[1 .. i]] \in Run(op, base, V, seq)
<1> USE DEF Folding
<1> DEFINE P == {i \in Nat : i <= Len(seq) => F[1 .. i] \in V}
           r == [i \in 0 .. Len(seq) |-> F[1 .. i]]
<1>1. Len(seq) \in Nat
  OBVIOUS
<1>2. ASSUME NEW i \in Nat, i + 1 <= Len(seq), F[1 .. i] \in V
      PROVE  F[1 .. i + 1] = op[<<F[1 .. i], seq[i + 1]>>]
  <2>1. /\ 1 .. i + 1 \in SUBSET (1 .. Len(seq)) /\ 1 .. i + 1 # {}
        /\ i + 1 \in 1 .. i + 1 /\ (1 .. i + 1) \ {i + 1} = 1 .. i
    <3>1. \A j \in 1 .. i + 1 : j \in 1 .. Len(seq) /\ (j # i + 1 <=> j \in 1 .. i)
      BY <1>1, <1>2
    <3>2. i + 1 \in 1 .. i + 1 /\ 1 .. i \in SUBSET (1 .. i + 1)
      OBVIOUS
    <3> QED
      BY <3>1, <3>2
  <2>2. Max(1 .. i + 1) = i + 1
    BY <2>1, Last1
  <2> QED
    BY <1>2, <2>1, <2>2 DEF Follows
<1>3. 0 \in P
  <2>1. 1 .. 0 = {}
    OBVIOUS
  <2> QED
    BY <2>1 DEF Follows
<1>4. ASSUME NEW i \in Nat, i \in P PROVE i + 1 \in P
  <2> SUFFICES ASSUME i + 1 <= Len(seq) PROVE F[1 .. i + 1] \in V
    OBVIOUS
  <2>1. i + 1 \in 1 .. Len(seq) /\ F[1 .. i] \in V
    BY <1>1, <1>4
  <2>2. seq[i + 1] \in B
    BY <2>1, ElementOfSeq
  <2> QED
    BY <1>2, <2>1, <2>2
<1>5. \A i \in 0 .. Len(seq) : F[1 .. i] \in V
  <2>1. Nat \subseteq P
    <3> HIDE DEF P
    <3> QED
      BY <1>3, <1>4, Induction
  <2> QED
    BY <1>1, <2>1
<1>6. r[0] = base
  <2>1. 1 .. 0 = {}
    OBVIOUS
  <2> QED
    BY <1>1, <2>1 DEF Follows
<1>7. ASSUME NEW i \in 1 .. Len(seq) PROVE r[i] = op[<<r[i - 1], seq[i]>>]
  <2>1. i - 1 \in Nat /\ (i - 1) + 1 = i /\ i - 1 \in 0 .. Len(seq) /\ i \in 0 .. Len(seq)
    BY <1>1
  <2> QED
    BY <1>2, <1>5, <2>1
<1> QED
  BY <1>5, <1>6, <1>7 DEF Run

\* A fold over a sequence is defined by such a function.
FunctionsOf(op, base, V, seq) ==
    {h \in [SUBSET (1 .. Len(seq)) -> V] :
        \A s \in SUBSET (1 .. Len(seq)) :
           h[s] = IF s = {} THEN base ELSE op[<<h[s \ {Max(s)}], seq[Max(s)]>>]}

\* FoldLeft is what one of these functions has for all positions.
LEMMA FoldOfSeq ==
    ASSUME NEW V, NEW B, NEW base, NEW op, Folding(V, B, base, op), NEW seq \in Seq(B)
    PROVE  FunctionsOf(op, base, V, seq) # {}
<1>0. base \in V /\ op \in [V \X B -> V]
  BY DEF Folding
<1> DEFINE n == Len(seq)
           step == [x \in (1 .. n) \X V |-> op[<<x[2], seq[x[1]]>>]]
<1>1. n \in Nat /\ \A i \in 1 .. n : seq[i] \in B
  BY ElementOfSeq, LenProperties
<1>2. step \in [(1 .. n) \X V -> V]
  BY <1>0, <1>1
<1>3. \A i \in 1 .. n, v \in V : step[<<i, v>>] = op[<<v, seq[i]>>]
  OBVIOUS
<1> HIDE DEF step, n
<1>4. PICK h \in [SUBSET (1 .. n) -> V] :
         \A s \in SUBSET (1 .. n) :
            h[s] = IF s = {} THEN base ELSE step[<<Max(s), h[s \ {Max(s)}]>>]
  <2>1. FoldFunctions(n, V, base, step) # {}
    BY <1>0, <1>1, <1>2, FoldExists
  <2> QED
    BY <2>1 DEF FoldFunctions
<1>5. ASSUME NEW s \in SUBSET (1 .. n), s # {}
      PROVE  h[s] = op[<<h[s \ {Max(s)}], seq[Max(s)]>>]
  <2>1. Max(s) \in 1 .. n
    BY <1>1, <1>5, MaxIn
  <2>2. s \ {Max(s)} \in SUBSET (1 .. n)
    BY <1>5
  <2> QED
    BY <1>3, <1>4, <1>5, <2>1, <2>2
<1>6. \A s \in SUBSET (1 .. n) :
         h[s] = IF s = {} THEN base ELSE op[<<h[s \ {Max(s)}], seq[Max(s)]>>]
  BY <1>4, <1>5
<1> QED
  BY <1>4, <1>6 DEF n, FunctionsOf

\* What a fold comes to: the base for the empty sequence, and a step more for each element.
LEMMA Values ==
    ASSUME NEW V, NEW B, NEW base, NEW op, Folding(V, B, base, op)
    PROVE  /\ Value(op, base, V, <<>>) = base
           /\ \A s \in Seq(B) : Value(op, base, V, s) \in V
           /\ \A s \in Seq(B), b \in B :
                 Value(op, base, V, Append(s, b)) = op[<<Value(op, base, V, s), b>>]
<1> DEFINE run(s) == CHOOSE r \in Run(op, base, V, s) : TRUE
<1>1. ASSUME NEW s \in Seq(B) PROVE run(s) \in Run(op, base, V, s)
  <2>1. \E r : r \in Run(op, base, V, s)
    <3>1. PICK h \in [SUBSET (1 .. Len(s)) -> V] :
             \A x \in SUBSET (1 .. Len(s)) :
                h[x] = IF x = {} THEN base ELSE op[<<h[x \ {Max(x)}], s[Max(x)]>>]
      <4>1. FunctionsOf(op, base, V, s) # {}
        BY FoldOfSeq
      <4> QED
        BY <4>1 DEF FunctionsOf
    <3>2. Follows(h, op, base, V, s)
      BY <3>1, LenProperties DEF Follows
    <3> QED
      BY <3>2, FoldRuns
  <2> QED
    BY <2>1
<1> HIDE DEF run
<1>2. \A s \in Seq(B) : Value(op, base, V, s) = run(s)[Len(s)]
  BY DEF Value, run
<1>3. Value(op, base, V, <<>>) = base
  BY <1>1, <1>2, EmptySeq DEF Run
<1>4. ASSUME NEW s \in Seq(B) PROVE Value(op, base, V, s) \in V
  BY <1>1, <1>2, LenProperties DEF Run
<1>5. ASSUME NEW s \in Seq(B), NEW b \in B
      PROVE  Value(op, base, V, Append(s, b)) = op[<<Value(op, base, V, s), b>>]
  <2> DEFINE t == Append(s, b)
             n == Len(s)
  <2>1. /\ t \in Seq(B) /\ Len(t) = n + 1 /\ n \in Nat /\ t[n + 1] = b
        /\ \A i \in 1 .. n : t[i] = s[i]
    BY AppendProperties, LenProperties
  <2> HIDE DEF t
  <2>2. run(t)[n] = run(s)[n]
    <3>1. \A i \in 0 .. n : run(t)[i] = run(s)[i]
      BY <1>1, <2>1, RunsAgree
    <3> QED
      BY <2>1, <3>1
  <2>3. run(t)[n + 1] = op[<<run(t)[n], t[n + 1]>>]
    BY <1>1, <2>1 DEF Run
  <2> QED
    BY <1>2, <2>1, <2>2, <2>3 DEF t
<1> QED
  BY <1>3, <1>4, <1>5

\* A fold comes to its value, whatever function it is defined by.
LEMMA FoldIsValue ==
    ASSUME NEW V, NEW B, NEW base, NEW op, Folding(V, B, base, op), NEW seq \in Seq(B), NEW F,
           Follows(F, op, base, V, seq)
    PROVE  F[1 .. Len(seq)] = Value(op, base, V, seq)
<1> DEFINE r == [i \in 0 .. Len(seq) |-> F[1 .. i]]
           q == CHOOSE q \in Run(op, base, V, seq) : TRUE
<1>1. Len(seq) \in Nat
  OBVIOUS
<1>2. r \in Run(op, base, V, seq)
  BY FoldRuns
<1>3. q \in Run(op, base, V, seq)
  BY <1>2
<1>4. r[Len(seq)] = q[Len(seq)]
  <2>1. \A i \in 0 .. Len(seq) : r[i] = q[i]
    <3> HIDE DEF r, q
    <3> QED
      BY <1>1, <1>2, <1>3, RunsAgree
  <2> QED
    BY <1>1, <2>1
<1> QED
  BY <1>1, <1>4 DEF Value

-----------------------------------------------------------------------------
(* Sequences *)

\* The first elements, and one more.
LEMMA Fronts ==
    ASSUME NEW T, NEW s \in Seq(T), NEW i \in Nat, i + 1 <= Len(s)
    PROVE  /\ SubSeq(s, 1, i) \in Seq(T) /\ s[i + 1] \in T
           /\ SubSeq(s, 1, i + 1) = Append(SubSeq(s, 1, i), s[i + 1])
<1>1. Len(s) \in Nat /\ i + 1 \in 1 .. Len(s)
  BY LenProperties
<1>2. \A j \in 1 .. i + 1 : s[j] \in T
  BY <1>1, ElementOfSeq
<1>3. /\ SubSeq(s, 1, i) \in Seq(T) /\ Len(SubSeq(s, 1, i)) = i
      /\ \A j \in 1 .. i : SubSeq(s, 1, i)[j] = s[j]
  BY <1>2, SubSeqProperties
<1>4. /\ SubSeq(s, 1, i + 1) \in Seq(T) /\ Len(SubSeq(s, 1, i + 1)) = i + 1
      /\ \A j \in 1 .. i + 1 : SubSeq(s, 1, i + 1)[j] = s[j]
  BY <1>2, SubSeqProperties
<1> DEFINE a == SubSeq(s, 1, i)
           b == SubSeq(s, 1, i + 1)
           c == Append(a, s[i + 1])
<1>5. /\ c \in Seq(T) /\ Len(c) = i + 1 /\ c[i + 1] = s[i + 1]
      /\ \A j \in 1 .. i : c[j] = s[j]
  <2> HIDE DEF a
  <2>1. a \in Seq(T) /\ Len(a) = i /\ s[i + 1] \in T /\ \A j \in 1 .. i : a[j] = s[j]
    BY <1>2, <1>3 DEF a
  <2> QED
    BY <2>1, AppendProperties
<1>6. b = c
  <2> HIDE DEF a, b, c
  <2>1. b \in Seq(T) /\ Len(b) = i + 1 /\ \A j \in 1 .. i + 1 : b[j] = s[j]
    BY <1>4 DEF b
  <2>2. \A j \in 1 .. Len(b) : b[j] = c[j]
    BY <1>5, <2>1
  <2> QED
    BY <1>5, <2>1, <2>2, SeqEqual
<1>7. s[i + 1] \in T
  BY <1>1, <1>2
<1> QED
  BY <1>3, <1>6, <1>7

\* Behind another sequence too an element is appended.
LEMMA ConcatAppend ==
    ASSUME NEW T, NEW s \in Seq(T), NEW t \in Seq(T), NEW e \in T
    PROVE  s \o Append(t, e) = Append(s \o t, e)
<1>1. /\ <<e>> \in Seq(T) /\ s \o t \in Seq(T)
      /\ Append(t, e) = t \o <<e>> /\ Append(s \o t, e) = (s \o t) \o <<e>>
  BY AppendIsConcat, ConcatProperties
<1> QED
  BY <1>1, ConcatAssociative

\* A sequence with an element in front of it.
LEMMA Prefixed ==
    ASSUME NEW T, NEW e \in T, NEW s \in Seq(T)
    PROVE  /\ <<e>> \o s \in Seq(T) /\ <<e>> \o s # <<>>
           /\ Head(<<e>> \o s) = e /\ Tail(<<e>> \o s) = s
           /\ Len(<<e>> \o s) = Len(s) + 1
           /\ (<<e>> \o s)[1] = e /\ \A i \in 1 .. Len(s) : (<<e>> \o s)[i + 1] = s[i]
           /\ \A i \in 1 .. Len(<<e>> \o s) :
                 (<<e>> \o s)[i] = e \/ \E j \in 1 .. Len(s) : (<<e>> \o s)[i] = s[j]
           /\ <<e>> \o s = <<e>> => s = <<>>
<1> DEFINE c == <<e>> \o s
<1>1. <<e>> \in Seq(T) /\ Len(<<e>>) = 1 /\ <<e>>[1] = e /\ Len(s) \in Nat
  BY LenProperties
<1>2. /\ c \in Seq(T) /\ Len(c) = Len(s) + 1
      /\ \A i \in 1 .. 1 + Len(s) : c[i] = IF i <= 1 THEN <<e>>[i] ELSE s[i - 1]
  BY <1>1, ConcatProperties
<1> HIDE DEF c
<1>3. c # <<>> /\ c[1] = e
  BY <1>1, <1>2
<1>4. \A i \in 1 .. Len(s) : i + 1 \in 1 .. 1 + Len(s) /\ ~(i + 1 <= 1) /\ (i + 1) - 1 = i
  BY <1>1
<1>5. \A i \in 1 .. Len(s) : c[i + 1] = s[i]
  BY <1>2, <1>4
<1>6. Head(c) = e
  BY <1>2, <1>3
<1>7. Tail(c) = s
  <2>1. Tail(c) \in Seq(T) /\ Len(Tail(c)) = Len(s) /\ \A i \in 1 .. Len(s) : Tail(c)[i] = c[i + 1]
    BY <1>1, <1>2, <1>3, HeadTailProperties
  <2> QED
    BY <1>5, <2>1, SeqEqual
<1>8. \A i \in 1 .. Len(c) : c[i] = e \/ \E j \in 1 .. Len(s) : c[i] = s[j]
  <2> SUFFICES ASSUME NEW i \in 1 .. Len(c), i # 1 PROVE \E j \in 1 .. Len(s) : c[i] = s[j]
    BY <1>3
  <2>1. i - 1 \in 1 .. Len(s) /\ (i - 1) + 1 = i
    BY <1>1, <1>2
  <2> QED
    BY <1>5, <2>1
<1>9. c = <<e>> => s = <<>>
  BY <1>1, <1>2, EmptySeq
<1> QED
  BY <1>2, <1>3, <1>5, <1>6, <1>7, <1>8, <1>9 DEF c

-----------------------------------------------------------------------------
(* What EngineCodec makes of packets, and of bytes *)

\* What texts are made of.
Char ==
    STRING \cup E!AttachmentByte
        \cup {E!Separator, "[", "]", ",", "-", "/", "event", "json", "text", "broken"}
        \cup {E!IdByte[id] : id \in E!PacketId}
        \cup {E!Letter(byte) : byte \in E!AttachmentByte}
        \cup {S!TypeDigit[type] : type \in S!PacketType}
        \cup {S!Digit[i] : i \in DOMAIN S!Digit} \cup {S!Holder[i] : i \in DOMAIN S!Holder}

\* The parts that a payload is split into, and how a byte changes them.
Unsplit == << <<>> >>
Parts == {parts \in Seq(Seq(Char)) : parts # <<>>}
Cut(parts, byte) ==
    IF byte = E!Separator THEN Append(parts, <<>>)
    ELSE [parts EXCEPT ![Len(parts)] = Append(@, byte)]
Cuts == [x \in Parts \X Char |-> Cut(x[1], x[2])]

\* Splitting is a fold.
LEMMA CutParts == Folding(Parts, Char, Unsplit, Cuts)
<1>1. ASSUME NEW parts \in Parts, NEW byte \in Char PROVE Cut(parts, byte) \in Parts
  <2>1. parts \in Seq(Seq(Char)) /\ Len(parts) \in Nat \ {0}
    BY EmptySeq DEF Parts
  <2>2. CASE byte = E!Separator
    <3>1. <<>> \in Seq(Char)
      BY EmptySeq
    <3> QED
      BY <2>1, <2>2, <3>1, AppendProperties DEF Cut, Parts
  <2>3. CASE byte # E!Separator
    <3>1. Append(parts[Len(parts)], byte) \in Seq(Char) /\ Len(parts) \in 1 .. Len(parts)
      <4>1. Len(parts) \in 1 .. Len(parts)
        BY <2>1
      <4>2. parts[Len(parts)] \in Seq(Char)
        BY <2>1, <4>1, ElementOfSeq
      <4> QED
        BY <4>1, <4>2, AppendProperties
    <3>2. Cut(parts, byte) = [parts EXCEPT ![Len(parts)] = Append(parts[Len(parts)], byte)]
      BY <2>3 DEF Cut
    <3> DEFINE part == Append(parts[Len(parts)], byte)
               T == Seq(Char)
    <3> HIDE DEF Cut, part, T
    <3>3. /\ Cut(parts, byte) \in Seq(Seq(Char))
          /\ Len(Cut(parts, byte)) = Len(parts)
      <4>1. part \in Seq(Char) /\ Cut(parts, byte) = [parts EXCEPT ![Len(parts)] = part]
        BY <3>1, <3>2 DEF part
      <4>2. parts \in Seq(T) /\ part \in T /\ Len(parts) \in 1 .. Len(parts)
        BY <2>1, <3>1 DEF T, part
      <4>3. /\ [parts EXCEPT ![Len(parts)] = part] \in Seq(T)
            /\ Len([parts EXCEPT ![Len(parts)] = part]) = Len(parts)
        BY <4>2, ExceptSeq
      <4> QED
        BY <4>1, <4>3 DEF T
    <3> QED
      BY <2>1, <3>3, EmptySeq DEF Parts
  <2> QED
    BY <2>2, <2>3
<1>2. Unsplit \in Parts
  <2>1. <<>> \in Seq(Char)
    BY EmptySeq
  <2>2. Unsplit \in Seq(Seq(Char)) /\ Unsplit # <<>>
    BY <2>1 DEF Unsplit
  <2> QED
    BY <2>2 DEF Parts
<1> QED
  BY <1>1, <1>2 DEF Cuts, Folding

\* ... and Split is its value.
LEMMA SplitIsValue ==
    ASSUME NEW s \in Seq(Char)
    PROVE  E!Split(s) = Value(Cuts, Unsplit, Parts, s)
<1> DEFINE Defines(g) == g = [x \in SUBSET DOMAIN s |->
                               IF x = {} THEN Unsplit ELSE Cut(g[x \ {Max(x)}], s[Max(x)])]
           F == CHOOSE g : Defines(g)
<1>1. E!Split(s) = F[DOMAIN s]
  BY DEF E!Split, E!FoldLeft, E!MapThenFoldSet, Cut, E!Max, Max, Unsplit
<1>2. DOMAIN s = 1 .. Len(s)
  BY LenProperties
<1>3. Defines(F)
  <2>1. PICK h \in [SUBSET (1 .. Len(s)) -> Parts] :
           \A x \in SUBSET (1 .. Len(s)) :
              h[x] = IF x = {} THEN Unsplit ELSE Cuts[<<h[x \ {Max(x)}], s[Max(x)]>>]
    <3>1. FunctionsOf(Cuts, Unsplit, Parts, s) # {}
      BY CutParts, FoldOfSeq
    <3> QED
      BY <3>1 DEF FunctionsOf
  <2>2. ASSUME NEW x \in SUBSET (1 .. Len(s)), x # {}
        PROVE  h[x] = Cut(h[x \ {Max(x)}], s[Max(x)])
    <3>1. h[x \ {Max(x)}] \in Parts
      BY <2>1, <2>2
    <3>2. s[Max(x)] \in Char
      BY <2>2, MaxIn, ElementOfSeq, LenProperties
    <3> QED
      BY <2>1, <2>2, <3>1, <3>2 DEF Cuts
  <2>3. Defines(h)
    BY <1>2, <2>1, <2>2
  <2> HIDE DEF Defines
  <2> QED
    BY <2>3
<1>4. F[{}] = Unsplit
  BY <1>2, <1>3
<1>5. ASSUME NEW x \in SUBSET (1 .. Len(s)), x # {}, F[x \ {Max(x)}] \in Parts
      PROVE  F[x] = Cuts[<<F[x \ {Max(x)}], s[Max(x)]>>]
  <2>1. F[x] = Cut(F[x \ {Max(x)}], s[Max(x)])
    BY <1>2, <1>3, <1>5
  <2>2. s[Max(x)] \in Char
    BY <1>5, MaxIn, ElementOfSeq, LenProperties
  <2> HIDE DEF F
  <2> QED
    BY <1>5, <2>1, <2>2 DEF Cuts
<1> HIDE DEF F
<1>6. Follows(F, Cuts, Unsplit, Parts, s)
  BY <1>4, <1>5 DEF Follows
<1>7. F[1 .. Len(s)] = Value(Cuts, Unsplit, Parts, s)
  BY <1>6, CutParts, FoldIsValue
<1> QED
  BY <1>1, <1>2, <1>7

\* Split of the empty text, and of a text with one byte more.
LEMMA Splits ==
    /\ E!Split(<<>>) = Unsplit
    /\ \A s \in Seq(Char) : E!Split(s) \in Parts
    /\ \A s \in Seq(Char), byte \in Char : E!Split(Append(s, byte)) = Cut(E!Split(s), byte)
<1>1. <<>> \in Seq(Char)
  BY EmptySeq
<1>0. /\ Value(Cuts, Unsplit, Parts, <<>>) = Unsplit
      /\ \A s \in Seq(Char) : Value(Cuts, Unsplit, Parts, s) \in Parts
      /\ \A s \in Seq(Char), byte \in Char :
            Value(Cuts, Unsplit, Parts, Append(s, byte))
              = Cuts[<<Value(Cuts, Unsplit, Parts, s), byte>>]
  BY CutParts, Values
<1>2. E!Split(<<>>) = Unsplit
  BY <1>0, <1>1, SplitIsValue
<1>3. ASSUME NEW s \in Seq(Char) PROVE E!Split(s) \in Parts
  BY <1>0, SplitIsValue
<1>4. ASSUME NEW s \in Seq(Char), NEW byte \in Char
      PROVE  E!Split(Append(s, byte)) = Cut(E!Split(s), byte)
  <2>1. Append(s, byte) \in Seq(Char)
    BY AppendProperties
  <2>2. E!Split(Append(s, byte)) = Cuts[<<E!Split(s), byte>>]
    BY <1>0, <2>1, SplitIsValue
  <2> QED
    BY <1>3, <2>2 DEF Cuts
<1> QED
  BY <1>2, <1>3, <1>4

\* A byte that is no separator belongs to the last part.
LEMMA CutLast ==
    ASSUME NEW parts \in Seq(Seq(Char)), NEW part \in Seq(Char), NEW byte \in Char,
           byte # E!Separator
    PROVE  Cut(Append(parts, part), byte) = Append(parts, Append(part, byte))
<1> DEFINE T == Seq(Char)
           more == Append(part, byte)
           a == Append(parts, part)
           b == [a EXCEPT ![Len(a)] = more]
           c == Append(parts, more)
           n == Len(parts)
<1>1. more \in T
  BY AppendProperties
<1>2. a[Len(a)] = part
  BY AppendProperties
<1>3. Cut(a, byte) = b
  BY <1>2 DEF Cut
<1>4. b = c
  <2>1. parts \in Seq(T) /\ part \in T
    OBVIOUS
  <2> HIDE DEF T, more
  <2>2. /\ n \in Nat /\ a \in Seq(T) /\ Len(a) = n + 1 /\ \A i \in 1 .. n : a[i] = parts[i]
        /\ c \in Seq(T) /\ Len(c) = n + 1 /\ \A i \in 1 .. n : c[i] = parts[i]
        /\ c[n + 1] = more
    BY <1>1, <2>1, AppendProperties, LenProperties
  <2> HIDE DEF a, c, n
  <2>3. /\ b \in Seq(T) /\ Len(b) = n + 1
        /\ \A i \in 1 .. n + 1 : b[i] = IF i = n + 1 THEN more ELSE a[i]
    BY <1>1, <2>2, ExceptSeq
  <2> HIDE DEF b
  <2>4. \A i \in 1 .. n + 1 : b[i] = c[i]
    BY <2>2, <2>3
  <2> QED
    BY <2>2, <2>3, <2>4, SeqEqual
<1> QED
  BY <1>3, <1>4

\* What has no separator in it all belongs to the last part, which is empty before it.
LEMMA SplitMore ==
    ASSUME NEW u \in Seq(Char), NEW parts \in Seq(Seq(Char)), E!Split(u) = Append(parts, <<>>),
           NEW t \in Seq(Char), \A i \in 1 .. Len(t) : t[i] # E!Separator
    PROVE  E!Split(u \o t) = Append(parts, t)
<1> DEFINE front(i) == SubSeq(t, 1, i)
           P == {i \in Nat : i <= Len(t) => E!Split(u \o front(i)) = Append(parts, front(i))}
<1>0. Len(t) \in Nat
  BY LenProperties
<1>1. 0 \in P
  <2>1. front(0) = <<>>
    OBVIOUS
  <2>2. u \o <<>> = u
    BY ConcatEmptySeq
  <2> HIDE DEF front
  <2> QED
    BY <2>1, <2>2
<1>2. ASSUME NEW i \in Nat, i \in P PROVE i + 1 \in P
  <2> SUFFICES ASSUME i + 1 <= Len(t)
               PROVE  E!Split(u \o front(i + 1)) = Append(parts, front(i + 1))
    OBVIOUS
  <2>1. /\ front(i) \in Seq(Char) /\ t[i + 1] \in Char /\ t[i + 1] # E!Separator
        /\ front(i + 1) = Append(front(i), t[i + 1])
    BY <1>0, Fronts, ElementOfSeq
  <2>5. E!Split(u \o front(i)) = Append(parts, front(i))
    BY <1>0, <1>2
  <2> DEFINE a == front(i)
             b == front(i + 1)
  <2> HIDE DEF a, b
  <2>2. u \o b = Append(u \o a, t[i + 1]) /\ u \o a \in Seq(Char)
    <3>1. a \in Seq(Char) /\ b = Append(a, t[i + 1])
      BY <2>1 DEF a, b
    <3>2. u \o Append(a, t[i + 1]) = Append(u \o a, t[i + 1])
      BY <2>1, <3>1, ConcatAppend
    <3> QED
      BY <3>1, <3>2, ConcatProperties
  <2>3. E!Split(u \o b) = Cut(Append(parts, a), t[i + 1])
    <3>1. E!Split(Append(u \o a, t[i + 1])) = Cut(E!Split(u \o a), t[i + 1])
      BY <2>1, <2>2, Splits
    <3> QED
      BY <2>2, <2>5, <3>1 DEF a
  <2>4. Cut(Append(parts, a), t[i + 1]) = Append(parts, Append(a, t[i + 1]))
    <3>1. a \in Seq(Char)
      BY <2>1 DEF a
    <3> QED
      BY <2>1, <3>1, CutLast
  <2>6. b = Append(a, t[i + 1])
    BY <2>1 DEF a, b
  <2>7. E!Split(u \o b) = Append(parts, b)
    BY <2>3, <2>4, <2>6, Zenon
  <2> QED
    BY <2>7 DEF b
<1>3. front(Len(t)) = t
  BY SubSeqFull
<1>4. Len(t) \in P
  <2>1. Nat \subseteq P
    <3> HIDE DEF P
    <3> QED
      BY <1>1, <1>2, Induction
  <2> QED
    BY <1>0, <2>1
<1> HIDE DEF front
<1> QED
  BY <1>0, <1>3, <1>4

\* Packets that are carried whole: the text of a message is not empty, and what is
\* sent as it is has no separator in it.
Sound ==
    {packet \in [id : E!PacketId, data : Seq(Char)] :
        IF packet.id = "MessageBinary" THEN packet.data \in Seq(E!AttachmentByte)
        ELSE /\ \A i \in 1 .. Len(packet.data) : packet.data[i] # E!Separator
             /\ packet.id = "Message" => packet.data # <<>>}

\* Base64 is a text without separators, and is read back.
LEMMA Base64 ==
    ASSUME NEW data \in Seq(E!AttachmentByte)
    PROVE  /\ E!ToBase64(data) \in Seq(Char)
           /\ \A i \in 1 .. Len(E!ToBase64(data)) : E!ToBase64(data)[i] # E!Separator
           /\ E!IsBase64(E!ToBase64(data))
           /\ E!FromBase64(E!ToBase64(data)) = data
<1> DEFINE text == E!ToBase64(data)
           back == E!FromBase64(text)
           n == Len(data)
<1>1. n \in Nat /\ DOMAIN data = 1 .. n /\ \A i \in 1 .. n : data[i] \in E!AttachmentByte
  BY ElementOfSeq, LenProperties
<1>2. \A byte \in E!AttachmentByte :
         /\ E!Letter(byte) \in Char /\ E!Letter(byte) # E!Separator
         /\ \A other \in E!AttachmentByte : E!Letter(byte) = E!Letter(other) => byte = other
  <2>1. \A byte \in E!AttachmentByte : E!Letter(byte) \in Char
    BY DEF Char
  <2> QED
    BY <2>1 DEF E!Letter, E!AttachmentByte, E!Separator
<1>3. text = [i \in 1 .. n |-> E!Letter(data[i])]
  BY <1>1 DEF E!ToBase64
<1>4. text \in Seq(Char) /\ Len(text) = n /\ DOMAIN text = 1 .. n
  BY <1>1, <1>2, <1>3
<1>5. \A i \in 1 .. n : text[i] = E!Letter(data[i])
  BY <1>3
<1> HIDE DEF text
<1>6. E!IsBase64(text)
  BY <1>1, <1>4, <1>5 DEF E!IsBase64
<1>7. back = [i \in 1 .. n |-> CHOOSE byte \in E!AttachmentByte : text[i] = E!Letter(byte)]
  BY <1>4 DEF E!FromBase64
<1>8. ASSUME NEW i \in 1 .. n PROVE back[i] = data[i]
  <2>1. /\ data[i] \in E!AttachmentByte /\ text[i] = E!Letter(data[i])
        /\ \A byte \in E!AttachmentByte : text[i] = E!Letter(byte) => byte = data[i]
    BY <1>1, <1>2, <1>5
  <2> QED
    BY <1>7, <2>1
<1>9. back \in Seq(E!AttachmentByte) /\ Len(back) = n
  <2>1. back = [i \in 1 .. n |-> data[i]]
    BY <1>7, <1>8
  <2> HIDE DEF back
  <2> QED
    BY <1>1, <2>1
<1>10. back = data
  BY <1>8, <1>9, SeqEqual
<1> QED
  BY <1>1, <1>2, <1>4, <1>5, <1>6, <1>10 DEF text

\* A packet becomes a text without separators, and is read back from it.
LEMMA SoundPackets ==
    ASSUME NEW packet \in Sound
    PROVE  /\ E!Encode(packet) \in Seq(Char) /\ E!Encode(packet) # <<>>
           /\ \A i \in 1 .. Len(E!Encode(packet)) : E!Encode(packet)[i] # E!Separator
           /\ E!Decode(E!Encode(packet)) = packet
<1> DEFINE digit == E!IdByte[packet.id]
           body == IF packet.id = "MessageBinary" THEN E!ToBase64(packet.data) ELSE packet.data
           bytes == E!Encode(packet)
<1>1. packet.id \in E!PacketId /\ packet.data \in Seq(Char)
  BY DEF Sound
<1>2. /\ digit \in Char /\ digit # E!Separator /\ E!IsId(digit) /\ E!IdOf(digit) = packet.id
      /\ digit = "4" <=> packet.id = "Message"
  <2>1. digit \in Char
    BY <1>1 DEF Char
  <2>2. /\ \A id, other \in E!PacketId : E!IdByte[id] = E!IdByte[other] => id = other
        /\ \A id \in E!PacketId : E!IdByte[id] # E!Separator
        /\ E!IdByte["Message"] = "4" /\ "Message" \in E!PacketId
    BY DEF E!IdByte, E!PacketId, E!Separator
  <2> QED
    BY <1>1, <2>1, <2>2 DEF E!IsId, E!IdOf
<1>3. /\ body \in Seq(Char) /\ \A i \in 1 .. Len(body) : body[i] # E!Separator
      /\ packet.id = "Message" => body # <<>>
  BY Base64 DEF Sound
<1> HIDE DEF body, digit
<1>4. bytes = <<digit>> \o body
  BY DEF E!Encode, digit, body
<1>5. /\ bytes \in Seq(Char) /\ bytes # <<>> /\ Head(bytes) = digit /\ Tail(bytes) = body
      /\ \A i \in 1 .. Len(bytes) : bytes[i] # E!Separator
      /\ bytes = <<digit>> => body = <<>>
  <2>1. /\ bytes \in Seq(Char) /\ bytes # <<>> /\ Head(bytes) = digit /\ Tail(bytes) = body
        /\ bytes = <<digit>> => body = <<>>
    BY <1>2, <1>3, <1>4, Prefixed
  <2>2. \A i \in 1 .. Len(bytes) : bytes[i] = digit \/ \E j \in 1 .. Len(body) : bytes[i] = body[j]
    BY <1>2, <1>3, <1>4, Prefixed
  <2> HIDE DEF bytes
  <2>3. \A i \in 1 .. Len(bytes) : bytes[i] # E!Separator
    BY <1>2, <1>3, <2>2
  <2> QED
    BY <2>1, <2>3
<1> HIDE DEF bytes
<1>6. bytes # <<E!IdByte.Message>>
  <2>1. E!IdByte.Message = "4"
    BY DEF E!IdByte
  <2>2. CASE packet.id = "Message"
    BY <1>2, <1>3, <1>5, <2>1, <2>2
  <2>3. CASE packet.id # "Message"
    BY <1>2, <1>5, <2>1, <2>3
  <2> QED
    BY <2>2, <2>3
<1>7. E!Decode(bytes) = packet
  <2>1. packet = [id |-> packet.id, data |-> packet.data]
    BY DEF Sound
  <2>2. CASE packet.id = "MessageBinary"
    <3>1. E!IsBase64(body) /\ E!FromBase64(body) = packet.data
      BY <2>2, Base64 DEF Sound, body
    <3> QED
      BY <1>2, <1>5, <1>6, <2>1, <2>2, <3>1 DEF E!Decode, E!Packet
  <2>3. CASE packet.id # "MessageBinary"
    <3>1. body = packet.data
      BY <2>3 DEF body
    <3> QED
      BY <1>2, <1>5, <1>6, <2>1, <2>3, <3>1 DEF E!Decode, E!Packet
  <2> QED
    BY <2>2, <2>3
<1> QED
  BY <1>5, <1>7 DEF bytes

\* What a packet adds to the bytes of a payload.
Joined(bytes, packet) ==
    (IF bytes = <<>> THEN <<>> ELSE Append(bytes, E!Separator)) \o E!Encode(packet)
Joins == [x \in Seq(Char) \X Sound |-> Joined(x[1], x[2])]

\* Joining packets is a fold.
LEMMA JoinTexts == Folding(Seq(Char), Sound, <<>>, Joins)
<1>1. ASSUME NEW bytes \in Seq(Char), NEW packet \in Sound PROVE Joined(bytes, packet) \in Seq(Char)
  <2>1. E!Separator \in Char
    BY DEF Char
  <2>2. (IF bytes = <<>> THEN <<>> ELSE Append(bytes, E!Separator)) \in Seq(Char)
    BY <2>1, AppendProperties, EmptySeq
  <2>3. E!Encode(packet) \in Seq(Char)
    BY SoundPackets
  <2> QED
    BY <2>2, <2>3, ConcatProperties DEF Joined
<1>2. <<>> \in Seq(Char)
  BY EmptySeq
<1> QED
  BY <1>1, <1>2 DEF Joins, Folding

\* ... and EncodePayload is its value.
LEMMA PayloadIsValue ==
    ASSUME NEW s \in Seq(Sound)
    PROVE  E!EncodePayload(s) = Value(Joins, <<>>, Seq(Char), s)
<1> DEFINE Defines(g) == g = [x \in SUBSET DOMAIN s |->
                               IF x = {} THEN <<>> ELSE Joined(g[x \ {Max(x)}], s[Max(x)])]
           F == CHOOSE g : Defines(g)
<1>1. E!EncodePayload(s) = F[DOMAIN s]
  BY DEF E!EncodePayload, E!FoldLeft, E!MapThenFoldSet, Joined, E!Max, Max
<1>2. DOMAIN s = 1 .. Len(s)
  BY LenProperties
<1>3. Defines(F)
  <2>1. PICK h \in [SUBSET (1 .. Len(s)) -> Seq(Char)] :
           \A x \in SUBSET (1 .. Len(s)) :
              h[x] = IF x = {} THEN <<>> ELSE Joins[<<h[x \ {Max(x)}], s[Max(x)]>>]
    <3>1. FunctionsOf(Joins, <<>>, Seq(Char), s) # {}
      BY JoinTexts, FoldOfSeq
    <3> QED
      BY <3>1 DEF FunctionsOf
  <2>2. ASSUME NEW x \in SUBSET (1 .. Len(s)), x # {}
        PROVE  h[x] = Joined(h[x \ {Max(x)}], s[Max(x)])
    <3>1. h[x \ {Max(x)}] \in Seq(Char)
      BY <2>1, <2>2
    <3>2. s[Max(x)] \in Sound
      BY <2>2, MaxIn, ElementOfSeq, LenProperties
    <3> QED
      BY <2>1, <2>2, <3>1, <3>2 DEF Joins
  <2>3. Defines(h)
    BY <1>2, <2>1, <2>2
  <2> HIDE DEF Defines
  <2> QED
    BY <2>3
<1>4. F[{}] = <<>>
  BY <1>2, <1>3
<1>5. ASSUME NEW x \in SUBSET (1 .. Len(s)), x # {}, F[x \ {Max(x)}] \in Seq(Char)
      PROVE  F[x] = Joins[<<F[x \ {Max(x)}], s[Max(x)]>>]
  <2>1. F[x] = Joined(F[x \ {Max(x)}], s[Max(x)])
    BY <1>2, <1>3, <1>5
  <2>2. s[Max(x)] \in Sound
    BY <1>5, MaxIn, ElementOfSeq, LenProperties
  <2> HIDE DEF F
  <2> QED
    BY <1>5, <2>1, <2>2 DEF Joins
<1> HIDE DEF F
<1>6. Follows(F, Joins, <<>>, Seq(Char), s)
  BY <1>4, <1>5 DEF Follows
<1>7. F[1 .. Len(s)] = Value(Joins, <<>>, Seq(Char), s)
  BY <1>6, JoinTexts, FoldIsValue
<1> QED
  BY <1>1, <1>2, <1>7

\* The payload of no packets, and of one packet more.
LEMMA PayloadGrows ==
    /\ E!EncodePayload(<<>>) = <<>>
    /\ \A s \in Seq(Sound) : E!EncodePayload(s) \in Seq(Char)
    /\ \A s \in Seq(Sound), packet \in Sound :
          E!EncodePayload(Append(s, packet)) = Joined(E!EncodePayload(s), packet)
<1>1. <<>> \in Seq(Sound)
  BY EmptySeq
<1>0. /\ Value(Joins, <<>>, Seq(Char), <<>>) = <<>>
      /\ \A s \in Seq(Sound) : Value(Joins, <<>>, Seq(Char), s) \in Seq(Char)
      /\ \A s \in Seq(Sound), packet \in Sound :
            Value(Joins, <<>>, Seq(Char), Append(s, packet))
              = Joins[<<Value(Joins, <<>>, Seq(Char), s), packet>>]
  BY JoinTexts, Values
<1>2. E!EncodePayload(<<>>) = <<>>
  BY <1>0, <1>1, PayloadIsValue
<1>3. ASSUME NEW s \in Seq(Sound) PROVE E!EncodePayload(s) \in Seq(Char)
  BY <1>0, PayloadIsValue
<1>4. ASSUME NEW s \in Seq(Sound), NEW packet \in Sound
      PROVE  E!EncodePayload(Append(s, packet)) = Joined(E!EncodePayload(s), packet)
  <2>1. Append(s, packet) \in Seq(Sound)
    BY AppendProperties
  <2>2. E!EncodePayload(Append(s, packet)) = Joins[<<E!EncodePayload(s), packet>>]
    BY <1>0, <2>1, PayloadIsValue
  <2> QED
    BY <1>3, <2>2 DEF Joins
<1> QED
  BY <1>2, <1>3, <1>4

\* The texts of packets.
Texts(packets) == [i \in DOMAIN packets |-> E!Encode(packets[i])]

\* The texts of one packet more.
LEMMA TextsAppend ==
    ASSUME NEW s \in Seq(Sound), NEW packet \in Sound
    PROVE  /\ Texts(s) \in Seq(Seq(Char)) /\ Texts(<<packet>>) = <<E!Encode(packet)>>
           /\ Texts(Append(s, packet)) = Append(Texts(s), E!Encode(packet))
<1> DEFINE T == Seq(Char)
           n == Len(s)
           a == Texts(Append(s, packet))
           b == Append(Texts(s), E!Encode(packet))
<1>1. /\ n \in Nat /\ DOMAIN s = 1 .. n /\ \A i \in 1 .. n : s[i] \in Sound
      /\ Append(s, packet) \in Seq(Sound) /\ Len(Append(s, packet)) = n + 1
      /\ DOMAIN Append(s, packet) = 1 .. n + 1
      /\ Append(s, packet)[n + 1] = packet /\ \A i \in 1 .. n : Append(s, packet)[i] = s[i]
  BY AppendProperties, LenProperties, ElementOfSeq
<1>2. E!Encode(packet) \in T /\ \A i \in 1 .. n : E!Encode(s[i]) \in T
  BY <1>1, SoundPackets
<1> HIDE DEF T
<1>3. /\ Texts(s) \in Seq(T) /\ Len(Texts(s)) = n
      /\ \A i \in 1 .. n : Texts(s)[i] = E!Encode(s[i])
  BY <1>1, <1>2 DEF Texts
<1>4. /\ b \in Seq(T) /\ Len(b) = n + 1 /\ b[n + 1] = E!Encode(packet)
      /\ \A i \in 1 .. n : b[i] = E!Encode(s[i])
  <2> DEFINE c == Texts(s)
  <2> HIDE DEF c
  <2>1. c \in Seq(T) /\ Len(c) = n /\ \A i \in 1 .. n : c[i] = E!Encode(s[i])
    BY <1>3 DEF c
  <2> QED
    BY <1>2, <2>1, AppendProperties DEF c
<1>5. a = [i \in 1 .. n + 1 |-> E!Encode(Append(s, packet)[i])]
  BY <1>1 DEF Texts
<1>6. \A i \in 1 .. n + 1 : a[i] = b[i]
  BY <1>1, <1>4, <1>5
<1>7. a \in Seq(T) /\ Len(a) = n + 1
  <2>1. \A i \in 1 .. n + 1 : E!Encode(Append(s, packet)[i]) \in T
    BY <1>1, <1>2
  <2> QED
    BY <1>1, <1>5, <2>1
<1>8. a = b
  <2> HIDE DEF a, b
  <2> QED
    BY <1>1, <1>4, <1>6, <1>7, SeqEqual
<1>9. Texts(<<packet>>) = <<E!Encode(packet)>>
  BY DEF Texts
<1> QED
  BY <1>3, <1>8, <1>9 DEF T

\* A payload is split into the texts of its packets.
LEMMA PayloadParts ==
    ASSUME NEW packets \in Seq(Sound), packets # <<>>
    PROVE  E!Split(E!EncodePayload(packets)) = Texts(packets)
<1> DEFINE front(i) == SubSeq(packets, 1, i)
           Whole(s) == /\ E!EncodePayload(s) \in Seq(Char) /\ E!EncodePayload(s) # <<>>
                       /\ E!Split(E!EncodePayload(s)) = Texts(s)
           P == {i \in Nat : i + 1 <= Len(packets) => Whole(front(i + 1))}
<1>1. Len(packets) \in Nat \ {0}
  BY EmptySeq, LenProperties
<1>2. \A i \in Nat : i + 1 <= Len(packets) =>
          /\ front(i) \in Seq(Sound) /\ packets[i + 1] \in Sound
          /\ front(i + 1) = Append(front(i), packets[i + 1])
  BY <1>1, Fronts
<1>3. 0 \in P
  <2>1. front(0) = <<>> /\ 0 + 1 <= Len(packets)
    BY <1>1
  <2>2. PICK packet \in Sound : front(0 + 1) = Append(<<>>, packet)
    BY <1>2, <2>1
  <2>3. <<>> \in Seq(Sound) /\ Append(<<>>, packet) = <<packet>>
    BY EmptySeq
  <2>4. E!EncodePayload(<<packet>>) = E!Encode(packet)
    <3>1. E!EncodePayload(Append(<<>>, packet)) = <<>> \o E!Encode(packet)
      BY <2>3, PayloadGrows DEF Joined
    <3>2. <<>> \o E!Encode(packet) = E!Encode(packet)
      BY SoundPackets, ConcatEmptySeq
    <3> QED
      BY <2>3, <3>1, <3>2
  <2>5. E!Split(E!Encode(packet)) = <<E!Encode(packet)>>
    <3> DEFINE t == E!Encode(packet)
    <3>1. t \in Seq(Char) /\ \A i \in 1 .. Len(t) : t[i] # E!Separator
      BY SoundPackets
    <3> HIDE DEF t
    <3>2. <<>> \in Seq(Char) /\ <<>> \in Seq(Seq(Char)) /\ E!Split(<<>>) = Append(<<>>, <<>>)
      BY EmptySeq, Splits DEF Unsplit
    <3>3. E!Split(<<>> \o t) = Append(<<>>, t)
      BY <3>1, <3>2, SplitMore
    <3> QED
      BY <3>1, <3>3, ConcatEmptySeq DEF t
  <2>6. Whole(<<packet>>)
    BY <2>4, <2>5, SoundPackets, TextsAppend, <2>3
  <2> HIDE DEF front, Whole
  <2> QED
    BY <2>2, <2>3, <2>6
<1>4. ASSUME NEW i \in Nat, i \in P PROVE i + 1 \in P
  <2> SUFFICES ASSUME (i + 1) + 1 <= Len(packets) PROVE Whole(front((i + 1) + 1))
    OBVIOUS
  <2> DEFINE s == front(i + 1)
             packet == packets[(i + 1) + 1]
             u == Append(E!EncodePayload(s), E!Separator)
             t == E!Encode(packet)
  <2>1. s \in Seq(Sound) /\ packet \in Sound /\ front((i + 1) + 1) = Append(s, packet)
    BY <1>2
  <2>2. Whole(s)
    BY <1>1, <1>4
  <2> HIDE DEF s, packet
  <2>3. E!EncodePayload(Append(s, packet)) = u \o t
    BY <2>1, <2>2, PayloadGrows DEF Joined
  <2>4. E!Separator \in Char /\ u \in Seq(Char) /\ E!Split(u) = Append(Texts(s), <<>>)
    <3>1. E!Separator \in Char
      BY DEF Char
    <3>2. E!Split(u) = Cut(E!Split(E!EncodePayload(s)), E!Separator)
      BY <2>2, <3>1, Splits
    <3> QED
      BY <2>2, <3>1, <3>2, AppendProperties DEF Cut
  <2>5. t \in Seq(Char) /\ t # <<>> /\ \A j \in 1 .. Len(t) : t[j] # E!Separator
    BY <2>1, SoundPackets
  <2>6. Texts(s) \in Seq(Seq(Char)) /\ Texts(Append(s, packet)) = Append(Texts(s), t)
    BY <2>1, TextsAppend
  <2> HIDE DEF u, t
  <2>7. E!Split(u \o t) = Append(Texts(s), t)
    BY <2>4, <2>5, <2>6, SplitMore
  <2>8. u \o t \in Seq(Char) /\ u \o t # <<>>
    BY <2>4, <2>5, ConcatProperties, ConcatEmptySeq
  <2> QED
    BY <2>1, <2>3, <2>6, <2>7, <2>8
<1>5. \A i \in Nat : i \in P
  <2> HIDE DEF P
  <2>1. Nat \subseteq P
    BY <1>3, <1>4, Induction
  <2> QED
    BY <2>1
<1>6. front(Len(packets)) = packets
  BY SubSeqFull
<1> HIDE DEF front, Whole
<1>7. Len(packets) - 1 \in Nat /\ (Len(packets) - 1) + 1 = Len(packets)
  BY <1>1
<1>8. Whole(front(Len(packets)))
  BY <1>5, <1>7
<1> QED
  BY <1>6, <1>8 DEF Whole

\* Whatever packets an answer of polling is made of, it is read as these packets.
THEOREM PayloadRoundTrip ==
    ASSUME NEW packets \in Seq(Sound), packets # <<>>
    PROVE  E!DecodePayload(E!EncodePayload(packets)) = packets
<1> DEFINE parts == E!Split(E!EncodePayload(packets))
           back == E!DecodePayload(E!EncodePayload(packets))
           n == Len(packets)
<1>1. n \in Nat /\ DOMAIN packets = 1 .. n /\ \A i \in 1 .. n : packets[i] \in Sound
  BY LenProperties, ElementOfSeq
<1>2. parts = [i \in 1 .. n |-> E!Encode(packets[i])]
  BY <1>1, PayloadParts DEF Texts
<1>3. back = [i \in 1 .. n |-> E!Decode(parts[i])]
  BY <1>2 DEF E!DecodePayload
<1>4. \A i \in 1 .. n : E!Decode(parts[i]) = packets[i]
  BY <1>1, <1>2, SoundPackets
<1> HIDE DEF parts
<1>5. back = [i \in 1 .. n |-> packets[i]]
  BY <1>3, <1>4
<1>6. back \in Seq(Sound) /\ Len(back) = n /\ \A i \in 1 .. n : back[i] = packets[i]
  BY <1>1, <1>5
<1> HIDE DEF back
<1>7. back = packets
  BY <1>6, SeqEqual
<1> QED
  BY <1>7 DEF back

-----------------------------------------------------------------------------
(* Positions in a text, and few elements *)

\* Two sequences that have the same elements are one.
LEMMA SameSeq ==
    ASSUME NEW T, NEW s \in Seq(T), NEW n \in Nat, Len(s) = n,
           NEW t \in Seq(T), Len(t) = n, \A i \in 1 .. n : s[i] = t[i]
    PROVE  s = t
BY SeqEqual

\* Of numbers the least one.
LEMMA MinIs ==
    ASSUME NEW I \in SUBSET Nat, NEW k \in I, \A j \in I : k <= j PROVE S!Min(I) = k
<1>1. S!Min(I) \in I /\ \A j \in I : S!Min(I) <= j
  BY DEF S!Min
<1>2. S!Min(I) \in Nat /\ k \in Nat /\ S!Min(I) <= k /\ k <= S!Min(I)
  BY <1>1
<1> QED
  BY <1>2

\* A text that is cut at one of its characters.
LEMMA CutAt ==
    ASSUME NEW T, NEW a \in Seq(T), NEW c \in T, NEW b \in Seq(T)
    PROVE  LET text == a \o (<<c>> \o b)
               n == Len(a) + 1
           IN /\ text \in Seq(T) /\ text # <<>> /\ n \in 1 .. Len(text)
              /\ text[n] = c /\ \A i \in 1 .. Len(a) : text[i] = a[i]
              /\ SubSeq(text, 1, n - 1) = a
              /\ SubSeq(text, n, Len(text)) = <<c>> \o b
              /\ SubSeq(text, n + 1, Len(text)) = b
<1> DEFINE d == <<c>> \o b
           text == a \o d
           n == Len(a) + 1
<1>1. /\ d \in Seq(T) /\ Len(d) = Len(b) + 1 /\ Len(a) \in Nat /\ Len(b) \in Nat /\ d[1] = c
      /\ \A i \in 1 .. Len(b) : d[i + 1] = b[i]
  BY Prefixed, LenProperties
<1> HIDE DEF d
<1>2. /\ text \in Seq(T) /\ Len(text) = Len(a) + Len(d)
      /\ \A i \in 1 .. Len(a) + Len(d) : text[i] = IF i <= Len(a) THEN a[i] ELSE d[i - Len(a)]
  BY <1>1, ConcatProperties
<1> HIDE DEF text
<1>3. n \in 1 .. Len(text) /\ n \in Nat /\ ~(n <= Len(a)) /\ n - Len(a) = 1
  BY <1>1, <1>2
<1>4. text[n] = c /\ \A i \in 1 .. Len(a) : text[i] = a[i]
  BY <1>1, <1>2, <1>3
<1>5. \A i \in 1 .. Len(text) : text[i] \in T
  BY <1>2, ElementOfSeq
<1>6. \A i \in 1 .. Len(b) + 1 : text[n + i - 1] = d[i]
  <2> SUFFICES ASSUME NEW i \in 1 .. Len(b) + 1 PROVE text[n + i - 1] = d[i]
    OBVIOUS
  <2>1. /\ n + i - 1 \in 1 .. Len(a) + Len(d) /\ ~(n + i - 1 <= Len(a))
        /\ (n + i - 1) - Len(a) = i
    BY <1>1, <1>2
  <2> QED
    BY <1>2, <2>1
<1>7. SubSeq(text, 1, n - 1) = a
  <2> DEFINE s == SubSeq(text, 1, n - 1)
  <2>1. s \in Seq(T) /\ Len(s) = Len(a) /\ \A i \in 1 .. Len(a) : s[i] = text[i]
    BY <1>1, <1>2, <1>5, SubSeqProperties
  <2> HIDE DEF s
  <2> QED
    BY <1>1, <1>4, <2>1, SeqEqual DEF s
<1>8. SubSeq(text, n, Len(text)) = d
  <2> DEFINE s == SubSeq(text, n, Len(text))
  <2>1. /\ s \in Seq(T) /\ Len(s) = Len(b) + 1
        /\ \A i \in 1 .. Len(b) + 1 : s[i] = text[n + i - 1]
    BY <1>1, <1>2, <1>3, <1>5, SubSeqProperties
  <2> HIDE DEF s
  <2> QED
    BY <1>1, <1>6, <2>1, SeqEqual DEF s
<1>9. SubSeq(text, n + 1, Len(text)) = b
  <2> DEFINE s == SubSeq(text, n + 1, Len(text))
  <2>1. /\ s \in Seq(T) /\ Len(s) = Len(b)
        /\ \A i \in 1 .. Len(b) : s[i] = text[(n + 1) + i - 1]
    BY <1>1, <1>2, <1>3, <1>5, SubSeqProperties
  <2> HIDE DEF s
  <2>2. ASSUME NEW i \in 1 .. Len(b) PROVE s[i] = b[i]
    <3>1. i + 1 \in 1 .. Len(b) + 1 /\ n + (i + 1) - 1 = (n + 1) + i - 1
      BY <1>1, <1>3
    <3> QED
      BY <1>1, <1>6, <2>1, <3>1
  <2> QED
    BY <1>1, <2>1, <2>2, SeqEqual DEF s
<1>10. text # <<>>
  BY <1>2, <1>3, EmptySeq
<1> QED
  BY <1>2, <1>3, <1>4, <1>7, <1>8, <1>9, <1>10 DEF text, d

\* Elements between two others.
LEMMA Enclosed ==
    ASSUME NEW T, NEW open \in T, NEW close \in T, NEW s \in Seq(T)
    PROVE  LET c == <<open>> \o s \o <<close>>
           IN /\ c \in Seq(T) /\ Len(c) = Len(s) + 2 /\ c[1] = open /\ c[Len(s) + 2] = close
              /\ \A i \in 1 .. Len(s) : c[i + 1] = s[i]
<1> DEFINE d == <<open>> \o s
           c == d \o <<close>>
<1>1. /\ d \in Seq(T) /\ Len(d) = Len(s) + 1 /\ Len(s) \in Nat /\ d[1] = open
      /\ \A i \in 1 .. Len(s) : d[i + 1] = s[i]
  BY Prefixed, LenProperties
<1> HIDE DEF d
<1>2. /\ <<close>> \in Seq(T) /\ Len(<<close>>) = 1 /\ <<close>>[1] = close
  OBVIOUS
<1>3. /\ c \in Seq(T) /\ Len(c) = Len(s) + 2
      /\ \A i \in 1 .. Len(s) + 2 :
            c[i] = IF i <= Len(s) + 1 THEN d[i] ELSE <<close>>[i - (Len(s) + 1)]
  BY <1>1, <1>2, ConcatProperties
<1> HIDE DEF c
<1>4. c[1] = open
  BY <1>1, <1>3
<1>5. c[Len(s) + 2] = close
  <2>1. /\ Len(s) + 2 \in 1 .. Len(s) + 2 /\ ~(Len(s) + 2 <= Len(s) + 1)
        /\ (Len(s) + 2) - (Len(s) + 1) = 1
    BY <1>1
  <2> QED
    BY <1>2, <1>3, <2>1
<1>6. ASSUME NEW i \in 1 .. Len(s) PROVE c[i + 1] = s[i]
  <2>1. i + 1 \in 1 .. Len(s) + 2 /\ i + 1 <= Len(s) + 1
    BY <1>1
  <2> QED
    BY <1>1, <1>3, <2>1
<1> QED
  BY <1>3, <1>4, <1>5, <1>6 DEF c, d

\* The same of few elements.
LEMMA Enclosed2 ==
    ASSUME NEW open, NEW close
    PROVE  <<open>> \o <<>> \o <<close>> = <<open, close>>
<1> DEFINE T == {open, close}
           s == <<>>
           c == <<open>> \o s \o <<close>>
           t == <<open, close>>
<1>1. s \in Seq(T) /\ Len(s) = 0
  OBVIOUS
<1>2. c \in Seq(T) /\ Len(c) = 2 /\ c[1] = open /\ c[2] = close
  <2> HIDE DEF s
  <2> QED
    BY <1>1, Enclosed
<1>3. t \in Seq(T) /\ Len(t) = 2 /\ t[1] = open /\ t[2] = close
  OBVIOUS
<1> HIDE DEF c, t
<1>4. \A i \in 1 .. 2 : i = 1 \/ i = 2
  OBVIOUS
<1>5. c = t
  BY <1>2, <1>3, <1>4, SameSeq
<1> QED
  BY <1>5 DEF c, t

\* ... of one,
LEMMA Enclosed3 ==
    ASSUME NEW open, NEW close, NEW x
    PROVE  <<open>> \o <<x>> \o <<close>> = <<open, x, close>>
<1> DEFINE T == {open, close, x}
           s == <<x>>
           c == <<open>> \o s \o <<close>>
           t == <<open, x, close>>
<1>1. s \in Seq(T) /\ Len(s) = 1 /\ s[1] = x /\ 1 \in 1 .. 1
  OBVIOUS
<1>2. c \in Seq(T) /\ Len(c) = 3 /\ c[1] = open /\ c[1 + 1] = x /\ c[3] = close
  <2> HIDE DEF s
  <2> QED
    BY <1>1, Enclosed
<1>3. t \in Seq(T) /\ Len(t) = 3 /\ t[1] = open /\ t[2] = x /\ t[3] = close
  OBVIOUS
<1> HIDE DEF c, t
<1>4. \A i \in 1 .. 3 : i = 1 \/ i = 2 \/ i = 3
  OBVIOUS
<1>5. c = t
  BY <1>2, <1>3, <1>4, SameSeq
<1> QED
  BY <1>5 DEF c, t

\* ... of three,
LEMMA Enclosed5 ==
    ASSUME NEW open, NEW close, NEW x, NEW y, NEW z
    PROVE  <<open>> \o <<x, y, z>> \o <<close>> = <<open, x, y, z, close>>
<1> DEFINE T == {open, close, x, y, z}
           s == <<x, y, z>>
           c == <<open>> \o s \o <<close>>
           t == <<open, x, y, z, close>>
<1>1. s \in Seq(T) /\ Len(s) = 3 /\ s[1] = x /\ s[2] = y /\ s[3] = z
  OBVIOUS
<1>0. s \in Seq(T)
  OBVIOUS
<1>2. /\ c \in Seq(T) /\ Len(c) = 5 /\ c[1] = open /\ c[5] = close
      /\ c[1 + 1] = x /\ c[2 + 1] = y /\ c[3 + 1] = z
  <2> HIDE DEF s
  <2>1. 1 \in 1 .. 3 /\ 2 \in 1 .. 3 /\ 3 \in 1 .. 3
    OBVIOUS
  <2>2. /\ c \in Seq(T) /\ Len(c) = Len(s) + 2 /\ c[1] = open /\ c[Len(s) + 2] = close
        /\ \A i \in 1 .. Len(s) : c[i + 1] = s[i]
    BY <1>0, Enclosed
  <2> HIDE DEF c
  <2> QED
    BY <1>1, <2>1, <2>2
<1>3. /\ t \in Seq(T) /\ Len(t) = 5 /\ t[1] = open /\ t[2] = x /\ t[3] = y /\ t[4] = z
      /\ t[5] = close
  OBVIOUS
<1> HIDE DEF c, t
<1>4. \A i \in 1 .. 5 : i = 1 \/ i = 2 \/ i = 3 \/ i = 4 \/ i = 5
  OBVIOUS
<1>5. c = t
  BY <1>2, <1>3, <1>4, SameSeq
<1> QED
  BY <1>5 DEF c, t

\* ... and of five.
LEMMA Enclosed7 ==
    ASSUME NEW open, NEW close, NEW x, NEW y, NEW z, NEW u, NEW v
    PROVE  <<open>> \o <<x, y, z, u, v>> \o <<close>> = <<open, x, y, z, u, v, close>>
<1> DEFINE T == {open, close, x, y, z, u, v}
           s == <<x, y, z, u, v>>
           c == <<open>> \o s \o <<close>>
           t == <<open, x, y, z, u, v, close>>
<1>1. s \in Seq(T) /\ Len(s) = 5 /\ s[1] = x /\ s[2] = y /\ s[3] = z /\ s[4] = u /\ s[5] = v
  OBVIOUS
<1>0. s \in Seq(T)
  OBVIOUS
<1>2. /\ c \in Seq(T) /\ Len(c) = 7 /\ c[1] = open /\ c[7] = close
      /\ c[1 + 1] = x /\ c[2 + 1] = y /\ c[3 + 1] = z /\ c[4 + 1] = u /\ c[5 + 1] = v
  <2> HIDE DEF s
  <2>1. \A i \in {1, 2, 3, 4, 5} : i \in 1 .. 5
    OBVIOUS
  <2>2. /\ c \in Seq(T) /\ Len(c) = Len(s) + 2 /\ c[1] = open /\ c[Len(s) + 2] = close
        /\ \A i \in 1 .. Len(s) : c[i + 1] = s[i]
    BY <1>0, Enclosed
  <2> HIDE DEF c
  <2> QED
    BY <1>1, <2>1, <2>2
<1>3. /\ t \in Seq(T) /\ Len(t) = 7 /\ t[1] = open /\ t[2] = x /\ t[3] = y /\ t[4] = z
      /\ t[5] = u /\ t[6] = v /\ t[7] = close
  OBVIOUS
<1> HIDE DEF c, t
<1>4. \A i \in 1 .. 7 : i = 1 \/ i = 2 \/ i = 3 \/ i = 4 \/ i = 5 \/ i = 6 \/ i = 7
  OBVIOUS
<1>5. c = t
  BY <1>2, <1>3, <1>4, SameSeq
<1> QED
  BY <1>5 DEF c, t

\* A function on 1 .. n is a sequence.
LEMMA FunctionIsSeq ==
    ASSUME NEW T, NEW n \in Nat, NEW t \in [1 .. n -> T] PROVE t \in Seq(T) /\ Len(t) = n
OBVIOUS

-----------------------------------------------------------------------------
(* What texts of socket.io are made of *)

\* What texts of socket.io are made of: everything but the separator.
Plain == Char \ {E!Separator}

\* The characters that the codec writes itself have no separator among them.
LEMMA Literals ==
    /\ \A char \in {"[", "]", ",", "-", "/", "event", "json", "text"} : char \in Plain
    /\ \A i \in 1 .. 10 : S!Digit[i] \in Plain /\ S!Holder[i] \in Plain
    /\ \A type \in S!PacketType : S!TypeDigit[type] \in Plain
<1>1. \A char \in {"[", "]", ",", "-", "/", "event", "json", "text"} : char \in Plain
  <2>1. \A char \in {"[", "]", ",", "-", "/", "event", "json", "text"} : char \in Char
    BY DEF Char
  <2> QED
    BY <2>1 DEF Plain, E!Separator
<1>2. \A i \in 1 .. 10 : S!Digit[i] \in Plain /\ S!Holder[i] \in Plain
  <2>1. DOMAIN S!Digit = 1 .. 10 /\ DOMAIN S!Holder = 1 .. 10
    BY DEF S!Digit, S!Holder
  <2>2. \A i \in 1 .. 10 : S!Digit[i] \in Char /\ S!Holder[i] \in Char
    BY <2>1 DEF Char
  <2>3. \A i \in 1 .. 10 : i \in {1, 2, 3, 4, 5, 6, 7, 8, 9, 10}
    OBVIOUS
  <2>4. \A i \in 1 .. 10 : S!Digit[i] # E!Separator
    BY <2>3 DEF S!Digit, E!Separator
  <2>5. \A i \in 1 .. 10 : S!Holder[i] # E!Separator
    <3>1. /\ S!Holder[1] # E!Separator
          /\ S!Holder[2] # E!Separator
          /\ S!Holder[3] # E!Separator
          /\ S!Holder[4] # E!Separator
          /\ S!Holder[5] # E!Separator
          /\ S!Holder[6] # E!Separator
          /\ S!Holder[7] # E!Separator
          /\ S!Holder[8] # E!Separator
          /\ S!Holder[9] # E!Separator
          /\ S!Holder[10] # E!Separator
      BY DEF S!Holder, E!Separator
    <3> QED
      BY <2>3, <3>1
  <2> QED
    BY <2>2, <2>4, <2>5 DEF Plain
<1>3. \A type \in S!PacketType : S!TypeDigit[type] \in Plain
  <2>1. \A type \in S!PacketType : S!TypeDigit[type] \in Char
    BY DEF Char
  <2>2. \A type \in S!PacketType : S!TypeDigit[type] # E!Separator
    BY DEF S!PacketType, S!TypeDigit, E!Separator
  <2> QED
    BY <2>1, <2>2 DEF Plain
<1> QED
  BY <1>1, <1>2, <1>3

\* A text of such characters has no separator in it.
LEMMA PlainText ==
    ASSUME NEW text \in Seq(Plain)
    PROVE  text \in Seq(Char) /\ \A i \in 1 .. Len(text) : text[i] # E!Separator
<1>1. \A i \in 1 .. Len(text) : text[i] \in Plain
  BY ElementOfSeq
<1>2. Plain \subseteq Char
  BY DEF Plain
<1>3. \A i \in 1 .. Len(text) : text[i] \in Char /\ text[i] # E!Separator
  BY <1>1 DEF Plain
<1> QED
  BY <1>2, <1>3

\* Of a larger set too it is a sequence.
LEMMA SeqOfMore ==
    ASSUME NEW T, NEW U, T \subseteq U, NEW s \in Seq(T) PROVE s \in Seq(U)
OBVIOUS

\* The head is what is first.
LEMMA HeadIsFirst ==
    ASSUME NEW T, NEW s \in Seq(T), s # <<>> PROVE Head(s) = s[1] /\ 1 \in 1 .. Len(s)
OBVIOUS

\* Namespaces are texts of such characters, begin with a slash and have no comma.
LEMMA PlainNames ==
    /\ \A nsp \in Namespaces :
          /\ nsp \in Seq(Plain) /\ nsp # <<>> /\ nsp[1] = "/"
          /\ \A i \in 1 .. Len(nsp) : nsp[i] # ","
    /\ S!DefaultNsp \in Seq(Plain)
<1>1. ASSUME NEW nsp \in Namespaces
      PROVE  /\ nsp \in Seq(Plain) /\ nsp # <<>> /\ nsp[1] = "/"
             /\ \A i \in 1 .. Len(nsp) : nsp[i] # ","
  <2>1. /\ nsp \in Seq(STRING) /\ nsp # <<>> /\ Head(nsp) = "/"
        /\ \A i \in DOMAIN nsp : nsp[i] # "," /\ nsp[i] # E!Separator
    BY NamespacesAssumption
  <2>2. STRING \subseteq Char
    BY DEF Char
  <2>3. nsp \in Seq(Char)
    BY <2>1, <2>2, SeqOfMore
  <2>4. /\ nsp # <<>> /\ Head(nsp) = "/"
        /\ \A i \in DOMAIN nsp : nsp[i] # "," /\ nsp[i] # E!Separator
    BY <2>1, Zenon
  <2>5. DOMAIN nsp = 1 .. Len(nsp) /\ Len(nsp) \in Nat /\ \A i \in 1 .. Len(nsp) : nsp[i] \in Char
    BY <2>3, LenProperties, ElementOfSeq
  <2>6. nsp \in Seq(Plain)
    <3>1. \A i \in 1 .. Len(nsp) : nsp[i] \in Plain
      BY <2>4, <2>5 DEF Plain
    <3> QED
      BY <2>3, <2>5, <3>1
  <2>7. nsp[1] = "/"
    <3>1. Head(nsp) = nsp[1]
      BY <2>3, <2>4, HeadIsFirst
    <3> QED
      BY <2>4, <3>1
  <2> QED
    BY <2>4, <2>5, <2>6, <2>7
<1>2. S!DefaultNsp \in Seq(Plain)
  <2>1. "/" \in Plain
    BY Literals
  <2> HIDE DEF Plain
  <2> QED
    BY <2>1 DEF S!DefaultNsp
<1> QED
  BY <1>1, <1>2

\* What is a digit is no character that ends a field.
LEMMA Digits ==
    /\ \A i \in 1 .. 10 : S!IsDigit(S!Digit[i]) /\ S!Digit[i] # "/" /\ S!Digit[i] # "-"
    /\ ~S!IsDigit("[") /\ ~S!IsDigit("json") /\ ~S!IsDigit("/") /\ ~S!IsDigit("-")
    /\ \A char : S!IsDigit(char) => char \in Plain /\ char # "/"
<1>1. DOMAIN S!Digit = 1 .. 10 /\ \A i \in 1 .. 10 : i \in {1, 2, 3, 4, 5, 6, 7, 8, 9, 10}
  BY DEF S!Digit
<1>2. \A i \in 1 .. 10 : S!Digit[i] \notin {"[", "json", "/", "-"}
  BY <1>1 DEF S!Digit
<1> QED
  BY <1>1, <1>2, Literals DEF S!IsDigit

\* Ids are texts of digits.
LEMMA PlainIds ==
    ASSUME NEW id \in Ids
    PROVE  id \in Seq(Plain) /\ id # <<>> /\ \A i \in 1 .. Len(id) : S!IsDigit(id[i])
<1>1. /\ id \in Seq(STRING) /\ Len(id) \in 1 .. 9 /\ \A i \in DOMAIN id : S!IsDigit(id[i])
  BY IdsAssumption
<1>2. DOMAIN id = 1 .. Len(id) /\ Len(id) \in Nat
  BY <1>1
<1>3. \A i \in 1 .. Len(id) : S!IsDigit(id[i]) /\ id[i] \in Plain
  BY <1>1, <1>2, Digits
<1>4. id \in Seq(Plain)
  BY <1>1, <1>2, <1>3
<1>5. id # <<>>
  BY <1>1, <1>2
<1> QED
  BY <1>3, <1>4, <1>5

\* A number of one digit is read as what it is.
LEMMA NumberOfDigit ==
    ASSUME NEW n \in 0 .. 9 PROVE S!Number(S!Text(n)) = n
<1> DEFINE d == S!Digit[n + 1]
           s == <<d>>
           Step(v) == 10 * v + S!ValueOf(d)
           Defines(g) == g = [x \in SUBSET DOMAIN s |->
                   IF x = {} THEN 0 ELSE 10 * g[x \ {Max(x)}] + S!ValueOf(s[Max(x)])]
           F == CHOOSE g : Defines(g)
<1>1. S!ValueOf(d) = n
  <2>1. DOMAIN S!Digit = 1 .. 10 /\ \A i \in 1 .. 10 : i \in {1, 2, 3, 4, 5, 6, 7, 8, 9, 10}
    BY DEF S!Digit
  <2>2. \A i, j \in 1 .. 10 : S!Digit[i] = S!Digit[j] => i = j
    BY <2>1 DEF S!Digit
  <2>3. n + 1 \in 1 .. 10
    OBVIOUS
  <2>4. (CHOOSE i \in DOMAIN S!Digit : S!Digit[i] = d) = n + 1
    BY <2>1, <2>2, <2>3
  <2>5. S!ValueOf(d) = (n + 1) - 1
    <3> HIDE DEF d
    <3> QED
      BY <2>4 DEF S!ValueOf
  <2> QED
    BY <2>5
<1>2. S!Number(S!Text(n)) = F[DOMAIN s]
  BY DEF S!Number, S!Text, S!FoldLeft, S!MapThenFoldSet, S!Max, Max
<1> HIDE DEF d
<1>3. DOMAIN s = {1} /\ s[1] = d
  OBVIOUS
<1>4. Max({1}) = 1
  BY DEF Max
<1>5. \A x \in SUBSET {1} : x = {} \/ x = {1}
  OBVIOUS
<1>6. Defines(F)
  <2> DEFINE h == [x \in SUBSET {1} |-> IF x = {} THEN 0 ELSE n]
  <2>1. h[{}] = 0 /\ h[{1}] = n /\ {1} \ {1} = {}
    BY <1>5
  <2>2. ASSUME NEW x \in SUBSET {1}
        PROVE  h[x] = IF x = {} THEN 0 ELSE 10 * h[x \ {Max(x)}] + S!ValueOf(s[Max(x)])
    <3>1. CASE x = {}
      BY <2>1, <3>1
    <3>2. CASE x = {1}
      <4>1. 10 * 0 + n = n
        OBVIOUS
      <4> HIDE DEF h
      <4> QED
        BY <1>1, <1>3, <1>4, <2>1, <3>2, <4>1
    <3> QED
      BY <1>5, <3>1, <3>2
  <2>3. Defines(h)
    BY <1>3, <2>2
  <2> HIDE DEF Defines
  <2> QED
    BY <2>3
<1> HIDE DEF F
<1>7. F[{}] = 0 /\ F[{1}] = 10 * F[{1} \ {1}] + S!ValueOf(d)
  BY <1>3, <1>4, <1>6
<1>8. {1} \ {1} = {}
  OBVIOUS
<1> QED
  BY <1>1, <1>2, <1>3, <1>7, <1>8

-----------------------------------------------------------------------------
(* Unwrap *)

\* What Unwrap keeps of the elements of an array.
Kept(kept, element) == IF <<element>> = S!Placeholder(0) THEN kept ELSE Append(kept, element)
Keeps == [x \in Seq(Plain) \X Plain |-> Kept(x[1], x[2])]
Bare(json) == Value(Keeps, <<>>, Seq(Plain), json)

\* Leaving out the placeholders is a fold.
LEMMA KeepTexts == Folding(Seq(Plain), Plain, <<>>, Keeps)
<1>1. ASSUME NEW kept \in Seq(Plain), NEW element \in Plain PROVE Kept(kept, element) \in Seq(Plain)
  BY AppendProperties DEF Kept
<1>2. <<>> \in Seq(Plain)
  BY EmptySeq
<1> QED
  BY <1>1, <1>2 DEF Keeps, Folding

\* An array without its brackets, and without a comma that is left at its end.
Stripped(bare) ==
    LET open == IF bare # <<>> /\ bare[1] = "[" THEN Tail(bare) ELSE bare
        shut == IF open # <<>> /\ S!Last(open) = "]" THEN S!Front(open) ELSE open
    IN IF shut # open /\ shut # <<>> /\ S!Last(shut) = "," THEN S!Front(shut) ELSE shut

\* ... and Unwrap strips its value.
LEMMA UnwrapIs ==
    ASSUME NEW json \in Seq(Plain)
    PROVE  S!Unwrap(json) = Stripped(Bare(json))
<1> DEFINE Defines(g) == g = [x \in SUBSET DOMAIN json |->
                   IF x = {} THEN <<>> ELSE Kept(g[x \ {Max(x)}], json[Max(x)])]
           F == CHOOSE g : Defines(g)
<1>1. S!Unwrap(json) = Stripped(F[DOMAIN json])
  BY DEF S!Unwrap, S!FoldLeft, S!MapThenFoldSet, S!Max, Max, Kept, Stripped
<1>2. DOMAIN json = 1 .. Len(json)
  BY LenProperties
<1>3. Defines(F)
  <2>1. PICK h \in [SUBSET (1 .. Len(json)) -> Seq(Plain)] :
           \A x \in SUBSET (1 .. Len(json)) :
              h[x] = IF x = {} THEN <<>> ELSE Keeps[<<h[x \ {Max(x)}], json[Max(x)]>>]
    <3>1. FunctionsOf(Keeps, <<>>, Seq(Plain), json) # {}
      BY KeepTexts, FoldOfSeq
    <3> QED
      BY <3>1 DEF FunctionsOf
  <2>2. ASSUME NEW x \in SUBSET (1 .. Len(json)), x # {}
        PROVE  h[x] = Kept(h[x \ {Max(x)}], json[Max(x)])
    <3>1. h[x \ {Max(x)}] \in Seq(Plain)
      BY <2>1, <2>2
    <3>2. json[Max(x)] \in Plain
      BY <2>2, MaxIn, ElementOfSeq, LenProperties
    <3> QED
      BY <2>1, <2>2, <3>1, <3>2 DEF Keeps
  <2>3. Defines(h)
    BY <1>2, <2>1, <2>2
  <2> HIDE DEF Defines
  <2> QED
    BY <2>3
<1>4. F[{}] = <<>>
  BY <1>2, <1>3
<1>5. ASSUME NEW x \in SUBSET (1 .. Len(json)), x # {}, F[x \ {Max(x)}] \in Seq(Plain)
      PROVE  F[x] = Keeps[<<F[x \ {Max(x)}], json[Max(x)]>>]
  <2>1. F[x] = Kept(F[x \ {Max(x)}], json[Max(x)])
    BY <1>2, <1>3, <1>5
  <2>2. json[Max(x)] \in Plain
    BY <1>5, MaxIn, ElementOfSeq, LenProperties
  <2> HIDE DEF F
  <2> QED
    BY <1>5, <2>1, <2>2 DEF Keeps
<1> HIDE DEF F
<1>6. Follows(F, Keeps, <<>>, Seq(Plain), json)
  BY <1>4, <1>5 DEF Follows
<1>7. F[1 .. Len(json)] = Bare(json)
  BY <1>6, KeepTexts, FoldIsValue DEF Bare
<1> QED
  BY <1>1, <1>2, <1>7

\* What is kept of no elements, and of one element more.
LEMMA BareGrows ==
    /\ Bare(<<>>) = <<>>
    /\ \A s \in Seq(Plain) : Bare(s) \in Seq(Plain)
    /\ \A s \in Seq(Plain), element \in Plain : Bare(Append(s, element)) = Kept(Bare(s), element)
<1>1. /\ Value(Keeps, <<>>, Seq(Plain), <<>>) = <<>>
      /\ \A s \in Seq(Plain) : Value(Keeps, <<>>, Seq(Plain), s) \in Seq(Plain)
      /\ \A s \in Seq(Plain), element \in Plain :
            Value(Keeps, <<>>, Seq(Plain), Append(s, element))
              = Keeps[<<Value(Keeps, <<>>, Seq(Plain), s), element>>]
  BY KeepTexts, Values
<1> QED
  BY <1>1 DEF Bare, Keeps

\* Elements appended to few others.
LEMMA Appended1 == ASSUME NEW a PROVE Append(<<>>, a) = <<a>>
OBVIOUS

\* ... to one,
LEMMA Appended2 ==
    ASSUME NEW a, NEW b PROVE Append(<<a>>, b) = <<a, b>>
<1> DEFINE T == {a, b}
           s == <<a>>
           t == Append(s, b)
           u == <<a, b>>
<1>1. s \in Seq(T) /\ Len(s) = 1 /\ s[1] = a /\ u \in Seq(T) /\ Len(u) = 2 /\ u[1] = a /\ u[2] = b
  OBVIOUS
<1> HIDE DEF s, u
<1>2. t \in Seq(T) /\ Len(t) = 2 /\ t[1] = a /\ t[2] = b
  <2>1. s \in Seq(T) /\ b \in T
    BY <1>1
  <2>2. /\ t \in Seq(T) /\ Len(t) = Len(s) + 1 /\ t[Len(s) + 1] = b
        /\ \A i \in 1 .. Len(s) : t[i] = s[i]
    BY <2>1, AppendProperties
  <2> HIDE DEF t
  <2>3. \A i \in {1} : i \in 1 .. 1
    OBVIOUS
  <2> QED
    BY <1>1, <2>2, <2>3
<1> HIDE DEF t
<1>3. \A i \in 1 .. 2 : i = 1 \/ i = 2
  OBVIOUS
<1>4. t = u
  BY <1>1, <1>2, <1>3, SameSeq
<1> QED
  BY <1>4 DEF s, t, u

\* ... to two,
LEMMA Appended3 ==
    ASSUME NEW a, NEW b, NEW c PROVE Append(<<a, b>>, c) = <<a, b, c>>
<1> DEFINE T == {a, b, c}
           s == <<a, b>>
           t == Append(s, c)
           u == <<a, b, c>>
<1>1. /\ s \in Seq(T) /\ Len(s) = 2 /\ s[1] = a /\ s[2] = b
      /\ u \in Seq(T) /\ Len(u) = 3 /\ u[1] = a /\ u[2] = b /\ u[3] = c
  OBVIOUS
<1> HIDE DEF s, u
<1>2. t \in Seq(T) /\ Len(t) = 3 /\ t[1] = a /\ t[2] = b /\ t[3] = c
  <2>1. s \in Seq(T) /\ c \in T
    BY <1>1
  <2>2. /\ t \in Seq(T) /\ Len(t) = Len(s) + 1 /\ t[Len(s) + 1] = c
        /\ \A i \in 1 .. Len(s) : t[i] = s[i]
    BY <2>1, AppendProperties
  <2> HIDE DEF t
  <2>3. \A i \in {1, 2} : i \in 1 .. 2
    OBVIOUS
  <2> QED
    BY <1>1, <2>2, <2>3
<1> HIDE DEF t
<1>3. \A i \in 1 .. 3 : i = 1 \/ i = 2 \/ i = 3
  OBVIOUS
<1>4. t = u
  BY <1>1, <1>2, <1>3, SameSeq
<1> QED
  BY <1>4 DEF s, t, u

\* ... to three,
LEMMA Appended4 ==
    ASSUME NEW a, NEW b, NEW c, NEW d PROVE Append(<<a, b, c>>, d) = <<a, b, c, d>>
<1> DEFINE T == {a, b, c, d}
           s == <<a, b, c>>
           t == Append(s, d)
           u == <<a, b, c, d>>
<1>1. /\ s \in Seq(T) /\ Len(s) = 3 /\ s[1] = a /\ s[2] = b /\ s[3] = c
      /\ u \in Seq(T) /\ Len(u) = 4 /\ u[1] = a /\ u[2] = b /\ u[3] = c /\ u[4] = d
  OBVIOUS
<1> HIDE DEF s, u
<1>2. t \in Seq(T) /\ Len(t) = 4 /\ t[1] = a /\ t[2] = b /\ t[3] = c /\ t[4] = d
  <2>1. s \in Seq(T) /\ d \in T
    BY <1>1
  <2>2. /\ t \in Seq(T) /\ Len(t) = Len(s) + 1 /\ t[Len(s) + 1] = d
        /\ \A i \in 1 .. Len(s) : t[i] = s[i]
    BY <2>1, AppendProperties
  <2> HIDE DEF t
  <2>3. \A i \in {1, 2, 3} : i \in 1 .. 3
    OBVIOUS
  <2> QED
    BY <1>1, <2>2, <2>3
<1> HIDE DEF t
<1>3. \A i \in 1 .. 4 : i = 1 \/ i = 2 \/ i = 3 \/ i = 4
  OBVIOUS
<1>4. t = u
  BY <1>1, <1>2, <1>3, SameSeq
<1> QED
  BY <1>4 DEF s, t, u

\* ... and to four.
LEMMA Appended5 ==
    ASSUME NEW a, NEW b, NEW c, NEW d, NEW e PROVE Append(<<a, b, c, d>>, e) = <<a, b, c, d, e>>
<1> DEFINE T == {a, b, c, d, e}
           s == <<a, b, c, d>>
           t == Append(s, e)
           u == <<a, b, c, d, e>>
<1>1. /\ s \in Seq(T) /\ Len(s) = 4 /\ s[1] = a /\ s[2] = b /\ s[3] = c /\ s[4] = d
      /\ u \in Seq(T) /\ Len(u) = 5 /\ u[1] = a /\ u[2] = b /\ u[3] = c /\ u[4] = d /\ u[5] = e
  OBVIOUS
<1> HIDE DEF s, u
<1>2. t \in Seq(T) /\ Len(t) = 5 /\ t[1] = a /\ t[2] = b /\ t[3] = c /\ t[4] = d /\ t[5] = e
  <2>1. s \in Seq(T) /\ e \in T
    BY <1>1
  <2>2. /\ t \in Seq(T) /\ Len(t) = Len(s) + 1 /\ t[Len(s) + 1] = e
        /\ \A i \in 1 .. Len(s) : t[i] = s[i]
    BY <2>1, AppendProperties
  <2> HIDE DEF t
  <2>3. \A i \in {1, 2, 3, 4} : i \in 1 .. 4
    OBVIOUS
  <2> QED
    BY <1>1, <2>2, <2>3
<1> HIDE DEF t
<1>3. \A i \in 1 .. 5 : i = 1 \/ i = 2 \/ i = 3 \/ i = 4 \/ i = 5
  OBVIOUS
<1>4. t = u
  BY <1>1, <1>2, <1>3, SameSeq
<1> QED
  BY <1>4 DEF s, t, u

\* Without the last of few elements.
LEMMA Front1 ==
    ASSUME NEW a PROVE S!Front(<<a>>) = <<>> /\ S!Last(<<a>>) = a
<1>1. Len(<<a>>) = 1 /\ <<a>>[1] = a /\ SubSeq(<<a>>, 1, 0) = <<>> /\ 1 - 1 = 0
  OBVIOUS
<1> QED
  BY <1>1 DEF S!Front, S!Last

\* ... of two,
LEMMA Front2 ==
    ASSUME NEW a, NEW b PROVE S!Front(<<a, b>>) = <<a>> /\ S!Last(<<a, b>>) = b
<1> DEFINE T == {a, b}
           s == <<a, b>>
           t == SubSeq(s, 1, 1)
           u == <<a>>
<1>1. /\ s \in Seq(T) /\ Len(s) = 2 /\ s[1] = a /\ s[2] = b
      /\ u \in Seq(T) /\ Len(u) = 1 /\ u[1] = a
  OBVIOUS
<1> HIDE DEF s, u
<1>2. t \in Seq(T) /\ Len(t) = 1 /\ t[1] = a
  <2>1. /\ SubSeq(s, 1, 0 + 1) = Append(SubSeq(s, 1, 0), s[0 + 1]) /\ SubSeq(s, 1, 0) = <<>>
    BY <1>1, Fronts
  <2> QED
    BY <1>1, <2>1, Appended1 DEF u
<1> HIDE DEF t
<1>3. \A i \in 1 .. 1 : i = 1
  OBVIOUS
<1>4. t = u
  BY <1>1, <1>2, <1>3, SameSeq
<1>5. 2 - 1 = 1
  OBVIOUS
<1>6. S!Front(s) = t /\ S!Last(s) = b
  BY <1>1, <1>5 DEF S!Front, S!Last, t
<1> QED
  BY <1>4, <1>6 DEF s, u

\* ... and of three.
LEMMA Front3 ==
    ASSUME NEW a, NEW b, NEW c PROVE S!Front(<<a, b, c>>) = <<a, b>> /\ S!Last(<<a, b, c>>) = c
<1> DEFINE T == {a, b, c}
           s == <<a, b, c>>
           t == SubSeq(s, 1, 2)
           u == <<a, b>>
<1>1. /\ s \in Seq(T) /\ Len(s) = 3 /\ s[1] = a /\ s[2] = b /\ s[3] = c
      /\ u \in Seq(T) /\ Len(u) = 2 /\ u[1] = a /\ u[2] = b
  OBVIOUS
<1> HIDE DEF s, u
<1>2. t \in Seq(T) /\ Len(t) = 2 /\ t[1] = a /\ t[2] = b
  <2>1. \A i \in 1 .. 2 : s[i] \in T
    BY <1>1, ElementOfSeq
  <2>2. t \in Seq(T) /\ Len(t) = 2 /\ \A i \in 1 .. 2 : t[i] = s[1 + i - 1]
    BY <1>1, <2>1, SubSeqProperties
  <2> HIDE DEF t
  <2> QED
    BY <1>1, <2>2
<1> HIDE DEF t
<1>3. \A i \in 1 .. 2 : i = 1 \/ i = 2
  OBVIOUS
<1>4. t = u
  BY <1>1, <1>2, <1>3, SameSeq
<1>5. 3 - 1 = 2
  OBVIOUS
<1>6. S!Front(s) = t /\ S!Last(s) = c
  BY <1>1, <1>5 DEF S!Front, S!Last, t
<1> QED
  BY <1>4, <1>6 DEF s, u

-----------------------------------------------------------------------------
(* The JSON of messages *)

\* The placeholder of an attachment.
H(k) == S!Holder[k + 1]

\* Placeholders and names are JSON values.
LEMMA Holders ==
    /\ H(0) \in Plain /\ H(1) \in Plain /\ S!IsValue(H(0)) /\ S!IsValue(H(1))
    /\ H(0) \notin {"[", "]", ",", "event"}
    /\ S!Placeholder(0) = <<H(0)>> /\ S!Placeholder(1) = <<H(1)>>
    /\ S!IsValue("event") /\ S!IsValue("json") /\ S!IsValue("text")
<1>1. DOMAIN S!Holder = 1 .. 10 /\ 1 \in 1 .. 10 /\ 2 \in 1 .. 10 /\ 0 + 1 = 1 /\ 1 + 1 = 2
  BY DEF S!Holder
<1>2. H(0) \in Plain /\ H(1) \in Plain
  BY <1>1, Literals DEF H
<1>3. S!IsValue(H(0)) /\ S!IsValue(H(1))
  BY <1>1 DEF H, S!IsValue
<1>4. H(0) \notin {"[", "]", ",", "event"}
  BY <1>1 DEF H, S!Holder
<1>5. S!Placeholder(0) = <<H(0)>> /\ S!Placeholder(1) = <<H(1)>>
  BY DEF S!Placeholder, H
<1>6. S!IsValue("event") /\ S!IsValue("json") /\ S!IsValue("text")
  BY DEF S!IsValue
<1> QED
  BY <1>2, <1>3, <1>4, <1>5, <1>6

\* Values between brackets with commas between them are JSON.
Listed(t) == \A i \in 2 .. Len(t) - 1 : IF i % 2 = 0 THEN S!IsValue(t[i]) ELSE t[i] = ","

\* ... since IsJson asks for no more.
LEMMA ListIsJson ==
    ASSUME NEW t, Len(t) % 2 = 1, Len(t) > 2, t[1] = "[", t[Len(t)] = "]", Listed(t)
    PROVE  S!IsJson(t)
BY ZenonT(30) DEF S!IsJson, Listed

\* Arrays of up to three values are JSON.
LEMMA Arrays ==
    ASSUME NEW x, NEW y, NEW z, S!IsValue(x), S!IsValue(y), S!IsValue(z)
    PROVE  /\ S!IsJson(<<x>>) /\ S!IsJson(<<"[", "]">>) /\ S!IsJson(<<"[", x, "]">>)
           /\ S!IsJson(<<"[", x, ",", y, "]">>) /\ S!IsJson(<<"[", x, ",", y, ",", z, "]">>)
<1>1. S!IsJson(<<x>>)
  BY DEF S!IsJson
<1>2. S!IsJson(<<"[", "]">>)
  BY DEF S!IsJson
<1>3. S!IsJson(<<"[", x, "]">>)
  <2> DEFINE t == <<"[", x, "]">>
  <2>0. Len(t) = 3
    OBVIOUS
  <2>1. Len(t) = 3 /\ t[1] = "[" /\ t[2] = x /\ t[3] = "]"
    OBVIOUS
  <2>2. \A i \in 2 .. Len(t) - 1 : i = 2
    BY <2>1
  <2>3. 2 % 2 = 0 /\ 3 % 2 = 1 /\ 4 % 2 = 0 /\ 5 % 2 = 1 /\ 6 % 2 = 0 /\ 7 % 2 = 1
    OBVIOUS
  <2> HIDE DEF t
  <2>4. Listed(t)
    <3> SUFFICES ASSUME NEW i \in 2 .. Len(t) - 1
                 PROVE  IF i % 2 = 0 THEN S!IsValue(t[i]) ELSE t[i] = ","
      BY DEF Listed
    <3>1. /\ i % 2 = 0 => S!IsValue(t[i])
          /\ i % 2 # 0 => t[i] = ","
      BY <2>1, <2>2, <2>3
    <3> QED
      BY <3>1
  <2>5. Len(t) % 2 = 1 /\ Len(t) > 2
    BY <2>0
  <2>6. t[1] = "[" /\ t[Len(t)] = "]"
    BY <2>1
  <2> QED
    BY <2>4, <2>5, <2>6, ListIsJson DEF t
<1>4. S!IsJson(<<"[", x, ",", y, "]">>)
  <2> DEFINE t == <<"[", x, ",", y, "]">>
  <2>0. Len(t) = 5
    OBVIOUS
  <2>1. Len(t) = 5 /\ t[1] = "[" /\ t[2] = x /\ t[3] = "," /\ t[4] = y /\ t[5] = "]"
    OBVIOUS
  <2>2. \A i \in 2 .. Len(t) - 1 : i = 2 \/ i = 3 \/ i = 4
    BY <2>1
  <2>3. 2 % 2 = 0 /\ 3 % 2 = 1 /\ 4 % 2 = 0 /\ 5 % 2 = 1 /\ 6 % 2 = 0 /\ 7 % 2 = 1
    OBVIOUS
  <2> HIDE DEF t
  <2>4. Listed(t)
    <3> SUFFICES ASSUME NEW i \in 2 .. Len(t) - 1
                 PROVE  IF i % 2 = 0 THEN S!IsValue(t[i]) ELSE t[i] = ","
      BY DEF Listed
    <3>1. /\ i % 2 = 0 => S!IsValue(t[i])
          /\ i % 2 # 0 => t[i] = ","
      BY <2>1, <2>2, <2>3
    <3> QED
      BY <3>1
  <2>5. Len(t) % 2 = 1 /\ Len(t) > 2
    BY <2>0
  <2>6. t[1] = "[" /\ t[Len(t)] = "]"
    BY <2>1
  <2> QED
    BY <2>4, <2>5, <2>6, ListIsJson DEF t
<1>5. S!IsJson(<<"[", x, ",", y, ",", z, "]">>)
  <2> DEFINE t == <<"[", x, ",", y, ",", z, "]">>
  <2>0. Len(t) = 7
    OBVIOUS
  <2>1. /\ Len(t) = 7 /\ t[1] = "[" /\ t[2] = x /\ t[3] = "," /\ t[4] = y /\ t[5] = ","
        /\ t[6] = z /\ t[7] = "]"
    OBVIOUS
  <2>2. \A i \in 2 .. Len(t) - 1 : i = 2 \/ i = 3 \/ i = 4 \/ i = 5 \/ i = 6
    BY <2>1
  <2>3. 2 % 2 = 0 /\ 3 % 2 = 1 /\ 4 % 2 = 0 /\ 5 % 2 = 1 /\ 6 % 2 = 0 /\ 7 % 2 = 1
    OBVIOUS
  <2> HIDE DEF t
  <2>4. Listed(t)
    <3> SUFFICES ASSUME NEW i \in 2 .. Len(t) - 1
                 PROVE  IF i % 2 = 0 THEN S!IsValue(t[i]) ELSE t[i] = ","
      BY DEF Listed
    <3>1. /\ i % 2 = 0 => S!IsValue(t[i])
          /\ i % 2 # 0 => t[i] = ","
      BY <2>1, <2>2, <2>3
    <3> QED
      BY <3>1
  <2>5. Len(t) % 2 = 1 /\ Len(t) > 2
    BY <2>0
  <2>6. t[1] = "[" /\ t[Len(t)] = "]"
    BY <2>1
  <2> QED
    BY <2>4, <2>5, <2>6, ListIsJson DEF t
<1> QED
  BY <1>1, <1>2, <1>3, <1>4, <1>5

\* What is kept of a text that is given with its last element.
LEMMA BareStep ==
    ASSUME NEW s \in Seq(Plain), NEW e \in Plain, NEW t, Append(s, e) = t
    PROVE  Bare(t) = Kept(Bare(s), e)
BY BareGrows, Zenon

\* An array of one placeholder, behind a name or not, is read as that name.
LEMMA Unwrapped ==
    /\ S!Unwrap(<<"[", H(0), "]">>) = <<>>
    /\ S!Unwrap(<<"[", "event", ",", H(0), "]">>) = <<"event">>
<1>0. /\ "[" \in Plain /\ "]" \in Plain /\ "," \in Plain /\ "event" \in Plain /\ H(0) \in Plain
      /\ H(0) \notin {"[", "]", ",", "event"} /\ S!Placeholder(0) = <<H(0)>>
  BY Literals, Holders
<1> HIDE DEF H
<1>1. /\ \A s : Kept(s, H(0)) = s
      /\ \A s : \A e \in {"[", "]", ",", "event"} : Kept(s, e) = Append(s, e)
  <2>1. \A e : <<e>> = <<H(0)>> <=> e = H(0)
    OBVIOUS
  <2> HIDE DEF S!Placeholder
  <2> QED
    BY <1>0, <2>1 DEF Kept
<1> DEFINE a == "["
           b == "]"
           c == ","
           d == "event"
           h == H(0)
<1>2. a \in Plain /\ b \in Plain /\ c \in Plain /\ d \in Plain /\ h \in Plain
  BY <1>0
<1>8. /\ \A s : Kept(s, h) = s /\ Kept(s, a) = Append(s, a) /\ Kept(s, b) = Append(s, b)
                /\ Kept(s, c) = Append(s, c) /\ Kept(s, d) = Append(s, d)
      /\ a # b /\ c # b /\ d # a /\ b # a
  BY <1>0, <1>1
<1>3. Bare(<<a, h, b>>) = <<a, b>>
  <2> HIDE DEF a, b, c, d, h
  <2>1. /\ Append(<<>>, a) = <<a>> /\ Append(<<a>>, h) = <<a, h>>
        /\ Append(<<a, h>>, b) = <<a, h, b>>
        /\ Append(<<a>>, b) = <<a, b>>
    BY Appended1, Appended2, Appended3, Appended4, Appended5
  <2>2. <<>> \in Seq(Plain) /\ <<a>> \in Seq(Plain) /\ <<a, h>> \in Seq(Plain)
    BY <1>2
  <2>3. Bare(<<>>) = <<>>
    BY BareGrows
  <2>4. /\ Bare(<<a>>) = Kept(Bare(<<>>), a) /\ Bare(<<a, h>>) = Kept(Bare(<<a>>), h)
        /\ Bare(<<a, h, b>>) = Kept(Bare(<<a, h>>), b)
    BY <1>2, <2>1, <2>2, BareStep
  <2> QED
    BY <1>8, <2>1, <2>3, <2>4, Zenon
<1>4. Bare(<<a, d, c, h, b>>) = <<a, d, c, b>>
  <2> HIDE DEF a, b, c, d, h
  <2>1. /\ Append(<<>>, a) = <<a>> /\ Append(<<a>>, d) = <<a, d>>
        /\ Append(<<a, d>>, c) = <<a, d, c>> /\ Append(<<a, d, c>>, h) = <<a, d, c, h>>
        /\ Append(<<a, d, c, h>>, b) = <<a, d, c, h, b>>
    BY Appended1, Appended2, Appended3, Appended4, Appended5
  <2>2. /\ <<>> \in Seq(Plain) /\ <<a>> \in Seq(Plain) /\ <<a, d>> \in Seq(Plain)
        /\ <<a, d, c>> \in Seq(Plain) /\ <<a, d, c, h>> \in Seq(Plain)
    BY <1>2
  <2>3. Bare(<<a>>) = <<a>>
    <3>1. Bare(<<a>>) = Kept(Bare(<<>>), a)
      BY <1>2, <2>1, <2>2, BareStep
    <3>2. Bare(<<>>) = <<>>
      BY BareGrows
    <3> QED
      BY <1>8, <2>1, <3>1, <3>2, Zenon
  <2>4. Bare(<<a, d>>) = <<a, d>>
    <3>1. Bare(<<a, d>>) = Kept(Bare(<<a>>), d)
      BY <1>2, <2>1, <2>2, BareStep
    <3> QED
      BY <1>8, <2>1, <2>3, <3>1, Zenon
  <2>5. Bare(<<a, d, c>>) = <<a, d, c>>
    <3>1. Bare(<<a, d, c>>) = Kept(Bare(<<a, d>>), c)
      BY <1>2, <2>1, <2>2, BareStep
    <3> QED
      BY <1>8, <2>1, <2>4, <3>1, Zenon
  <2>6. Bare(<<a, d, c, h>>) = <<a, d, c>>
    <3>1. Bare(<<a, d, c, h>>) = Kept(Bare(<<a, d, c>>), h)
      BY <1>2, <2>1, <2>2, BareStep
    <3> QED
      BY <1>8, <2>5, <3>1, Zenon
  <2>7. Append(<<a, d, c>>, b) = <<a, d, c, b>>
    BY Appended4
  <2>8. Bare(<<a, d, c, h, b>>) = Kept(Bare(<<a, d, c, h>>), b)
    BY <1>2, <2>1, <2>2, BareStep
  <2> QED
    BY <1>8, <2>6, <2>7, <2>8, Zenon
<1>5. Stripped(<<a, b>>) = <<>>
  <2>1. Tail(<<a, b>>) = <<b>> /\ S!Front(<<b>>) = <<>> /\ S!Last(<<b>>) = b
    BY Front1, Front2, Front3
  <2> QED
    BY <2>1 DEF Stripped
<1>6. Stripped(<<a, d, c, b>>) = <<d>>
  <2>1. /\ Tail(<<a, d, c, b>>) = <<d, c, b>> /\ S!Front(<<d, c, b>>) = <<d, c>>
        /\ S!Last(<<d, c, b>>) = b /\ S!Last(<<d, c>>) = c /\ S!Front(<<d, c>>) = <<d>>
    <3> HIDE DEF a, b, c, d
    <3>1. Tail(<<a, d, c, b>>) = <<d, c, b>>
      OBVIOUS
    <3> QED
      BY <3>1, Front1, Front2, Front3
  <2>2. <<d, c>> # <<d, c, b>> /\ <<d, c>> # <<>> /\ <<d, c, b>> # <<>> /\ <<a, d, c, b>> # <<>>
        /\ <<a, d, c, b>>[1] = a
    OBVIOUS
  <2> QED
    BY <2>1, <2>2 DEF Stripped
<1>7. <<a, h, b>> \in Seq(Plain) /\ <<a, d, c, h, b>> \in Seq(Plain)
  <2> HIDE DEF a, b, c, d, h
  <2> QED
    BY <1>2
<1> QED
  BY <1>3, <1>4, <1>5, <1>6, <1>7, UnwrapIs

\* The elements of an array with commas between them, in brackets.
Array(elements) ==
    <<"[">> \o [i \in 1 .. 2 * Len(elements) - 1 |->
                   IF i % 2 = 1 THEN elements[(i + 1) \div 2] ELSE ","] \o <<"]">>

\* The array of no elements,
LEMMA Array0 ==
    Array(<<>>) = <<"[", "]">>
<1> DEFINE a == "["
           b == "]"
           c == ","
           between(elements) == [i \in 1 .. 2 * Len(elements) - 1 |->
                   IF i % 2 = 1 THEN elements[(i + 1) \div 2] ELSE ","]
<1>1. between(<<>>) = <<>>
  <2>1. Len(<<>>) = 0 /\ 1 .. 2 * 0 - 1 = {}
    OBVIOUS
  <2>2. between(<<>>) = [i \in {} |-> IF i % 2 = 1 THEN <<>>[(i + 1) \div 2] ELSE ","]
    BY <2>1
  <2> QED
    BY <2>2
<1>2. Array(<<>>) = <<a>> \o between(<<>>) \o <<b>>
  BY DEF Array
<1> HIDE DEF a, b, c, between
<1>3. Array(<<>>) = <<a, b>>
  BY <1>1, <1>2, Enclosed2
<1> QED
  BY <1>3 DEF a, b, c

\* ... of one,
LEMMA Array1 ==
    ASSUME NEW x \in Plain
    PROVE  Array(<<x>>) = <<"[", x, "]">>
<1> DEFINE a == "["
           b == "]"
           c == ","
           between(elements) == [i \in 1 .. 2 * Len(elements) - 1 |->
                   IF i % 2 = 1 THEN elements[(i + 1) \div 2] ELSE ","]
<1>1. between(<<x>>) = <<x>>
  <2>1. Len(<<x>>) = 1 /\ 1 .. 2 * 1 - 1 = 1 .. 1 /\ <<x>>[1] = x /\ 1 % 2 = 1 /\ (1 + 1) \div 2 = 1
    OBVIOUS
  <2>2. between(<<x>>) = [i \in 1 .. 1 |-> IF i % 2 = 1 THEN <<x>>[(i + 1) \div 2] ELSE ","]
    BY <2>1
  <2>3. \A i \in 1 .. 1 : i = 1
    OBVIOUS
  <2>4. between(<<x>>) = [i \in 1 .. 1 |-> x]
    BY <2>1, <2>2, <2>3
  <2> QED
    BY <2>4
<1>2. Array(<<x>>) = <<a>> \o between(<<x>>) \o <<b>>
  BY DEF Array
<1> HIDE DEF a, b, c, between
<1>3. Array(<<x>>) = <<a, x, b>>
  BY <1>1, <1>2, Enclosed3
<1> QED
  BY <1>3 DEF a, b, c

\* ... of two,
LEMMA Array2 ==
    ASSUME NEW x \in Plain, NEW y \in Plain
    PROVE  Array(<<x, y>>) = <<"[", x, ",", y, "]">>
<1> DEFINE a == "["
           b == "]"
           c == ","
           between(elements) == [i \in 1 .. 2 * Len(elements) - 1 |->
                   IF i % 2 = 1 THEN elements[(i + 1) \div 2] ELSE ","]
<1>0. c \in Plain
  BY Literals
<1>1. between(<<x, y>>) = <<x, c, y>>
  <2>1. /\ Len(<<x, y>>) = 2 /\ 2 * 2 - 1 = 3 /\ <<x, y>>[1] = x /\ <<x, y>>[2] = y
        /\ 1 % 2 = 1 /\ 2 % 2 = 0 /\ 3 % 2 = 1 /\ (1 + 1) \div 2 = 1 /\ (3 + 1) \div 2 = 2
    OBVIOUS
  <2> DEFINE t == between(<<x, y>>)
             u == <<x, c, y>>
  <2>2. t = [i \in 1 .. 3 |-> IF i % 2 = 1 THEN <<x, y>>[(i + 1) \div 2] ELSE ","]
    BY <2>1
  <2>3. \A i \in 1 .. 3 : i = 1 \/ i = 2 \/ i = 3
    OBVIOUS
  <2>4. \A i \in 1 .. 3 : t[i] \in Plain /\ t[i] = u[i]
    <3>1. t[1] = x /\ t[2] = c /\ t[3] = y
      BY <2>1, <2>2
    <3>2. u[1] = x /\ u[2] = c /\ u[3] = y
      OBVIOUS
    <3> HIDE DEF t, u, c
    <3> QED
      BY <1>0, <2>3, <3>1, <3>2
  <2>5. t \in Seq(Plain) /\ Len(t) = 3
    <3> HIDE DEF t, u
    <3>1. t \in [1 .. 3 -> Plain]
      BY <2>2, <2>4
    <3> QED
      BY <3>1, FunctionIsSeq
  <2>6. u \in Seq(Plain) /\ Len(u) = 3
    <3> HIDE DEF c
    <3> QED
      BY <1>0
  <2> HIDE DEF t, u
  <2>7. t = u
    BY <2>4, <2>5, <2>6, SameSeq
  <2> QED
    BY <2>7 DEF t, u
<1>2. Array(<<x, y>>) = <<a>> \o between(<<x, y>>) \o <<b>>
  BY DEF Array
<1> HIDE DEF a, b, c, between
<1>3. Array(<<x, y>>) = <<a, x, c, y, b>>
  BY <1>1, <1>2, Enclosed5
<1> QED
  BY <1>3 DEF a, b, c

\* ... and of three.
LEMMA Array3 ==
    ASSUME NEW x \in Plain, NEW y \in Plain, NEW z \in Plain
    PROVE  Array(<<x, y, z>>) = <<"[", x, ",", y, ",", z, "]">>
<1> DEFINE a == "["
           b == "]"
           c == ","
           between(elements) == [i \in 1 .. 2 * Len(elements) - 1 |->
                   IF i % 2 = 1 THEN elements[(i + 1) \div 2] ELSE ","]
<1>0. c \in Plain
  BY Literals
<1>1. between(<<x, y, z>>) = <<x, c, y, c, z>>
  <2> DEFINE e == <<x, y, z>>
             t == between(<<x, y, z>>)
             u == <<x, c, y, c, z>>
  <2>1. /\ Len(e) = 3 /\ 2 * 3 - 1 = 5 /\ e[1] = x /\ e[2] = y /\ e[3] = z
    OBVIOUS
  <2>9. /\ 1 % 2 = 1 /\ 2 % 2 = 0 /\ 3 % 2 = 1 /\ 4 % 2 = 0 /\ 5 % 2 = 1
        /\ (1 + 1) \div 2 = 1 /\ (3 + 1) \div 2 = 2 /\ (5 + 1) \div 2 = 3
    OBVIOUS
  <2>2. t = [i \in 1 .. 5 |-> IF i % 2 = 1 THEN e[(i + 1) \div 2] ELSE ","]
    BY <2>1
  <2>3. \A i \in 1 .. 5 : i = 1 \/ i = 2 \/ i = 3 \/ i = 4 \/ i = 5
    OBVIOUS
  <2>4. \A i \in 1 .. 5 : t[i] \in Plain /\ t[i] = u[i]
    <3>1. t[1] = x /\ t[2] = c /\ t[3] = y /\ t[4] = c /\ t[5] = z
      <4>1. t[1] = x /\ t[2] = c
        BY <2>1, <2>2, <2>9
      <4>2. t[3] = y /\ t[4] = c
        BY <2>1, <2>2, <2>9
      <4>3. t[5] = z
        BY <2>1, <2>2, <2>9
      <4> QED
        BY <4>1, <4>2, <4>3
    <3>2. u[1] = x /\ u[2] = c /\ u[3] = y /\ u[4] = c /\ u[5] = z
      OBVIOUS
    <3> HIDE DEF t, u, c
    <3> QED
      BY <1>0, <2>3, <3>1, <3>2
  <2>5. t \in Seq(Plain) /\ Len(t) = 5
    <3> HIDE DEF t, u
    <3>1. t \in [1 .. 5 -> Plain]
      BY <2>2, <2>4
    <3> QED
      BY <3>1, FunctionIsSeq
  <2>6. u \in Seq(Plain) /\ Len(u) = 5
    <3> HIDE DEF c
    <3> QED
      BY <1>0
  <2> HIDE DEF t, u
  <2>7. t = u
    BY <2>4, <2>5, <2>6, SameSeq
  <2> QED
    BY <2>7 DEF t, u
<1>2. Array(<<x, y, z>>) = <<a>> \o between(<<x, y, z>>) \o <<b>>
  BY DEF Array
<1> HIDE DEF a, b, c, between
<1>3. Array(<<x, y, z>>) = <<a, x, c, y, c, z, b>>
  BY <1>1, <1>2, Enclosed7
<1> QED
  BY <1>3 DEF a, b, c

\* Few elements one behind the other.
LEMMA FewJoined ==
    /\ <<>> \o <<>> \o <<>> = <<>>
    /\ \A x : <<>> \o <<x>> \o <<>> = <<x>> /\ <<>> \o <<>> \o <<x>> = <<x>>
    /\ \A x, y : <<x>> \o <<y>> \o <<>> = <<x, y>> /\ <<x>> \o <<>> \o <<y>> = <<x, y>>
    /\ \A x, y, z : <<x>> \o <<>> \o <<y, z>> = <<x, y, z>>
<1>1. \A T : \A s \in Seq(T) : s \o <<>> = s /\ <<>> \o s = s
  BY ConcatEmptySeq
<1>2. <<>> \o <<>> \o <<>> = <<>>
  <2>1. <<>> \in Seq({})
    OBVIOUS
  <2> QED
    BY <1>1, <2>1
<1>3. ASSUME NEW x PROVE <<>> \o <<x>> \o <<>> = <<x>> /\ <<>> \o <<>> \o <<x>> = <<x>>
  <2>1. <<x>> \in Seq({x})
    OBVIOUS
  <2> QED
    BY <1>1, <1>2, <2>1
<1>4. ASSUME NEW x, NEW y
      PROVE  <<x>> \o <<y>> = <<x, y>> /\ <<x>> \o <<y>> \o <<>> = <<x, y>>
             /\ <<x>> \o <<>> \o <<y>> = <<x, y>>
  <2> DEFINE T == {x, y}
  <2>1. <<x>> \in Seq(T) /\ <<x, y>> \in Seq(T) /\ x \in T /\ y \in T
    OBVIOUS
  <2> HIDE DEF T
  <2>2. <<x>> \o <<y>> = <<x, y>>
    <3>1. <<x>> \o <<y>> = Append(<<x>>, y)
      BY <2>1, AppendIsConcat
    <3> QED
      BY <3>1, Appended2
  <2>3. <<x>> \o <<>> = <<x>> /\ <<x, y>> \o <<>> = <<x, y>>
    BY <1>1, <2>1
  <2> QED
    BY <2>2, <2>3
<1>5. ASSUME NEW x, NEW y, NEW z PROVE <<x>> \o <<>> \o <<y, z>> = <<x, y, z>>
  <2> DEFINE T == {x, y, z}
  <2>1. <<x>> \in Seq(T) /\ <<y>> \in Seq(T) /\ x \in T /\ y \in T /\ z \in T
    OBVIOUS
  <2> HIDE DEF T
  <2>2. <<y, z>> = Append(<<y>>, z)
    BY Appended2
  <2>3. <<x>> \o Append(<<y>>, z) = Append(<<x>> \o <<y>>, z)
    BY <2>1, ConcatAppend
  <2>4. <<x>> \o <<>> = <<x>>
    BY <1>1, <2>1
  <2>5. <<x>> \o <<y>> = <<x, y>>
    BY <1>4
  <2> QED
    BY <2>2, <2>3, <2>4, <2>5, Appended3
<1> QED
  BY <1>2, <1>3, <1>4, <1>5

\* The placeholders of up to two attachments.
LEMMA FewPlaceholders ==
    /\ [k \in DOMAIN <<>> |-> S!Placeholder(k - 1)[1]] = <<>>
    /\ \A a : [k \in DOMAIN <<a>> |-> S!Placeholder(k - 1)[1]] = <<H(0)>>
    /\ \A a, b : [k \in DOMAIN <<a, b>> |-> S!Placeholder(k - 1)[1]] = <<H(0), H(1)>>
<1>1. S!Placeholder(1 - 1)[1] = H(0) /\ S!Placeholder(2 - 1)[1] = H(1)
  <2>1. (1 - 1) + 1 = 0 + 1 /\ (2 - 1) + 1 = 1 + 1
    OBVIOUS
  <2>2. <<S!Holder[(1 - 1) + 1]>>[1] = S!Holder[(1 - 1) + 1]
    OBVIOUS
  <2>3. <<S!Holder[(2 - 1) + 1]>>[1] = S!Holder[(2 - 1) + 1]
    OBVIOUS
  <2> QED
    BY <2>1, <2>2, <2>3 DEF S!Placeholder, H
<1>2. DOMAIN <<>> = {} /\ \A a, b : DOMAIN <<a>> = 1 .. 1 /\ DOMAIN <<a, b>> = 1 .. 2
  OBVIOUS
<1>3. \A k \in 1 .. 1 : k = 1
  OBVIOUS
<1>4. \A k \in 1 .. 2 : k = 1 \/ k = 2
  OBVIOUS
<1> DEFINE p(k) == S!Placeholder(k - 1)[1]
           h == H(0)
           g == H(1)
<1>5. p(1) = h /\ p(2) = g
  BY <1>1
<1> HIDE DEF p, h, g
<1>6. [k \in 1 .. 1 |-> p(k)] = <<h>>
  BY <1>3, <1>5
<1>7. [k \in 1 .. 2 |-> p(k)] = <<h, g>>
  <2> DEFINE t == [k \in 1 .. 2 |-> p(k)]
             u == <<h, g>>
             T == {h, g}
  <2>1. t \in [1 .. 2 -> T] /\ t[1] = h /\ t[2] = g
    BY <1>4, <1>5
  <2>2. u \in Seq(T) /\ Len(u) = 2 /\ u[1] = h /\ u[2] = g
    OBVIOUS
  <2> HIDE DEF t, u, T
  <2>3. t \in Seq(T) /\ Len(t) = 2
    BY <2>1, FunctionIsSeq
  <2>4. t = u
    BY <1>4, <2>1, <2>2, <2>3, SameSeq
  <2> QED
    BY <2>4 DEF t, u
<1> QED
  BY <1>2, <1>6, <1>7 DEF p, h, g

\* The text of a message's data.
LEMMA JsonIsArray ==
    ASSUME NEW nsp, NEW id, NEW event, event \in {"Event", "BinaryEvent", "Ack", "BinaryAck"},
           NEW name, NEW args, NEW attachments
    PROVE  Json(Message(event, nsp, id, name, args, attachments))
             = Array(name \o args \o [k \in DOMAIN attachments |-> S!Placeholder(k - 1)[1]])
<1> DEFINE m == Message(event, nsp, id, name, args, attachments)
<1>1. /\ m.type = event /\ m.name = name /\ m.args = args /\ m.attachments = attachments
  BY DEF Message
<1> HIDE DEF m
<1>2. Json(m) = Array(Elements(m))
  BY <1>1 DEF Json, Array
<1>3. Elements(m) = name \o args \o [k \in DOMAIN attachments |-> S!Placeholder(k - 1)[1]]
  BY <1>1 DEF Elements
<1> QED
  BY <1>2, <1>3 DEF m

\* What is an array without elements,
LEMMA JsonsOfNone ==
    ASSUME NEW nsp, NEW id, NEW event, event \in {"Event", "BinaryEvent", "Ack", "BinaryAck"}
    PROVE  Json(Message(event, nsp, id, <<>>, <<>>, <<>>)) = <<"[", "]">>
<1> DEFINE d == "event"
           h == H(0)
           g == H(1)
           holes(attachments) == [k \in DOMAIN attachments |-> S!Placeholder(k - 1)[1]]
<1>1. d \in Plain /\ h \in Plain /\ g \in Plain
  BY Literals, Holders
<1>2. /\ holes(<<>>) = <<>> /\ \A a : holes(<<a>>) = <<h>>
      /\ \A a, b : holes(<<a, b>>) = <<h, g>>
  BY FewPlaceholders
<1>3. \A name, args, attachments :
          Json(Message(event, nsp, id, name, args, attachments))
            = Array(name \o args \o holes(attachments))
  BY JsonIsArray
<1> HIDE DEF holes, d, h, g
<1>4. <<>> \o <<>> \o holes(<<>>) = <<>>
  BY <1>2, FewJoined
<1>5. Array(<<>>) = <<"[", "]">>
  BY Array0
<1>6. Json(Message(event, nsp, id, <<>>, <<>>, <<>>)) = Array(<<>> \o <<>> \o holes(<<>>))
  BY <1>3, Zenon
<1> QED
  BY <1>4, <1>5, <1>6

\* ... of a text, behind a name or not,
LEMMA JsonsOfText ==
    ASSUME NEW nsp, NEW id, NEW event, event \in {"Event", "BinaryEvent", "Ack", "BinaryAck"},
           NEW text \in {"json", "text"}
    PROVE  /\ Json(Message(event, nsp, id, <<>>, <<text>>, <<>>)) = <<"[", text, "]">>
           /\ Json(Message(event, nsp, id, <<"event">>, <<text>>, <<>>))
                = <<"[", "event", ",", text, "]">>
<1> DEFINE d == "event"
           h == H(0)
           g == H(1)
           holes(attachments) == [k \in DOMAIN attachments |-> S!Placeholder(k - 1)[1]]
<1>1. d \in Plain /\ h \in Plain /\ g \in Plain
  BY Literals, Holders
<1>2. /\ holes(<<>>) = <<>> /\ \A a : holes(<<a>>) = <<h>>
      /\ \A a, b : holes(<<a, b>>) = <<h, g>>
  BY FewPlaceholders
<1>3. \A name, args, attachments :
          Json(Message(event, nsp, id, name, args, attachments))
            = Array(name \o args \o holes(attachments))
  BY JsonIsArray
<1> HIDE DEF holes, d, h, g
<1>4. text \in Plain
  BY Literals
<1>5. Json(Message(event, nsp, id, <<>>, <<text>>, <<>>)) = <<"[", text, "]">>
  <2>1. <<>> \o <<text>> \o holes(<<>>) = <<text>>
    BY <1>2, FewJoined
  <2>2. Array(<<text>>) = <<"[", text, "]">>
    BY <1>4, Array1
  <2>3. Json(Message(event, nsp, id, <<>>, <<text>>, <<>>))
          = Array(<<>> \o <<text>> \o holes(<<>>))
    BY <1>3, Zenon
  <2> QED
    BY <2>1, <2>2, <2>3, Zenon
<1>6. Json(Message(event, nsp, id, <<d>>, <<text>>, <<>>)) = <<"[", d, ",", text, "]">>
  <2>1. <<d>> \o <<text>> \o holes(<<>>) = <<d, text>>
    <3>1. <<d>> \o <<text>> \o <<>> = <<d, text>>
      BY FewJoined
    <3> QED
      BY <1>2, <3>1
  <2>2. Array(<<d, text>>) = <<"[", d, ",", text, "]">>
    BY <1>1, <1>4, Array2
  <2>3. Json(Message(event, nsp, id, <<d>>, <<text>>, <<>>))
          = Array(<<d>> \o <<text>> \o holes(<<>>))
    BY <1>3, Zenon
  <2> QED
    BY <2>1, <2>2, <2>3, Zenon
<1> QED
  BY <1>5, <1>6 DEF d

\* ... of the placeholder of one attachment,
LEMMA JsonsOfOne ==
    ASSUME NEW nsp, NEW id, NEW event, event \in {"Event", "BinaryEvent", "Ack", "BinaryAck"}, NEW a
    PROVE  /\ Json(Message(event, nsp, id, <<>>, <<>>, <<a>>)) = <<"[", H(0), "]">>
           /\ Json(Message(event, nsp, id, <<"event">>, <<>>, <<a>>))
                = <<"[", "event", ",", H(0), "]">>
<1> DEFINE d == "event"
           h == H(0)
           g == H(1)
           holes(attachments) == [k \in DOMAIN attachments |-> S!Placeholder(k - 1)[1]]
<1>1. d \in Plain /\ h \in Plain /\ g \in Plain
  BY Literals, Holders
<1>2. /\ holes(<<>>) = <<>> /\ \A x : holes(<<x>>) = <<h>>
      /\ \A x, y : holes(<<x, y>>) = <<h, g>>
  BY FewPlaceholders
<1>3. \A name, args, attachments :
          Json(Message(event, nsp, id, name, args, attachments))
            = Array(name \o args \o holes(attachments))
  BY JsonIsArray
<1> HIDE DEF holes, d, h, g
<1>4. Json(Message(event, nsp, id, <<>>, <<>>, <<a>>)) = <<"[", h, "]">>
  <2>1. <<>> \o <<>> \o holes(<<a>>) = <<h>>
    BY <1>2, FewJoined
  <2>2. Array(<<h>>) = <<"[", h, "]">>
    BY <1>1, Array1
  <2>3. Json(Message(event, nsp, id, <<>>, <<>>, <<a>>))
          = Array(<<>> \o <<>> \o holes(<<a>>))
    BY <1>3, Zenon
  <2> QED
    BY <2>1, <2>2, <2>3, Zenon
<1>5. Json(Message(event, nsp, id, <<d>>, <<>>, <<a>>)) = <<"[", d, ",", h, "]">>
  <2>1. <<d>> \o <<>> \o holes(<<a>>) = <<d, h>>
    <3>1. <<d>> \o <<>> \o <<h>> = <<d, h>>
      BY FewJoined
    <3> QED
      BY <1>2, <3>1
  <2>2. Array(<<d, h>>) = <<"[", d, ",", h, "]">>
    BY <1>1, Array2
  <2>3. Json(Message(event, nsp, id, <<d>>, <<>>, <<a>>))
          = Array(<<d>> \o <<>> \o holes(<<a>>))
    BY <1>3, Zenon
  <2> QED
    BY <2>1, <2>2, <2>3, Zenon
<1> QED
  BY <1>4, <1>5 DEF d, h

\* ... and of those of two.
LEMMA JsonsOfTwo ==
    ASSUME NEW nsp, NEW id, NEW event, event \in {"Event", "BinaryEvent", "Ack", "BinaryAck"},
           NEW a, NEW b
    PROVE  Json(Message(event, nsp, id, <<"event">>, <<>>, <<a, b>>))
             = <<"[", "event", ",", H(0), ",", H(1), "]">>
<1> DEFINE d == "event"
           h == H(0)
           g == H(1)
           holes(attachments) == [k \in DOMAIN attachments |-> S!Placeholder(k - 1)[1]]
<1>1. d \in Plain /\ h \in Plain /\ g \in Plain
  BY Literals, Holders
<1>2. /\ holes(<<>>) = <<>> /\ \A x : holes(<<x>>) = <<h>>
      /\ \A x, y : holes(<<x, y>>) = <<h, g>>
  BY FewPlaceholders
<1>3. \A name, args, attachments :
          Json(Message(event, nsp, id, name, args, attachments))
            = Array(name \o args \o holes(attachments))
  BY JsonIsArray
<1> HIDE DEF holes, d, h, g
<1>4. <<d>> \o <<>> \o holes(<<a, b>>) = <<d, h, g>>
  <2>1. <<d>> \o <<>> \o <<h, g>> = <<d, h, g>>
    BY FewJoined
  <2> QED
    BY <1>2, <2>1
<1>5. Array(<<d, h, g>>) = <<"[", d, ",", h, ",", g, "]">>
  BY <1>1, Array3
<1>6. Json(Message(event, nsp, id, <<d>>, <<>>, <<a, b>>)) = <<"[", d, ",", h, ",", g, "]">>
  <2>1. Json(Message(event, nsp, id, <<d>>, <<>>, <<a, b>>))
          = Array(<<d>> \o <<>> \o holes(<<a, b>>))
    BY <1>3, Zenon
  <2> QED
    BY <1>4, <1>5, <2>1, Zenon
<1> QED
  BY <1>6 DEF d, h, g

\* Texts that are JSON, and are not read as an id or a namespace.
Good(text) ==
    text \in Seq(Plain) /\ text # <<>> /\ text[1] \in {"[", "json"} /\ S!IsJson(text)

\* All the JSON that messages have is such a text.
LEMMA GoodTexts ==
    /\ Good(<<"json">>) /\ Good(<<"[", "]">>)
    /\ \A x \in {"json", "text", H(0)} :
          Good(<<"[", x, "]">>) /\ Good(<<"[", "event", ",", x, "]">>)
    /\ Good(<<"[", "event", ",", H(0), ",", H(1), "]">>)
<1> DEFINE a == "["
           b == "]"
           c == ","
           d == "event"
           h == H(0)
           g == H(1)
           j == "json"
<1>1. /\ a \in Plain /\ b \in Plain /\ c \in Plain /\ d \in Plain /\ h \in Plain /\ g \in Plain
      /\ j \in Plain
      /\ S!IsValue(j) /\ S!IsValue(d) /\ S!IsValue(h) /\ S!IsValue(g)
  BY Literals, Holders
<1>2. \A x \in {"json", "text", h} : x \in Plain /\ S!IsValue(x)
  BY Literals, Holders
<1>3. S!IsJson(<<j>>) /\ S!IsJson(<<a, b>>) /\ S!IsJson(<<a, d, c, h, c, g, b>>)
  BY <1>1, Arrays
<1>4. \A x : S!IsValue(x) => S!IsJson(<<a, x, b>>) /\ S!IsJson(<<a, d, c, x, b>>)
  BY <1>1, Arrays
<1>5. a \in {"[", "json"} /\ j \in {"[", "json"}
  OBVIOUS
<1> HIDE DEF a, b, c, d, h, g, j
<1>6. Good(<<j>>) /\ Good(<<a, b>>)
  <2>1. <<j>> \in Seq(Plain) /\ <<j>>[1] = j /\ <<j>> # <<>>
    BY <1>1
  <2>2. <<a, b>> \in Seq(Plain) /\ <<a, b>>[1] = a /\ <<a, b>> # <<>>
    BY <1>1
  <2> QED
    BY <1>3, <1>5, <2>1, <2>2 DEF Good
<1>7. Good(<<a, d, c, h, c, g, b>>)
  <2>1. /\ <<a, d, c, h, c, g, b>> \in Seq(Plain) /\ <<a, d, c, h, c, g, b>>[1] = a
        /\ <<a, d, c, h, c, g, b>> # <<>>
    BY <1>1
  <2> QED
    BY <1>3, <1>5, <2>1 DEF Good
<1>8. ASSUME NEW x \in Plain, S!IsValue(x) PROVE Good(<<a, x, b>>) /\ Good(<<a, d, c, x, b>>)
  <2>1. <<a, x, b>> \in Seq(Plain) /\ <<a, x, b>>[1] = a /\ <<a, x, b>> # <<>>
    BY <1>1
  <2>2. <<a, d, c, x, b>> \in Seq(Plain) /\ <<a, d, c, x, b>>[1] = a /\ <<a, d, c, x, b>> # <<>>
    BY <1>1
  <2> QED
    BY <1>4, <1>5, <1>8, <2>1, <2>2 DEF Good
<1> QED
  BY <1>2, <1>6, <1>7, <1>8 DEF a, b, c, d, h, g, j

-----------------------------------------------------------------------------
(* Messages as text, and text as messages *)

\* What makes a message's text readable.
Legible(m) ==
    /\ m.type \in S!PacketType
    /\ m.nsp \in Namespaces \cup {S!DefaultNsp} /\ m.id \in Ids \cup {<<>>}
    /\ m.attachments \in Seq(Attachments) /\ Len(m.attachments) \in 0 .. 2
    /\ S!IsBinary(m.type) <=> Len(m.attachments) > 0
    /\ Json(m) # <<>> => Good(Json(m))
    /\ Json(m) = <<>> => m.id = <<>>
    /\ Len(m.attachments) = 1 => Json(m) # <<>> /\ S!Unwrap(Json(m)) = m.name

\* All messages of the server are readable.
LEMMA ServerMessages == \A m \in ServerMessage : Legible(m)
<1>0. /\ \A type \in {"Connect", "ConnectError", "Disconnect", "Event", "Ack"} :
            type \in S!PacketType /\ ~S!IsBinary(type)
      /\ \A type \in {"BinaryEvent", "BinaryAck"} : type \in S!PacketType /\ S!IsBinary(type)
      /\ Len(<<>>) = 0 /\ <<>> \in Seq(Attachments)
      /\ \A a \in Attachments : Len(<<a>>) = 1 /\ <<a>> \in Seq(Attachments)
      /\ \A a, b \in Attachments : Len(<<a, b>>) = 2 /\ <<a, b>> \in Seq(Attachments)
  BY DEF S!PacketType, S!IsBinary
<1>1. ASSUME NEW nsp \in Namespaces, NEW type \in {"Connect", "ConnectError"}
      PROVE  Legible(Message(type, nsp, <<>>, <<>>, <<"json">>, <<>>))
  <2> DEFINE m == Message(type, nsp, <<>>, <<>>, <<"json">>, <<>>)
  <2>1. /\ m.type = type /\ m.nsp = nsp /\ m.id = <<>> /\ m.name = <<>>
        /\ m.args = <<"json">> /\ m.attachments = <<>>
    BY DEF Message
  <2> HIDE DEF m
  <2>2. Json(m) = <<"json">>
    BY <2>1 DEF Json
  <2>3. /\ m.type \in S!PacketType /\ m.attachments \in Seq(Attachments)
        /\ Len(m.attachments) = 0 /\ ~S!IsBinary(m.type)
    BY <1>0, <2>1
  <2>4. Good(<<"json">>)
    BY GoodTexts
  <2>5. Good(Json(m)) /\ Json(m) # <<>>
    <3> HIDE DEF Good
    <3>1. Good(Json(m))
      BY <2>2, <2>4, Zenon
    <3> QED
      BY <3>1 DEF Good
  <2>7. Legible(m)
    <3> HIDE DEF Good
    <3> QED
      BY <2>1, <2>3, <2>5 DEF Legible
  <2> QED
    BY <2>7 DEF m
<1>2. ASSUME NEW nsp \in Namespaces
      PROVE  Legible(Message("Disconnect", nsp, <<>>, <<>>, <<>>, <<>>))
  <2> DEFINE m == Message("Disconnect", nsp, <<>>, <<>>, <<>>, <<>>)
  <2>1. /\ m.type = "Disconnect" /\ m.nsp = nsp /\ m.id = <<>> /\ m.name = <<>>
        /\ m.args = <<>> /\ m.attachments = <<>>
    BY DEF Message
  <2> HIDE DEF m
  <2>2. Json(m) = <<>>
    BY <2>1 DEF Json
  <2>3. /\ m.type \in S!PacketType /\ m.attachments \in Seq(Attachments)
        /\ Len(m.attachments) = 0 /\ ~S!IsBinary(m.type)
    BY <1>0, <2>1
  <2>4. Legible(m)
    BY <2>1, <2>2, <2>3 DEF Legible
  <2> QED
    BY <2>4 DEF m
<1>3. ASSUME NEW nsp \in Namespaces, NEW id \in Ids \cup {<<>>}
      PROVE  Legible(Message("Event", nsp, id, <<"event">>, <<"json">>, <<>>))
  <2> DEFINE m == Message("Event", nsp, id, <<"event">>, <<"json">>, <<>>)
  <2>1. /\ m.type = "Event" /\ m.nsp = nsp /\ m.id = id /\ m.name = <<"event">>
        /\ m.args = <<"json">> /\ m.attachments = <<>>
    BY DEF Message
  <2>2. Json(m) = <<"[", "event", ",", "json", "]">>
    BY JsonsOfText
  <2> HIDE DEF m
  <2>3. /\ m.type \in S!PacketType /\ m.attachments \in Seq(Attachments)
        /\ Len(m.attachments) = 0 /\ ~S!IsBinary(m.type)
    BY <1>0, <2>1
  <2>4. Good(<<"[", "event", ",", "json", "]">>)
    BY GoodTexts
  <2>5. Good(Json(m)) /\ Json(m) # <<>>
    <3> HIDE DEF Good
    <3>1. Good(Json(m))
      BY <2>2, <2>4, Zenon
    <3> QED
      BY <3>1 DEF Good
  <2>7. Legible(m)
    <3> HIDE DEF Good
    <3> QED
      BY <2>1, <2>3, <2>5 DEF Legible
  <2> QED
    BY <2>7 DEF m
<1>4. ASSUME NEW nsp \in Namespaces, NEW id \in Ids
      PROVE  Legible(Message("Ack", nsp, id, <<>>, <<>>, <<>>))
  <2> DEFINE m == Message("Ack", nsp, id, <<>>, <<>>, <<>>)
  <2>1. /\ m.type = "Ack" /\ m.nsp = nsp /\ m.id = id /\ m.name = <<>>
        /\ m.args = <<>> /\ m.attachments = <<>>
    BY DEF Message
  <2>2. Json(m) = <<"[", "]">>
    BY JsonsOfNone
  <2> HIDE DEF m
  <2>3. /\ m.type \in S!PacketType /\ m.attachments \in Seq(Attachments)
        /\ Len(m.attachments) = 0 /\ ~S!IsBinary(m.type)
    BY <1>0, <2>1
  <2>4. Good(<<"[", "]">>)
    BY GoodTexts
  <2>5. Good(Json(m)) /\ Json(m) # <<>>
    <3> HIDE DEF Good
    <3>1. Good(Json(m))
      BY <2>2, <2>4, Zenon
    <3> QED
      BY <3>1 DEF Good
  <2>7. Legible(m)
    <3> HIDE DEF Good
    <3> QED
      BY <2>1, <2>3, <2>5 DEF Legible
  <2> QED
    BY <2>7 DEF m
<1>5. ASSUME NEW nsp \in Namespaces, NEW id \in Ids
      PROVE  Legible(Message("Ack", nsp, id, <<>>, <<"json">>, <<>>))
  <2> DEFINE m == Message("Ack", nsp, id, <<>>, <<"json">>, <<>>)
  <2>1. /\ m.type = "Ack" /\ m.nsp = nsp /\ m.id = id /\ m.name = <<>>
        /\ m.args = <<"json">> /\ m.attachments = <<>>
    BY DEF Message
  <2>2. Json(m) = <<"[", "json", "]">>
    BY JsonsOfText
  <2> HIDE DEF m
  <2>3. /\ m.type \in S!PacketType /\ m.attachments \in Seq(Attachments)
        /\ Len(m.attachments) = 0 /\ ~S!IsBinary(m.type)
    BY <1>0, <2>1
  <2>4. Good(<<"[", "json", "]">>)
    BY GoodTexts
  <2>5. Good(Json(m)) /\ Json(m) # <<>>
    <3> HIDE DEF Good
    <3>1. Good(Json(m))
      BY <2>2, <2>4, Zenon
    <3> QED
      BY <3>1 DEF Good
  <2>7. Legible(m)
    <3> HIDE DEF Good
    <3> QED
      BY <2>1, <2>3, <2>5 DEF Legible
  <2> QED
    BY <2>7 DEF m
<1>6. ASSUME NEW nsp \in Namespaces, NEW a \in Attachments
      PROVE  Legible(Message("BinaryEvent", nsp, <<>>, <<"event">>, <<>>, <<a>>))
  <2> DEFINE m == Message("BinaryEvent", nsp, <<>>, <<"event">>, <<>>, <<a>>)
  <2>1. /\ m.type = "BinaryEvent" /\ m.nsp = nsp /\ m.id = <<>> /\ m.name = <<"event">>
        /\ m.args = <<>> /\ m.attachments = <<a>>
    BY DEF Message
  <2>2. Json(m) = <<"[", "event", ",", H(0), "]">>
    BY JsonsOfOne
  <2> HIDE DEF m
  <2>3. /\ m.type \in S!PacketType /\ m.attachments \in Seq(Attachments)
        /\ Len(m.attachments) = 1 /\ S!IsBinary(m.type)
    BY <1>0, <2>1
  <2>4. Good(<<"[", "event", ",", H(0), "]">>)
    BY GoodTexts
  <2>5. Good(Json(m)) /\ Json(m) # <<>>
    <3> HIDE DEF Good
    <3>1. Good(Json(m))
      BY <2>2, <2>4, Zenon
    <3> QED
      BY <3>1 DEF Good
  <2>6. S!Unwrap(Json(m)) = m.name
    <3>1. S!Unwrap(<<"[", "event", ",", H(0), "]">>) = <<"event">>
      BY Unwrapped
    <3>2. S!Unwrap(Json(m)) = S!Unwrap(<<"[", "event", ",", H(0), "]">>)
      BY <2>2, Zenon
    <3> QED
      BY <2>1, <3>1, <3>2, Zenon
  <2>7. Legible(m)
    <3> HIDE DEF Good
    <3> QED
      BY <2>1, <2>3, <2>5, <2>6 DEF Legible
  <2> QED
    BY <2>7 DEF m
<1>7. ASSUME NEW id \in Ids, NEW a \in Attachments, NEW b \in Attachments
      PROVE  Legible(Message("BinaryEvent", S!DefaultNsp, id, <<"event">>, <<>>, <<a, b>>))
  <2> DEFINE m == Message("BinaryEvent", S!DefaultNsp, id, <<"event">>, <<>>, <<a, b>>)
  <2>1. /\ m.type = "BinaryEvent" /\ m.nsp = S!DefaultNsp /\ m.id = id /\ m.name = <<"event">>
        /\ m.args = <<>> /\ m.attachments = <<a, b>>
    BY DEF Message
  <2>2. Json(m) = <<"[", "event", ",", H(0), ",", H(1), "]">>
    BY JsonsOfTwo
  <2> HIDE DEF m
  <2>3. /\ m.type \in S!PacketType /\ m.attachments \in Seq(Attachments)
        /\ Len(m.attachments) = 2 /\ S!IsBinary(m.type)
    BY <1>0, <2>1
  <2>4. Good(<<"[", "event", ",", H(0), ",", H(1), "]">>)
    BY GoodTexts
  <2>5. Good(Json(m)) /\ Json(m) # <<>>
    <3> HIDE DEF Good
    <3>1. Good(Json(m))
      BY <2>2, <2>4, Zenon
    <3> QED
      BY <3>1 DEF Good
  <2>7. Legible(m)
    <3> HIDE DEF Good
    <3> QED
      BY <2>1, <2>3, <2>5 DEF Legible
  <2> QED
    BY <2>7 DEF m
<1>8. ASSUME NEW nsp \in Namespaces, NEW id \in Ids, NEW a \in Attachments
      PROVE  Legible(Message("BinaryAck", nsp, id, <<>>, <<>>, <<a>>))
  <2> DEFINE m == Message("BinaryAck", nsp, id, <<>>, <<>>, <<a>>)
  <2>1. /\ m.type = "BinaryAck" /\ m.nsp = nsp /\ m.id = id /\ m.name = <<>>
        /\ m.args = <<>> /\ m.attachments = <<a>>
    BY DEF Message
  <2>2. Json(m) = <<"[", H(0), "]">>
    BY JsonsOfOne
  <2> HIDE DEF m
  <2>3. /\ m.type \in S!PacketType /\ m.attachments \in Seq(Attachments)
        /\ Len(m.attachments) = 1 /\ S!IsBinary(m.type)
    BY <1>0, <2>1
  <2>4. Good(<<"[", H(0), "]">>)
    BY GoodTexts
  <2>5. Good(Json(m)) /\ Json(m) # <<>>
    <3> HIDE DEF Good
    <3>1. Good(Json(m))
      BY <2>2, <2>4, Zenon
    <3> QED
      BY <3>1 DEF Good
  <2>6. S!Unwrap(Json(m)) = m.name
    <3>1. S!Unwrap(<<"[", H(0), "]">>) = <<>>
      BY Unwrapped
    <3>2. S!Unwrap(Json(m)) = S!Unwrap(<<"[", H(0), "]">>)
      BY <2>2, Zenon
    <3> QED
      BY <2>1, <3>1, <3>2, Zenon
  <2>7. Legible(m)
    <3> HIDE DEF Good
    <3> QED
      BY <2>1, <2>3, <2>5, <2>6 DEF Legible
  <2> QED
    BY <2>7 DEF m
<1> QED
  <2> SUFFICES ASSUME NEW m \in ServerMessage PROVE Legible(m)
    OBVIOUS
  <2> HIDE DEF Legible, Message
  <2>1. CASE m \in {Message(type, nsp, <<>>, <<>>, <<"json">>, <<>>) :
                     type \in {"Connect", "ConnectError"}, nsp \in Namespaces}
    BY <2>1, <1>1
  <2>2. CASE m \in {Message("Disconnect", nsp, <<>>, <<>>, <<>>, <<>>) : nsp \in Namespaces}
    BY <2>2, <1>2
  <2>3. CASE m \in {Message("Event", nsp, id, <<"event">>, <<"json">>, <<>>) :
                     nsp \in Namespaces, id \in Ids \cup {<<>>}}
    BY <2>3, <1>3
  <2>4. CASE m \in {Message("Ack", nsp, id, <<>>, args, <<>>) :
                     nsp \in Namespaces, id \in Ids, args \in {<<>>, <<"json">>}}
    BY <2>4, <1>4, <1>5
  <2> DEFINE One(nsp, a) == Message("BinaryEvent", nsp, <<>>, <<"event">>, <<>>, <<a>>)
             Two(id, a, b) ==
                 Message("BinaryEvent", S!DefaultNsp, id, <<"event">>, <<>>, <<a, b>>)
             Answer(nsp, id, a) == Message("BinaryAck", nsp, id, <<>>, <<>>, <<a>>)
  <2>5. /\ \A nsp \in Namespaces, a \in Attachments : Legible(One(nsp, a))
        /\ \A id \in Ids, a \in Single, b \in Single : Legible(Two(id, a, b))
        /\ \A nsp \in Namespaces, id \in Ids, a \in Attachments : Legible(Answer(nsp, id, a))
    BY <1>6, <1>7, <1>8 DEF Single
  <2>6. \/ m \in {Message(type, nsp, <<>>, <<>>, <<"json">>, <<>>) :
                     type \in {"Connect", "ConnectError"}, nsp \in Namespaces}
        \/ m \in {Message("Disconnect", nsp, <<>>, <<>>, <<>>, <<>>) : nsp \in Namespaces}
        \/ m \in {Message("Event", nsp, id, <<"event">>, <<"json">>, <<>>) :
                     nsp \in Namespaces, id \in Ids \cup {<<>>}}
        \/ m \in {Message("Ack", nsp, id, <<>>, args, <<>>) :
                     nsp \in Namespaces, id \in Ids, args \in {<<>>, <<"json">>}}
        \/ m \in {One(nsp, a) : nsp \in Namespaces, a \in Attachments}
        \/ m \in {Two(id, a, b) : id \in Ids, a, b \in Single}
        \/ m \in {Answer(nsp, id, a) : nsp \in Namespaces, id \in Ids, a \in Attachments}
    BY DEF ServerMessage
  <2> HIDE DEF One, Two, Answer
  <2>7. CASE m \in {One(nsp, a) : nsp \in Namespaces, a \in Attachments}
    BY <2>5, <2>7
  <2>8. CASE m \in {Two(id, a, b) : id \in Ids, a, b \in Single}
    BY <2>5, <2>8
  <2>9. CASE m \in {Answer(nsp, id, a) : nsp \in Namespaces, id \in Ids, a \in Attachments}
    BY <2>5, <2>9
  <2> QED
    BY <2>1, <2>2, <2>3, <2>4, <2>6, <2>7, <2>8, <2>9

\* The first character for which Test holds.
LEMMA DecodedId ==
    ASSUME NEW packet, NEW id \in Seq(Plain), \A i \in 1 .. Len(id) : S!IsDigit(id[i]),
           NEW c \in Plain, ~S!IsDigit(c), NEW b \in Seq(Plain)
    PROVE  S!DecodeId(packet, id \o (<<c>> \o b))
             = S!DecodeData([packet EXCEPT !.id = id], <<c>> \o b)
<1> DEFINE text == id \o (<<c>> \o b)
           n == Len(id) + 1
           I == {i \in 1 .. Len(text) : ~S!IsDigit(text[i])}
           rest == <<c>> \o b
<1>1. /\ text \in Seq(Plain) /\ n \in 1 .. Len(text) /\ text[n] = c
      /\ \A i \in 1 .. Len(id) : text[i] = id[i]
      /\ SubSeq(text, 1, n - 1) = id /\ SubSeq(text, n, Len(text)) = rest
  BY CutAt
<1>2. Len(id) \in Nat /\ Len(text) \in Nat
  BY <1>1
<1>3. S!Min(I) = n /\ I # {} /\ n # 0
  <2>1. I \in SUBSET Nat /\ n \in I
    <3> HIDE DEF text
    <3> QED
      BY <1>1, <1>2
  <2>2. \A j \in I : n <= j
    <3> HIDE DEF text
    <3> QED
      BY <1>1, <1>2
  <2> HIDE DEF I
  <2> QED
    BY <2>1, <2>2, <1>2, MinIs
<1>4. S!SelectInSeq(text, LAMBDA char : ~S!IsDigit(char)) = n
  <2> HIDE DEF text, n
  <2> QED
    BY <1>3 DEF S!SelectInSeq
<1>5. S!DecodeId(packet, text)
        = S!DecodeData([packet EXCEPT !.id = SubSeq(text, 1, n - 1)], SubSeq(text, n, Len(text)))
  <2>1. n # 0
    BY <1>3
  <2> HIDE DEF text, n
  <2> QED
    BY <1>4, <2>1 DEF S!DecodeId, S!Before
<1>6. S!DecodeId(packet, text) = S!DecodeData([packet EXCEPT !.id = id], rest)
  <2> HIDE DEF text, n, rest
  <2> QED
    BY <1>1, <1>5
<1> QED
  BY <1>6

\* Begins as a namespace does, and has no comma.
Named(nsp) ==
    /\ nsp \in Seq(Plain) /\ nsp # <<>> /\ nsp[1] = "/"
    /\ \A i \in 1 .. Len(nsp) : nsp[i] # ","

\* A namespace is read up to the comma behind it.
LEMMA DecodedNsp ==
    ASSUME NEW packet, NEW nsp \in Seq(Plain), Named(nsp), NEW b \in Seq(Plain)
    PROVE  S!DecodeNsp(packet, nsp \o (<<",">> \o b))
             = S!DecodeId([packet EXCEPT !.nsp = nsp], b)
<1> DEFINE comma == ","
           text == nsp \o (<<comma>> \o b)
           n == Len(nsp) + 1
           I == {i \in 1 .. Len(text) : text[i] = comma}
<1>0. comma \in Plain /\ \A i \in 1 .. Len(nsp) : nsp[i] # comma
  BY Literals DEF Named
<1> HIDE DEF comma
<1>1. /\ text \in Seq(Plain) /\ n \in 1 .. Len(text) /\ text[n] = comma
      /\ \A i \in 1 .. Len(nsp) : text[i] = nsp[i]
      /\ SubSeq(text, 1, n - 1) = nsp /\ SubSeq(text, n + 1, Len(text)) = b
  BY <1>0, CutAt
<1>2. /\ Len(nsp) \in Nat /\ Len(text) \in Nat /\ 1 \in 1 .. Len(nsp) /\ n = Len(nsp) + 1
      /\ text # <<>>
  <2>1. 1 \in 1 .. Len(nsp)
    <3>1. nsp # <<>>
      BY DEF Named
    <3> QED
      BY <3>1
  <2> HIDE DEF text
  <2>2. Len(nsp) \in Nat /\ Len(text) \in Nat
    BY <1>1
  <2>3. text # <<>>
    <3>1. Len(text) # 0
      BY <1>1, <2>2
    <3> QED
      BY <3>1
  <2> QED
    BY <2>1, <2>2, <2>3
<1>3. S!Min(I) = n /\ I # {} /\ n # 0
  <2>1. I \in SUBSET Nat /\ n \in I
    <3> HIDE DEF text, n
    <3> QED
      BY <1>1, <1>2
  <2>2. \A j \in I : n <= j
    <3> HIDE DEF text, n
    <3> SUFFICES ASSUME NEW j \in 1 .. Len(text), text[j] = comma, ~(n <= j) PROVE FALSE
      BY <1>2
    <3>1. j \in 1 .. Len(nsp)
      BY <1>2
    <3> QED
      BY <1>0, <1>1, <3>1
  <2> HIDE DEF I, n
  <2> QED
    BY <2>1, <2>2, <1>2, MinIs
<1>4. S!SelectInSeq(text, LAMBDA char : char = ",") = n
  <2> HIDE DEF text, n
  <2> QED
    BY <1>3 DEF S!SelectInSeq, comma
<1>5. S!DecodeNsp(packet, text)
        = S!DecodeId([packet EXCEPT !.nsp = SubSeq(text, 1, n - 1)],
                     SubSeq(text, n + 1, Len(text)))
  <2>1. n # 0 /\ text # <<>> /\ text[1] = "/"
    <3>1. text[1] = nsp[1]
      BY <1>1, <1>2
    <3> HIDE DEF text, n
    <3> QED
      BY <1>2, <1>3, <3>1 DEF Named
  <2> HIDE DEF text, n
  <2> QED
    BY <1>4, <2>1 DEF S!DecodeNsp, S!Before, S!After
<1>6. S!DecodeNsp(packet, text) = S!DecodeId([packet EXCEPT !.nsp = nsp], b)
  <2> HIDE DEF text, n
  <2> QED
    BY <1>1, <1>5
<1> QED
  BY <1>6 DEF comma

\* A number of attachments is read up to the dash behind it.
LEMMA DecodedCount ==
    ASSUME NEW packet, S!IsBinary(packet.type), NEW n \in 0 .. 9, NEW b \in Seq(Plain)
    PROVE  S!DecodeCount(packet, S!Text(n) \o (<<"-">> \o b))
             = S!DecodeNsp([packet EXCEPT !.count = n], b)
<1> DEFINE digit == S!Digit[n + 1]
           digits == <<digit>>
           dash == "-"
           text == digits \o (<<dash>> \o b)
           I == {i \in 1 .. Len(text) : text[i] = dash}
<1>0. /\ dash \in Plain /\ digit \in Plain /\ digit # dash /\ S!IsDigit(digit)
      /\ S!Text(n) = digits
  <2>1. n + 1 \in 1 .. 10
    OBVIOUS
  <2>2. digit # "-" /\ S!IsDigit(digit)
    BY <2>1, Digits
  <2>3. digit \in Plain /\ dash \in Plain
    BY <2>1, Literals
  <2> QED
    BY <2>2, <2>3 DEF S!Text
<1>1. S!Number(digits) = n
  BY <1>0, NumberOfDigit
<1> HIDE DEF digit
<1>2. digits \in Seq(Plain) /\ digits # <<>> /\ Len(digits) = 1 /\ digits[1] = digit
  BY <1>0
<1>3. \A i \in DOMAIN digits : S!IsDigit(digits[i])
  BY <1>0
<1> HIDE DEF digits, dash
<1>4. /\ text \in Seq(Plain) /\ 2 \in 1 .. Len(text) /\ text[2] = dash /\ text[1] = digit
      /\ SubSeq(text, 1, 1) = digits /\ SubSeq(text, 3, Len(text)) = b
  <2> DEFINE k == Len(digits) + 1
  <2>1. /\ text \in Seq(Plain) /\ k \in 1 .. Len(text) /\ text[k] = dash
        /\ \A i \in 1 .. Len(digits) : text[i] = digits[i]
        /\ SubSeq(text, 1, k - 1) = digits /\ SubSeq(text, k + 1, Len(text)) = b
    <3>1. digits \in Seq(Plain) /\ dash \in Plain
      BY <1>0, <1>2
    <3> QED
      BY <3>1, CutAt
  <2>2. 1 \in 1 .. Len(digits) /\ Len(digits) + 1 = 2 /\ 2 - 1 = 1 /\ 2 + 1 = 3
    BY <1>2
  <2> HIDE DEF text
  <2> QED
    BY <2>1, <2>2, <1>2
<1> HIDE DEF text
<1>5. S!Min(I) = 2 /\ I # {}
  <2>1. I \in SUBSET Nat /\ 2 \in I /\ \A j \in I : 2 <= j
    BY <1>0, <1>4
  <2> HIDE DEF I
  <2> QED
    BY <2>1, MinIs
<1>6. S!SelectInSeq(text, LAMBDA char : char = "-") = 2
  BY <1>5 DEF S!SelectInSeq, dash
<1>7. S!Before(text, 2) = digits /\ S!After(text, 2) = b
  BY <1>4 DEF S!Before, S!After
<1>8. S!DecodeCount(packet, text) = S!DecodeNsp([packet EXCEPT !.count = n], b)
  <2>1. n < S!U8
    BY DEF S!U8
  <2> QED
    BY <1>1, <1>2, <1>3, <1>6, <1>7, <2>1 DEF S!DecodeCount
<1> QED
  BY <1>0, <1>8 DEF text, dash

\* The number of attachments and the namespace, as a text has them.
CountText(m) == IF S!IsBinary(m.type) THEN S!Text(Len(m.attachments)) \o <<"-">> ELSE <<>>
NspText(m) == IF m.nsp = S!DefaultNsp THEN <<>> ELSE m.nsp \o <<",">>

\* One text behind the other.
Cat(a, b) == a \o b

\* The order in which texts are put together makes no difference,
LEMMA CatAssociative ==
    ASSUME NEW T, NEW a \in Seq(T), NEW b \in Seq(T), NEW c \in Seq(T)
    PROVE  Cat(Cat(a, b), c) = Cat(a, Cat(b, c))
BY ConcatAssociative DEF Cat

\* ... what comes of it is a text,
LEMMA CatTexts ==
    ASSUME NEW T, NEW a \in Seq(T), NEW b \in Seq(T)
    PROVE  Cat(a, b) \in Seq(T)
BY ConcatProperties DEF Cat

\* ... and five of them can be taken from the right.
LEMMA CatRegrouped ==
    ASSUME NEW T, NEW a \in Seq(T), NEW b \in Seq(T), NEW c \in Seq(T), NEW d \in Seq(T),
           NEW e \in Seq(T)
    PROVE  Cat(Cat(Cat(Cat(a, b), c), d), e) = Cat(a, Cat(b, Cat(c, Cat(d, e))))
<1> DEFINE p == Cat(a, b)
           q == Cat(p, c)
           r == Cat(d, e)
           u == Cat(c, r)
<1>1. p \in Seq(T) /\ r \in Seq(T)
  BY CatTexts
<1>2. u \in Seq(T) /\ q \in Seq(T)
  <2> HIDE DEF p, r
  <2> QED
    BY <1>1, CatTexts
<1>3. Cat(Cat(q, d), e) = Cat(q, r)
  <2> HIDE DEF q
  <2> QED
    BY <1>2, CatAssociative
<1>4. Cat(q, r) = Cat(p, u)
  <2> HIDE DEF p, r
  <2> QED
    BY <1>1, CatAssociative
<1>5. Cat(p, u) = Cat(a, Cat(b, u))
  <2> HIDE DEF u
  <2> QED
    BY <1>2, CatAssociative
<1> QED
  BY <1>3, <1>4, <1>5

\* The parts of a message's text.
LEMMA TextParts ==
    ASSUME NEW m, Legible(m)
    PROVE  /\ S!TypeDigit[m.type] \in Plain
           /\ CountText(m) \in Seq(Plain) /\ NspText(m) \in Seq(Plain)
           /\ m.id \in Seq(Plain) /\ Json(m) \in Seq(Plain) /\ m.id \o Json(m) \in Seq(Plain)
           /\ \A i \in 1 .. Len(m.id) : S!IsDigit(m.id[i])
           /\ m.nsp # S!DefaultNsp => m.nsp \in Seq(Plain) /\ Named(m.nsp)
           /\ Text(m) = <<S!TypeDigit[m.type]>>
                            \o (CountText(m) \o (NspText(m) \o (m.id \o Json(m))))
<1>1. S!TypeDigit[m.type] \in Plain
  BY Literals DEF Legible
<1>2. CountText(m) \in Seq(Plain)
  <2> DEFINE n == Len(m.attachments)
             dash == "-"
  <2>1. n \in 0 .. 2
    BY DEF Legible
  <2>2. S!Digit[n + 1] \in Plain /\ dash \in Plain
    <3> HIDE DEF n
    <3>1. n + 1 \in 1 .. 10
      BY <2>1
    <3> QED
      BY <3>1, Literals
  <2> HIDE DEF dash
  <2>3. <<S!Digit[n + 1]>> \in Seq(Plain) /\ <<dash>> \in Seq(Plain) /\ <<>> \in Seq(Plain)
    BY <2>2
  <2>4. <<S!Digit[n + 1]>> \o <<dash>> \in Seq(Plain)
    BY <2>3
  <2> QED
    BY <2>3, <2>4 DEF CountText, S!Text, dash
<1>3. m.nsp # S!DefaultNsp => m.nsp \in Seq(Plain) /\ Named(m.nsp)
  <2>1. \A nsp \in Namespaces : nsp \in Seq(Plain) /\ Named(nsp)
    BY PlainNames DEF Named
  <2> QED
    BY <2>1 DEF Legible
<1>4. NspText(m) \in Seq(Plain)
  <2> DEFINE comma == ","
  <2>1. comma \in Plain
    BY Literals
  <2> HIDE DEF comma
  <2>2. m.nsp # S!DefaultNsp => m.nsp \o <<comma>> \in Seq(Plain)
    BY <1>3, <2>1
  <2>3. <<>> \in Seq(Plain)
    OBVIOUS
  <2> QED
    BY <2>2, <2>3 DEF NspText, comma
<1>5. m.id \in Seq(Plain) /\ \A i \in 1 .. Len(m.id) : S!IsDigit(m.id[i])
  <2>1. m.id \in Ids \/ m.id = <<>>
    BY DEF Legible
  <2>2. ASSUME m.id = <<>> PROVE m.id \in Seq(Plain) /\ 1 .. Len(m.id) = {}
    BY <2>2
  <2> QED
    BY <2>1, <2>2, PlainIds
<1>6. Json(m) \in Seq(Plain)
  <2>1. Json(m) # <<>> => Json(m) \in Seq(Plain)
    BY DEF Legible, Good
  <2>2. <<>> \in Seq(Plain)
    OBVIOUS
  <2> QED
    BY <2>1, <2>2, Zenon
<1>7. m.id \o Json(m) \in Seq(Plain)
  BY <1>5, <1>6, ConcatProperties
<1>8. Text(m) = <<S!TypeDigit[m.type]>>
                    \o (CountText(m) \o (NspText(m) \o (m.id \o Json(m))))
  <2> DEFINE digit == <<S!TypeDigit[m.type]>>
  <2>1. Text(m) = digit \o CountText(m) \o NspText(m) \o m.id \o Json(m)
    BY DEF Text, CountText, NspText
  <2> HIDE DEF digit
  <2>2. digit \in Seq(Plain)
    BY <1>1 DEF digit
  <2>3. digit \o CountText(m) \o NspText(m) \o m.id \o Json(m)
          = digit \o (CountText(m) \o (NspText(m) \o (m.id \o Json(m))))
    <3> DEFINE b == CountText(m)
               c == NspText(m)
               d == m.id
               e == Json(m)
    <3>1. b \in Seq(Plain) /\ c \in Seq(Plain) /\ d \in Seq(Plain) /\ e \in Seq(Plain)
      BY <1>2, <1>4, <1>5, <1>6
    <3> HIDE DEF b, c, d, e
    <3>2. Cat(Cat(Cat(Cat(digit, b), c), d), e) = Cat(digit, Cat(b, Cat(c, Cat(d, e))))
      BY <2>2, <3>1, CatRegrouped
    <3> QED
      BY <3>2 DEF b, c, d, e, Cat
  <2> QED
    BY <2>1, <2>3 DEF digit
<1> QED
  BY <1>1, <1>2, <1>3, <1>4, <1>5, <1>6, <1>7, <1>8

\* A text as its first character and the rest.
LEMMA Unprefixed ==
    ASSUME NEW T, NEW s \in Seq(T), s # <<>>
    PROVE  s[1] \in T /\ Tail(s) \in Seq(T) /\ s = <<s[1]>> \o Tail(s)
<1>1. s[1] \in T /\ Tail(s) \in Seq(T) /\ Len(Tail(s)) = Len(s) - 1
      /\ \A i \in 1 .. Len(s) - 1 : Tail(s)[i] = s[i + 1]
  OBVIOUS
<1> DEFINE t == Tail(s)
           u == <<s[1]>> \o t
<1>2. /\ u \in Seq(T) /\ Len(u) = Len(t) + 1 /\ u[1] = s[1]
      /\ \A i \in 1 .. Len(t) : u[i + 1] = t[i]
  BY <1>1, Prefixed
<1>3. Len(s) \in Nat /\ Len(s) >= 1
  OBVIOUS
<1>4. Len(t) = Len(s) - 1 /\ \A i \in 1 .. Len(s) - 1 : t[i] = s[i + 1]
  BY <1>1
<1> HIDE DEF u, t
<1>5. Len(u) = Len(s)
  BY <1>2, <1>3, <1>4
<1>6. \A i \in 1 .. Len(s) : u[i] = s[i]
  <2> SUFFICES ASSUME NEW i \in 1 .. Len(s) PROVE u[i] = s[i]
    OBVIOUS
  <2>1. CASE i = 1
    BY <1>2, <2>1
  <2>2. CASE i # 1
    <3>1. i - 1 \in 1 .. Len(t) /\ (i - 1) + 1 = i
      BY <1>3, <1>4, <2>2
    <3>2. u[(i - 1) + 1] = t[i - 1] /\ t[i - 1] = s[(i - 1) + 1]
      BY <1>2, <1>4, <3>1
    <3> QED
      BY <3>1, <3>2
  <2> QED
    BY <2>1, <2>2
<1>7. s = u
  BY <1>2, <1>3, <1>5, <1>6, SameSeq
<1> QED
  BY <1>1, <1>7 DEF u, t

\* Each part of a packet that is read is written into it and leaves the others.
LEMMA CountField ==
    ASSUME NEW type, NEW nsp, NEW id, NEW count, NEW n
    PROVE  [S!Packet(type, nsp, <<>>, id, count, <<>>) EXCEPT !.count = n]
             = S!Packet(type, nsp, <<>>, id, n, <<>>)
BY DEF S!Packet

\* ... the namespace,
LEMMA NspField ==
    ASSUME NEW type, NEW nsp, NEW id, NEW count, NEW n
    PROVE  [S!Packet(type, nsp, <<>>, id, count, <<>>) EXCEPT !.nsp = n]
             = S!Packet(type, n, <<>>, id, count, <<>>)
BY DEF S!Packet

\* ... the id,
LEMMA IdField ==
    ASSUME NEW type, NEW nsp, NEW id, NEW count, NEW n
    PROVE  [S!Packet(type, nsp, <<>>, id, count, <<>>) EXCEPT !.id = n]
             = S!Packet(type, nsp, <<>>, n, count, <<>>)
BY DEF S!Packet

\* ... and the data.
LEMMA DataField ==
    ASSUME NEW type, NEW nsp, NEW id, NEW count, NEW json, S!IsJson(json)
    PROVE  S!DecodeData(S!Packet(type, nsp, <<>>, id, count, <<>>), json)
             = S!Packet(type, nsp, IF S!IsBinary(type) THEN S!Unwrap(json) ELSE json,
                        id, count, <<>>)
<1> DEFINE p == S!Packet(type, nsp, <<>>, id, count, <<>>)
           d == IF S!IsBinary(type) THEN S!Unwrap(json) ELSE json
<1>1. p.type = type
  BY DEF S!Packet
<1>2. [p EXCEPT !.data = d] = S!Packet(type, nsp, d, id, count, <<>>)
  BY DEF S!Packet
<1>3. S!DecodeData(p, json) = [p EXCEPT !.data = d]
  <2> HIDE DEF p
  <2> QED
    BY <1>1 DEF S!DecodeData
<1> QED
  BY <1>2, <1>3

\* The JSON of a packet, as a message has it.
DataOf(m) ==
    IF Json(m) = <<>> THEN <<>> ELSE IF S!IsBinary(m.type) THEN S!Unwrap(Json(m)) ELSE Json(m)

\* What is behind the namespace.
LEMMA DecodedRest ==
    ASSUME NEW m, Legible(m), NEW type, type = m.type, NEW nsp, NEW count
    PROVE  /\ S!DecodeId(S!Packet(type, nsp, <<>>, <<>>, count, <<>>), m.id \o Json(m))
                = S!Packet(type, nsp, DataOf(m), m.id, count, <<>>)
           /\ S!DecodeNsp(S!Packet(type, nsp, <<>>, <<>>, count, <<>>), m.id \o Json(m))
                = S!Packet(type, nsp, DataOf(m), m.id, count, <<>>)
<1> DEFINE p == S!Packet(type, nsp, <<>>, <<>>, count, <<>>)
           id == m.id
           json == Json(m)
           text == id \o json
           result == S!Packet(type, nsp, DataOf(m), id, count, <<>>)
<1>0. /\ id \in Seq(Plain) /\ json \in Seq(Plain) /\ text \in Seq(Plain)
      /\ \A i \in 1 .. Len(id) : S!IsDigit(id[i])
  BY TextParts
<1>1. CASE json = <<>>
  <2>1. id = <<>> /\ DataOf(m) = <<>>
    BY <1>1 DEF Legible, DataOf
  <2>2. text = <<>>
    BY <1>0, <1>1, <2>1, ConcatEmptySeq
  <2>3. result = p
    BY <2>1
  <2> HIDE DEF p, result
  <2>4. S!SelectInSeq(<<>>, LAMBDA char : ~S!IsDigit(char)) = 0
    BY DEF S!SelectInSeq
  <2>5. S!DecodeId(p, <<>>) = p
    BY <2>4 DEF S!DecodeId
  <2>6. S!DecodeNsp(p, <<>>) = p
    BY DEF S!DecodeNsp
  <2>7. S!DecodeId(p, text) = result /\ S!DecodeNsp(p, text) = result
    BY <2>2, <2>3, <2>5, <2>6, Zenon
  <2> QED
    BY <2>7 DEF p, result
<1>2. CASE json # <<>>
  <2> DEFINE c == json[1]
             b == Tail(json)
  <2>1. c \in Plain /\ b \in Seq(Plain) /\ json = <<c>> \o b
    BY <1>0, <1>2, Unprefixed
  <2>2. S!IsJson(json) /\ c \in {"[", "json"}
    BY <1>2 DEF Legible, Good
  <2>3. ~S!IsDigit(c) /\ c # "/"
    BY <2>2, Digits
  <2>4. [p EXCEPT !.id = id] = S!Packet(type, nsp, <<>>, id, count, <<>>)
    BY IdField
  <2>5. S!DecodeData([p EXCEPT !.id = id], json) = result
    <3>1. S!DecodeData(S!Packet(type, nsp, <<>>, id, count, <<>>), json)
            = S!Packet(type, nsp, IF S!IsBinary(type) THEN S!Unwrap(json) ELSE json,
                        id, count, <<>>)
      BY <2>2, DataField
    <3>2. DataOf(m) = IF S!IsBinary(type) THEN S!Unwrap(json) ELSE json
      BY <1>2 DEF DataOf
    <3> HIDE DEF json, id
    <3> QED
      BY <2>4, <3>1, <3>2, Zenon
  <2> HIDE DEF p, result, json, id, c, b
  <2>6. S!DecodeId(p, id \o (<<c>> \o b)) = S!DecodeData([p EXCEPT !.id = id], <<c>> \o b)
    <3>1. c \in Plain /\ b \in Seq(Plain) /\ id \in Seq(Plain)
      BY <1>0, <2>1
    <3>2. ~S!IsDigit(c)
      BY <2>3
    <3>3. \A i \in 1 .. Len(id) : S!IsDigit(id[i])
      BY <1>0
    <3> QED
      BY <3>1, <3>2, <3>3, DecodedId, Zenon
  <2>7. S!DecodeId(p, text) = result
    BY <2>1, <2>5, <2>6, Zenon
  <2>8. text # <<>> /\ text[1] # "/"
    <3>1. Len(id) \in Nat /\ Len(json) \in Nat /\ Len(json) # 0
      BY <1>0, <1>2
    <3>2. Len(text) = Len(id) + Len(json)
      BY <1>0, ConcatProperties
    <3>3. text[1] = IF Len(id) = 0 THEN json[1] ELSE id[1]
      BY <1>0, <3>1
    <3>4. text # <<>>
      <4>1. Len(text) # 0
        BY <3>1, <3>2
      <4> QED
        BY <4>1
    <3>5. json[1] # "/"
      BY <2>3 DEF c
    <3>6. CASE Len(id) = 0
      BY <3>3, <3>4, <3>5, <3>6
    <3>7. CASE Len(id) # 0
      <4>1. 1 \in 1 .. Len(id)
        BY <3>1, <3>7
      <4>2. S!IsDigit(id[1])
        BY <1>0, <4>1
      <4>3. id[1] # "/"
        BY <4>2, Digits
      <4> QED
        BY <3>3, <3>4, <3>7, <4>3
    <3> QED
      BY <3>6, <3>7
  <2>9. S!DecodeNsp(p, text) = S!DecodeId(p, text)
    <3> HIDE DEF text
    <3> QED
      BY <2>8 DEF S!DecodeNsp
  <2>10. S!DecodeId(p, text) = result /\ S!DecodeNsp(p, text) = result
    BY <2>7, <2>9
  <2> QED
    BY <2>10 DEF p, result, json, id
<1> QED
  BY <1>1, <1>2

\* ... and what is behind the type and the number of attachments.
LEMMA DecodedNames ==
    ASSUME NEW m, Legible(m), NEW count
    PROVE  S!DecodeNsp(S!Packet(m.type, S!DefaultNsp, <<>>, <<>>, count, <<>>),
                       NspText(m) \o (m.id \o Json(m)))
             = S!Packet(m.type, m.nsp, DataOf(m), m.id, count, <<>>)
<1> DEFINE p == S!Packet(m.type, S!DefaultNsp, <<>>, <<>>, count, <<>>)
           rest == m.id \o Json(m)
           result == S!Packet(m.type, m.nsp, DataOf(m), m.id, count, <<>>)
<1>0. rest \in Seq(Plain)
  BY TextParts
<1>1. CASE m.nsp = S!DefaultNsp
  <2>1. NspText(m) \o rest = rest
    <3>1. NspText(m) = <<>>
      BY <1>1 DEF NspText
    <3> QED
      BY <1>0, <3>1, ConcatEmptySeq
  <2>2. S!DecodeNsp(p, rest) = result
    BY <1>1, DecodedRest
  <2> HIDE DEF p, rest, result
  <2>3. S!DecodeNsp(p, NspText(m) \o rest) = result
    BY <2>1, <2>2, Zenon
  <2> QED
    BY <2>3 DEF p, rest, result
<1>2. CASE m.nsp # S!DefaultNsp
  <2> DEFINE nsp == m.nsp
             comma == ","
  <2>1. nsp \in Seq(Plain) /\ Named(nsp) /\ comma \in Plain
    BY <1>2, TextParts, Literals
  <2>2. NspText(m) = nsp \o <<comma>>
    BY <1>2 DEF NspText
  <2>3. S!DecodeId([p EXCEPT !.nsp = nsp], rest) = result
    <3>1. [p EXCEPT !.nsp = nsp] = S!Packet(m.type, nsp, <<>>, <<>>, count, <<>>)
      BY NspField
    <3>2. S!DecodeId(S!Packet(m.type, nsp, <<>>, <<>>, count, <<>>), rest) = result
      BY DecodedRest
    <3> HIDE DEF p, rest, result, nsp
    <3> QED
      BY <3>1, <3>2, Zenon
  <2> HIDE DEF p, rest, result, nsp
  <2>4. S!DecodeNsp(p, nsp \o (<<comma>> \o rest)) = S!DecodeId([p EXCEPT !.nsp = nsp], rest)
    BY <1>0, <2>1, DecodedNsp
  <2> HIDE DEF comma
  <2>5. (nsp \o <<comma>>) \o rest = nsp \o (<<comma>> \o rest)
    <3> DEFINE t == <<comma>>
    <3>1. t \in Seq(Plain)
      BY <2>1
    <3> HIDE DEF t
    <3>2. Cat(Cat(nsp, t), rest) = Cat(nsp, Cat(t, rest))
      BY <1>0, <2>1, <3>1, CatAssociative
    <3> QED
      BY <3>2 DEF Cat, t
  <2>6. S!DecodeNsp(p, NspText(m) \o rest) = result
    BY <2>2, <2>3, <2>4, <2>5, Zenon
  <2> QED
    BY <2>6 DEF p, rest, result
<1> QED
  BY <1>1, <1>2

\* The digit of a type is read as this type.
LEMMA Types ==
    \A type \in S!PacketType :
        S!IsType(S!TypeDigit[type]) /\ S!TypeOf(S!TypeDigit[type]) = type
<1>1. \A t, u \in S!PacketType : S!TypeDigit[t] = S!TypeDigit[u] => t = u
  BY DEF S!PacketType, S!TypeDigit
<1> QED
  BY <1>1 DEF S!IsType, S!TypeOf

\* What is behind the type is read as the message has it.
LEMMA DecodedTail ==
    ASSUME NEW m, Legible(m)
    PROVE  S!DecodeCount(S!Packet(m.type, S!DefaultNsp, <<>>, <<>>, 0, <<>>),
                         CountText(m) \o (NspText(m) \o (m.id \o Json(m))))
             = S!Packet(m.type, m.nsp, DataOf(m), m.id, Len(m.attachments), <<>>)
<1> DEFINE p == S!Packet(m.type, S!DefaultNsp, <<>>, <<>>, 0, <<>>)
           rest == NspText(m) \o (m.id \o Json(m))
           n == Len(m.attachments)
           q == S!Packet(m.type, S!DefaultNsp, <<>>, <<>>, n, <<>>)
           result == S!Packet(m.type, m.nsp, DataOf(m), m.id, n, <<>>)
<1>1. n \in 0 .. 2 /\ (S!IsBinary(m.type) <=> n > 0)
  BY DEF Legible
<1>2. rest \in Seq(Plain)
  <2> DEFINE s == NspText(m)
             t == m.id \o Json(m)
  <2>1. s \in Seq(Plain) /\ t \in Seq(Plain)
    BY TextParts
  <2> HIDE DEF s, t
  <2>2. s \o t \in Seq(Plain)
    BY <2>1, ConcatProperties
  <2> QED
    BY <2>2 DEF s, t
<1>3. S!DecodeNsp(q, rest) = result
  BY DecodedNames
<1>4. p.type = m.type /\ [p EXCEPT !.count = n] = q
  BY CountField DEF S!Packet
<1>5. CASE S!IsBinary(m.type)
  <2> DEFINE digits == S!Text(n)
             dash == "-"
  <2>1. CountText(m) = digits \o <<dash>>
    BY <1>5 DEF CountText
  <2>2. digits \in Seq(Plain) /\ dash \in Plain
    <3> HIDE DEF n
    <3>1. n + 1 \in 1 .. 10
      BY <1>1
    <3>2. S!Digit[n + 1] \in Plain /\ dash \in Plain
      BY <3>1, Literals
    <3> HIDE DEF dash
    <3> QED
      BY <3>2 DEF S!Text
  <2>3. n \in 0 .. 9
    <3> HIDE DEF n
    <3> QED
      BY <1>1
  <2>4. S!IsBinary(p.type)
    BY <1>4, <1>5
  <2> HIDE DEF p, q, rest, n, result
  <2>5. S!DecodeCount(p, digits \o (<<dash>> \o rest)) = S!DecodeNsp([p EXCEPT !.count = n], rest)
    BY <1>2, <2>3, <2>4, DecodedCount
  <2> HIDE DEF digits, dash
  <2>6. (digits \o <<dash>>) \o rest = digits \o (<<dash>> \o rest)
    <3> DEFINE t == <<dash>>
    <3>1. t \in Seq(Plain)
      BY <2>2
    <3> HIDE DEF t
    <3>2. Cat(Cat(digits, t), rest) = Cat(digits, Cat(t, rest))
      BY <1>2, <2>2, <3>1, CatAssociative
    <3> QED
      BY <3>2 DEF Cat, t
  <2>7. S!DecodeCount(p, CountText(m) \o rest) = result
    BY <1>3, <1>4, <2>1, <2>5, <2>6, Zenon
  <2> QED
    BY <2>7 DEF p, rest, result, n
<1>6. CASE ~S!IsBinary(m.type)
  <2>1. CountText(m) \o rest = rest
    <3>1. CountText(m) = <<>>
      BY <1>6 DEF CountText
    <3> QED
      BY <1>2, <3>1, ConcatEmptySeq
  <2>2. n = 0
    <3> HIDE DEF n
    <3> QED
      BY <1>1, <1>6
  <2>3. p = q
    BY <2>2
  <2>4. ~S!IsBinary(p.type)
    BY <1>4, <1>6
  <2> HIDE DEF p, q, rest, n, result
  <2>5. S!DecodeCount(p, rest) = S!DecodeNsp(p, rest)
    BY <2>4 DEF S!DecodeCount
  <2>6. S!DecodeCount(p, CountText(m) \o rest) = result
    BY <1>3, <2>1, <2>3, <2>5, Zenon
  <2> QED
    BY <2>6 DEF p, rest, result, n
<1> QED
  BY <1>5, <1>6

\* The text of a readable message is read as what it is.
LEMMA Decoded ==
    ASSUME NEW m, Legible(m)
    PROVE  /\ Text(m) \in Seq(Plain) /\ Text(m) # <<>>
           /\ S!Decode(Text(m))
                = S!Packet(m.type, m.nsp, DataOf(m), m.id, Len(m.attachments), <<>>)
<1> DEFINE digit == S!TypeDigit[m.type]
           a == CountText(m)
           b == NspText(m)
           c == m.id \o Json(m)
           rest == a \o (b \o c)
           text == <<digit>> \o rest
           p == S!Packet(m.type, S!DefaultNsp, <<>>, <<>>, 0, <<>>)
           result == S!Packet(m.type, m.nsp, DataOf(m), m.id, Len(m.attachments), <<>>)
<1>1. Text(m) = text
  BY TextParts
<1>2. digit \in Plain /\ S!IsType(digit) /\ S!TypeOf(digit) = m.type
  BY TextParts, Types DEF Legible
<1>3. rest \in Seq(Plain)
  <2>1. a \in Seq(Plain) /\ b \in Seq(Plain) /\ c \in Seq(Plain)
    BY TextParts
  <2> HIDE DEF a, b, c
  <2>2. Cat(b, c) \in Seq(Plain)
    BY <2>1, CatTexts
  <2>3. Cat(a, Cat(b, c)) \in Seq(Plain)
    BY <2>1, <2>2, CatTexts
  <2> QED
    BY <2>3 DEF Cat
<1>4. S!DecodeCount(p, rest) = result
  BY DecodedTail
<1> HIDE DEF rest, p, result, digit
<1>5. text \in Seq(Plain) /\ text # <<>> /\ text[1] = digit /\ Tail(text) = rest
  BY <1>2, <1>3, Prefixed
<1> HIDE DEF text
<1>6. S!Decode(text) = S!DecodeCount(S!Packet(m.type, S!DefaultNsp, <<>>, <<>>, 0, <<>>), rest)
  BY <1>2, <1>5 DEF S!Decode, S!None
<1>7. S!Decode(text) = result
  BY <1>4, <1>6 DEF p
<1> QED
  BY <1>1, <1>5, <1>7 DEF result

\* Whatever message the server sends, its text is no error for TryFrom<&Bytes>, and
\* with its attachments it is the packet that the message is to be read as.
THEOREM TextRoundTrip ==
    ASSUME NEW m \in ServerMessage
    PROVE  LET packet == S!Decode(Text(m))
           IN /\ packet # S!Error
              /\ packet.count = Len(m.attachments) /\ packet.attachments = <<>>
              /\ Reads([packet EXCEPT !.attachments = m.attachments], m)
<1> DEFINE packet == S!Decode(Text(m))
           n == Len(m.attachments)
<1>1. Legible(m)
  BY ServerMessages
<1>2. packet = S!Packet(m.type, m.nsp, DataOf(m), m.id, n, <<>>)
  BY <1>1, Decoded
<1>3. packet # S!Error
  <2>1. packet.type = m.type /\ m.type \in S!PacketType
    BY <1>1, <1>2 DEF Legible, S!Packet
  <2>2. S!Error.type \notin S!PacketType
    BY DEF S!Error, S!Packet, S!PacketType
  <2> QED
    BY <2>1, <2>2
<1> HIDE DEF packet
<1>4. packet.count = n /\ packet.attachments = <<>>
  BY <1>2 DEF S!Packet
<1>5. [packet EXCEPT !.attachments = m.attachments]
        = S!Packet(m.type, m.nsp, DataOf(m), m.id, n, m.attachments)
  BY <1>2 DEF S!Packet
<1>6. /\ n = 0 => DataOf(m) = Json(m)
      /\ n = 1 => DataOf(m) = m.name
  <2>1. n \in 0 .. 2 /\ (S!IsBinary(m.type) <=> n > 0)
    BY <1>1 DEF Legible
  <2>2. n = 1 => S!Unwrap(Json(m)) = m.name /\ Json(m) # <<>>
    BY <1>1 DEF Legible
  <2> HIDE DEF n
  <2>3. CASE n = 0
    <3>1. ~S!IsBinary(m.type)
      BY <2>1, <2>3
    <3> QED
      BY <2>3, <3>1 DEF DataOf
  <2>4. CASE n = 1
    <3>1. S!IsBinary(m.type)
      BY <2>1, <2>4
    <3> QED
      BY <2>2, <2>4, <3>1 DEF DataOf
  <2> QED
    BY <2>3, <2>4
<1>7. Reads(S!Packet(m.type, m.nsp, DataOf(m), m.id, n, m.attachments), m)
  BY <1>6 DEF Reads, S!Packet
<1> QED
  BY <1>3, <1>4, <1>5, <1>7 DEF packet

-----------------------------------------------------------------------------
(* FlattenSeq *)

\* One sequence behind another.
Concats(T) == [x \in Seq(T) \X Seq(T) |-> x[1] \o x[2]]

\* Concatenation is a fold.
LEMMA ConcatFolds == ASSUME NEW T PROVE Folding(Seq(T), Seq(T), <<>>, Concats(T))
<1>1. <<>> \in Seq(T)
  OBVIOUS
<1>2. ASSUME NEW x \in Seq(T) \X Seq(T) PROVE x[1] \o x[2] \in Seq(T)
  BY ConcatProperties
<1> QED
  BY <1>1, <1>2 DEF Folding, Concats

\* The function that FlattenSeq is defined by.
Flattens(f, seqs) ==
    f = [i \in 1 .. Len(seqs) |-> IF i = 1 THEN seqs[i] ELSE f[i - 1] \o seqs[i]]

\* ... and FlattenSeq is its value.
LEMMA FlattenIsValue ==
    ASSUME NEW T, NEW s \in Seq(Seq(T))
    PROVE  FlattenSeq(s) = Value(Concats(T), <<>>, Seq(T), s)
<1> DEFINE n == Len(s)
           F == CHOOSE f : Flattens(f, s)
           V == Seq(T)
           op == Concats(T)
           R == Run(op, <<>>, V, s)
           q == CHOOSE r \in R : TRUE
<1>1. n \in Nat /\ \A i \in 1 .. n : s[i] \in V
  BY ElementOfSeq, LenProperties
<1>2. FlattenSeq(s) = IF n = 0 THEN s ELSE F[n]
  BY DEF FlattenSeq, Flattens
<1>3. q \in R
  <2>1. R # {}
    <3>1. FunctionsOf(op, <<>>, V, s) # {}
      BY ConcatFolds, FoldOfSeq
    <3>2. PICK h \in [SUBSET (1 .. Len(s)) -> V] :
             \A x \in SUBSET (1 .. Len(s)) :
                h[x] = IF x = {} THEN <<>> ELSE op[<<h[x \ {Max(x)}], s[Max(x)]>>]
      BY <3>1 DEF FunctionsOf
    <3>3. Follows(h, op, <<>>, V, s)
      BY <3>2, LenProperties DEF Follows
    <3> QED
      BY <3>3, ConcatFolds, FoldRuns
  <2> HIDE DEF R
  <2> QED
    BY <2>1
<1>4. \A a, b \in V : op[<<a, b>>] = a \o b
  BY DEF Concats
<1> HIDE DEF op, q
<1>5. /\ q \in [0 .. n -> V] /\ q[0] = <<>>
      /\ \A i \in 1 .. n : q[i] = op[<<q[i - 1], s[i]>>]
  BY <1>3 DEF Run
<1>6. \A i \in 1 .. n : q[i] = q[i - 1] \o s[i]
  <2> SUFFICES ASSUME NEW i \in 1 .. n PROVE q[i] = q[i - 1] \o s[i]
    OBVIOUS
  <2> HIDE DEF V, n
  <2>1. q[i - 1] \in V /\ s[i] \in V
    <3>1. i - 1 \in 0 .. n
      BY <1>1
    <3> QED
      BY <1>1, <1>5, <3>1
  <2> QED
    BY <1>4, <1>5, <2>1
<1>7. n # 0 => q[1] = s[1]
  <2> SUFFICES ASSUME n # 0 PROVE q[1] = s[1]
    OBVIOUS
  <2>1. q[1] = <<>> \o s[1] /\ s[1] \in V
    <3> HIDE DEF V, n
    <3>1. 1 \in 1 .. n /\ 1 - 1 = 0
      BY <1>1
    <3>2. q[1] = q[1 - 1] \o s[1] /\ s[1] \in V
      BY <1>1, <1>6, <3>1
    <3> QED
      BY <1>5, <3>1, <3>2
  <2> HIDE DEF n
  <2> QED
    BY <2>1, ConcatEmptySeq
<1>8. Flattens(F, s)
  <2> DEFINE f == [i \in 1 .. n |-> q[i]]
  <2>1. \A i \in 1 .. n : f[i] = IF i = 1 THEN s[i] ELSE f[i - 1] \o s[i]
    <3> SUFFICES ASSUME NEW i \in 1 .. n PROVE f[i] = IF i = 1 THEN s[i] ELSE f[i - 1] \o s[i]
      OBVIOUS
    <3>1. CASE i = 1
      BY <1>1, <1>7, <3>1
    <3>2. CASE i # 1
      <4>1. i - 1 \in 1 .. n
        BY <1>1, <3>2
      <4>2. f[i - 1] = q[i - 1] /\ f[i] = q[i]
        BY <4>1
      <4> QED
        BY <1>6, <3>2, <4>2
    <3> QED
      BY <3>1, <3>2
  <2>2. Flattens(f, s)
    <3>1. f = [i \in 1 .. n |-> f[i]]
      OBVIOUS
    <3> HIDE DEF f
    <3>2. [i \in 1 .. n |-> f[i]] = [i \in 1 .. n |-> IF i = 1 THEN s[i] ELSE f[i - 1] \o s[i]]
      BY <2>1
    <3> QED
      BY <3>1, <3>2 DEF Flattens
  <2> HIDE DEF Flattens
  <2> QED
    BY <2>2
<1> HIDE DEF F
<1>9. \A i \in 1 .. n : F[i] = IF i = 1 THEN s[i] ELSE F[i - 1] \o s[i]
  BY <1>8 DEF Flattens
<1>10. \A i \in 1 .. n : F[i] = q[i]
  <2> DEFINE P == {i \in Nat : i + 1 <= n => F[i + 1] = q[i + 1]}
  <2>1. 0 \in P
    <3> SUFFICES ASSUME 1 <= n PROVE F[1] = q[1]
      OBVIOUS
    <3>1. 1 \in 1 .. n /\ n # 0
      BY <1>1
    <3>2. F[1] = s[1]
      BY <1>9, <3>1
    <3> QED
      BY <1>7, <3>1, <3>2
  <2>2. ASSUME NEW i \in Nat, i \in P PROVE i + 1 \in P
    <3> SUFFICES ASSUME i + 2 <= n PROVE F[i + 2] = q[i + 2]
      OBVIOUS
    <3>1. i + 2 \in 1 .. n /\ i + 2 # 1 /\ (i + 2) - 1 = i + 1 /\ i + 1 <= n
      BY <1>1
    <3>2. F[i + 1] = q[i + 1]
      BY <2>2, <3>1
    <3>3. F[i + 2] = F[(i + 2) - 1] \o s[i + 2]
      BY <1>9, <3>1
    <3>4. q[i + 2] = q[(i + 2) - 1] \o s[i + 2]
      BY <1>6, <3>1
    <3> QED
      BY <3>1, <3>2, <3>3, <3>4
  <2>3. Nat \subseteq P
    <3> HIDE DEF P
    <3> QED
      BY <2>1, <2>2, Induction
  <2> SUFFICES ASSUME NEW i \in 1 .. n PROVE F[i] = q[i]
    OBVIOUS
  <2>4. i - 1 \in Nat /\ (i - 1) + 1 = i /\ i <= n
    BY <1>1
  <2>5. i - 1 \in P
    BY <2>3, <2>4
  <2> QED
    BY <2>4, <2>5
<1>11. FlattenSeq(s) = q[n]
  <2>1. CASE n = 0
    <3>1. s = <<>>
      BY <2>1
    <3> QED
      BY <1>2, <1>5, <2>1, <3>1
  <2>2. CASE n # 0
    <3>1. n \in 1 .. n
      BY <1>1, <2>2
    <3> QED
      BY <1>2, <1>10, <2>2, <3>1
  <2> QED
    BY <2>1, <2>2
<1> QED
  BY <1>11 DEF Value, q, op

\* FlattenSeq of no sequences, and of one sequence more.
LEMMA Flattened ==
    ASSUME NEW T
    PROVE  /\ FlattenSeq(<<>>) = <<>>
           /\ \A s \in Seq(Seq(T)) : FlattenSeq(s) \in Seq(T)
           /\ \A s \in Seq(Seq(T)), t \in Seq(T) : FlattenSeq(Append(s, t)) = FlattenSeq(s) \o t
<1>1. /\ Value(Concats(T), <<>>, Seq(T), <<>>) = <<>>
      /\ \A s \in Seq(Seq(T)) : Value(Concats(T), <<>>, Seq(T), s) \in Seq(T)
      /\ \A s \in Seq(Seq(T)), t \in Seq(T) :
            Value(Concats(T), <<>>, Seq(T), Append(s, t))
              = Concats(T)[<<Value(Concats(T), <<>>, Seq(T), s), t>>]
  BY ConcatFolds, Values
<1>2. <<>> \in Seq(Seq(T))
  BY EmptySeq
<1>3. FlattenSeq(<<>>) = <<>>
  BY <1>1, <1>2, FlattenIsValue
<1>4. ASSUME NEW s \in Seq(Seq(T)) PROVE FlattenSeq(s) \in Seq(T)
  BY <1>1, FlattenIsValue
<1>5. ASSUME NEW s \in Seq(Seq(T)), NEW t \in Seq(T)
      PROVE  FlattenSeq(Append(s, t)) = FlattenSeq(s) \o t
  <2> DEFINE v == Value(Concats(T), <<>>, Seq(T), s)
             u == Append(s, t)
  <2>1. u \in Seq(Seq(T))
    BY AppendProperties
  <2>2. Value(Concats(T), <<>>, Seq(T), u) = Concats(T)[<<v, t>>] /\ v \in Seq(T)
    BY <1>1
  <2>3. FlattenSeq(s) = v
    BY FlattenIsValue
  <2> HIDE DEF v, u
  <2>4. Concats(T)[<<v, t>>] = v \o t
    BY <2>2 DEF Concats
  <2>5. FlattenSeq(u) = Value(Concats(T), <<>>, Seq(T), u)
    BY <2>1, FlattenIsValue
  <2> QED
    BY <2>2, <2>3, <2>4, <2>5 DEF u
<1> QED
  BY <1>3, <1>4, <1>5

\* ... and with one sequence in front.
LEMMA FlattenedFirst ==
    ASSUME NEW T, NEW x \in Seq(T)
    PROVE  \A s \in Seq(Seq(T)) : FlattenSeq(<<x>> \o s) = x \o FlattenSeq(s)
<1> DEFINE U == Seq(T)
           Holds(n) == \A s \in Seq(U) :
                          Len(s) = n => FlattenSeq(<<x>> \o s) = x \o FlattenSeq(s)
           P == {n \in Nat : Holds(n)}
<1>0. /\ FlattenSeq(<<>>) = <<>>
      /\ \A s \in Seq(U) : FlattenSeq(s) \in Seq(T)
      /\ \A s \in Seq(U), t \in U : FlattenSeq(Append(s, t)) = FlattenSeq(s) \o t
  BY Flattened
<1>1. 0 \in P
  <2> SUFFICES ASSUME NEW s \in Seq(U), Len(s) = 0
               PROVE  FlattenSeq(<<x>> \o s) = x \o FlattenSeq(s)
    OBVIOUS
  <2>1. s = <<>>
    OBVIOUS
  <2>2. x \in U /\ <<>> \in Seq(U) /\ <<>> \in Seq(T)
    OBVIOUS
  <2>3. <<x>> \o <<>> = Append(<<>>, x)
    <3> HIDE DEF U
    <3>1. <<x>> \in Seq(U)
      BY <2>2
    <3>2. <<x>> \o <<>> = <<x>>
      BY <3>1, ConcatEmptySeq
    <3> QED
      BY <3>2, Appended1
  <2>4. FlattenSeq(Append(<<>>, x)) = FlattenSeq(<<>>) \o x
    BY <1>0, <2>2
  <2>5. FlattenSeq(<<>>) \o x = x /\ x \o FlattenSeq(<<>>) = x
    BY <1>0, ConcatEmptySeq
  <2> QED
    BY <2>1, <2>3, <2>4, <2>5
<1>2. ASSUME NEW n \in Nat, n \in P PROVE n + 1 \in P
  <2> SUFFICES Holds(n + 1)
    <3> HIDE DEF Holds
    <3> QED
      OBVIOUS
  <2> SUFFICES ASSUME NEW s \in Seq(U), Len(s) = n + 1
               PROVE  FlattenSeq(<<x>> \o s) = x \o FlattenSeq(s)
    OBVIOUS
  <2> DEFINE a == SubSeq(s, 1, n)
             e == s[n + 1]
             F(t) == FlattenSeq(t)
  <2>1. a \in Seq(U) /\ Len(a) = n /\ e \in U /\ s = Append(a, e)
    <3> HIDE DEF U
    <3>1. a \in Seq(U) /\ e \in U /\ SubSeq(s, 1, n + 1) = Append(a, e)
      BY Fronts
    <3>2. SubSeq(s, 1, n + 1) = s
      BY SubSeqFull
    <3>3. Len(a) = n
      BY <3>1
    <3> QED
      BY <3>1, <3>2, <3>3
  <2>2. F(<<x>> \o a) = x \o F(a)
    <3>1. Holds(n)
      BY <1>2
    <3> QED
      BY <2>1, <3>1
  <2> HIDE DEF a, e, F, P
  <2>3. F(s) = F(a) \o e /\ F(a) \in U
    BY <1>0, <2>1 DEF F
  <2>4. F(<<x>> \o s) = F(<<x>> \o a) \o e
    <3> DEFINE t == <<x>> \o a
    <3> HIDE DEF U
    <3>1. x \in U
      BY DEF U
    <3>2. <<x>> \in Seq(U)
      BY <3>1
    <3>3. t \in Seq(U)
      BY <2>1, <3>2, ConcatProperties
    <3>4. <<x>> \o Append(a, e) = Append(t, e)
      BY <2>1, <3>2, ConcatAppend
    <3> HIDE DEF t
    <3>5. F(Append(t, e)) = F(t) \o e
      BY <1>0, <2>1, <3>3 DEF F
    <3> QED
      BY <2>1, <3>4, <3>5 DEF t
  <2>5. (x \o F(a)) \o e = x \o (F(a) \o e)
    <3>1. x \in Seq(T) /\ F(a) \in Seq(T) /\ e \in Seq(T)
      BY <2>1, <2>3
    <3>2. Cat(Cat(x, F(a)), e) = Cat(x, Cat(F(a), e))
      BY <3>1, CatAssociative
    <3> QED
      BY <3>2 DEF Cat
  <2>6. F(<<x>> \o s) = x \o F(s)
    BY <2>2, <2>3, <2>4, <2>5, Zenon
  <2> QED
    BY <2>6 DEF F
<1>3. Nat \subseteq P
  <2> HIDE DEF P
  <2> QED
    BY <1>1, <1>2, Induction
<1> SUFFICES ASSUME NEW s \in Seq(U) PROVE FlattenSeq(<<x>> \o s) = x \o FlattenSeq(s)
  OBVIOUS
<1>4. Len(s) \in Nat
  OBVIOUS
<1>5. Len(s) \in P
  BY <1>3, <1>4
<1> QED
  BY <1>5

\* A function of each element of a sequence.
Of(f, s) == [i \in DOMAIN s |-> f[s[i]]]

\* A function of all elements, and the sequence with one element in front.
Mapping(M, U, f) == f \in [M -> U]
Led(f, m, s) == Of(f, <<m>> \o s) = <<f[m]>> \o Of(f, s)

\* ... and how it grows at both ends.
LEMMA OfGrows ==
    ASSUME NEW M, NEW U, NEW f, Mapping(M, U, f)
    PROVE  /\ Of(f, <<>>) = <<>>
           /\ \A s \in Seq(M) : Of(f, s) \in Seq(U) /\ Len(Of(f, s)) = Len(s)
           /\ \A s \in Seq(M), m \in M : Of(f, Append(s, m)) = Append(Of(f, s), f[m])
           /\ \A s \in Seq(M), m \in M : Led(f, m, s)
<1>0. f \in [M -> U]
  BY DEF Mapping
<1>1. Of(f, <<>>) = <<>>
  BY DEF Of
<1>2. ASSUME NEW s \in Seq(M)
      PROVE  /\ Of(f, s) \in Seq(U) /\ Len(Of(f, s)) = Len(s)
             /\ \A i \in 1 .. Len(s) : Of(f, s)[i] = f[s[i]]
  <2>1. DOMAIN s = 1 .. Len(s) /\ Len(s) \in Nat /\ \A i \in 1 .. Len(s) : s[i] \in M
    BY ElementOfSeq, LenProperties
  <2> QED
    BY <1>0, <2>1 DEF Of
<1>3. ASSUME NEW s \in Seq(M), NEW m \in M PROVE Of(f, Append(s, m)) = Append(Of(f, s), f[m])
  <2> DEFINE t == Append(s, m)
             a == Of(f, t)
             c == Of(f, s)
             b == Append(c, f[m])
             n == Len(s)
  <2>1. /\ t \in Seq(M) /\ Len(t) = n + 1 /\ n \in Nat /\ t[n + 1] = m
        /\ \A i \in 1 .. n : t[i] = s[i]
    BY AppendProperties, LenProperties
  <2> HIDE DEF t, n
  <2>2. a \in Seq(U) /\ Len(a) = n + 1 /\ \A i \in 1 .. n + 1 : a[i] = f[t[i]]
    BY <1>2, <2>1
  <2>3. c \in Seq(U) /\ Len(c) = n /\ \A i \in 1 .. n : c[i] = f[s[i]]
    BY <1>2 DEF n
  <2> HIDE DEF a, c
  <2>4. f[m] \in U
    BY <1>0
  <2>5. b \in Seq(U) /\ Len(b) = n + 1 /\ b[n + 1] = f[m] /\ \A i \in 1 .. n : b[i] = c[i]
    BY <2>3, <2>4, AppendProperties
  <2> HIDE DEF b
  <2>6. \A i \in 1 .. n + 1 : a[i] = b[i]
    <3> SUFFICES ASSUME NEW i \in 1 .. n + 1 PROVE a[i] = b[i]
      OBVIOUS
    <3>1. CASE i = n + 1
      BY <2>1, <2>2, <2>5, <3>1
    <3>2. CASE i # n + 1
      <4>1. i \in 1 .. n
        BY <2>1, <3>2
      <4> QED
        BY <2>1, <2>2, <2>3, <2>5, <4>1
    <3> QED
      BY <3>1, <3>2
  <2>7. a = b
    <3>1. n + 1 \in Nat
      BY <2>1
    <3> QED
      BY <2>2, <2>5, <2>6, <3>1, SameSeq
  <2> QED
    BY <2>7 DEF a, b, c, t
<1>4. ASSUME NEW s \in Seq(M), NEW m \in M PROVE Led(f, m, s)
  <2> DEFINE t == <<m>> \o s
             a == Of(f, t)
             c == Of(f, s)
             b == <<f[m]>> \o c
             n == Len(s)
  <2>1. /\ t \in Seq(M) /\ Len(t) = n + 1 /\ n \in Nat /\ t[1] = m
        /\ \A i \in 1 .. n : t[i + 1] = s[i]
    BY Prefixed, LenProperties
  <2> HIDE DEF t, n
  <2>2. a \in Seq(U) /\ Len(a) = n + 1 /\ \A i \in 1 .. n + 1 : a[i] = f[t[i]]
    BY <1>2, <2>1
  <2>3. c \in Seq(U) /\ Len(c) = n /\ \A i \in 1 .. n : c[i] = f[s[i]]
    BY <1>2 DEF n
  <2> HIDE DEF a, c
  <2>4. f[m] \in U
    BY <1>0
  <2>5. b \in Seq(U) /\ Len(b) = n + 1 /\ b[1] = f[m] /\ \A i \in 1 .. n : b[i + 1] = c[i]
    <3> DEFINE e == f[m]
    <3> HIDE DEF e
    <3>1. e \in U
      BY <2>4 DEF e
    <3>2. /\ <<e>> \o c \in Seq(U) /\ Len(<<e>> \o c) = n + 1 /\ (<<e>> \o c)[1] = e
          /\ \A i \in 1 .. n : (<<e>> \o c)[i + 1] = c[i]
      BY <2>3, <3>1, Prefixed
    <3> QED
      BY <3>2 DEF e
  <2> HIDE DEF b
  <2>6. \A i \in 1 .. n + 1 : a[i] = b[i]
    <3> SUFFICES ASSUME NEW i \in 1 .. n + 1 PROVE a[i] = b[i]
      OBVIOUS
    <3>1. CASE i = 1
      BY <2>1, <2>2, <2>5, <3>1
    <3>2. CASE i # 1
      <4> DEFINE j == i - 1
      <4>1. j \in 1 .. n /\ j + 1 = i
        BY <2>1, <3>2
      <4> HIDE DEF j
      <4>2. a[j + 1] = f[t[j + 1]] /\ t[j + 1] = s[j]
        BY <2>1, <2>2, <4>1
      <4>3. b[j + 1] = f[s[j]]
        BY <2>3, <2>5, <4>1
      <4> QED
        BY <4>1, <4>2, <4>3
    <3> QED
      BY <3>1, <3>2
  <2>7. a = b
    <3>1. n + 1 \in Nat
      BY <2>1
    <3> QED
      BY <2>2, <2>5, <2>6, <3>1, SameSeq
  <2> QED
    BY <2>7 DEF a, b, c, t, Led
<1> QED
  BY <1>1, <1>2, <1>3, <1>4

-----------------------------------------------------------------------------
(* What messages and packets have in them *)

\* What the packets of messages have in them.
Item == Seq(Char)
Items(m) == <<Text(m)>> \o m.attachments
ItemsOf == [m \in ServerMessage |-> Items(m)]
Contents == [packet \in Sound |-> packet.data]

\* What is to be handled for messages that have not been.
Due(messages) == FlattenSeq(Of(ItemsOf, messages))

\* The packets that the server has for the client.
Queued ==
    {packet \in Sound :
        /\ packet.id \in {"Message", "MessageBinary"}
        /\ packet.id = "MessageBinary" => packet.data \in Attachments}

\* Attachments are items.
LEMMA AttachmentItems ==
    /\ \A data \in Attachments : data \in Seq(E!AttachmentByte) /\ data \in Item /\ data # <<>>
    /\ Seq(Attachments) \subseteq Seq(Item)
<1>1. E!AttachmentByte \subseteq Char
  BY DEF Char
<1>2. \A data \in Attachments : data \in Seq(E!AttachmentByte) /\ data # <<>>
  BY AttachmentsAssumption
<1>3. \A data \in Attachments : data \in Seq(E!AttachmentByte) /\ data \in Item /\ data # <<>>
  <2> HIDE DEF E!AttachmentByte, Char
  <2> QED
    BY <1>1, <1>2, SeqOfMore DEF Item
<1>4. Attachments \subseteq Item
  BY <1>3
<1>5. Seq(Attachments) \subseteq Seq(Item)
  <2> HIDE DEF Item
  <2> QED
    BY <1>4, SeqOfMore
<1> QED
  BY <1>3, <1>5

\* The text and the attachments of a message as packets.
LEMMA QueuedPackets ==
    /\ \A m \in ServerMessage :
          /\ E!Packet("Message", Text(m)) \in Queued
          /\ E!Packet("Message", Text(m)).data = Text(m)
    /\ \A data \in Attachments :
          /\ E!Packet("MessageBinary", data) \in Queued
          /\ E!Packet("MessageBinary", data).data = data
<1>1. "Message" \in E!PacketId /\ "MessageBinary" \in E!PacketId
  BY DEF E!PacketId
<1>2. ASSUME NEW m \in ServerMessage
      PROVE  /\ E!Packet("Message", Text(m)) \in Queued
             /\ E!Packet("Message", Text(m)).data = Text(m)
  <2>1. Text(m) \in Seq(Plain) /\ Text(m) # <<>>
    BY ServerMessages, Decoded
  <2> DEFINE text == Text(m)
  <2>2. text \in Seq(Char) /\ \A i \in 1 .. Len(text) : text[i] # E!Separator
    BY <2>1, PlainText
  <2>3. text # <<>>
    BY <2>1
  <2> HIDE DEF text
  <2> DEFINE p == E!Packet("Message", text)
  <2>4. p.id = "Message" /\ p.data = text /\ p \in [id : E!PacketId, data : Seq(Char)]
    BY <1>1, <2>2 DEF E!Packet
  <2> HIDE DEF p
  <2>5. p \in Sound
    BY <2>2, <2>3, <2>4 DEF Sound
  <2>6. p \in Queued
    BY <2>4, <2>5 DEF Queued
  <2> QED
    BY <2>4, <2>6 DEF p, text
<1>3. ASSUME NEW data \in Attachments
      PROVE  /\ E!Packet("MessageBinary", data) \in Queued
             /\ E!Packet("MessageBinary", data).data = data
  <2>1. data \in Seq(E!AttachmentByte) /\ data \in Seq(Char)
    BY AttachmentItems DEF Item
  <2> DEFINE p == E!Packet("MessageBinary", data)
  <2>2. p.id = "MessageBinary" /\ p.data = data /\ p \in [id : E!PacketId, data : Seq(Char)]
    BY <1>1, <2>1 DEF E!Packet
  <2> HIDE DEF p
  <2>3. p \in Sound
    BY <2>1, <2>2 DEF Sound
  <2>4. p \in Queued
    BY <2>2, <2>3 DEF Queued
  <2> QED
    BY <2>2, <2>4 DEF p
<1> QED
  BY <1>2, <1>3

\* What a message's packets are, and what they have in them.
LEMMA MessageItems ==
    ASSUME NEW m \in ServerMessage
    PROVE  /\ PacketsFor(m) \in Seq(Queued)
           /\ Text(m) \in Item /\ m.attachments \in Seq(Item) /\ Items(m) \in Seq(Item)
           /\ Of(Contents, PacketsFor(m)) = Items(m)
<1> DEFINE first == E!Packet("Message", Text(m))
           files == m.attachments
           n == Len(files)
           rest == [k \in DOMAIN files |-> E!Packet("MessageBinary", files[k])]
<1>1. first \in Queued /\ first.data = Text(m)
  BY QueuedPackets
<1>2. files \in Seq(Attachments) /\ files \in Seq(Item)
  BY ServerMessages, AttachmentItems DEF Legible
<1>3. n \in Nat /\ DOMAIN files = 1 .. n /\ \A k \in 1 .. n : files[k] \in Attachments
  <2> HIDE DEF files
  <2> QED
    BY <1>2, ElementOfSeq, LenProperties
<1>4. Text(m) \in Item
  <2>1. Text(m) \in Seq(Plain)
    BY ServerMessages, Decoded
  <2> QED
    BY <2>1, PlainText DEF Item
<1> DEFINE text == Text(m)
<1> HIDE DEF files, text, Item
<1>5. /\ rest \in Seq(Queued) /\ Len(rest) = n
      /\ \A k \in 1 .. n : rest[k] \in Queued /\ rest[k].data = files[k]
  <2>1. \A k \in 1 .. n : /\ E!Packet("MessageBinary", files[k]) \in Queued
                          /\ E!Packet("MessageBinary", files[k]).data = files[k]
    BY <1>3, QueuedPackets
  <2> HIDE DEF n
  <2>2. rest = [k \in 1 .. n |-> E!Packet("MessageBinary", files[k])]
    BY <1>3
  <2>3. \A k \in 1 .. n : rest[k] = E!Packet("MessageBinary", files[k])
    BY <2>2
  <2>4. rest \in [1 .. n -> Queued]
    BY <2>1, <2>2
  <2> HIDE DEF rest
  <2> QED
    BY <1>3, <2>1, <2>3, <2>4, FunctionIsSeq
<1>6. PacketsFor(m) = <<first>> \o rest
  BY DEF PacketsFor, files
<1> HIDE DEF first, rest, n
<1>7. <<first>> \o rest \in Seq(Queued)
  BY <1>1, <1>5, Prefixed
<1>8. Items(m) = <<text>> \o files /\ <<text>> \o files \in Seq(Item)
  <2>1. text \in Item
    BY <1>4 DEF text
  <2>2. <<text>> \o files \in Seq(Item)
    BY <1>2, <2>1, Prefixed
  <2> QED
    BY <2>2 DEF Items, text, files
<1>9. Of(Contents, <<first>> \o rest) = <<text>> \o files
  <2>1. Mapping(Sound, Item, Contents) /\ \A p \in Queued : p \in Sound /\ Contents[p] = p.data
    <3>1. \A p \in Sound : p.data \in Item
      BY DEF Sound, Item
    <3> QED
      BY <3>1 DEF Mapping, Contents, Queued
  <2>2. rest \in Seq(Sound)
    <3>1. Queued \subseteq Sound
      BY DEF Queued
    <3> QED
      BY <1>5, <3>1, SeqOfMore
  <2> HIDE DEF Contents
  <2>3. Of(Contents, <<first>> \o rest) = <<Contents[first]>> \o Of(Contents, rest)
    <3>1. first \in Sound
      BY <1>1, <2>1
    <3>2. Led(Contents, first, rest)
      BY <2>1, <2>2, <3>1, OfGrows
    <3> QED
      BY <3>2 DEF Led
  <2>4. Contents[first] = text
    BY <1>1, <2>1 DEF text
  <2>5. Of(Contents, rest) = files
    <3> DEFINE a == Of(Contents, rest)
    <3>1. a \in Seq(Item) /\ Len(a) = n
      <4>1. \A s \in Seq(Sound) : Of(Contents, s) \in Seq(Item) /\ Len(Of(Contents, s)) = Len(s)
        BY <2>1, OfGrows
      <4> QED
        BY <1>5, <2>2, <4>1
    <3>2. \A k \in 1 .. n : a[k] = files[k]
      <4>1. DOMAIN rest = 1 .. n
        BY <1>5
      <4>2. \A k \in 1 .. n : a[k] = Contents[rest[k]]
        BY <4>1 DEF Of
      <4> HIDE DEF a
      <4> QED
        BY <1>5, <2>1, <4>2
    <3> HIDE DEF a
    <3>3. Len(files) = n
      BY DEF n
    <3> QED
      BY <1>2, <1>3, <3>1, <3>2, <3>3, SameSeq DEF a
  <2> QED
    BY <2>3, <2>4, <2>5
<1> QED
  BY <1>2, <1>4, <1>6, <1>7, <1>8, <1>9 DEF files

-----------------------------------------------------------------------------
(* What the client is to be handed, and what a transport hands it *)

\* Attachments are torn by a websocket if the separator is in them, as a
\* binary message is split like a payload.
Untorn ==
    \/ Transports \subseteq {"polling"}
    \/ \A data \in Attachments : \A i \in 1 .. Len(data) : data[i] # E!Separator

\* What a packet has in it, and what a message has, as functions.
LEMMA ContentsMap == Mapping(Sound, Item, Contents) /\ Queued \subseteq Sound
<1>1. \A p \in Sound : p.data \in Item
  BY DEF Sound, Item
<1> QED
  BY <1>1 DEF Mapping, Contents, Queued

\* ... of messages.
LEMMA ItemsMap == Mapping(ServerMessage, Seq(Item), ItemsOf)
<1>1. \A m \in ServerMessage : Items(m) \in Seq(Item)
  BY MessageItems
<1> QED
  BY <1>1 DEF Mapping, ItemsOf

\* What is due for no messages, and for one message more.
LEMMA DueGrows ==
    /\ Due(<<>>) = <<>>
    /\ \A s \in Seq(ServerMessage) : Due(s) \in Seq(Item)
    /\ \A s \in Seq(ServerMessage), m \in ServerMessage :
          Due(Append(s, m)) = Due(s) \o Items(m)
<1>1. /\ Of(ItemsOf, <<>>) = <<>>
      /\ \A s \in Seq(ServerMessage) : Of(ItemsOf, s) \in Seq(Seq(Item))
      /\ \A s \in Seq(ServerMessage), m \in ServerMessage :
            Of(ItemsOf, Append(s, m)) = Append(Of(ItemsOf, s), ItemsOf[m])
  BY ItemsMap, OfGrows
<1>2. \A m \in ServerMessage : ItemsOf[m] = Items(m) /\ Items(m) \in Seq(Item)
  BY MessageItems DEF ItemsOf
<1>3. Due(<<>>) = <<>>
  BY <1>1, Flattened DEF Due
<1>4. ASSUME NEW s \in Seq(ServerMessage) PROVE Due(s) \in Seq(Item)
  BY <1>1, Flattened DEF Due
<1>5. ASSUME NEW s \in Seq(ServerMessage), NEW m \in ServerMessage
      PROVE  Due(Append(s, m)) = Due(s) \o Items(m)
  <2> DEFINE a == Of(ItemsOf, s)
             e == Items(m)
             t == Append(s, m)
  <2>1. a \in Seq(Seq(Item)) /\ e \in Seq(Item) /\ Of(ItemsOf, t) = Append(a, e)
    BY <1>1, <1>2
  <2> HIDE DEF a, e, t
  <2>2. FlattenSeq(Append(a, e)) = FlattenSeq(a) \o e
    BY <2>1, Flattened
  <2>3. Due(t) = FlattenSeq(a) \o e
    BY <2>1, <2>2 DEF Due
  <2> QED
    BY <2>3 DEF Due, a, e, t
<1> QED
  BY <1>3, <1>4, <1>5

\* ... and with one message in front.
LEMMA DueFirst ==
    ASSUME NEW s \in Seq(ServerMessage), NEW m \in ServerMessage
    PROVE  Due(<<m>> \o s) = <<Text(m)>> \o (m.attachments \o Due(s))
<1> DEFINE a == Of(ItemsOf, s)
           e == Items(m)
           t == <<m>> \o s
           text == <<Text(m)>>
           files == m.attachments
           rest == Due(s)
<1>1. a \in Seq(Seq(Item))
  BY ItemsMap, OfGrows
<1>2. e \in Seq(Item) /\ ItemsOf[m] = e
  BY MessageItems DEF ItemsOf
<1>3. Of(ItemsOf, t) = <<e>> \o a
  <2>1. Led(ItemsOf, m, s)
    BY ItemsMap, OfGrows
  <2> QED
    BY <1>2, <2>1 DEF Led
<1>4. text \in Seq(Item) /\ files \in Seq(Item) /\ e = text \o files
  <2>1. Text(m) \in Item /\ files \in Seq(Item)
    BY MessageItems
  <2> HIDE DEF Item
  <2>2. text \in Seq(Item)
    BY <2>1
  <2> QED
    BY <2>1, <2>2 DEF Items
<1>5. rest \in Seq(Item)
  BY DueGrows
<1>6. rest = FlattenSeq(a)
  BY DEF Due
<1>7. Due(t) = FlattenSeq(<<e>> \o a)
  BY <1>3 DEF Due
<1> HIDE DEF a, e, text, files, rest, t
<1>8. FlattenSeq(<<e>> \o a) = e \o FlattenSeq(a)
  BY <1>1, <1>2, FlattenedFirst
<1>9. (text \o files) \o rest = text \o (files \o rest)
  <2>1. Cat(Cat(text, files), rest) = Cat(text, Cat(files, rest))
    BY <1>4, <1>5, CatAssociative
  <2> QED
    BY <2>1 DEF Cat
<1>10. Due(t) = text \o (files \o rest)
  BY <1>4, <1>6, <1>7, <1>8, <1>9, Zenon
<1> QED
  BY <1>10 DEF t, text, files, rest

\* What packets have in them, of two sequences of them.
LEMMA OfConcat ==
    ASSUME NEW M, NEW U, NEW f, Mapping(M, U, f), NEW s \in Seq(M), NEW t \in Seq(M)
    PROVE  Of(f, s \o t) = Of(f, s) \o Of(f, t)
<1> DEFINE u == s \o t
           a == Of(f, s)
           b == Of(f, t)
           c == Of(f, u)
           d == a \o b
           n == Len(s)
           k == Len(t)
<1>1. /\ u \in Seq(M) /\ Len(u) = n + k /\ n \in Nat /\ k \in Nat
      /\ \A i \in 1 .. n + k : u[i] = IF i <= n THEN s[i] ELSE t[i - n]
  BY ConcatProperties, LenProperties
<1>2. \A v \in Seq(M) : /\ Of(f, v) \in Seq(U) /\ Len(Of(f, v)) = Len(v)
                        /\ \A i \in 1 .. Len(v) : Of(f, v)[i] = f[v[i]]
  <2> SUFFICES ASSUME NEW v \in Seq(M)
               PROVE  /\ Of(f, v) \in Seq(U) /\ Len(Of(f, v)) = Len(v)
                      /\ \A i \in 1 .. Len(v) : Of(f, v)[i] = f[v[i]]
    OBVIOUS
  <2>1. DOMAIN v = 1 .. Len(v)
    BY LenProperties
  <2>2. Of(f, v) \in Seq(U) /\ Len(Of(f, v)) = Len(v)
    BY OfGrows
  <2> QED
    BY <2>1, <2>2 DEF Of
<1>3. /\ a \in Seq(U) /\ Len(a) = n /\ \A i \in 1 .. n : a[i] = f[s[i]]
      /\ b \in Seq(U) /\ Len(b) = k /\ \A i \in 1 .. k : b[i] = f[t[i]]
  BY <1>2
<1>4. c \in Seq(U) /\ Len(c) = n + k /\ \A i \in 1 .. n + k : c[i] = f[u[i]]
  <2> HIDE DEF u
  <2> QED
    BY <1>1, <1>2
<1> HIDE DEF a, b, c, n, k
<1>5. /\ d \in Seq(U) /\ Len(d) = n + k
      /\ \A i \in 1 .. n + k : d[i] = IF i <= n THEN a[i] ELSE b[i - n]
  <2>1. /\ d \in Seq(U) /\ Len(d) = Len(a) + Len(b)
        /\ \A i \in 1 .. Len(a) + Len(b) : d[i] = IF i <= Len(a) THEN a[i] ELSE b[i - Len(a)]
    <3>1. a \in Seq(U) /\ b \in Seq(U)
      BY <1>3
    <3> QED
      BY <3>1, ConcatProperties
  <2>2. Len(a) = n /\ Len(b) = k
    BY <1>3
  <2> HIDE DEF d
  <2> QED
    BY <2>1, <2>2
<1> HIDE DEF u, d
<1>6. \A i \in 1 .. n + k : c[i] = d[i]
  <2> SUFFICES ASSUME NEW i \in 1 .. n + k PROVE c[i] = d[i]
    OBVIOUS
  <2>1. CASE i <= n
    <3>1. i \in 1 .. n
      BY <1>1, <2>1
    <3>2. u[i] = s[i] /\ d[i] = a[i]
      BY <1>1, <1>5, <2>1
    <3> QED
      BY <1>3, <1>4, <3>1, <3>2
  <2>2. CASE ~(i <= n)
    <3>1. i - n \in 1 .. k
      BY <1>1, <2>2
    <3>2. u[i] = t[i - n] /\ d[i] = b[i - n]
      BY <1>1, <1>5, <2>2
    <3> QED
      BY <1>3, <1>4, <3>1, <3>2
  <2> QED
    BY <2>1, <2>2
<1>7. c = d
  <2>1. n + k \in Nat
    BY <1>1
  <2> QED
    BY <1>4, <1>5, <1>6, <2>1, SameSeq
<1> QED
  BY <1>7 DEF c, d, a, b, u

\* One packet, as a transport is given it, is a payload.
LEMMA AlonePacket ==
    ASSUME NEW packet \in Sound
    PROVE  E!DecodePayload(E!Encode(packet)) = <<packet>>
<1> DEFINE s == <<>>
<1>1. s \in Seq(Sound) /\ E!EncodePayload(s) = <<>>
  BY PayloadGrows
<1>2. E!EncodePayload(Append(<<>>, packet)) = Joined(<<>>, packet)
  BY <1>1, PayloadGrows
<1>3. Joined(<<>>, packet) = E!Encode(packet)
  <2>1. E!Encode(packet) \in Seq(Char)
    BY SoundPackets
  <2>2. <<>> \o E!Encode(packet) = E!Encode(packet)
    BY <2>1, ConcatEmptySeq
  <2> QED
    BY <2>2 DEF Joined
<1>4. Append(<<>>, packet) = <<packet>>
  BY Appended1
<1>5. <<packet>> \in Seq(Sound) /\ <<packet>> # <<>>
  <2> HIDE DEF Sound
  <2> QED
    OBVIOUS
<1>6. E!DecodePayload(E!EncodePayload(<<packet>>)) = <<packet>>
  BY <1>5, PayloadRoundTrip
<1> QED
  BY <1>2, <1>3, <1>4, <1>6

\* Among sound packets there is no error.
LEMMA NoError == \A s \in Seq(Sound) : E!Error \notin ToSet(s)
<1>1. E!Error \notin Sound
  <2>1. E!Error.id \notin E!PacketId
    BY DEF E!Error, E!Packet, E!PacketId
  <2> QED
    BY <2>1 DEF Sound
<1> HIDE DEF Sound
<1> SUFFICES ASSUME NEW s \in Seq(Sound), E!Error \in ToSet(s) PROVE FALSE
  OBVIOUS
<1>2. \A i \in DOMAIN s : s[i] \in Sound
  BY ElementOfSeq, LenProperties
<1> QED
  BY <1>1, <1>2 DEF ToSet

\* What an answer with one message of the websocket, or with a payload, comes to.
LEMMA CarriedPacket ==
    ASSUME NEW packet \in Queued, NEW t \in Transports, t # "polling", Untorn
    PROVE  \E one \in Sound : /\ one.data = packet.data
                              /\ E!PacketsOf(Carried(packet, t)) = <<one>>
<1>1. packet \in Sound /\ packet.id \in {"Message", "MessageBinary"}
  BY DEF Queued
<1>2. E!IdByte["Message"] = "4" /\ E!IdByte.Message = "4"
  BY DEF E!IdByte
<1>3. CASE packet.id = "Message"
  <2>1. E!Encode(packet) = <<"4">> \o packet.data
    BY <1>2, <1>3 DEF E!Encode
  <2>2. Carried(packet, t) = E!Frame(FALSE, <<"4">> \o packet.data)
    BY <1>3 DEF Carried
  <2>3. Carried(packet, t) = E!Frame(FALSE, E!Encode(packet))
    BY <2>1, <2>2, Zenon
  <2>4. E!PacketsOf(E!Frame(FALSE, E!Encode(packet))) = E!DecodePayload(E!Encode(packet))
    BY DEF E!PacketsOf, E!Polled, E!Frame
  <2>5. E!PacketsOf(Carried(packet, t)) = <<packet>>
    BY <1>1, <2>3, <2>4, AlonePacket, Zenon
  <2> QED
    BY <1>1, <2>5
<1>4. CASE packet.id = "MessageBinary"
  <2> DEFINE data == packet.data
             one == E!Packet("Message", data)
  <2>1. data \in Attachments /\ packet.id # "Message"
    BY <1>4 DEF Queued
  <2>2. data \in Seq(Char) /\ data # <<>> /\ \A i \in 1 .. Len(data) : data[i] # E!Separator
    <3>1. data \in Seq(Char) /\ data # <<>>
      BY <2>1, AttachmentItems DEF Item
    <3>2. ~(Transports \subseteq {"polling"})
      OBVIOUS
    <3> HIDE DEF data
    <3> QED
      BY <2>1, <3>1, <3>2 DEF Untorn
  <2>3. one.id = "Message" /\ one.data = data /\ one \in [id : E!PacketId, data : Seq(Char)]
    <3> HIDE DEF data
    <3>1. "Message" \in E!PacketId
      BY DEF E!PacketId
    <3> QED
      BY <2>2, <3>1 DEF E!Packet
  <2> HIDE DEF one, data
  <2>4. one \in Sound
    BY <2>2, <2>3 DEF Sound
  <2>5. E!Encode(one) = <<E!IdByte.Message>> \o data
    BY <1>2, <2>3 DEF E!Encode
  <2>6. Carried(packet, t) = E!Frame(TRUE, data)
    BY <2>1, <1>4 DEF Carried, data
  <2>7. E!PacketsOf(E!Frame(TRUE, data)) = E!DecodePayload(<<E!IdByte.Message>> \o data)
    BY DEF E!PacketsOf, E!Polled, E!Frame
  <2>8. E!PacketsOf(Carried(packet, t)) = <<one>>
    BY <2>4, <2>5, <2>6, <2>7, AlonePacket, Zenon
  <2> QED
    BY <2>3, <2>4, <2>8 DEF data
<1> QED
  BY <1>1, <1>3, <1>4

\* Whatever answer is polled, its packets have in them what those it was made of have.
LEMMA PolledPackets ==
    ASSUME Untorn, transport \in Transports, queue \in Seq(Queued), NEW answer \in Answers
    PROVE  LET packets == E!PacketsOf(answer.frame)
           IN /\ answer.size \in 1 .. Len(queue) /\ packets \in Seq(Sound)
              /\ Of(Contents, packets) = Of(Contents, SubSeq(queue, 1, answer.size))
              /\ E!Error \notin ToSet(packets)
<1> DEFINE Fine(a) ==
             /\ a.size \in 1 .. Len(queue) /\ E!PacketsOf(a.frame) \in Seq(Sound)
             /\ Of(Contents, E!PacketsOf(a.frame)) = Of(Contents, SubSeq(queue, 1, a.size))
<1>1. DOMAIN queue = 1 .. Len(queue) /\ Len(queue) \in Nat /\ queue \in Seq(Sound)
  <2> HIDE DEF Queued, Sound
  <2> QED
    BY ContentsMap, SeqOfMore, LenProperties
<1>2. ASSUME transport = "polling", NEW k \in DOMAIN queue
      PROVE  Fine([size |-> k, frame |-> E!Frame(FALSE, E!EncodePayload(SubSeq(queue, 1, k)))])
  <2> DEFINE s == SubSeq(queue, 1, k)
             a == [size |-> k, frame |-> E!Frame(FALSE, E!EncodePayload(s))]
  <2>1. k \in 1 .. Len(queue)
    BY <1>1, <1>2
  <2>2. s \in Seq(Sound) /\ Len(s) = k
    <3> HIDE DEF Sound
    <3>1. \A i \in 1 .. k : queue[i] \in Sound
      BY <1>1, <2>1
    <3> QED
      BY <1>1, <2>1, <3>1, SubSeqProperties
  <2>3. s # <<>>
    <3> HIDE DEF s
    <3> QED
      BY <2>1, <2>2
  <2> HIDE DEF s
  <2>4. E!DecodePayload(E!EncodePayload(s)) = s
    BY <2>2, <2>3, PayloadRoundTrip
  <2>5. a.size = k /\ E!PacketsOf(a.frame) = E!DecodePayload(E!EncodePayload(s))
    BY DEF E!PacketsOf, E!Polled, E!Frame
  <2> HIDE DEF a
  <2>6. Fine(a)
    BY <2>1, <2>2, <2>4, <2>5 DEF s
  <2> QED
    BY <2>6 DEF a, s
<1>3. ASSUME transport # "polling", NEW k \in DOMAIN queue \cap {1}
      PROVE  Fine([size |-> 1, frame |-> Carried(queue[k], transport)])
  <2> DEFINE a == [size |-> 1, frame |-> Carried(queue[1], transport)]
  <2>1. k = 1 /\ 1 \in 1 .. Len(queue)
    BY <1>1
  <2>2. queue[1] \in Queued
    BY <2>1
  <2>3. PICK one \in Sound : /\ one.data = queue[1].data
                             /\ E!PacketsOf(Carried(queue[1], transport)) = <<one>>
    BY <1>3, <2>2, CarriedPacket
  <2>4. SubSeq(queue, 1, 1) = <<queue[1]>>
    <3> HIDE DEF Queued
    <3> DEFINE s == SubSeq(queue, 1, 1)
               first == <<queue[1]>>
    <3>1. \A i \in 1 .. 1 : queue[i] \in Queued
      BY <2>2
    <3>2. s \in Seq(Queued) /\ Len(s) = 1 /\ s[1] = queue[1]
      BY <3>1, SubSeqProperties
    <3>3. first \in Seq(Queued) /\ Len(first) = 1 /\ first[1] = queue[1]
      BY <2>2
    <3> HIDE DEF s, first
    <3>4. \A i \in 1 .. 1 : s[i] = first[i]
      BY <3>2, <3>3
    <3>5. s = first
      BY <3>2, <3>3, <3>4, SameSeq
    <3> QED
      BY <3>5 DEF s, first
  <2>5. <<one>> \in Seq(Sound)
    <3> HIDE DEF Sound
    <3> QED
      OBVIOUS
  <2>6. Of(Contents, <<one>>) = Of(Contents, <<queue[1]>>)
    <3>1. queue[1] \in Sound
      BY <2>2 DEF Queued
    <3>2. Contents[one] = one.data /\ Contents[queue[1]] = queue[1].data
      BY <3>1 DEF Contents
    <3>3. \A p : Of(Contents, <<p>>) = <<Contents[p]>>
      <4> HIDE DEF Contents
      <4> QED
        BY DEF Of
    <3> QED
      BY <2>3, <3>2, <3>3
  <2>7. a.size = 1 /\ a.frame = Carried(queue[1], transport)
    OBVIOUS
  <2> HIDE DEF a
  <2>8. Fine(a)
    BY <2>1, <2>3, <2>4, <2>5, <2>6, <2>7
  <2> QED
    BY <2>1, <2>8 DEF a
<1>4. Fine(answer)
  <2> HIDE DEF Fine
  <2>1. CASE transport = "polling"
    BY <1>2, <2>1 DEF Answers
  <2>2. CASE transport # "polling"
    BY <1>3, <2>2 DEF Answers
  <2> QED
    BY <2>1, <2>2
<1>5. E!Error \notin ToSet(E!PacketsOf(answer.frame))
  BY <1>4, NoError
<1> QED
  BY <1>4, <1>5

-----------------------------------------------------------------------------
(* The messages of the server on their way *)

\* What a message is read as, with all of its attachments or the first k.
Reading(m) ==
    S!Packet(m.type, m.nsp, DataOf(m), m.id, Len(m.attachments), m.attachments)
Partly(m, k) ==
    S!Packet(m.type, m.nsp, DataOf(m), m.id, Len(m.attachments), SubSeq(m.attachments, 1, k))
Readings == {Reading(m) : m \in ServerMessage}

\* What the client is to be handed yet, and the messages after the first n.
Left == Of(Contents, remaining) \o Of(Contents, queue)
Unread(n) == SubSeq(sent, n + 1, Len(sent))

\* Between two messages, and within one of which k attachments have been handled.
Ready == header = <<>> /\ Left = Due(Unread(Len(got)))
Collecting(k) ==
    LET m == sent[Len(got) + 1]
    IN /\ Len(got) < Len(sent) /\ k < Len(m.attachments)
       /\ header = <<Partly(m, k)>>
       /\ Left = SubSeq(m.attachments, k + 1, Len(m.attachments)) \o Due(Unread(Len(got) + 1))

\* The packets returned are what the first messages are read as.
Read == got \in Seq(Readings) /\ Len(got) <= Len(sent)
        /\ \A i \in 1 .. Len(got) : got[i] = Reading(sent[i])

\* What the variables of this direction are.
ReceivedType ==
    /\ transport \in Transports /\ failed = FALSE
    /\ sent \in Seq(ServerMessage) /\ queue \in Seq(Queued) /\ remaining \in Seq(Sound)

\* The inductive invariant of the messages of the server.
Arriving == ReceivedType /\ Read /\ (Ready \/ \E k \in Nat : Collecting(k))

\* What a message is read as is what poll() is to return for it.
LEMMA ReadingReads ==
    ASSUME NEW m \in ServerMessage
    PROVE  Reads(Reading(m), m)
<1>1. LET packet == S!Decode(Text(m))
      IN Reads([packet EXCEPT !.attachments = m.attachments], m)
  BY TextRoundTrip
<1>2. S!Decode(Text(m)) = S!Packet(m.type, m.nsp, DataOf(m), m.id, Len(m.attachments), <<>>)
  BY ServerMessages, Decoded
<1>3. [S!Packet(m.type, m.nsp, DataOf(m), m.id, Len(m.attachments), <<>>)
          EXCEPT !.attachments = m.attachments] = Reading(m)
  BY DEF Reading, S!Packet
<1> QED
  BY <1>1, <1>2, <1>3

\* All of what a message has in it, in sequences of items.
LEMMA LeftItems ==
    ASSUME ReceivedType
    PROVE  /\ Of(Contents, remaining) \in Seq(Item) /\ Of(Contents, queue) \in Seq(Item)
           /\ Left \in Seq(Item) /\ queue \in Seq(Sound)
<1>1. queue \in Seq(Sound) /\ remaining \in Seq(Sound)
  BY ContentsMap, SeqOfMore DEF ReceivedType
<1>2. Of(Contents, remaining) \in Seq(Item) /\ Of(Contents, queue) \in Seq(Item)
  BY <1>1, ContentsMap, OfGrows
<1> QED
  BY <1>1, <1>2, ConcatProperties DEF Left

\* Of the unread messages the first, and the others.
LEMMA UnreadMessages ==
    ASSUME sent \in Seq(ServerMessage), NEW n \in Nat, n <= Len(sent)
    PROVE  /\ Unread(n) \in Seq(ServerMessage) /\ Len(Unread(n)) = Len(sent) - n
           /\ n < Len(sent) => /\ sent[n + 1] \in ServerMessage
                               /\ Unread(n) = <<sent[n + 1]>> \o Unread(n + 1)
           /\ n = Len(sent) => Unread(n) = <<>>
<1>1. Len(sent) \in Nat
  BY LenProperties
<1>2. \A i \in n + 1 .. Len(sent) : sent[i] \in ServerMessage
  BY ElementOfSeq
<1>3. Unread(n) \in Seq(ServerMessage) /\ Len(Unread(n)) = Len(sent) - n
  BY <1>1, <1>2, SubSeqProperties DEF Unread
<1>4. ASSUME n < Len(sent)
      PROVE  sent[n + 1] \in ServerMessage /\ Unread(n) = <<sent[n + 1]>> \o Unread(n + 1)
  <2>1. n + 1 \in 1 .. Len(sent) /\ Len(sent) \in n + 1 .. Len(sent) /\ n + 1 \in n + 1 .. Len(sent)
    BY <1>1, <1>4
  <2>2. SubSeq(sent, n + 1, Len(sent)) = <<sent[n + 1]>> \o SubSeq(sent, (n + 1) + 1, Len(sent))
    BY <2>1, SubSeqRecursiveFirst
  <2> QED
    BY <1>2, <2>1, <2>2 DEF Unread
<1>5. ASSUME n = Len(sent) PROVE Unread(n) = <<>>
  <2>1. Len(sent) < n + 1
    BY <1>1, <1>5
  <2> QED
    BY <1>1, <2>1, SubSeqEmpty DEF Unread
<1> QED
  BY <1>3, <1>4, <1>5

\* At first nothing is sent and nothing is left.
LEMMA ArrivingInit == Init => Arriving
<1> SUFFICES ASSUME Init PROVE Arriving
  OBVIOUS
<1>1. /\ transport \in Transports /\ sent = <<>> /\ queue = <<>> /\ remaining = <<>>
      /\ header = <<>> /\ got = <<>> /\ failed = FALSE
  BY DEF Init
<1>2. \A T : <<>> \in Seq(T)
  BY EmptySeq
<1>3. ReceivedType /\ Read
  BY <1>1, <1>2 DEF ReceivedType, Read
<1>4. Ready
  <2>1. Len(sent) = 0 /\ Len(got) = 0
    BY <1>1
  <2>2. Unread(Len(got)) = <<>>
    <3>1. sent \in Seq(ServerMessage) /\ 0 \in Nat /\ 0 <= Len(sent) /\ 0 = Len(sent)
      BY <1>3, <2>1 DEF ReceivedType
    <3>2. Unread(0) = <<>>
      BY <3>1, UnreadMessages
    <3> QED
      BY <2>1, <3>2
  <2>3. Due(Unread(Len(got))) = <<>>
    BY <2>2, DueGrows
  <2>4. Left = <<>>
    <3>1. Of(Contents, <<>>) = <<>>
      BY ContentsMap, OfGrows
    <3>2. <<>> \in Seq(Item)
      BY <1>2
    <3>3. <<>> \o <<>> = <<>>
      BY <3>2, ConcatEmptySeq
    <3> QED
      BY <1>1, <3>1, <3>3 DEF Left
  <2> QED
    BY <1>1, <2>3, <2>4 DEF Ready
<1> QED
  BY <1>3, <1>4 DEF Arriving

\* A message is sent: it is the last that is unread.
LEMMA ArrivingServerSends == Arriving /\ ServerSends => Arriving'
<1> SUFFICES ASSUME Arriving, ServerSends PROVE Arriving'
  OBVIOUS
<1>1. PICK m \in ServerMessage : sent' = Append(sent, m) /\ queue' = queue \o PacketsFor(m)
  BY DEF ServerSends
<1>2. /\ transport' = transport /\ remaining' = remaining /\ header' = header
      /\ got' = got /\ failed' = failed
  BY DEF ServerSends, outbound
<1>3. ReceivedType /\ Read
  BY DEF Arriving
<1>4. /\ sent \in Seq(ServerMessage) /\ queue \in Seq(Queued) /\ remaining \in Seq(Sound)
      /\ got \in Seq(Readings)
  BY <1>3 DEF ReceivedType, Read
<1>5. Len(sent) \in Nat /\ Len(got) \in Nat /\ Len(got) <= Len(sent)
  BY <1>3, <1>4, LenProperties DEF Read
<1> DEFINE n == Len(sent)
           g == Len(got)
           packets == PacketsFor(m)
           items == Items(m)
<1>6. /\ sent' \in Seq(ServerMessage) /\ Len(sent') = n + 1
      /\ \A i \in 1 .. n : sent'[i] = sent[i]
  BY <1>1, <1>4, AppendProperties
<1>7. packets \in Seq(Queued) /\ items \in Seq(Item) /\ Of(Contents, packets) = items
  BY MessageItems
<1>8. ReceivedType'
  <2>1. queue' \in Seq(Queued)
    <3> HIDE DEF packets
    <3> QED
      BY <1>1, <1>4, <1>7, ConcatProperties DEF packets
  <2> QED
    BY <1>2, <1>3, <1>6, <2>1 DEF ReceivedType
<1>9. Read'
  BY <1>2, <1>3, <1>5, <1>6 DEF Read
<1>10. Left' = Left \o items
  <2> DEFINE a == Of(Contents, remaining)
             b == Of(Contents, queue)
  <2>1. a \in Seq(Item) /\ b \in Seq(Item) /\ queue \in Seq(Sound)
    BY <1>3, LeftItems
  <2>2. packets \in Seq(Sound)
    BY <1>7, ContentsMap, SeqOfMore
  <2>3. Of(Contents, queue \o packets) = b \o items
    <3> HIDE DEF packets
    <3>1. Of(Contents, queue \o packets) = Of(Contents, queue) \o Of(Contents, packets)
      BY <2>1, <2>2, ContentsMap, OfConcat
    <3> QED
      BY <1>7, <3>1, Zenon
  <2>4. Left' = a \o (b \o items)
    BY <1>1, <1>2, <2>3 DEF Left
  <2>5. Cat(Cat(a, b), items) = Cat(a, Cat(b, items))
    <3> HIDE DEF a, b, items
    <3> QED
      BY <1>7, <2>1, CatAssociative
  <2>6. Left = a \o b
    BY DEF Left
  <2> HIDE DEF a, b, items
  <2>7. (a \o b) \o items = a \o (b \o items)
    BY <2>5 DEF Cat
  <2> QED
    BY <2>4, <2>6, <2>7, Zenon
<1>11. ASSUME NEW k \in Nat, k <= n
       PROVE  /\ Unread(k) \in Seq(ServerMessage)
              /\ SubSeq(sent', k + 1, Len(sent')) = Append(Unread(k), m)
              /\ Due(Unread(k)) \in Seq(Item)
              /\ Due(Append(Unread(k), m)) = Due(Unread(k)) \o items
  <2>1. Unread(k) \in Seq(ServerMessage)
    BY <1>4, <1>11, UnreadMessages
  <2>2. SubSeq(sent', k + 1, n + 1) = Append(SubSeq(sent, k + 1, n), m)
    <3> DEFINE t == sent'
               a == SubSeq(t, k + 1, n + 1)
               b == SubSeq(sent, k + 1, n)
               c == Append(b, m)
               j == n - k
    <3> HIDE DEF n
    <3>1. n \in Nat /\ k \in Nat /\ k <= n /\ j \in Nat /\ j = n - k
      BY <1>5, <1>11 DEF n
    <3>2. \A i \in 1 .. n : sent[i] \in ServerMessage
      BY <1>4, ElementOfSeq DEF n
    <3>3. b \in Seq(ServerMessage) /\ Len(b) = j /\ \A i \in 1 .. j : b[i] = sent[k + i]
      <4>1. \A i \in k + 1 .. n : sent[i] \in ServerMessage
        BY <3>1, <3>2
      <4>2. /\ b \in Seq(ServerMessage)
            /\ Len(b) = IF k + 1 <= n THEN n - (k + 1) + 1 ELSE 0
            /\ \A i \in 1 .. n - (k + 1) + 1 : b[i] = sent[(k + 1) + i - 1]
        BY <3>1, <4>1, SubSeqProperties
      <4>3. n - (k + 1) + 1 = j /\ (k + 1 <= n \/ j = 0)
            /\ \A i \in 1 .. j : (k + 1) + i - 1 = k + i
        BY <3>1
      <4> HIDE DEF b, j
      <4> QED
        BY <3>1, <4>2, <4>3
    <3>4. t \in Seq(ServerMessage) /\ t[n + 1] = m /\ \A i \in 1 .. n : t[i] = sent[i]
      <4>1. t[n + 1] = m
        BY <1>1, <1>4, AppendProperties DEF n
      <4> QED
        BY <1>6, <4>1 DEF n
    <3> HIDE DEF t
    <3>5. a \in Seq(ServerMessage) /\ Len(a) = j + 1 /\ \A i \in 1 .. j + 1 : a[i] = t[k + i]
      <4>1. \A i \in k + 1 .. n + 1 : t[i] \in ServerMessage
        <5> SUFFICES ASSUME NEW i \in k + 1 .. n + 1 PROVE t[i] \in ServerMessage
          OBVIOUS
        <5>1. i = n + 1 \/ i \in 1 .. n
          BY <3>1
        <5> QED
          BY <3>2, <3>4, <5>1
      <4>2. /\ a \in Seq(ServerMessage)
            /\ Len(a) = IF k + 1 <= n + 1 THEN (n + 1) - (k + 1) + 1 ELSE 0
            /\ \A i \in 1 .. (n + 1) - (k + 1) + 1 : a[i] = t[(k + 1) + i - 1]
        BY <3>1, <4>1, SubSeqProperties
      <4>3. (n + 1) - (k + 1) + 1 = j + 1 /\ k + 1 <= n + 1
            /\ \A i \in 1 .. j + 1 : (k + 1) + i - 1 = k + i
        BY <3>1
      <4> HIDE DEF a, j
      <4> QED
        BY <3>1, <4>2, <4>3
    <3> HIDE DEF a, b, j
    <3>6. /\ c \in Seq(ServerMessage) /\ Len(c) = j + 1 /\ c[j + 1] = m
          /\ \A i \in 1 .. j : c[i] = b[i]
      BY <3>3, AppendProperties
    <3> HIDE DEF c
    <3>7. \A i \in 1 .. j + 1 : a[i] = c[i]
      <4> SUFFICES ASSUME NEW i \in 1 .. j + 1 PROVE a[i] = c[i]
        OBVIOUS
      <4>1. CASE i = j + 1
        <5>1. k + i = n + 1
          BY <3>1, <4>1
        <5> QED
          BY <3>4, <3>5, <3>6, <4>1, <5>1
      <4>2. CASE i # j + 1
        <5>1. i \in 1 .. j /\ k + i \in 1 .. n
          BY <3>1, <4>2
        <5>2. a[i] = t[k + i] /\ t[k + i] = sent[k + i] /\ b[i] = sent[k + i] /\ c[i] = b[i]
          BY <3>3, <3>4, <3>5, <3>6, <5>1
        <5> QED
          BY <5>2
      <4> QED
        BY <4>1, <4>2
    <3>8. a = c
      <4>1. j + 1 \in Nat
        BY <3>1
      <4> QED
        BY <3>5, <3>6, <3>7, <4>1, SameSeq
    <3> QED
      BY <3>8 DEF a, b, c, t
  <2>3. SubSeq(sent', k + 1, Len(sent')) = Append(Unread(k), m)
    BY <1>6, <2>2 DEF Unread
  <2>4. Due(Unread(k)) \in Seq(Item) /\ Due(Append(Unread(k), m)) = Due(Unread(k)) \o items
    BY <2>1, DueGrows
  <2> QED
    BY <2>1, <2>3, <2>4
<1>12. ASSUME Ready PROVE Ready'
  <2>1. header' = <<>> /\ Left = Due(Unread(g)) /\ g' = g
    BY <1>2, <1>12 DEF Ready
  <2>2. /\ SubSeq(sent', g + 1, Len(sent')) = Append(Unread(g), m)
        /\ Due(Append(Unread(g), m)) = Due(Unread(g)) \o items
    BY <1>5, <1>11
  <2>3. Left' = Due(Append(Unread(g), m))
    BY <1>10, <2>1, <2>2, Zenon
  <2>4. Unread(Len(got))' = Append(Unread(g), m)
    BY <1>2, <2>2 DEF Unread
  <2>5. Left' = Due(Unread(Len(got))')
    BY <2>3, <2>4, Zenon
  <2> QED
    BY <2>1, <2>5 DEF Ready
<1>13. ASSUME NEW k \in Nat, Collecting(k) PROVE Collecting(k)'
  <2> DEFINE of == sent[g + 1]
             files == SubSeq(of.attachments, k + 1, Len(of.attachments))
             due == Due(Unread(g + 1))
  <2>1. g < n /\ k < Len(of.attachments) /\ header = <<Partly(of, k)>> /\ Left = files \o due
    BY <1>13 DEF Collecting
  <2>2. g + 1 \in Nat /\ g + 1 <= n /\ g + 1 \in 1 .. n /\ g < n + 1
    BY <1>5, <2>1
  <2>3. sent'[g + 1] = of
    BY <1>6, <2>2
  <2>4. /\ SubSeq(sent', (g + 1) + 1, Len(sent')) = Append(Unread(g + 1), m) /\ due \in Seq(Item)
        /\ Due(Append(Unread(g + 1), m)) = due \o items
    BY <1>11, <2>2
  <2>5. files \in Seq(Item)
    <3>1. of \in ServerMessage
      BY <1>4, <2>2
    <3>2. of.attachments \in Seq(Item)
      BY <3>1, MessageItems
    <3> DEFINE all == of.attachments
    <3> HIDE DEF all, Item
    <3>3. \A i \in k + 1 .. Len(all) : all[i] \in Item
      BY <3>2 DEF all
    <3>4. Len(all) \in Nat
      BY <3>2 DEF all
    <3>5. SubSeq(all, k + 1, Len(all)) \in Seq(Item)
      BY <3>3, <3>4, SubSeqProperties
    <3> QED
      BY <3>5 DEF all
  <2>6. Left' = files \o Due(Append(Unread(g + 1), m))
    <3>1. Cat(Cat(files, due), items) = Cat(files, Cat(due, items))
      <4> HIDE DEF files, due, items
      <4> QED
        BY <1>7, <2>4, <2>5, CatAssociative
    <3>2. (files \o due) \o items = files \o (due \o items)
      <4> HIDE DEF files, due, items
      <4> QED
        BY <3>1 DEF Cat
    <3> QED
      BY <1>10, <2>1, <2>4, <3>2, Zenon
  <2>7. Unread(Len(got) + 1)' = Append(Unread(g + 1), m)
    BY <1>2, <2>4 DEF Unread
  <2>8. Left' = files \o Due(Unread(Len(got) + 1)')
    BY <2>6, <2>7, Zenon
  <2>9. /\ header' = header /\ Len(got') = g /\ Len(sent') = n + 1
        /\ Partly(of, k)' = Partly(of, k)'
    BY <1>2, <1>6
  <2> QED
    BY <2>1, <2>2, <2>3, <2>8, <2>9 DEF Collecting, Partly, DataOf
<1> QED
  BY <1>8, <1>9, <1>12, <1>13 DEF Arriving

\* What is polled moves from the queue to the packets that remain.
LEMMA ArrivingPoll == Untorn /\ Arriving /\ Poll => Arriving'
<1> SUFFICES ASSUME Untorn, Arriving, Poll PROVE Arriving'
  OBVIOUS
<1>1. ReceivedType /\ Read
  BY DEF Arriving
<1>2. /\ transport \in Transports /\ failed = FALSE /\ sent \in Seq(ServerMessage)
      /\ queue \in Seq(Queued) /\ remaining \in Seq(Sound) /\ queue \in Seq(Sound)
  BY <1>1, LeftItems DEF ReceivedType
<1>3. PICK answer \in Answers :
         /\ queue' = SubSeq(queue, answer.size + 1, Len(queue))
         /\ LET packets == E!PacketsOf(answer.frame)
            IN IF E!Error \in ToSet(packets)
               THEN failed' = TRUE /\ UNCHANGED remaining
               ELSE remaining' = packets /\ UNCHANGED failed
  BY DEF Poll
<1> DEFINE packets == E!PacketsOf(answer.frame)
           k == answer.size
           n == Len(queue)
           front == SubSeq(queue, 1, k)
           back == SubSeq(queue, k + 1, n)
<1>4. /\ k \in 1 .. n /\ packets \in Seq(Sound) /\ Of(Contents, packets) = Of(Contents, front)
      /\ E!Error \notin ToSet(packets)
  BY <1>2, PolledPackets
<1>5. /\ queue' = back /\ remaining' = packets /\ failed' = failed
      /\ remaining = <<>>
      /\ transport' = transport /\ sent' = sent /\ header' = header /\ got' = got
  BY <1>3, <1>4 DEF Poll, outbound
<1> HIDE DEF packets, k
<1>6. n \in Nat /\ k \in Nat
  BY <1>2, <1>4
<1>7. back \in Seq(Queued) /\ back \in Seq(Sound) /\ front \in Seq(Sound) /\ front \o back = queue
  <2> HIDE DEF Sound, Queued
  <2>1. \A i \in k + 1 .. n : queue[i] \in Queued
    BY <1>2, <1>4, <1>6
  <2>2. \A i \in 1 .. k : queue[i] \in Queued
    BY <1>2, <1>4, <1>6
  <2>3. back \in Seq(Queued)
    BY <1>6, <2>1, SubSeqProperties
  <2>4. front \in Seq(Queued)
    BY <1>6, <2>2, SubSeqProperties
  <2>5. back \in Seq(Sound) /\ front \in Seq(Sound)
    <3> HIDE DEF front, back
    <3> QED
      BY <2>3, <2>4, ContentsMap, SeqOfMore
  <2>6. front \o back = SubSeq(queue, 1, n)
    <3>1. 1 \in 1 .. n + 1 /\ k \in 1 - 1 .. n /\ n \in k .. n
      BY <1>4, <1>6
    <3> QED
      BY <1>2, <3>1, ConcatAdjacentSubSeq
  <2>7. SubSeq(queue, 1, n) = queue
    BY <1>2, SubSeqFull
  <2> QED
    BY <2>3, <2>5, <2>6, <2>7
<1> HIDE DEF front, back, n
<1>8. Left' = Left
  <2>1. Of(Contents, front \o back) = Of(Contents, front) \o Of(Contents, back)
    <3>1. front \in Seq(Sound) /\ back \in Seq(Sound)
      BY <1>7
    <3> QED
      BY <3>1, ContentsMap, OfConcat
  <2>2. Of(Contents, <<>>) = <<>>
    BY ContentsMap, OfGrows
  <2>3. Of(Contents, queue) \in Seq(Item)
    BY <1>1, LeftItems
  <2>4. <<>> \o Of(Contents, queue) = Of(Contents, queue)
    BY <2>3, ConcatEmptySeq
  <2>5. Left = Of(Contents, queue)
    BY <1>5, <2>2, <2>4 DEF Left
  <2>6. Left' = Of(Contents, packets) \o Of(Contents, back)
    BY <1>5 DEF Left
  <2> QED
    BY <1>4, <1>7, <2>1, <2>5, <2>6, Zenon
<1>9. ReceivedType'
  BY <1>2, <1>4, <1>5, <1>7 DEF ReceivedType
<1>10. Read'
  BY <1>1, <1>5 DEF Read
<1>11. Ready => Ready'
  BY <1>5, <1>8 DEF Ready, Unread
<1>12. ASSUME NEW j \in Nat, Collecting(j) PROVE Collecting(j)'
  BY <1>5, <1>8, <1>12 DEF Collecting, Unread
<1> QED
  BY <1>9, <1>10, <1>11, <1>12 DEF Arriving

\* A step that leaves alone what the messages of the server are kept in.
LEMMA ArrivingStutters ==
    Arriving /\ UNCHANGED <<transport, inbound>> => Arriving'
<1> SUFFICES ASSUME Arriving, UNCHANGED <<transport, inbound>> PROVE Arriving'
  OBVIOUS
<1>1. /\ transport' = transport /\ sent' = sent /\ queue' = queue /\ remaining' = remaining
      /\ header' = header /\ got' = got /\ failed' = failed
  BY DEF inbound
<1>2. Left' = Left
  BY <1>1 DEF Left
<1>3. ReceivedType' /\ Read'
  BY <1>1 DEF Arriving, ReceivedType, Read
<1>4. Ready => Ready'
  BY <1>1, <1>2 DEF Ready, Unread
<1>5. ASSUME NEW j \in Nat, Collecting(j) PROVE Collecting(j)'
  BY <1>1, <1>2, <1>5 DEF Collecting, Unread
<1> QED
  BY <1>3, <1>4, <1>5 DEF Arriving

\* The first item of what is left is what the first packet has in it.
LEMMA FirstLeft ==
    ASSUME ReceivedType, remaining # <<>>
    PROVE  /\ Tail(remaining) \in Seq(Sound) /\ Head(remaining).data \in Item
           /\ Of(Contents, Tail(remaining)) \o Of(Contents, queue) \in Seq(Item)
           /\ Left = <<Head(remaining).data>>
                         \o (Of(Contents, Tail(remaining)) \o Of(Contents, queue))
<1> DEFINE p == Head(remaining)
           t == Tail(remaining)
           first == <<p.data>>
           a == Of(Contents, t)
           b == Of(Contents, queue)
<1>1. remaining \in Seq(Sound) /\ b \in Seq(Item)
  BY LeftItems DEF ReceivedType
<1>2. p \in Sound /\ t \in Seq(Sound) /\ remaining = <<p>> \o t
  <2> HIDE DEF Sound
  <2>1. /\ remaining[1] \in Sound /\ Tail(remaining) \in Seq(Sound)
        /\ remaining = <<remaining[1]>> \o Tail(remaining)
    BY <1>1, Unprefixed
  <2>2. Head(remaining) = remaining[1]
    BY <1>1, HeadIsFirst
  <2> QED
    BY <2>1, <2>2
<1>3. p.data \in Item /\ Contents[p] = p.data
  BY <1>2 DEF Sound, Item, Contents
<1>4. a \in Seq(Item)
  <2> HIDE DEF t
  <2> QED
    BY <1>2, ContentsMap, OfGrows
<1>5. Of(Contents, <<p>> \o t) = first \o a
  <2>1. Led(Contents, p, t)
    <3> HIDE DEF p, t
    <3> QED
      BY <1>2, ContentsMap, OfGrows
  <2> QED
    BY <1>3, <2>1 DEF Led
<1>6. first \in Seq(Item)
  <2> HIDE DEF Item
  <2> QED
    BY <1>3
<1>7. Left = (first \o a) \o b
  BY <1>2, <1>5 DEF Left
<1>8. (first \o a) \o b = first \o (a \o b) /\ a \o b \in Seq(Item)
  <2> HIDE DEF first, a, b
  <2>1. Cat(Cat(first, a), b) = Cat(first, Cat(a, b)) /\ Cat(a, b) \in Seq(Item)
    BY <1>1, <1>4, <1>6, CatAssociative, CatTexts
  <2> QED
    BY <2>1 DEF Cat
<1> QED
  BY <1>2, <1>3, <1>7, <1>8

\* What begins with one element begins with no other.
LEMMA SameFirst ==
    ASSUME NEW T, NEW a \in T, NEW b \in T, NEW s \in Seq(T), NEW t \in Seq(T),
           <<a>> \o s = <<b>> \o t
    PROVE  a = b /\ s = t
<1>1. (<<a>> \o s)[1] = a /\ Tail(<<a>> \o s) = s
  BY Prefixed
<1>2. (<<b>> \o t)[1] = b /\ Tail(<<b>> \o t) = t
  BY Prefixed
<1> QED
  BY <1>1, <1>2

\* The header of the first unread message is read as what it is.
LEMMA ArrivingHeader == Arriving /\ HandleHeader => Arriving'
<1> SUFFICES ASSUME Arriving, HandleHeader PROVE Arriving'
  OBVIOUS
<1>1. ReceivedType /\ Read
  BY DEF Arriving
<1>2. /\ remaining # <<>> /\ header = <<>> /\ remaining' = Tail(remaining)
      /\ transport' = transport /\ sent' = sent /\ queue' = queue
  BY DEF HandleHeader, outbound
<1>3. /\ transport \in Transports /\ failed = FALSE /\ sent \in Seq(ServerMessage)
      /\ queue \in Seq(Queued) /\ got \in Seq(Readings)
      /\ Len(got) \in Nat /\ Len(sent) \in Nat /\ Len(got) <= Len(sent)
      /\ \A i \in 1 .. Len(got) : got[i] = Reading(sent[i])
  BY <1>1, LenProperties DEF ReceivedType, Read
<1> DEFINE g == Len(got)
           d == Head(remaining).data
           rest == Of(Contents, Tail(remaining)) \o Of(Contents, queue)
           m == sent[g + 1]
           due == Due(Unread(g + 1))
           files == m.attachments
<1>4. /\ Tail(remaining) \in Seq(Sound) /\ d \in Item /\ rest \in Seq(Item)
      /\ Left = <<d>> \o rest
  BY <1>1, <1>2, FirstLeft
<1>5. Left = Due(Unread(g))
  <2>1. Ready
    <3>1. \A k \in Nat : ~Collecting(k)
      BY <1>2 DEF Collecting
    <3> QED
      BY <3>1 DEF Arriving
  <2> QED
    BY <2>1 DEF Ready
<1>6. g < Len(sent)
  <2> SUFFICES ASSUME g = Len(sent) PROVE FALSE
    BY <1>3
  <2>1. Unread(g) = <<>>
    BY <1>3, UnreadMessages
  <2>2. Left = <<>>
    BY <1>5, <2>1, DueGrows
  <2>3. <<d>> \o rest # <<>>
    <3> HIDE DEF d, rest, Item
    <3> QED
      BY <1>4, Prefixed
  <2> QED
    BY <1>4, <2>2, <2>3
<1>7. /\ m \in ServerMessage /\ Unread(g + 1) \in Seq(ServerMessage)
      /\ Unread(g) = <<m>> \o Unread(g + 1)
  <2>1. m \in ServerMessage /\ Unread(g) = <<m>> \o Unread(g + 1)
    BY <1>3, <1>6, UnreadMessages
  <2>2. g + 1 \in Nat /\ g + 1 <= Len(sent)
    BY <1>3, <1>6
  <2> QED
    BY <1>3, <2>1, <2>2, UnreadMessages
<1>8. Left = <<Text(m)>> \o (files \o due)
  <2>1. Due(<<m>> \o Unread(g + 1)) = <<Text(m)>> \o (files \o due)
    <3> HIDE DEF m
    <3> QED
      BY <1>7, DueFirst
  <2> QED
    BY <1>5, <1>7, <2>1, Zenon
<1>9. Text(m) \in Item /\ files \in Seq(Item) /\ due \in Seq(Item) /\ files \o due \in Seq(Item)
  <2>1. Text(m) \in Item /\ files \in Seq(Item)
    BY <1>7, MessageItems
  <2>2. due \in Seq(Item)
    BY <1>7, DueGrows
  <2> HIDE DEF files, due, Item
  <2> QED
    BY <2>1, <2>2, ConcatProperties
<1>10. d = Text(m) /\ rest = files \o due
  <2> DEFINE text == Text(m)
             tail == files \o due
  <2>1. text \in Item /\ tail \in Seq(Item) /\ <<d>> \o rest = <<text>> \o tail
    BY <1>4, <1>8, <1>9
  <2> HIDE DEF d, rest, text, tail, Item
  <2>2. d = text /\ rest = tail
    BY <1>4, <2>1, SameFirst
  <2> QED
    BY <2>2 DEF text, tail
<1> DEFINE packet == S!Packet(m.type, m.nsp, DataOf(m), m.id, Len(files), <<>>)
<1>11. S!Decode(d) = packet /\ packet # S!Error /\ packet.count = Len(files)
  <2>1. S!Decode(Text(m)) = packet
    BY <1>7, ServerMessages, Decoded
  <2>2. S!Decode(Text(m)) # S!Error
    BY <1>7, TextRoundTrip
  <2>3. packet.count = Len(files)
    BY DEF S!Packet
  <2> HIDE DEF packet, d, m
  <2> QED
    BY <1>10, <2>1, <2>2, <2>3
<1>12. Left' = files \o due
  <2>1. Left' = rest
    BY <1>2 DEF Left
  <2> QED
    BY <1>10, <2>1
<1>13. files \in Seq(Attachments) /\ Len(files) \in Nat
  <2>1. files \in Seq(Attachments)
    BY <1>7, ServerMessages DEF Legible
  <2> HIDE DEF files
  <2> QED
    BY <2>1, LenProperties
<1>14. CASE Len(files) = 0
  <2>1. got' = Append(got, packet) /\ header' = header /\ failed' = failed
    <3> HIDE DEF packet, files
    <3> QED
      BY <1>11, <1>14 DEF HandleHeader, d
  <2>2. packet = Reading(m)
    <3>1. files = <<>>
      <4> HIDE DEF files
      <4> QED
        BY <1>13, <1>14
    <3> QED
      BY <3>1 DEF Reading
  <2>3. Reading(m) \in Readings
    BY <1>7 DEF Readings
  <2> HIDE DEF packet
  <2>4. /\ got' \in Seq(Readings) /\ Len(got') = g + 1 /\ got'[g + 1] = Reading(m)
        /\ \A i \in 1 .. g : got'[i] = got[i]
    <3> HIDE DEF Readings, m
    <3> QED
      BY <1>3, <2>1, <2>2, <2>3, AppendProperties
  <2>5. Read'
    <3>1. g + 1 <= Len(sent)
      BY <1>3, <1>6
    <3>2. \A i \in 1 .. g + 1 : got'[i] = Reading(sent[i])
      <4> SUFFICES ASSUME NEW i \in 1 .. g + 1 PROVE got'[i] = Reading(sent[i])
        OBVIOUS
      <4>1. i = g + 1 \/ i \in 1 .. g
        BY <1>3
      <4> QED
        BY <1>3, <2>4, <4>1
    <3> QED
      BY <1>2, <2>4, <3>1, <3>2 DEF Read, Readings, Reading, DataOf
  <2>6. Ready'
    <3>1. files \o due = due
      <4>1. files = <<>>
        <5> HIDE DEF files
        <5> QED
          BY <1>13, <1>14
      <4> QED
        BY <1>9, <4>1, ConcatEmptySeq
    <3>2. Unread(Len(got))' = Unread(g + 1)
      BY <1>2, <2>4 DEF Unread
    <3> QED
      BY <1>2, <1>12, <2>1, <3>1, <3>2 DEF Ready
  <2>7. ReceivedType'
    BY <1>2, <1>3, <1>4, <2>1 DEF ReceivedType
  <2> QED
    BY <2>5, <2>6, <2>7 DEF Arriving
<1>15. CASE Len(files) # 0
  <2>1. header' = <<packet>> /\ got' = got /\ failed' = failed
    <3> HIDE DEF packet, files
    <3> QED
      BY <1>11, <1>15 DEF HandleHeader, d
  <2>2. packet = Partly(m, 0)
    <3>1. SubSeq(files, 1, 0) = <<>>
      BY SubSeqEmpty
    <3> QED
      BY <3>1 DEF Partly
  <2>3. SubSeq(files, 0 + 1, Len(files)) = files
    <3>1. SubSeq(files, 1, Len(files)) = files
      BY <1>13, SubSeqFull
    <3> QED
      BY <3>1
  <2> HIDE DEF packet
  <2>4. Collecting(0)'
    <3>1. Unread(Len(got) + 1)' = Unread(g + 1)
      BY <1>2, <2>1 DEF Unread
    <3>2. Left' = SubSeq(files, 0 + 1, Len(files)) \o due
      BY <1>12, <2>3, Zenon
    <3>3. 0 < Len(files)
      <4> HIDE DEF files
      <4> QED
        BY <1>13, <1>15
    <3> QED
      BY <1>2, <1>6, <2>1, <2>2, <3>1, <3>2, <3>3 DEF Collecting, Partly, DataOf
  <2>5. ReceivedType' /\ Read'
    BY <1>1, <1>2, <1>3, <1>4, <2>1 DEF ReceivedType, Read
  <2> QED
    BY <2>4, <2>5 DEF Arriving
<1> QED
  BY <1>14, <1>15

\* The next of the attachments of a message is handled, which may be its last.
LEMMA ArrivingAttachment == Arriving /\ HandleAttachment => Arriving'
<1> SUFFICES ASSUME Arriving, HandleAttachment PROVE Arriving'
  OBVIOUS
<1>1. ReceivedType /\ Read
  BY DEF Arriving
<1>2. /\ remaining # <<>> /\ header # <<>> /\ remaining' = Tail(remaining)
      /\ transport' = transport /\ sent' = sent /\ queue' = queue /\ failed' = failed
  BY DEF HandleAttachment, outbound
<1>3. /\ transport \in Transports /\ failed = FALSE /\ sent \in Seq(ServerMessage)
      /\ queue \in Seq(Queued) /\ got \in Seq(Readings)
      /\ Len(got) \in Nat /\ Len(sent) \in Nat /\ Len(got) <= Len(sent)
      /\ \A i \in 1 .. Len(got) : got[i] = Reading(sent[i])
  BY <1>1, LenProperties DEF ReceivedType, Read
<1>4. PICK k \in Nat : Collecting(k)
  BY <1>2 DEF Arriving, Ready
<1> DEFINE g == Len(got)
           d == Head(remaining).data
           rest == Of(Contents, Tail(remaining)) \o Of(Contents, queue)
           m == sent[g + 1]
           due == Due(Unread(g + 1))
           files == m.attachments
           n == Len(files)
           others == SubSeq(files, k + 2, n)
<1>5. /\ Tail(remaining) \in Seq(Sound) /\ d \in Item /\ rest \in Seq(Item)
      /\ Left = <<d>> \o rest
  BY <1>1, <1>2, FirstLeft
<1>6. /\ g < Len(sent) /\ k < n /\ header = <<Partly(m, k)>>
      /\ Left = SubSeq(files, k + 1, n) \o due
  BY <1>4 DEF Collecting
<1>7. g + 1 \in Nat /\ g + 1 <= Len(sent) /\ m \in ServerMessage
  BY <1>3, <1>6, UnreadMessages
<1>8. files \in Seq(Item) /\ due \in Seq(Item)
  <2>1. files \in Seq(Item)
    BY <1>7, MessageItems
  <2>2. due \in Seq(Item)
    BY <1>3, <1>7, UnreadMessages, DueGrows
  <2> QED
    BY <2>1, <2>2
<1>9. n \in Nat /\ k + 1 \in 1 .. n /\ files[k + 1] \in Item /\ others \in Seq(Item)
  <2> HIDE DEF files, Item
  <2>1. n \in Nat
    BY <1>8, LenProperties
  <2>2. k + 1 \in 1 .. n
    BY <1>6, <2>1
  <2>3. \A i \in 1 .. n : files[i] \in Item
    BY <1>8, ElementOfSeq
  <2>4. others \in Seq(Item)
    <3>1. \A i \in k + 2 .. n : files[i] \in Item
      BY <2>1, <2>3
    <3> QED
      BY <2>1, <3>1, SubSeqProperties
  <2> QED
    BY <2>1, <2>2, <2>3, <2>4
<1> DEFINE file == files[k + 1]
           tail == others \o due
<1>10. Left = <<file>> \o tail /\ tail \in Seq(Item)
  <2>1. SubSeq(files, k + 1, n) = <<file>> \o others
    <3> HIDE DEF files
    <3>1. k + 1 \in 1 .. Len(files) /\ n \in k + 1 .. Len(files)
      BY <1>9
    <3>2. SubSeq(files, k + 1, n) = <<files[k + 1]>> \o SubSeq(files, (k + 1) + 1, n)
      BY <1>8, <3>1, SubSeqRecursiveFirst
    <3>3. (k + 1) + 1 = k + 2
      OBVIOUS
    <3> QED
      BY <3>2, <3>3
  <2> DEFINE one == <<file>>
  <2>2. one \in Seq(Item)
    <3> HIDE DEF file, Item
    <3>1. file \in Item
      BY <1>9 DEF file
    <3> QED
      BY <3>1
  <2>3. (one \o others) \o due = one \o tail /\ tail \in Seq(Item)
    <3>1. others \in Seq(Item) /\ due \in Seq(Item)
      BY <1>8, <1>9
    <3> HIDE DEF one, others, due
    <3>2. Cat(Cat(one, others), due) = Cat(one, Cat(others, due)) /\ Cat(others, due) \in Seq(Item)
      BY <2>2, <3>1, CatAssociative, CatTexts
    <3> QED
      BY <3>2 DEF Cat
  <2> QED
    BY <1>6, <2>1, <2>3, Zenon
<1>11. d = file /\ rest = tail
  <2>1. d \in Item /\ file \in Item /\ rest \in Seq(Item) /\ tail \in Seq(Item)
        /\ <<d>> \o rest = <<file>> \o tail
    BY <1>5, <1>9, <1>10
  <2> HIDE DEF d, rest, file, tail, Item
  <2> QED
    BY <2>1, SameFirst
<1>12. Left' = tail
  <2>1. Left' = rest
    BY <1>2 DEF Left
  <2> QED
    BY <1>11, <2>1
<1> DEFINE packet == [header[1] EXCEPT !.attachments = Append(@, d)]
<1>13. packet = Partly(m, k + 1) /\ Len(packet.attachments) = k + 1 /\ packet.count = n
  <2>1. /\ Append(SubSeq(files, 1, k), file) = SubSeq(files, 1, k + 1)
        /\ Len(SubSeq(files, 1, k + 1)) = k + 1
    <3> HIDE DEF files, Item
    <3>1. \A i \in 1 .. n : files[i] \in Item
      BY <1>8, ElementOfSeq
    <3>2. Len(SubSeq(files, 1, k + 1)) = k + 1
      <4>1. \A i \in 1 .. k + 1 : files[i] \in Item
        BY <1>9, <3>1
      <4> QED
        BY <1>9, <4>1, SubSeqProperties
    <3>3. SubSeq(files, 1, k + 1) = Append(SubSeq(files, 1, k), files[k + 1])
      <4>1. k + 1 <= Len(files)
        BY <1>9
      <4> QED
        BY <1>8, <4>1, Fronts
    <3> QED
      BY <3>2, <3>3
  <2>2. header[1] = Partly(m, k)
    BY <1>6
  <2>3. packet = [Partly(m, k) EXCEPT !.attachments = Append(@, file)]
    BY <1>11, <2>2
  <2> DEFINE t == m.type
             nsp == m.nsp
             data == DataOf(m)
             id == m.id
             a == SubSeq(files, 1, k)
             b == SubSeq(files, 1, k + 1)
  <2>4. Partly(m, k) = S!Packet(t, nsp, data, id, n, a)
        /\ Partly(m, k + 1) = S!Packet(t, nsp, data, id, n, b)
    BY DEF Partly
  <2>5. Append(a, file) = b /\ Len(b) = k + 1
    BY <2>1
  <2> HIDE DEF t, nsp, data, id, a, b, n, file, d, packet
  <2>6. [S!Packet(t, nsp, data, id, n, a) EXCEPT !.attachments = Append(@, file)]
           = S!Packet(t, nsp, data, id, n, b)
    <3> DEFINE whole == S!Packet(t, nsp, data, id, n, a)
    <3>1. whole.attachments = a
      BY DEF S!Packet
    <3>2. [whole EXCEPT !.attachments = b] = S!Packet(t, nsp, data, id, n, b)
      BY DEF S!Packet
    <3>3. Append(whole.attachments, file) = b
      BY <2>5, <3>1
    <3> QED
      BY <3>2, <3>3
  <2>7. packet = S!Packet(t, nsp, data, id, n, b)
    BY <2>3, <2>4, <2>6, Zenon
  <2>8. packet.attachments = b /\ packet.count = n
    BY <2>7 DEF S!Packet
  <2> QED
    BY <2>4, <2>5, <2>7, <2>8
<1>14. CASE k + 1 < n
  <2>1. header' = <<packet>> /\ got' = got
    <3>1. Len(packet.attachments) < packet.count
      BY <1>13, <1>14
    <3>2. IF Len(packet.attachments) < packet.count
          THEN header' = <<packet>> /\ got' = got ELSE TRUE
      BY Zenon DEF HandleAttachment, d
    <3> HIDE DEF packet
    <3> QED
      BY <3>1, <3>2
  <2>2. Collecting(k + 1)'
    <3>1. Unread(Len(got) + 1)' = Unread(g + 1)
      BY <1>2, <2>1 DEF Unread
    <3>2. Left' = SubSeq(files, (k + 1) + 1, n) \o due
      <4>1. (k + 1) + 1 = k + 2
        OBVIOUS
      <4> QED
        BY <1>12, <4>1
    <3>3. Len(got)' = g /\ Len(sent)' = Len(sent) /\ m' = m
      BY <1>2, <2>1
    <3>4. Partly(m, k + 1)' = Partly(m, k + 1)
      BY <3>3 DEF Partly, DataOf
    <3>5. header' = <<Partly(m, k + 1)>>
      BY <1>13, <2>1
    <3> HIDE DEF m, packet
    <3>6. g < Len(sent) /\ k + 1 < Len(m.attachments)
      BY <1>6, <1>14
    <3>7. (g < Len(sent) /\ k + 1 < Len(m.attachments))'
      BY <3>3, <3>6
    <3> QED
      BY <3>1, <3>2, <3>3, <3>4, <3>5, <3>7 DEF Collecting, m
  <2>3. ReceivedType' /\ Read'
    BY <1>1, <1>2, <1>3, <1>5, <2>1 DEF ReceivedType, Read
  <2>4. k + 1 \in Nat
    OBVIOUS
  <2> QED
    BY <2>2, <2>3, <2>4 DEF Arriving
<1>15. CASE k + 1 >= n
  <2>0. k + 1 = n
    BY <1>9, <1>15
  <2>1. got' = Append(got, packet) /\ header' = <<>>
    <3>1. ~(Len(packet.attachments) < packet.count)
      BY <1>13, <2>0
    <3> QED
      BY <3>1 DEF HandleAttachment, d
  <2>2. packet = Reading(m)
    <3>1. SubSeq(files, 1, n) = files
      BY <1>8, SubSeqFull
    <3>2. SubSeq(files, 1, k + 1) = files
      BY <2>0, <3>1
    <3> QED
      BY <1>13, <3>2 DEF Reading, Partly
  <2>3. Reading(m) \in Readings
    BY <1>7 DEF Readings
  <2>4. others = <<>> /\ tail = due
    <3>1. others = <<>>
      <4> HIDE DEF files
      <4>1. n < k + 2
        BY <1>9, <2>0
      <4> QED
        BY <1>9, <4>1, SubSeqEmpty
    <3> QED
      BY <1>8, <3>1, ConcatEmptySeq
  <2> HIDE DEF packet
  <2>5. /\ got' \in Seq(Readings) /\ Len(got') = g + 1 /\ got'[g + 1] = Reading(m)
        /\ \A i \in 1 .. g : got'[i] = got[i]
    <3> HIDE DEF Readings, m
    <3> QED
      BY <1>3, <2>1, <2>2, <2>3, AppendProperties
  <2>6. Read'
    <3>1. \A i \in 1 .. g + 1 : got'[i] = Reading(sent[i])
      <4> SUFFICES ASSUME NEW i \in 1 .. g + 1 PROVE got'[i] = Reading(sent[i])
        OBVIOUS
      <4>1. i = g + 1 \/ i \in 1 .. g
        BY <1>3
      <4> QED
        BY <1>3, <2>5, <4>1
    <3> QED
      BY <1>2, <1>7, <2>5, <3>1 DEF Read, Readings, Reading, DataOf
  <2>7. Ready'
    <3>1. Unread(Len(got))' = Unread(g + 1)
      BY <1>2, <2>5 DEF Unread
    <3> QED
      BY <1>12, <2>1, <2>4, <3>1 DEF Ready
  <2>8. ReceivedType'
    BY <1>2, <1>3, <1>5 DEF ReceivedType
  <2> QED
    BY <2>6, <2>7, <2>8 DEF Arriving
<1> QED
  BY <1>9, <1>14, <1>15

\* Each step leaves Arriving true; what the application sends does not touch it.
LEMMA ArrivingStep == Untorn /\ Arriving /\ [Next]_vars => Arriving'
<1> SUFFICES ASSUME Untorn, Arriving, [Next]_vars PROVE Arriving'
  OBVIOUS
<1>1. CASE ServerSends
  BY <1>1, ArrivingServerSends
<1>2. CASE Poll
  BY <1>2, ArrivingPoll
<1>3. CASE HandleHeader
  BY <1>3, ArrivingHeader
<1>4. CASE HandleAttachment
  BY <1>4, ArrivingAttachment
<1>5. CASE Emit
  BY <1>5, ArrivingStutters DEF Emit
<1>6. CASE Greet
  BY <1>6, ArrivingStutters DEF Greet
<1>7. CASE UNCHANGED vars
  BY <1>7, ArrivingStutters DEF vars, inbound
<1> QED
  BY <1>1, <1>2, <1>3, <1>4, <1>5, <1>6, <1>7 DEF Next

\* What has been read is what was sent.
LEMMA ArrivingMessagesArrive == Arriving => MessagesArrive
<1> SUFFICES ASSUME Arriving PROVE MessagesArrive
  OBVIOUS
<1>1. /\ sent \in Seq(ServerMessage) /\ failed = FALSE /\ got \in Seq(Readings)
      /\ Len(got) <= Len(sent) /\ \A i \in 1 .. Len(got) : got[i] = Reading(sent[i])
  BY DEF Arriving, ReceivedType, Read
<1>2. Len(got) \in Nat /\ Len(sent) \in Nat /\ DOMAIN got = 1 .. Len(got)
  BY <1>1, LenProperties
<1>3. ASSUME NEW i \in 1 .. Len(got) PROVE Reads(got[i], sent[i])
  <2>1. i \in 1 .. Len(sent)
    BY <1>1, <1>2
  <2>2. sent[i] \in ServerMessage
    BY <1>1, <2>1, ElementOfSeq
  <2>3. Reads(Reading(sent[i]), sent[i])
    BY <2>2, ReadingReads
  <2> QED
    BY <1>1, <2>3
<1> QED
  BY <1>1, <1>2, <1>3 DEF MessagesArrive

\* If nothing is left, no message is unread.
LEMMA ArrivingAllReturned == Arriving => AllReturned
<1> SUFFICES ASSUME Arriving, queue = <<>>, remaining = <<>> PROVE Len(got) = Len(sent)
  BY DEF AllReturned
<1>1. /\ sent \in Seq(ServerMessage) /\ got \in Seq(Readings) /\ Len(got) <= Len(sent)
      /\ Len(got) \in Nat /\ Len(sent) \in Nat
  BY LenProperties DEF Arriving, ReceivedType, Read
<1>2. Left = <<>>
  <2>1. Of(Contents, <<>>) = <<>> /\ <<>> \o <<>> = <<>>
    BY ContentsMap, OfGrows, EmptySeq, ConcatEmptySeq
  <2> QED
    BY <2>1 DEF Left
<1>3. \A k \in Nat : ~Collecting(k)
  <2> SUFFICES ASSUME NEW k \in Nat, Collecting(k) PROVE FALSE
    OBVIOUS
  <2> DEFINE m == sent[Len(got) + 1]
             files == m.attachments
             n == Len(files)
             some == SubSeq(files, k + 1, n)
             due == Due(Unread(Len(got) + 1))
  <2>1. Len(got) < Len(sent) /\ k < n /\ some \o due = <<>>
    BY <1>2 DEF Collecting
  <2>2. Len(got) + 1 \in Nat /\ Len(got) + 1 <= Len(sent) /\ m \in ServerMessage
    BY <1>1, <2>1, UnreadMessages
  <2>3. files \in Seq(Item) /\ due \in Seq(Item)
    BY <1>1, <2>2, MessageItems, UnreadMessages, DueGrows
  <2>4. some \in Seq(Item) /\ Len(some) = n - k /\ n \in Nat
    <3> HIDE DEF files, Item
    <3>1. n \in Nat /\ \A i \in 1 .. n : files[i] \in Item
      BY <2>3, ElementOfSeq, LenProperties
    <3>2. \A i \in k + 1 .. n : files[i] \in Item
      BY <3>1
    <3>3. some \in Seq(Item) /\ Len(some) = IF k + 1 <= n THEN n - (k + 1) + 1 ELSE 0
      BY <3>1, <3>2, SubSeqProperties
    <3>4. k + 1 <= n /\ n - (k + 1) + 1 = n - k
      BY <2>1, <3>1
    <3> QED
      BY <3>1, <3>3, <3>4
  <2>5. Len(some \o due) = Len(some) + Len(due) /\ Len(due) \in Nat
    <3> HIDE DEF some, due, Item
    <3> QED
      BY <2>3, <2>4, ConcatProperties, LenProperties
  <2>6. Len(<<>>) = 0
    OBVIOUS
  <2>7. n - k > 0
    <3> HIDE DEF files
    <3> QED
      BY <2>1, <2>4
  <2> HIDE DEF some, due, n
  <2> QED
    BY <2>1, <2>4, <2>5, <2>6, <2>7
<1>4. Due(Unread(Len(got))) = <<>>
  BY <1>2, <1>3 DEF Arriving, Ready
<1> SUFFICES ASSUME Len(got) < Len(sent) PROVE FALSE
  BY <1>1
<1> DEFINE m == sent[Len(got) + 1]
           next == Unread(Len(got) + 1)
           text == Text(m)
           tail == m.attachments \o Due(next)
<1>5. m \in ServerMessage /\ Unread(Len(got)) = <<m>> \o next
  BY <1>1, UnreadMessages
<1>6. Len(got) + 1 \in Nat /\ Len(got) + 1 <= Len(sent)
  BY <1>1
<1>7. next \in Seq(ServerMessage)
  BY <1>1, <1>6, UnreadMessages
<1>8. Due(<<m>> \o next) = <<text>> \o tail
  <2> HIDE DEF m, next
  <2> QED
    BY <1>5, <1>7, DueFirst DEF text, tail
<1>9. text \in Item /\ m.attachments \in Seq(Item) /\ Due(next) \in Seq(Item)
  BY <1>5, <1>7, MessageItems, DueGrows
<1>10. <<text>> \o tail # <<>>
  <2>1. tail \in Seq(Item)
    <3> DEFINE files == m.attachments
               due == Due(next)
    <3>1. files \in Seq(Item) /\ due \in Seq(Item)
      BY <1>9
    <3> HIDE DEF files, due, Item
    <3>2. files \o due \in Seq(Item)
      BY <3>1, ConcatProperties
    <3> QED
      BY <3>2 DEF files, due
  <2> HIDE DEF text, tail, Item
  <2> QED
    BY <1>9, <2>1, Prefixed
<1> QED
  BY <1>4, <1>5, <1>8, <1>10, Zenon

\* handle_engineio_packet and both codecs: whatever the answers are that the frames of
\* a message come in, poll() returns each message of the server as what it is, once and
\* in order, and never an Err.
THEOREM Arrive ==
    ASSUME Untorn
    PROVE  Spec => []MessagesArrive
<1>1. Arriving /\ [Next]_vars => Arriving'
  BY ArrivingStep
<1> QED
  BY <1>1, ArrivingInit, ArrivingMessagesArrive, PTL DEF Spec

\* remaining_packets and the collected header keep nothing back: if there is nothing to
\* poll for and nothing to hand out, all messages have been returned.
THEOREM Returned ==
    ASSUME Untorn
    PROVE  Spec => []AllReturned
<1>1. Arriving /\ [Next]_vars => Arriving'
  BY ArrivingStep
<1> QED
  BY <1>1, ArrivingInit, ArrivingAllReturned, PTL DEF Spec

-----------------------------------------------------------------------------
(* From the application to the server *)

\* What is emitted is JSON or binary data, and a request is JSON.
Truthful == Payloads \subseteq {"json", "binary"} /\ AckPayloads \subseteq {"json"}

\* The messages of the client.
ClientMessage ==
    [type : S!PacketType, nsp : Namespaces, id : Ids \cup {<<>>}, name : {<<>>, <<"event">>},
     args : {<<>>, <<"json">>}, attachments : Seq(Attachments)]

\* A packet is encoded as the protocol has a message.
Tells(packet, m) ==
    m \in ClientMessage /\ S!Encode(packet) = Text(m) /\ packet.attachments = m.attachments

\* A packet is encoded part by part.
LEMMA EncodedParts ==
    ASSUME NEW packet, NEW m,
           packet.type = m.type, packet.nsp = m.nsp, packet.id = m.id,
           S!IsBinary(m.type) => packet.count = Len(m.attachments),
           S!EncodeData(packet) = Json(m)
    PROVE  S!Encode(packet) = Text(m)
<1>1. CASE S!IsBinary(m.type)
  BY <1>1, Zenon DEF S!Encode, Text
<1>2. CASE ~S!IsBinary(m.type)
  BY <1>2, Zenon DEF S!Encode, Text
<1> QED
  BY <1>1, <1>2

\* Elements one behind the other, as EncodeData and Build put them together.
LEMMA Joined5 ==
    ASSUME NEW a, NEW b, NEW c, NEW d, NEW e
    PROVE  <<a>> \o (<<b>> \o <<c>>) \o <<d>> \o <<e>> = <<a, b, c, d, e>>
<1> DEFINE T == {a, b, c, d, e}
           one == <<a>>
           two == <<b>>
           both == <<a, b>>
           three == <<a, b, c>>
           four == <<a, b, c, d>>
<1>1. /\ one \in Seq(T) /\ two \in Seq(T) /\ both \in Seq(T) /\ three \in Seq(T)
      /\ four \in Seq(T) /\ b \in T /\ c \in T /\ d \in T /\ e \in T
  OBVIOUS
<1>2. /\ Append(one, b) = both /\ Append(both, c) = three /\ Append(three, d) = four
      /\ Append(four, e) = <<a, b, c, d, e>>
  BY Appended2, Appended3, Appended4, Appended5
<1> HIDE DEF T, one, two, both, three, four
<1>3. two \o <<c>> = Append(two, c) /\ one \o two = both
  BY <1>1, <1>2, AppendIsConcat DEF two
<1>4. one \o Append(two, c) = Append(one \o two, c)
  BY <1>1, ConcatAppend
<1>5. three \o <<d>> = four /\ four \o <<e>> = <<a, b, c, d, e>>
  BY <1>1, <1>2, AppendIsConcat
<1>6. one \o (two \o <<c>>) = three
  BY <1>2, <1>3, <1>4, Zenon
<1>7. one \o (two \o <<c>>) \o <<d>> \o <<e>> = <<a, b, c, d, e>>
  BY <1>5, <1>6, Zenon
<1> QED
  BY <1>7 DEF one, two

\* ... and of three that are together.
LEMMA Joined3 ==
    ASSUME NEW a, NEW b, NEW c, NEW d, NEW e
    PROVE  <<a, b, c>> \o <<d>> \o <<e>> = <<a, b, c, d, e>>
<1> DEFINE T == {a, b, c, d, e}
           three == <<a, b, c>>
           four == <<a, b, c, d>>
<1>1. three \in Seq(T) /\ four \in Seq(T) /\ d \in T /\ e \in T
  OBVIOUS
<1>2. Append(three, d) = four /\ Append(four, e) = <<a, b, c, d, e>>
  BY Appended4, Appended5
<1> HIDE DEF T, three, four
<1>3. three \o <<d>> = four /\ four \o <<e>> = <<a, b, c, d, e>>
  BY <1>1, <1>2, AppendIsConcat
<1>4. three \o <<d>> \o <<e>> = <<a, b, c, d, e>>
  BY <1>3, Zenon
<1> QED
  BY <1>4 DEF three

\* The Connect and the Disconnect.
LEMMA GreetingTold ==
    ASSUME NEW nsp \in Namespaces, NEW type \in {"Connect", "Disconnect"},
           NEW auth \in {<<>>, <<"json">>}
    PROVE  Tells(S!Packet(type, nsp, auth, <<>>, 0, <<>>),
                 Message(type, nsp, <<>>, <<>>, auth, <<>>))
<1> DEFINE p == S!Packet(type, nsp, auth, <<>>, 0, <<>>)
           m == Message(type, nsp, <<>>, <<>>, auth, <<>>)
<1>1. /\ m.type = type /\ m.nsp = nsp /\ m.id = <<>> /\ m.name = <<>> /\ m.args = auth
      /\ m.attachments = <<>> /\ m \in ClientMessage
  <2>1. <<>> \in Seq(Attachments) /\ type \in S!PacketType
    BY DEF S!PacketType
  <2> QED
    BY <2>1 DEF Message, ClientMessage
<1>2. /\ p.type = type /\ p.nsp = nsp /\ p.id = <<>> /\ p.data = auth /\ p.count = 0
      /\ p.attachments = <<>>
  BY DEF S!Packet
<1>3. ~S!IsBinary(type)
  BY DEF S!IsBinary
<1> HIDE DEF p, m
<1>4. S!EncodeData(p) = auth
  BY <1>2 DEF S!EncodeData, S!None
<1>5. Json(m) = auth
  BY <1>1 DEF Json
<1>6. S!Encode(p) = Text(m)
  BY <1>1, <1>2, <1>3, <1>4, <1>5, EncodedParts
<1>7. Tells(p, m)
  BY <1>1, <1>2, <1>6 DEF Tells
<1> QED
  BY <1>7 DEF p, m

\* An event with an attachment.
LEMMA BinaryTold ==
    ASSUME NEW nsp \in Namespaces, NEW data \in Attachments
    PROVE  Tells(S!Packet("BinaryEvent", nsp, <<"event">>, <<>>, 1, <<data>>),
                 Message("BinaryEvent", nsp, <<>>, <<"event">>, <<>>, <<data>>))
<1> DEFINE p == S!Packet("BinaryEvent", nsp, <<"event">>, <<>>, 1, <<data>>)
           m == Message("BinaryEvent", nsp, <<>>, <<"event">>, <<>>, <<data>>)
           name == <<"event">>
           files == <<data>>
           json == <<"[", "event", ",", H(0), "]">>
<1>1. /\ m.type = "BinaryEvent" /\ m.nsp = nsp /\ m.id = <<>>
      /\ m.attachments = files /\ m \in ClientMessage
  <2>1. files \in Seq(Attachments) /\ "BinaryEvent" \in S!PacketType
    BY DEF S!PacketType
  <2> QED
    BY <2>1 DEF Message, ClientMessage
<1>2. /\ p.type = "BinaryEvent" /\ p.nsp = nsp /\ p.id = <<>> /\ p.data = name /\ p.count = 1
      /\ p.attachments = files
  BY DEF S!Packet
<1>3. Json(m) = json
  BY JsonsOfOne
<1>4. Len(files) = 1 /\ files # <<>> /\ name # <<>>
  OBVIOUS
<1>5. S!EncodeData(p) = json
  <2>1. S!EncodeData(p) = <<"[">> \o (name \o <<",">>) \o S!Placeholder(0) \o <<"]">>
    <3> HIDE DEF p, files, name
    <3>1. p.attachments # S!None /\ p.data # S!None /\ p.count - 1 = 0
      BY <1>2, <1>4 DEF S!None
    <3> QED
      BY <1>2, <3>1 DEF S!EncodeData
  <2>2. S!Placeholder(0) = <<H(0)>>
    BY Holders
  <2>3. S!EncodeData(p) = <<"[">> \o (name \o <<",">>) \o <<H(0)>> \o <<"]">>
    BY <2>1, <2>2, Zenon
  <2>4. <<"[">> \o (<<"event">> \o <<",">>) \o <<H(0)>> \o <<"]">>
          = <<"[", "event", ",", H(0), "]">>
    <3> DEFINE a == "["
               b == "event"
               c == ","
               h == H(0)
               d == "]"
    <3> HIDE DEF a, b, c, d, h
    <3>1. <<a>> \o (<<b>> \o <<c>>) \o <<h>> \o <<d>> = <<a, b, c, h, d>>
      BY Joined5, ZenonT(40)
    <3> QED
      BY <3>1, Zenon DEF a, b, c, d, h
  <2> HIDE DEF p
  <2> QED
    BY <2>3, <2>4, Zenon
<1> HIDE DEF p, m, json, files
<1>6. S!Encode(p) = Text(m)
  BY <1>1, <1>2, <1>3, <1>4, <1>5, EncodedParts
<1>7. Tells(p, m)
  BY <1>1, <1>2, <1>6 DEF Tells
<1> QED
  BY <1>7 DEF p, m, files

\* An event without attachments, as a request or not.
LEMMA TextTold ==
    ASSUME NEW nsp \in Namespaces, NEW id \in Ids \cup {<<>>}
    PROVE  Tells(S!Packet("Event", nsp, <<"[", "event", ",", "json", "]">>, id, 0, <<>>),
                 Message("Event", nsp, id, <<"event">>, <<"json">>, <<>>))
<1> DEFINE json == <<"[", "event", ",", "json", "]">>
           p == S!Packet("Event", nsp, json, id, 0, <<>>)
           m == Message("Event", nsp, id, <<"event">>, <<"json">>, <<>>)
<1>1. /\ m.type = "Event" /\ m.nsp = nsp /\ m.id = id
      /\ m.attachments = <<>> /\ m \in ClientMessage
  <2>1. <<>> \in Seq(Attachments) /\ "Event" \in S!PacketType
    BY DEF S!PacketType
  <2> QED
    BY <2>1 DEF Message, ClientMessage
<1>2. Json(m) = json
  BY JsonsOfText
<1> HIDE DEF json
<1>3. /\ p.type = "Event" /\ p.nsp = nsp /\ p.id = id /\ p.data = json /\ p.attachments = <<>>
  BY DEF S!Packet
<1>4. ~S!IsBinary("Event")
  BY DEF S!IsBinary
<1> HIDE DEF p, m
<1>5. S!EncodeData(p) = json
  BY <1>3 DEF S!EncodeData, S!None
<1>6. S!Encode(p) = Text(m)
  BY <1>1, <1>2, <1>3, <1>4, <1>5, EncodedParts
<1>7. Tells(p, m)
  BY <1>1, <1>3, <1>6 DEF Tells
<1> QED
  BY <1>7 DEF p, m, json

\* What emit() and emit_with_ack() build is the message they are to tell the server.
LEMMA EmissionTold ==
    ASSUME Truthful, NEW nsp \in Namespaces, NEW id \in Ids \cup {<<>>},
           NEW payload \in Payload(IF id = <<>> THEN Payloads ELSE AckPayloads)
    PROVE  \E m : Emission(payload, nsp, id) = <<m>> /\ Tells(S!Build(payload, nsp, id), m)
<1> DEFINE kinds == IF id = <<>> THEN Payloads ELSE AckPayloads
<1>1. kinds \subseteq {"json", "binary"} /\ ("binary" \in kinds => id = <<>>)
  BY DEF Truthful
<1>2. CASE payload \in {[binary |-> TRUE, data |-> a] :
                            a \in {a \in Attachments : "binary" \in kinds}}
  <2> DEFINE m == Message("BinaryEvent", nsp, <<>>, <<"event">>, <<>>, <<payload.data>>)
  <2>1. PICK data \in Attachments : payload = [binary |-> TRUE, data |-> data]
    BY <1>2
  <2>2. id = <<>>
    BY <1>1, <1>2
  <2>3. payload.binary /\ payload.data = data
    BY <2>1
  <2>4. S!Build(payload, nsp, id)
          = S!Packet("BinaryEvent", nsp, <<"event">>, <<>>, 1, <<payload.data>>)
    BY <2>2, <2>3 DEF S!Build, S!None
  <2>5. Emission(payload, nsp, id) = <<m>>
    BY <2>2, <2>3 DEF Emission
  <2>6. Tells(S!Build(payload, nsp, id), m)
    BY <2>3, <2>4, BinaryTold
  <2> QED
    BY <2>5, <2>6, Zenon
<1>3. CASE payload \in {[binary |-> FALSE, data |-> <<kind>>] : kind \in kinds \ {"binary"}}
  <2> DEFINE m == Message("Event", nsp, id, <<"event">>, <<"json">>, <<>>)
             array == <<"[", "event", ",", "json", "]">>
  <2>1. ~payload.binary /\ payload.data = <<"json">>
    BY <1>1, <1>3
  <2>2. S!IsJson(<<"json">>)
    BY GoodTexts DEF Good
  <2>3. <<"[", "event", ",">> \o <<"json">> \o <<"]">> = array
    <3> DEFINE a == "["
               b == "event"
               c == ","
               d == "]"
               e == "json"
    <3> HIDE DEF a, b, c, d, e
    <3>1. <<a, b, c>> \o <<e>> \o <<d>> = <<a, b, c, e, d>>
      BY Joined3, ZenonT(40)
    <3> QED
      BY <3>1, Zenon DEF a, b, c, d, e
  <2> HIDE DEF array
  <2>4. S!Build(payload, nsp, id) = S!Packet("Event", nsp, array, id, 0, <<>>)
    BY <2>1, <2>2, <2>3 DEF S!Build, S!None
  <2>5. Emission(payload, nsp, id) = <<m>>
    BY <2>1 DEF Emission
  <2>6. Tells(S!Build(payload, nsp, id), m)
    BY <2>4, TextTold DEF array
  <2> QED
    BY <2>5, <2>6, Zenon
<1> QED
  BY <1>2, <1>3 DEF Payload

\* The frames that are to arrive for a message.
FramesFor(m, t) ==
    [k \in DOMAIN PacketsFor(m) |-> Carried(PacketsFor(m)[k], t)]
FramesOn(t) == [m \in ClientMessage |-> FramesFor(m, t)]

\* What can be in them.
Wire(t) ==
    {Carried(E!Packet("Message", Text(m)), t) : m \in ClientMessage}
    \cup {Carried(E!Packet("MessageBinary", data), t) : data \in Attachments}

\* A transport carries a packet as it is to.
LEMMA EmittedAsCarried ==
    ASSUME NEW id \in {"Message", "MessageBinary"}, NEW data, NEW t
    PROVE  E!Emitted(E!Packet(id, data), t) = Carried(E!Packet(id, data), t)
<1> DEFINE p == E!Packet(id, data)
<1>1. p.id = id /\ p.data = data
  BY DEF E!Packet
<1>2. E!IdByte["Message"] = "4" /\ E!IdByte["MessageBinary"] = "b"
  BY DEF E!IdByte
<1> HIDE DEF p
<1>3. CASE id = "Message"
  <2>1. E!Encode(p) = <<"4">> \o p.data
    BY <1>1, <1>2, <1>3 DEF E!Encode
  <2> QED
    BY <1>1, <1>3, <2>1 DEF E!Emitted, Carried, p
<1>4. CASE id = "MessageBinary"
  <2>1. E!Encode(p) = <<"b">> \o E!ToBase64(p.data)
    BY <1>1, <1>2, <1>4 DEF E!Encode
  <2> QED
    BY <1>1, <1>4, <2>1 DEF E!Emitted, Carried, p
<1> QED
  BY <1>3, <1>4

\* The packets of a client's message, one by one.
LEMMA FramesMap ==
    ASSUME NEW t
    PROVE  /\ Mapping(ClientMessage, Seq(Wire(t)), FramesOn(t))
           /\ \A packet, m : Tells(packet, m) /\ t = transport =>
                 Frames(packet) = FramesFor(m, t) /\ FramesFor(m, t) \in Seq(Wire(t))
<1> DEFINE T == Wire(t)
<1>1. ASSUME NEW m \in ClientMessage
      PROVE  /\ FramesFor(m, t) \in Seq(T)
             /\ Len(FramesFor(m, t)) = Len(m.attachments) + 1
             /\ FramesFor(m, t)[1] = Carried(E!Packet("Message", Text(m)), t)
             /\ \A k \in 1 .. Len(m.attachments) :
                   FramesFor(m, t)[k + 1] = Carried(E!Packet("MessageBinary", m.attachments[k]), t)
  <2> DEFINE files == m.attachments
             n == Len(files)
             first == E!Packet("Message", Text(m))
             rest == [k \in DOMAIN files |-> E!Packet("MessageBinary", files[k])]
             P == {first} \cup {E!Packet("MessageBinary", data) : data \in Attachments}
             all == PacketsFor(m)
             frames == FramesFor(m, t)
  <2>1. files \in Seq(Attachments)
    BY DEF ClientMessage
  <2>2. n \in Nat /\ DOMAIN files = 1 .. n /\ \A k \in 1 .. n : files[k] \in Attachments
    <3> HIDE DEF files
    <3> QED
      BY <2>1, ElementOfSeq, LenProperties
  <2>3. /\ rest \in Seq(P) /\ Len(rest) = n
        /\ \A k \in 1 .. n : rest[k] = E!Packet("MessageBinary", files[k])
    <3>1. rest = [k \in 1 .. n |-> E!Packet("MessageBinary", files[k])]
      BY <2>2
    <3> HIDE DEF rest, files
    <3>2. \A k \in 1 .. n : E!Packet("MessageBinary", files[k]) \in P
      BY <2>2
    <3> HIDE DEF P
    <3>3. rest \in [1 .. n -> P]
      BY <3>1, <3>2
    <3> QED
      BY <2>2, <3>1, <3>3, FunctionIsSeq
  <2>4. first \in P /\ all = <<first>> \o rest
    BY DEF PacketsFor
  <2>5. \A p \in P : Carried(p, t) \in T
    <3> HIDE DEF first, T
    <3>1. Carried(first, t) \in T
      BY DEF first, T, Wire
    <3>2. \A data \in Attachments : Carried(E!Packet("MessageBinary", data), t) \in T
      BY DEF T, Wire
    <3> QED
      BY <3>1, <3>2
  <2> HIDE DEF first, rest, P, files, T
  <2>6. /\ <<first>> \o rest \in Seq(P) /\ Len(<<first>> \o rest) = n + 1
        /\ (<<first>> \o rest)[1] = first
        /\ \A k \in 1 .. n : (<<first>> \o rest)[k + 1] = rest[k]
    BY <2>3, <2>4, Prefixed
  <2>7. /\ all \in Seq(P) /\ Len(all) = n + 1 /\ all[1] = first
        /\ \A k \in 1 .. n : all[k + 1] = E!Packet("MessageBinary", files[k])
    <3> HIDE DEF all
    <3> QED
      BY <2>3, <2>4, <2>6
  <2> HIDE DEF all
  <2>8. DOMAIN all = 1 .. n + 1 /\ \A k \in 1 .. n + 1 : all[k] \in P
    BY <2>2, <2>7, ElementOfSeq, LenProperties
  <2>9. frames = [k \in 1 .. n + 1 |-> Carried(all[k], t)]
    BY <2>8 DEF FramesFor, all
  <2> HIDE DEF frames
  <2>10. frames \in [1 .. n + 1 -> T]
    BY <2>5, <2>8, <2>9
  <2>11. n + 1 \in Nat /\ 1 \in 1 .. n + 1 /\ \A k \in 1 .. n : k + 1 \in 1 .. n + 1
    BY <2>2
  <2>12. frames \in Seq(T) /\ Len(frames) = n + 1
    BY <2>10, <2>11, FunctionIsSeq
  <2>13. frames[1] = Carried(first, t)
    BY <2>7, <2>9, <2>11
  <2>14. \A k \in 1 .. n : frames[k + 1] = Carried(E!Packet("MessageBinary", files[k]), t)
    BY <2>7, <2>9, <2>11
  <2> QED
    BY <2>12, <2>13, <2>14 DEF frames, first, files
<1>2. Mapping(ClientMessage, Seq(T), FramesOn(t))
  BY <1>1 DEF Mapping, FramesOn
<1>3. ASSUME NEW packet, NEW m, Tells(packet, m), t = transport
      PROVE  Frames(packet) = FramesFor(m, t) /\ FramesFor(m, t) \in Seq(T)
  <2> DEFINE files == m.attachments
             n == Len(files)
             first == Carried(E!Packet("Message", Text(m)), t)
             rest == [k \in DOMAIN files |-> E!Emitted(E!Packet("MessageBinary", files[k]), t)]
             frames == FramesFor(m, t)
             sends == Frames(packet)
  <2>1. m \in ClientMessage /\ S!Encode(packet) = Text(m) /\ packet.attachments = files
    BY <1>3 DEF Tells
  <2>2. /\ frames \in Seq(T) /\ Len(frames) = n + 1 /\ frames[1] = first
        /\ \A k \in 1 .. n : frames[k + 1] = Carried(E!Packet("MessageBinary", files[k]), t)
    BY <1>1, <2>1
  <2>3. n \in Nat /\ DOMAIN files = 1 .. n
    <3>1. files \in Seq(Attachments)
      BY <2>1 DEF ClientMessage
    <3> HIDE DEF files
    <3> QED
      BY <3>1, LenProperties
  <2>4. sends = <<first>> \o rest
    <3>1. E!Emitted(E!Packet("Message", S!Encode(packet)), transport) = first
      <4>1. E!Emitted(E!Packet("Message", Text(m)), t) = first
        BY EmittedAsCarried
      <4> QED
        BY <1>3, <2>1, <4>1
    <3> HIDE DEF first, files
    <3> QED
      BY <1>3, <2>1, <3>1 DEF Frames
  <2>5. \A k \in 1 .. n : E!Emitted(E!Packet("MessageBinary", files[k]), t) = frames[k + 1]
    <3> HIDE DEF frames, files
    <3> QED
      BY <2>2, EmittedAsCarried
  <2> HIDE DEF frames, T, first, files
  <2>6. first \in T /\ \A k \in 1 .. n : frames[k + 1] \in T
    <3>1. \A k \in 1 .. n + 1 : frames[k] \in T
      BY <2>2, ElementOfSeq
    <3>2. 1 \in 1 .. n + 1 /\ \A k \in 1 .. n : k + 1 \in 1 .. n + 1
      BY <2>3
    <3> QED
      BY <2>2, <3>1, <3>2
  <2>7. rest = [k \in 1 .. n |-> frames[k + 1]]
    BY <2>3, <2>5
  <2> HIDE DEF rest
  <2>8. rest \in Seq(T) /\ Len(rest) = n
    <3>1. rest \in [1 .. n -> T]
      BY <2>6, <2>7
    <3> QED
      BY <2>3, <3>1, FunctionIsSeq
  <2> DEFINE c == <<first>> \o rest
  <2>9. c \in Seq(T) /\ Len(c) = n + 1 /\ c[1] = first /\ \A k \in 1 .. n : c[k + 1] = rest[k]
    BY <2>6, <2>8, Prefixed
  <2> HIDE DEF c
  <2>10. ASSUME NEW i \in 1 .. n + 1 PROVE c[i] = frames[i]
    <3>1. CASE i = 1
      BY <2>2, <2>9, <3>1
    <3>2. CASE i # 1
      <4>1. i - 1 \in 1 .. n /\ (i - 1) + 1 = i
        BY <2>3, <3>2
      <4>2. c[(i - 1) + 1] = rest[i - 1] /\ rest[i - 1] = frames[(i - 1) + 1]
        BY <2>7, <2>9, <4>1
      <4> QED
        BY <4>1, <4>2
    <3> QED
      BY <3>1, <3>2
  <2>11. n + 1 \in Nat
    BY <2>3
  <2>12. c = frames
    BY <2>2, <2>9, <2>10, <2>11, SameSeq
  <2> QED
    BY <2>2, <2>4, <2>12 DEF c, frames
<1> QED
  BY <1>2, <1>3

\* What has been emitted has arrived.
Sending ==
    emitted \in Seq(ClientMessage) /\ arrived = FlattenSeq(Of(FramesOn(transport), emitted))

\* What has arrived is what the protocol has for what was emitted.
LEMMA SendingSentAsProtocol == Sending => SentAsProtocol
<1> SUFFICES ASSUME Sending PROVE SentAsProtocol
  OBVIOUS
<1> DEFINE due == [i \in DOMAIN emitted |->
                      [k \in DOMAIN PacketsFor(emitted[i]) |->
                          Carried(PacketsFor(emitted[i])[k], transport)]]
<1>1. \A i \in DOMAIN emitted : emitted[i] \in ClientMessage
  BY ElementOfSeq, LenProperties DEF Sending
<1>2. \A i \in DOMAIN emitted : FramesOn(transport)[emitted[i]] = FramesFor(emitted[i], transport)
  BY <1>1 DEF FramesOn
<1>3. Of(FramesOn(transport), emitted) = [i \in DOMAIN emitted |-> FramesFor(emitted[i], transport)]
  <2> HIDE DEF FramesOn
  <2> QED
    BY <1>2 DEF Of
<1>4. Of(FramesOn(transport), emitted) = due
  BY <1>3 DEF FramesFor
<1> HIDE DEF due
<1>5. arrived = FlattenSeq(due)
  BY <1>4, Zenon DEF Sending
<1> QED
  BY <1>5, Zenon DEF SentAsProtocol, due

\* At first nothing is emitted and nothing has arrived.
LEMMA SendingInit == Init => Sending
<1> SUFFICES ASSUME Init PROVE Sending
  OBVIOUS
<1>1. emitted = <<>> /\ arrived = <<>>
  BY DEF Init
<1>2. Of(FramesOn(transport), <<>>) = <<>>
  BY FramesMap, OfGrows
<1>3. FlattenSeq(<<>>) = <<>>
  BY Flattened
<1> QED
  BY <1>1, <1>2, <1>3, EmptySeq DEF Sending

\* A message is sent behind the others.
LEMMA SendingSends ==
    ASSUME Sending, transport' = transport, NEW packet, NEW m, Tells(packet, m),
           Send(packet, <<m>>)
    PROVE  Sending'
<1> DEFINE t == transport
           T == Wire(t)
           f == FramesOn(t)
           new == FramesFor(m, t)
           before == Of(f, emitted)
           after == Of(f, Append(emitted, m))
<1>1. m \in ClientMessage /\ f[m] = new
  BY DEF Tells, FramesOn
<1>2. Frames(packet) = new /\ new \in Seq(T) /\ Mapping(ClientMessage, Seq(T), f)
  BY FramesMap
<1>3. /\ emitted \in Seq(ClientMessage) /\ arrived = FlattenSeq(before)
      /\ emitted' = emitted \o <<m>> /\ arrived' = arrived \o new
  BY <1>2, Zenon DEF Sending, Send
<1>9. emitted' = Append(emitted, m)
  BY <1>1, <1>3, AppendIsConcat
<1> HIDE DEF f, new, T
<1>4. before \in Seq(Seq(T)) /\ after = Append(before, new)
  BY <1>1, <1>2, <1>3, OfGrows
<1> HIDE DEF before, after
<1>5. FlattenSeq(Append(before, new)) = FlattenSeq(before) \o new
  BY <1>2, <1>4, Flattened
<1>6. arrived' = FlattenSeq(after)
  BY <1>3, <1>4, <1>5, Zenon
<1>7. emitted' \in Seq(ClientMessage)
  BY <1>1, <1>3, <1>9, AppendProperties
<1>8. Of(FramesOn(transport)', emitted') = after
  <2>1. FramesOn(transport)' = FramesOn(transport)
    BY DEF FramesOn, FramesFor, Carried
  <2> QED
    BY <1>3, <1>9, <2>1 DEF after, f
<1> QED
  BY <1>6, <1>7, <1>8 DEF Sending

\* Each step leaves Sending true; what comes from the server does not touch it.
LEMMA SendingStep == Truthful /\ Sending /\ [Next]_vars => Sending'
<1> SUFFICES ASSUME Truthful, Sending, [Next]_vars PROVE Sending'
  OBVIOUS
<1>1. ASSUME UNCHANGED <<transport, outbound>> PROVE Sending'
  <2>1. transport' = transport /\ emitted' = emitted /\ arrived' = arrived
    BY <1>1 DEF outbound
  <2> QED
    BY <2>1 DEF Sending
<1>2. CASE ServerSends
  BY <1>1, <1>2 DEF ServerSends
<1>3. CASE Poll
  BY <1>1, <1>3 DEF Poll
<1>4. CASE HandleHeader
  BY <1>1, <1>4 DEF HandleHeader
<1>5. CASE HandleAttachment
  BY <1>1, <1>5 DEF HandleAttachment
<1>6. CASE Emit
  <2>0. PICK nsp \in Namespaces, id \in Ids \cup {<<>>} :
               \E payload \in Payload(IF id = <<>> THEN Payloads ELSE AckPayloads) :
                  Send(S!Build(payload, nsp, id), Emission(payload, nsp, id))
    BY <1>6, Zenon DEF Emit
  <2>1. PICK payload \in Payload(IF id = <<>> THEN Payloads ELSE AckPayloads) :
                Send(S!Build(payload, nsp, id), Emission(payload, nsp, id))
    BY <2>0, Zenon
  <2>2. transport' = transport
    BY <1>6 DEF Emit
  <2>3. PICK m : Emission(payload, nsp, id) = <<m>> /\ Tells(S!Build(payload, nsp, id), m)
    BY EmissionTold
  <2>4. Send(S!Build(payload, nsp, id), <<m>>)
    BY <2>1, <2>3, Zenon
  <2> QED
    BY <2>2, <2>3, <2>4, SendingSends
<1>7. CASE Greet
  <2>1. PICK nsp \in Namespaces, type \in {"Connect", "Disconnect"}, auth \in {<<>>, <<"json">>} :
                Send(S!Packet(type, nsp, auth, <<>>, 0, <<>>),
                     <<Message(type, nsp, <<>>, <<>>, auth, <<>>)>>)
    BY <1>7 DEF Greet
  <2>2. transport' = transport
    BY <1>7 DEF Greet
  <2>3. Tells(S!Packet(type, nsp, auth, <<>>, 0, <<>>), Message(type, nsp, <<>>, <<>>, auth, <<>>))
    BY GreetingTold
  <2> QED
    BY <2>1, <2>2, <2>3, SendingSends
<1>8. CASE UNCHANGED vars
  BY <1>1, <1>8 DEF vars, outbound
<1> QED
  BY <1>2, <1>3, <1>4, <1>5, <1>6, <1>7, <1>8 DEF Next

\* build_packet_for_payload, the encoding of packets and Socket::send: what arrives at the
\* server is what the protocol has for the calls that were made, in their order.
THEOREM AsProtocol ==
    ASSUME Truthful
    PROVE  Spec => []SentAsProtocol
<1>1. Sending /\ [Next]_vars => Sending'
  BY SendingStep
<1> QED
  BY <1>1, SendingInit, SendingSentAsProtocol, PTL DEF Spec
=============================================================================
