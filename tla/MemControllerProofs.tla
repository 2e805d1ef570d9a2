------------------------- MODULE MemControllerProofs -------------------------
(***************************************************************************)
(* Theorems about MemController, for every queue size, margin, set of      *)
(* addresses and number of requests, in whatever order the DRAM completes  *)
(* reads and whichever of Tick and MemTick the kernel runs first.          *)
(***************************************************************************)
EXTENDS MemController, FiniteSetTheorems, SequenceTheorems, TLAPS

(***************************************************************************)
(* Induction, as the existence of a smallest counterexample.               *)
(***************************************************************************)
LEMMA SmallestElement ==
  ASSUME NEW T \in SUBSET Nat, T # {}
  PROVE  \E n \in T : \A m \in T : n <= m
<1> DEFINE R == {ss \in Nat \X Nat : ss[1] < ss[2]}
<1>1. IsWellFoundedOn(R, Nat)
  BY NatLessThanWellFounded, Zenon DEF OpToRel
<1>2. PICK n \in T : \A m \in T : ~ (<<m, n>> \in R)
  <2> HIDE DEF R
  <2> QED
    BY <1>1, WFMin, Zenon
<1>3. \A m \in T : ~(m < n)
  BY <1>2
<1>4. QED
  BY <1>3

LEMMA MaxElement ==
  ASSUME NEW N \in Nat, NEW S \in SUBSET (0 .. N), S # {}
  PROVE  Max(S) \in S
<1> DEFINE T == {N - x : x \in S}
<1>1. T \in SUBSET Nat /\ T # {}
  <2>1. \A x \in S : N - x \in Nat
    OBVIOUS
  <2>2. QED
    BY <2>1
<1>2. PICK n \in T : \A m \in T : n <= m
  <2> HIDE DEF T
  <2> QED
    BY <1>1, SmallestElement
<1>3. N - n \in S /\ \A y \in S : N - n >= y
  BY <1>2
<1>4. QED
  BY <1>3, Zenon DEF Max

(***************************************************************************)
(* Sequences of words: their numbers, and how many have a given address.   *)
(***************************************************************************)
Numbers(q) == [k \in DOMAIN q |-> q[k].n]

LEMMA ConcatType ==
  ASSUME NEW p \in Seq(Words), NEW q \in Seq(Words)
  PROVE  p \o q \in Seq(Words)
OBVIOUS

LEMMA HeadTail ==
  ASSUME NEW q \in Seq(Words), q # <<>>
  PROVE  /\ Head(q) \in Words /\ Tail(q) \in Seq(Words)
         /\ q = <<Head(q)>> \o Tail(q)
<1>1. Head(q) \in Words /\ Tail(q) \in Seq(Words) /\ Len(q) \in Nat \ {0}
  OBVIOUS
<1>2. /\ <<Head(q)>> \o Tail(q) \in Seq(Words) /\ Len(<<Head(q)>> \o Tail(q)) = Len(q)
      /\ \A i \in 1 .. Len(q) : (<<Head(q)>> \o Tail(q))[i] = q[i]
  BY <1>1
<1>3. QED
  BY <1>1, <1>2, SeqEqual

LEMMA NumbersType ==
  ASSUME NEW q \in Seq(Words)
  PROVE  /\ Numbers(q) \in Seq(Nat) /\ Len(Numbers(q)) = Len(q)
         /\ \A k \in 1 .. Len(q) : Numbers(q)[k] = q[k].n
<1>1. Len(q) \in Nat /\ DOMAIN q = 1 .. Len(q) /\ \A k \in 1 .. Len(q) : q[k] \in Words
  OBVIOUS
<1>2. \A k \in 1 .. Len(q) : q[k].n \in Nat
  BY <1>1 DEF Words
<1>3. Numbers(q) \in [1 .. Len(q) -> Nat]
  BY <1>1, <1>2 DEF Numbers
<1>4. QED
  BY <1>1, <1>3 DEF Numbers

LEMMA NumbersConcat ==
  ASSUME NEW p \in Seq(Words), NEW q \in Seq(Words)
  PROVE  Numbers(p \o q) = Numbers(p) \o Numbers(q)
<1>1. p \o q \in Seq(Words) /\ Len(p \o q) = Len(p) + Len(q)
  OBVIOUS
<1>2. /\ Numbers(p \o q) \in Seq(Nat) /\ Len(Numbers(p \o q)) = Len(p) + Len(q)
      /\ \A k \in 1 .. Len(p) + Len(q) : Numbers(p \o q)[k] = (p \o q)[k].n
  BY <1>1, NumbersType
<1>3. /\ Numbers(p) \o Numbers(q) \in Seq(Nat)
      /\ Len(Numbers(p) \o Numbers(q)) = Len(p) + Len(q)
      /\ \A k \in 1 .. Len(p) + Len(q) :
           (Numbers(p) \o Numbers(q))[k] = (p \o q)[k].n
  <2>1. /\ Numbers(p) \in Seq(Nat) /\ Len(Numbers(p)) = Len(p)
        /\ \A k \in 1 .. Len(p) : Numbers(p)[k] = p[k].n
    BY NumbersType
  <2>2. /\ Numbers(q) \in Seq(Nat) /\ Len(Numbers(q)) = Len(q)
        /\ \A k \in 1 .. Len(q) : Numbers(q)[k] = q[k].n
    BY NumbersType
  <2> DEFINE r == Numbers(p)
             s == Numbers(q)
  <2> HIDE DEF r, s
  <2>3. r \in Seq(Nat) /\ s \in Seq(Nat) /\ Len(r) = Len(p) /\ Len(s) = Len(q)
    BY <2>1, <2>2 DEF r, s
  <2>4. /\ r \o s \in Seq(Nat) /\ Len(r \o s) = Len(p) + Len(q)
        /\ \A k \in 1 .. Len(p) + Len(q) :
             (r \o s)[k] = IF k <= Len(p) THEN r[k] ELSE s[k - Len(p)]
    <3>1. /\ r \o s \in Seq(Nat) /\ Len(r \o s) = Len(r) + Len(s)
          /\ \A k \in 1 .. Len(r) + Len(s) :
               (r \o s)[k] = IF k <= Len(r) THEN r[k] ELSE s[k - Len(r)]
      BY <2>3, ConcatProperties
    <3>2. QED
      BY <2>3, <3>1
  <2>5. \A k \in 1 .. Len(p) + Len(q) :
          (p \o q)[k] = IF k <= Len(p) THEN p[k] ELSE q[k - Len(p)]
    BY ConcatProperties
  <2>6. Len(p) \in Nat /\ Len(q) \in Nat
    OBVIOUS
  <2>7. \A k \in 1 .. Len(p) + Len(q) : (r \o s)[k] = (p \o q)[k].n
    <3>1. SUFFICES ASSUME NEW k \in 1 .. Len(p) + Len(q)
                   PROVE  (r \o s)[k] = (p \o q)[k].n
      OBVIOUS
    <3>2. CASE k <= Len(p)
      BY <2>1, <2>4, <2>5, <2>6, <3>2 DEF r
    <3>3. CASE ~(k <= Len(p))
      <4>1. k - Len(p) \in 1 .. Len(q)
        BY <2>6, <3>3
      <4>2. s[k - Len(p)] = q[k - Len(p)].n
        BY <2>2, <4>1 DEF s
      <4>3. QED
        BY <2>4, <2>5, <3>3, <4>2
    <3>4. QED
      BY <3>2, <3>3
  <2>8. QED
    BY <2>4, <2>7 DEF r, s
<1>4. QED
  BY <1>2, <1>3, SeqEqual

LEMMA NumbersTail ==
  ASSUME NEW q \in Seq(Words), q # <<>>
  PROVE  Numbers(Tail(q)) = Tail(Numbers(q))
<1>1. Tail(q) \in Seq(Words) /\ Len(Tail(q)) = Len(q) - 1 /\ Len(q) \in Nat \ {0}
  OBVIOUS
<1>2. \A k \in 1 .. Len(q) - 1 : Tail(q)[k] = q[k + 1]
  OBVIOUS
<1>3. /\ Numbers(q) \in Seq(Nat) /\ Len(Numbers(q)) = Len(q)
      /\ \A k \in 1 .. Len(q) : Numbers(q)[k] = q[k].n
  BY NumbersType
<1>4. /\ Numbers(Tail(q)) \in Seq(Nat) /\ Len(Numbers(Tail(q))) = Len(q) - 1
      /\ \A k \in 1 .. Len(q) - 1 : Numbers(Tail(q))[k] = Tail(q)[k].n
  BY <1>1, NumbersType
<1> HIDE DEF Numbers
<1>5. Numbers(q) # <<>>
  BY <1>1, <1>3
<1>6. /\ Tail(Numbers(q)) \in Seq(Nat) /\ Len(Tail(Numbers(q))) = Len(q) - 1
      /\ \A k \in 1 .. Len(q) - 1 : Tail(Numbers(q))[k] = Numbers(q)[k + 1]
  BY <1>3, <1>5
<1>7. \A k \in 1 .. Len(q) - 1 : Numbers(Tail(q))[k] = Tail(Numbers(q))[k]
  BY <1>1, <1>2, <1>3, <1>4, <1>6
<1>8. QED
  BY <1>4, <1>6, <1>7, SeqEqual

Indices(q, a) == {k \in DOMAIN q : q[k].addr = a}

LEMMA CountType ==
  ASSUME NEW q \in Seq(Words), NEW a
  PROVE  IsFiniteSet(Indices(q, a)) /\ CountOf(q, a) \in Nat
<1>1. IsFiniteSet(1 .. Len(q))
  BY FS_Interval
<1>2. Indices(q, a) \in SUBSET (1 .. Len(q))
  BY DEF Indices
<1>3. IsFiniteSet(Indices(q, a))
  BY <1>1, <1>2, FS_Subset
<1>4. QED
  BY <1>3, FS_CardinalityType DEF CountOf, Indices

LEMMA CountEmpty ==
  ASSUME NEW a
  PROVE  CountOf(<<>>, a) = 0
<1>1. {k \in DOMAIN <<>> : (<<>>)[k].addr = a} = {}
  OBVIOUS
<1>2. QED
  BY <1>1, FS_EmptySet, Zenon DEF CountOf

LEMMA CountOne ==
  ASSUME NEW x \in Words, NEW a
  PROVE  CountOf(<<x>>, a) = IF x.addr = a THEN 1 ELSE 0
<1> DEFINE S == {k \in DOMAIN <<x>> : (<<x>>)[k].addr = a}
<1>1. S = IF x.addr = a THEN {1} ELSE {}
  OBVIOUS
<1>2. CountOf(<<x>>, a) = Cardinality(S)
  BY DEF CountOf
<1>3. QED
  BY <1>1, <1>2, FS_EmptySet, FS_Singleton

LEMMA CountConcat ==
  ASSUME NEW p \in Seq(Words), NEW q \in Seq(Words), NEW a
  PROVE  CountOf(p \o q, a) = CountOf(p, a) + CountOf(q, a)
<1> DEFINE P == Indices(p, a)
           Q == Indices(q, a)
           R == {k \in Len(p) + 1 .. Len(p) + Len(q) : (p \o q)[k].addr = a}
           f == [k \in Q |-> k + Len(p)]
<1>1. /\ Len(p) \in Nat /\ Len(q) \in Nat
      /\ DOMAIN (p \o q) = 1 .. Len(p) + Len(q)
      /\ \A k \in 1 .. Len(p) : (p \o q)[k] = p[k]
      /\ \A k \in 1 .. Len(q) : (p \o q)[k + Len(p)] = q[k]
  OBVIOUS
<1>2. IsFiniteSet(P) /\ IsFiniteSet(Q)
  BY CountType
<1>3. f \in Bijection(Q, R)
  <2>1. Q = {k \in 1 .. Len(q) : q[k].addr = a}
    BY <1>1 DEF Indices
  <2>2. ASSUME NEW k \in Q PROVE k + Len(p) \in R
    BY <1>1, <2>1
  <2>3. ASSUME NEW r \in R PROVE \E k \in Q : k + Len(p) = r
    <3>1. r - Len(p) \in 1 .. Len(q) /\ (r - Len(p)) + Len(p) = r
      BY <1>1
    <3>2. q[r - Len(p)] = (p \o q)[r]
      BY <1>1, <3>1
    <3>3. QED
      BY <2>1, <3>1, <3>2
  <2>4. \A j, k \in Q : j + Len(p) = k + Len(p) => j = k
    BY <1>1, <2>1
  <2> HIDE DEF Q, R
  <2>5. f \in [Q -> R]
    BY <2>2
  <2>6. f \in Injection(Q, R)
    BY <2>4, <2>5 DEF Injection, IsInjective
  <2>7. f \in Surjection(Q, R)
    BY <2>3, <2>5 DEF Surjection
  <2>8. QED
    BY <2>6, <2>7 DEF Bijection
<1>4. IsFiniteSet(R) /\ Cardinality(R) = Cardinality(Q)
  <2>1. ExistsBijection(Q, R)
    BY <1>3 DEF ExistsBijection
  <2> HIDE DEF Q, R
  <2>2. QED
    BY <1>2, <1>3, <2>1, FS_Bijection
<1>5. Indices(p \o q, a) = P \cup R /\ P \cap R = {}
  BY <1>1 DEF Indices
<1>6. Cardinality(P \cup R) = Cardinality(P) + Cardinality(R)
  <2> HIDE DEF P, R
  <2>1. Cardinality(P) \in Nat /\ Cardinality(R) \in Nat /\ Cardinality(P \cap R) = 0
    BY <1>2, <1>4, <1>5, FS_CardinalityType, FS_EmptySet
  <2>2. Cardinality(P \cup R) = Cardinality(P) + Cardinality(R) - Cardinality(P \cap R)
    BY <1>2, <1>4, FS_Union
  <2>3. QED
    BY <2>1, <2>2
<1>7. QED
  BY <1>4, <1>5, <1>6 DEF CountOf, Indices

(***************************************************************************)
(* The read callback.  Each one moves a prefix of the outstanding reads,   *)
(* perhaps empty, to the responses, and there is one read less of its      *)
(* address for the simulator to complete.                                  *)
(***************************************************************************)
ReadStates == [out : Seq(Words), ooo : [Addrs -> Nat], resp : Seq(Words)]

\* t is s after some reads have become available, and none is lost.
Advanced(s, t) ==
  /\ t.resp \o t.out = s.resp \o s.out
  /\ Len(t.resp) >= Len(s.resp)

LEMMA InDramNotEmpty ==
  ASSUME NEW s \in ReadStates, NEW a \in Addrs, InDram(s, a) > 0
  PROVE  s.out # <<>>
<1>1. s.ooo[a] \in Nat /\ CountOf(<<>>, a) = 0
  BY CountEmpty DEF ReadStates
<1>2. QED
  BY <1>1 DEF InDram

LEMMA ReleasedMax ==
  ASSUME NEW q \in Seq(Words), NEW counts \in [Addrs -> Nat]
  PROVE  LET k == Max(Released(q, counts))
         IN  /\ k \in 0 .. Len(q)
             /\ \A a \in Addrs : CountOf(SubSeq(q, 1, k), a) <= counts[a]
<1>1. Len(q) \in Nat /\ Released(q, counts) \in SUBSET (0 .. Len(q))
  BY DEF Released
<1>2. 0 \in Released(q, counts)
  <2>1. SubSeq(q, 1, 0) = <<>>
    BY SubSeqEmpty
  <2>2. \A a \in Addrs : CountOf(SubSeq(q, 1, 0), a) <= counts[a]
    <3>1. ASSUME NEW a \in Addrs PROVE CountOf(<<>>, a) <= counts[a]
      <4>1. CountOf(<<>>, a) = 0 /\ counts[a] \in Nat
        BY CountEmpty
      <4>2. QED
        BY <4>1
    <3>2. QED
      BY <2>1, <3>1, Zenon
  <2>3. QED
    BY <1>1, <2>2 DEF Released
<1>3. Max(Released(q, counts)) \in Released(q, counts)
  BY <1>1, <1>2, MaxElement
<1>4. QED
  BY <1>3 DEF Released

LEMMA Prefix ==
  ASSUME NEW q \in Seq(Words), NEW k \in 0 .. Len(q)
  PROVE  /\ SubSeq(q, 1, k) \in Seq(Words)
         /\ SubSeq(q, k + 1, Len(q)) \in Seq(Words)
         /\ q = SubSeq(q, 1, k) \o SubSeq(q, k + 1, Len(q))
<1>1. \A i \in 1 .. Len(q) : q[i] \in Words
  OBVIOUS
<1>2. SubSeq(q, 1, k) \in Seq(Words) /\ SubSeq(q, k + 1, Len(q)) \in Seq(Words)
  BY <1>1, SubSeqProperties
<1>3. SubSeq(q, 1, k) \o SubSeq(q, k + 1, Len(q)) = SubSeq(q, 1, Len(q))
  <2>1. 1 \in 1 .. Len(q) + 1 /\ k \in (1 - 1) .. Len(q) /\ Len(q) \in k .. Len(q)
    OBVIOUS
  <2>2. QED
    BY <2>1, ConcatAdjacentSubSeq
<1>4. QED
  BY <1>2, <1>3, SubSeqFull

LEMMA CallbackStep ==
  ASSUME NEW s \in ReadStates, NEW a \in Addrs, InDram(s, a) > 0
  PROVE  LET t == MemReadCallback(s, a)
         IN  /\ t \in ReadStates /\ Advanced(s, t)
             /\ InDram(t, a) = InDram(s, a) - 1
<1> DEFINE t == MemReadCallback(s, a)
<1>1. s.out \in Seq(Words) /\ s.ooo \in [Addrs -> Nat] /\ s.resp \in Seq(Words)
  BY DEF ReadStates
<1>2. s.out # <<>>
  BY InDramNotEmpty
<1>3. CASE Head(s.out).addr # a
  <2>1. t = [s EXCEPT !.ooo[a] = @ + 1]
    BY <1>3 DEF MemReadCallback
  <2>2. t.out = s.out /\ t.resp = s.resp /\ t.ooo = [s.ooo EXCEPT ![a] = @ + 1]
    <3>1. s = [out |-> s.out, ooo |-> s.ooo, resp |-> s.resp]
      BY DEF ReadStates
    <3> HIDE DEF t
    <3>2. QED
      BY <2>1, <3>1
  <2>3. t \in ReadStates
    <3>1. [s.ooo EXCEPT ![a] = @ + 1] \in [Addrs -> Nat]
      BY <1>1
    <3>2. t = [out |-> s.out, ooo |-> [s.ooo EXCEPT ![a] = @ + 1], resp |-> s.resp]
      <4>1. s = [out |-> s.out, ooo |-> s.ooo, resp |-> s.resp]
        BY DEF ReadStates
      <4> HIDE DEF t
      <4>2. QED
        BY <2>1, <4>1
    <3> HIDE DEF t
    <3>3. QED
      BY <1>1, <3>1, <3>2 DEF ReadStates
  <2>4. Advanced(s, t)
    BY <1>1, <2>2 DEF Advanced
  <2>5. CountOf(s.out, a) \in Nat
    BY <1>1, CountType
  <2>6. InDram(t, a) = InDram(s, a) - 1
    BY <1>1, <2>2, <2>5 DEF InDram
  <2>7. QED
    BY <2>3, <2>4, <2>6
<1>4. CASE Head(s.out).addr = a
  <2>1. PICK rest : rest = Tail(s.out)
    OBVIOUS
  <2>2. PICK k : k = Max(Released(rest, s.ooo))
    OBVIOUS
  <2>3. PICK pre, post : pre = SubSeq(rest, 1, k) /\ post = SubSeq(rest, k + 1, Len(rest))
    OBVIOUS
  <2>4. PICK h : h = Head(s.out)
    OBVIOUS
  <2>5. h \in Words /\ rest \in Seq(Words) /\ s.out = <<h>> \o rest
    BY <1>1, <1>2, <2>1, <2>4, HeadTail
  <2>6. /\ k \in 0 .. Len(rest)
        /\ \A b \in Addrs : CountOf(pre, b) <= s.ooo[b]
    BY <1>1, <2>2, <2>3, <2>5, ReleasedMax
  <2>7. pre \in Seq(Words) /\ post \in Seq(Words) /\ rest = pre \o post
    BY <2>3, <2>5, <2>6, Prefix
  <2>8. t = [out  |-> post,
             ooo  |-> [b \in Addrs |-> s.ooo[b] - CountOf(pre, b)],
             resp |-> s.resp \o <<h>> \o pre]
    BY <1>4, <2>1, <2>2, <2>3, <2>4 DEF MemReadCallback
  <2>9. t \in ReadStates
    <3>1. \A b \in Addrs : s.ooo[b] - CountOf(pre, b) \in Nat
      BY <1>1, <2>6, <2>7, CountType
    <3>2. s.resp \o <<h>> \o pre \in Seq(Words)
      BY <1>1, <2>5, <2>7
    <3>3. QED
      BY <2>7, <2>8, <3>1, <3>2 DEF ReadStates
  <2>10. Advanced(s, t)
    <3>1. <<h>> \in Seq(Words)
      BY <2>5
    <3>2. (s.resp \o <<h>>) \o pre \in Seq(Words) /\ s.resp \o <<h>> \in Seq(Words)
      BY <1>1, <2>7, <3>1
    <3>3. ((s.resp \o <<h>>) \o pre) \o post = s.resp \o (<<h>> \o (pre \o post))
      <4>1. PICK x \in Seq(Words) : x = s.resp \o <<h>>
        BY <3>2
      <4>2. (x \o pre) \o post = x \o (pre \o post)
        BY <2>7, ConcatAssociative, SMTT(20)
      <4>3. PICK r \in Seq(Words), hs \in Seq(Words) : r = s.resp /\ hs = <<h>>
        BY <1>1, <3>1
      <4>4. PICK y \in Seq(Words) : y = pre \o post
        BY <2>5, <2>7
      <4>5. (r \o hs) \o y = r \o (hs \o y)
        OBVIOUS
      <4>6. QED
        BY <4>1, <4>2, <4>3, <4>4, <4>5
    <3>4. Len((s.resp \o <<h>>) \o pre) >= Len(s.resp)
      BY <1>1, <2>7, <3>1, <3>2
    <3>5. t.resp = (s.resp \o <<h>>) \o pre /\ t.out = post
      BY <2>8
    <3> HIDE DEF t
    <3>6. QED
      BY <2>5, <2>7, <3>3, <3>4, <3>5 DEF Advanced
  <2>11. InDram(t, a) = InDram(s, a) - 1
    <3>1. CountOf(s.out, a) = CountOf(<<h>>, a) + CountOf(rest, a)
      <4>1. <<h>> \in Seq(Words)
        BY <2>5
      <4>2. QED
        BY <2>5, <4>1, CountConcat
    <3>2. CountOf(rest, a) = CountOf(pre, a) + CountOf(post, a)
      BY <2>7, CountConcat
    <3>3. CountOf(<<h>>, a) = 1
      BY <1>4, <2>4, <2>5, CountOne
    <3>4. /\ CountOf(pre, a) \in Nat /\ CountOf(post, a) \in Nat /\ CountOf(rest, a) \in Nat
          /\ s.ooo[a] \in Nat
      BY <1>1, <2>5, <2>7, CountType
    <3>5. t.out = post /\ t.ooo[a] = s.ooo[a] - CountOf(pre, a)
      BY <2>8
    <3>6. QED
      BY <3>1, <3>2, <3>3, <3>4, <3>5 DEF InDram
  <2>12. QED
    BY <2>9, <2>10, <2>11
<1>5. QED
  BY <1>3, <1>4

(***************************************************************************)
(* AfterCallbacks is the function that its recursive definition says: it   *)
(* is the union of the functions on 0 .. n that obey the definition, which *)
(* exist, and agree with each other, by induction on n.                    *)
(***************************************************************************)
LEMMA AfterCallbacksDef ==
  ASSUME NEW a
  PROVE  /\ AfterCallbacks(a)[0] = ReadState
         /\ \A n \in Nat : AfterCallbacks(a)[n + 1] = MemReadCallback(AfterCallbacks(a)[n], a)
<1> DEFINE Good(g, n) ==
             g = [i \in 0 .. n |-> IF i = 0 THEN ReadState ELSE MemReadCallback(g[i - 1], a)]
           Bad == {n \in Nat : ~ \E g : Good(g, n)}
<1>1. Bad = {}
  <2>1. SUFFICES ASSUME Bad # {} PROVE FALSE
    OBVIOUS
  <2>2. PICK n \in Bad : \A m \in Bad : n <= m
    <3>1. Bad \in SUBSET Nat
      OBVIOUS
    <3> HIDE DEF Bad
    <3>2. QED
      BY <2>1, <3>1, SmallestElement
  <2>3. n # 0
    <3>1. Good([i \in 0 .. 0 |-> ReadState], 0)
      OBVIOUS
    <3>2. QED
      BY <3>1, <2>2
  <2>4. PICK g : Good(g, n - 1)
    <3>1. n - 1 \in Nat /\ n - 1 < n /\ n \in Nat
      BY <2>2, <2>3
    <3>2. n - 1 \notin Bad
      <4> HIDE DEF Bad
      <4>1. QED
        BY <2>2, <3>1
    <3> HIDE DEF Good
    <3>3. QED
      BY <3>1, <3>2
  <2>5. Good([i \in 0 .. n |-> IF i = n THEN MemReadCallback(g[n - 1], a) ELSE g[i]], n)
    BY <2>3, <2>4
  <2>6. QED
    BY <2>2, <2>5
<1>2. ASSUME NEW n \in Nat, NEW m \in Nat, NEW g, NEW h, Good(g, n), Good(h, m), n <= m
      PROVE  \A i \in 0 .. n : g[i] = h[i]
  <2> DEFINE Diff == {i \in 0 .. n : g[i] # h[i]}
  <2>1. SUFFICES ASSUME Diff # {} PROVE FALSE
    OBVIOUS
  <2>2. PICK i \in Diff : \A j \in Diff : i <= j
    <3>1. Diff \in SUBSET Nat
      OBVIOUS
    <3> HIDE DEF Diff
    <3>2. QED
      BY <2>1, <3>1, SmallestElement
  <2>3. i # 0
    BY <1>2, <2>2
  <2>4. g[i - 1] = h[i - 1]
    BY <2>2, <2>3
  <2>5. QED
    BY <1>2, <2>2, <2>3, <2>4
<1> DEFINE G(n) == CHOOSE g : Good(g, n)
           F == [n \in Nat |-> G(n)[n]]
<1>3. \A n \in Nat : Good(G(n), n)
  BY <1>1
<1>4. ASSUME NEW n \in Nat, n # 0 PROVE F[n] = MemReadCallback(F[n - 1], a)
  <2>1. Good(G(n), n) /\ Good(G(n - 1), n - 1)
    <3>1. n - 1 \in Nat
      BY <1>4
    <3> HIDE DEF Good, G
    <3>2. QED
      BY <1>3, <3>1
  <2> HIDE DEF G
  <2>2. G(n)[n] = MemReadCallback(G(n)[n - 1], a)
    BY <1>4, <2>1
  <2>3. G(n - 1)[n - 1] = G(n)[n - 1]
    <3>1. n - 1 \in Nat /\ n - 1 <= n /\ n - 1 \in 0 .. n - 1
      BY <1>4
    <3> HIDE DEF Good
    <3>2. QED
      BY <1>2, <2>1, <3>1
  <2>4. QED
    BY <1>4, <2>2, <2>3
<1>5. F[0] = ReadState
  <2>1. Good(G(0), 0)
    BY <1>3
  <2> HIDE DEF G
  <2>2. QED
    BY <2>1
<1>6. F = [n \in Nat |-> IF n = 0 THEN ReadState ELSE MemReadCallback(F[n - 1], a)]
  <2>1. ASSUME NEW n \in Nat
        PROVE  F[n] = IF n = 0 THEN ReadState ELSE MemReadCallback(F[n - 1], a)
    <3> HIDE DEF F
    <3>1. QED
      BY <1>4, <1>5, Zenon
  <2>2. DOMAIN F = Nat
    OBVIOUS
  <2>3. F = [n \in Nat |-> F[n]]
    OBVIOUS
  <2> HIDE DEF F
  <2>4. QED
    BY <2>1, <2>3
<1>7. AfterCallbacks(a)
        = [n \in Nat |-> IF n = 0 THEN ReadState
                         ELSE MemReadCallback(AfterCallbacks(a)[n - 1], a)]
  <2> HIDE DEF F
  <2>1. QED
    BY <1>6, Zenon DEF AfterCallbacks
<1>8. QED
  BY <1>7

LEMMA CallbacksKeepOrder ==
  ASSUME ReadState \in ReadStates, NEW a \in Addrs
  PROVE  \A n \in 0 .. InDram(ReadState, a) :
           /\ AfterCallbacks(a)[n] \in ReadStates
           /\ Advanced(ReadState, AfterCallbacks(a)[n])
           /\ InDram(AfterCallbacks(a)[n], a) = InDram(ReadState, a) - n
<1> DEFINE s(n) == AfterCallbacks(a)[n]
           Good(n) == /\ s(n) \in ReadStates /\ Advanced(ReadState, s(n))
                      /\ InDram(s(n), a) = InDram(ReadState, a) - n
           Bad == {n \in 0 .. InDram(ReadState, a) : ~Good(n)}
<1>1. InDram(ReadState, a) \in Int
  <2>1. ReadState.out \in Seq(Words) /\ ReadState.ooo \in [Addrs -> Nat]
    BY DEF ReadStates
  <2>2. QED
    BY <2>1, CountType DEF InDram
<1>2. SUFFICES ASSUME Bad # {} PROVE FALSE
  OBVIOUS
<1>3. PICK n \in Bad : \A m \in Bad : n <= m
  <2>1. Bad \in SUBSET Nat
    BY <1>1
  <2> HIDE DEF Bad
  <2>2. QED
    BY <1>2, <2>1, SmallestElement
<1>4. n # 0
  <2>1. Advanced(ReadState, ReadState) /\ s(0) = ReadState
    BY AfterCallbacksDef DEF Advanced, ReadStates
  <2>2. QED
    BY <1>1, <1>3, <2>1
<1>5. PICK m \in 0 .. InDram(ReadState, a) : n = m + 1 /\ m \notin Bad
  BY <1>1, <1>3, <1>4
<1>6. PICK x, y : x = s(m) /\ y = s(n)
  OBVIOUS
<1>7. /\ x \in ReadStates /\ Advanced(ReadState, x)
      /\ InDram(x, a) = InDram(ReadState, a) - m
  BY <1>5, <1>6
<1>8. y = MemReadCallback(x, a)
  BY <1>5, <1>6, AfterCallbacksDef
<1>9. /\ y \in ReadStates /\ Advanced(x, y)
      /\ InDram(y, a) = InDram(x, a) - 1
  <2>1. InDram(x, a) > 0
    BY <1>1, <1>3, <1>5, <1>7
  <2>2. QED
    BY <1>7, <1>8, <2>1, CallbackStep, SMTT(20)
<1>10. Advanced(ReadState, y)
  BY <1>7, <1>9 DEF Advanced, ReadStates
<1>11. QED
  BY <1>1, <1>3, <1>5, <1>6, <1>7, <1>9, <1>10

LEMMA ReadsDoneKeepOrder ==
  ASSUME ReadState \in ReadStates, NEW s \in ReadsDone
  PROVE  s \in ReadStates /\ Advanced(ReadState, s)
<1>1. CASE \E a \in Addrs : \E n \in 0 .. InDram(ReadState, a) : s = AfterCallbacks(a)[n]
  BY <1>1, CallbacksKeepOrder
<1>2. CASE \E a, b \in Addrs : \E n \in 0 .. InDram(ReadState, b) :
             /\ InDram(AfterCallbacks(b)[n], a) > 0
             /\ s = MemReadCallback(AfterCallbacks(b)[n], a)
  <2>1. PICK a \in Addrs, b \in Addrs : \E n \in 0 .. InDram(ReadState, b) :
             /\ InDram(AfterCallbacks(b)[n], a) > 0
             /\ s = MemReadCallback(AfterCallbacks(b)[n], a)
    BY <1>2
  <2>2. PICK t : /\ t \in ReadStates /\ Advanced(ReadState, t)
                 /\ InDram(t, a) > 0 /\ s = MemReadCallback(t, a)
    BY <2>1, CallbacksKeepOrder
  <2>3. s \in ReadStates /\ Advanced(t, s)
    BY <2>2, CallbackStep
  <2>4. QED
    BY <2>2, <2>3 DEF Advanced, ReadStates
<1>3. QED
  BY <1>1, <1>2 DEF ReadsDone

(***************************************************************************)
(* What arrives from the NoC.                                              *)
(***************************************************************************)
ArrivalTypes ==
  /\ packet \in Packets \cup {None}
  /\ numW \in Nat /\ numR \in Nat /\ data \in Nat

\* p is the packet OutputInterface has before it gives one to a port: the one it
\* held or a new one.
Comes(p) ==
  \/ p = packet /\ UNCHANGED <<numW, data>>
  \/ packet = None /\ p # None /\ p.type = "ar" /\ UNCHANGED <<numW, data>>
  \/ /\ packet = None /\ p # None /\ p.type = "aw"
     /\ \A k \in 1 .. Len(p.req) : p.req[k].n = numW + k
     /\ numW' = numW + Len(p.req) /\ UNCHANGED data
  \/ /\ packet = None /\ p # None /\ p.type = "w" /\ p.req = data + 1
     /\ data' = data + 1 /\ UNCHANGED numW

(***************************************************************************)
(* Reads: what is taken and not answered is in the three queues, in order. *)
(***************************************************************************)
ReadTypes ==
  /\ ArrivalTypes
  /\ ar \in Seq(Words) \cup {None}
  /\ ReadState \in ReadStates /\ arQ \in Seq(Words)
  /\ rvalid \in BOOLEAN /\ rready \in BOOLEAN

ReadInv ==
  /\ ReadTypes
  /\ unanswered = Numbers((rResp \o outR) \o arQ)
  /\ rvalid => rResp # <<>> /\ ruser = Head(rResp)

(***************************************************************************)
(* Writes.  The order of the two threads within an edge.                   *)
(***************************************************************************)
Second == IF MemFirst THEN "Tick" ELSE "MemTick"

PhaseInv ==
  /\ settled \in BOOLEAN
  /\ pending \in {{}, {"Tick", "MemTick"}, {Second}}
  /\ settled => pending = {}

WriteTypes ==
  /\ ArrivalTypes
  /\ aw \in Seq(WriteWords) \cup {None} /\ w \in Nat \cup {None}
  /\ awQ \in Seq(WriteWords) /\ outW \in Seq(WriteWords)
  /\ wQ \in Seq(Nat) /\ bResp \in Seq(Nat)
  /\ DOMAIN occ = {"aw", "w", "ar", "outW", "outR", "b", "r"}
  /\ \A f \in {"aw", "w", "outW", "b"} : occ[f] \in Nat
  /\ readFirst \in BOOLEAN
  /\ bvalid => bResp # <<>>

\* The words of the request on the port, if there is one, and of the data.
AwLen == IF aw = None THEN 0 ELSE Len(aw)
WLen  == IF w = None THEN 0 ELSE 1

\* The words of a request that waits for its port, and of data.
AwIn(p) == IF p # None /\ p.type = "aw" THEN Len(p.req) ELSE 0
WIn(p)  == IF p # None /\ p.type = "w" THEN 1 ELSE 0

\* The words before the first that waits in the address queue.
Base == numW - AwIn(packet) - AwLen - Len(awQ)

\* The addresses that wait, those on the port and those still in the adapter are
\* consecutive, and the data is; no data is taken before its address.
NumberInv ==
  /\ \A k \in 1 .. Len(awQ) : awQ[k].n = Base + k
  /\ aw # None => \A k \in 1 .. Len(aw) : aw[k].n = Base + Len(awQ) + k
  /\ AwIn(packet) # 0 =>
       \A k \in 1 .. Len(packet.req) : packet.req[k].n = Base + Len(awQ) + AwLen + k
  /\ \A k \in 1 .. Len(wQ) : wQ[k] = Base + k
  /\ w # None => w = Base + Len(wQ) + 1
  /\ WIn(packet) # 0 => packet.req = data
  /\ data = Base + Len(wQ) + WLen + WIn(packet)
  /\ Len(wQ) + WLen <= Len(awQ)
  /\ aw # None => w = None /\ Len(aw) <= Margin
  /\ packet # None => aw = None /\ w = None

\* Tick has not run since the ready ports were computed.
PortsCurrent == settled \/ "Tick" \in pending

\* The signals Tick and Assign test are not below the queues, and what is on the
\* port has room for what Tick has taken since the ready ports were computed.
OccInv ==
  /\ Len(awQ) <= occ.aw /\ Len(wQ) <= occ.w
  /\ PortsCurrent => /\ ready.aw => occ.aw < QueueSize - Margin
                     /\ ready.w => occ.w < QueueSize - Margin
  /\ aw # None => occ.aw < QueueSize
  /\ w # None => occ.w < QueueSize /\ occ.aw > 0

\* The writes that still need a place among the responses.
Debt == Len(outW) + Len(bResp)

\* How much later in the edge than between two edges it is, for that purpose.
Late ==
  IF MemFirst THEN (IF pending = {"Tick"} THEN 1 ELSE 0)
              ELSE (IF pending = {"MemTick"} THEN -1 ELSE 0)

\* The signals for them lag behind by one write, and the counter of outstanding
\* writes is not even written at every edge; MemTick adds at most one per edge.
DebtInv ==
  /\ Len(outW) <= occ.outW + (IF readFirst THEN 1 ELSE 0)
  /\ Debt <= occ.outW + occ.b + 1
  /\ PortsCurrent /\ ready.w =>
       Debt <= QueueSize - Margin + (IF ~settled /\ "MemTick" \notin pending THEN 1 ELSE 0)
  /\ w # None =>
       Debt <= QueueSize - Margin + 1 + Late

WriteInv == ~undefined /\ PhaseInv /\ WriteTypes /\ NumberInv /\ OccInv /\ DebtInv

\* A request that is not orderly ends all that.
OrderlyInv == orderly => WriteInv

\* The margin that writes need, if the kernel runs MemTick first: the ready port
\* may be two writes old when Tick tests the limit.  (It is 16.)
MarginSuffices == Margin >= IF MemFirst THEN 3 ELSE 2

(***************************************************************************)
(* Reads.                                                                  *)
(***************************************************************************)
LEMMA NoneApart ==
  None \notin Nat /\ None \notin Seq(WriteWords) /\ None \notin Seq(Words)
    /\ None \notin Packets
BY MemAssumption

LEMMA WriteBurstsType ==
  ASSUME NEW num \in Nat, NEW burst \in WriteBursts(num)
  PROVE  burst \in Seq(WriteWords) /\ \A k \in 1 .. Len(burst) : burst[k].n = num + k
<1>1. PICK len \in 1 .. MaxBurst :
        burst = [k \in 1 .. len |-> [n |-> num + k, last |-> k = len]]
  BY DEF WriteBursts
<1>2. MaxBurst \in Nat
  BY MemAssumption
<1>3. \A k \in 1 .. len : [n |-> num + k, last |-> k = len] \in WriteWords
  BY <1>2 DEF WriteWords
<1>4. burst \in [1 .. len -> WriteWords] /\ len \in Nat /\ Len(burst) = len
  <2>1. len \in Nat
    BY <1>2
  <2>2. burst \in [1 .. len -> WriteWords]
    BY <1>1, <1>3, Zenon
  <2>3. QED
    BY <2>1, <2>2
<1>5. \A k \in 1 .. len : burst[k].n = num + k
  BY <1>1
<1>6. QED
  BY <1>4, <1>5

LEMMA ReadBurstsType ==
  ASSUME NEW num \in Nat, NEW burst \in ReadBursts(num)
  PROVE  burst \in Seq(Words)
<1>1. PICK len \in 1 .. MaxBurst : \E addrs \in [1 .. len -> Addrs] :
        burst = [k \in 1 .. len |-> [n |-> num + k, addr |-> addrs[k], last |-> k = len]]
  <2>1. \A len \in 1 .. MaxBurst : Injection(1 .. len, Addrs) \subseteq [1 .. len -> Addrs]
    BY DEF Injection
  <2>2. QED
    BY <2>1, SMTT(20) DEF ReadBursts
<1>1a. PICK addrs \in [1 .. len -> Addrs] :
         burst = [k \in 1 .. len |-> [n |-> num + k, addr |-> addrs[k], last |-> k = len]]
  BY <1>1
<1>2. MaxBurst \in Nat
  BY MemAssumption
<1>3. \A k \in 1 .. len : [n |-> num + k, addr |-> addrs[k], last |-> k = len] \in Words
  BY <1>2 DEF Words
<1>4. QED
  BY <1>1a, <1>2, <1>3

LEMMA PacketRequest ==
  ASSUME NEW p \in Packets
  PROVE  /\ p.type \in {"aw", "w", "ar"}
         /\ p.type = "aw" => p.req \in Seq(WriteWords)
         /\ p.type = "w" => p.req \in Nat
         /\ p.type = "ar" => p.req \in Seq(Words)
BY DEF Packets

LEMMA Arrival ==
  ASSUME ArrivalTypes, OutputInterface
  PROVE  ArrivalTypes' /\ \E p \in Packets \cup {None} : Comes(p) /\ Give(p)
<1>1. SUFFICES ASSUME NEW p \in Packets \cup {None}, Comes(p), Give(p),
                      numW' \in Nat, numR' \in Nat, data' \in Nat
               PROVE  ArrivalTypes' /\ \E q \in Packets \cup {None} : Comes(q) /\ Give(q)
  <2>1. CASE packet # None
    <3>1. Comes(packet) /\ Give(packet) /\ packet \in Packets \cup {None}
          /\ numW' \in Nat /\ numR' \in Nat /\ data' \in Nat
      BY <2>1 DEF OutputInterface, Comes, ArrivalTypes
    <3>2. QED
      BY <1>1, <3>1
  <2>2. CASE packet = None
    <3>1. CASE Give(None) /\ UNCHANGED <<numW, numR, data>>
      <4>1. Comes(None) /\ numW' \in Nat /\ numR' \in Nat /\ data' \in Nat
        BY <2>2, <3>1 DEF Comes, ArrivalTypes
      <4>2. QED
        BY <1>1, <3>1, <4>1
    <3>2. ASSUME NEW burst \in WriteBursts(numW), Give([type |-> "aw", req |-> burst]),
                 numW' = numW + Len(burst), UNCHANGED <<numR, data>>
          PROVE  ArrivalTypes' /\ \E q \in Packets \cup {None} : Comes(q) /\ Give(q)
      <4>1. /\ burst \in Seq(WriteWords) /\ Len(burst) \in Nat
            /\ \A k \in 1 .. Len(burst) : burst[k].n = numW + k
        BY WriteBurstsType DEF ArrivalTypes
      <4>2. PICK q \in Packets : q = [type |-> "aw", req |-> burst]
        BY <4>1 DEF Packets
      <4>3. q # None /\ q.type = "aw" /\ q.req = burst
        BY <4>2, NoneApart
      <4>4. Comes(q) /\ numW' \in Nat /\ numR' \in Nat /\ data' \in Nat
        BY <2>2, <3>2, <4>1, <4>3 DEF Comes, ArrivalTypes
      <4>5. QED
        BY <1>1, <3>2, <4>2, <4>4
    <3>3. ASSUME Give([type |-> "w", req |-> data + 1]), data' = data + 1,
                 UNCHANGED <<numW, numR>>
          PROVE  ArrivalTypes' /\ \E q \in Packets \cup {None} : Comes(q) /\ Give(q)
      <4>1. data + 1 \in Nat
        BY DEF ArrivalTypes
      <4>2. PICK q \in Packets : q = [type |-> "w", req |-> data + 1]
        BY <4>1 DEF Packets
      <4>3. q # None /\ q.type = "w" /\ q.req = data + 1
        BY <4>2, NoneApart
      <4>4. Comes(q) /\ numW' \in Nat /\ numR' \in Nat /\ data' \in Nat
        BY <2>2, <3>3, <4>1, <4>3 DEF Comes, ArrivalTypes
      <4>5. QED
        BY <1>1, <3>3, <4>2, <4>4
    <3>4. ASSUME NEW burst \in ReadBursts(numR), Give([type |-> "ar", req |-> burst]),
                 numR' = numR + Len(burst), UNCHANGED <<numW, data>>
          PROVE  ArrivalTypes' /\ \E q \in Packets \cup {None} : Comes(q) /\ Give(q)
      <4>1. burst \in Seq(Words) /\ Len(burst) \in Nat
        BY ReadBurstsType DEF ArrivalTypes
      <4>2. PICK q \in Packets : q = [type |-> "ar", req |-> burst]
        BY <4>1 DEF Packets
      <4>3. q # None /\ q.type = "ar"
        BY <4>2, NoneApart
      <4>4. Comes(q) /\ numW' \in Nat /\ numR' \in Nat /\ data' \in Nat
        BY <2>2, <3>4, <4>1, <4>3 DEF Comes, ArrivalTypes
      <4>5. QED
        BY <1>1, <3>4, <4>2, <4>4
    <3>5. QED
      BY <2>2, <3>1, <3>2, <3>3, <3>4 DEF OutputInterface, FromFifo
  <2>3. QED
    BY <2>1, <2>2
<1>2. packet' \in Packets \cup {None}
  BY <1>1 DEF Give
<1>3. QED
  BY <1>1, <1>2 DEF ArrivalTypes

LEMMA ReadInit == Init => ReadInv
<1> SUFFICES ASSUME Init PROVE ReadInv
  OBVIOUS
<1>1. ReadTypes
  <2>1. <<>> \in Seq(Words) /\ [a \in Addrs |-> 0] \in [Addrs -> Nat]
    OBVIOUS
  <2>2. QED
    BY <2>1 DEF Init, ReadTypes, ArrivalTypes, ReadState, ReadStates
<1>2. (<<>> \o <<>>) \o <<>> = <<>> /\ Numbers(<<>>) = <<>>
  BY DEF Numbers
<1>3. QED
  BY <1>1, <1>2 DEF Init, ReadInv

\* Words join the queue: those of the read request if there is room for all.
LEMMA ReadTick == ReadInv /\ Tick => ReadInv'
<1> SUFFICES ASSUME ReadInv, Tick PROVE ReadInv'
  OBVIOUS
<1>1. /\ rResp \in Seq(Words) /\ outR \in Seq(Words) /\ arQ \in Seq(Words)
      /\ ar \in Seq(Words) \cup {None}
      /\ ooo \in [Addrs -> Nat] /\ rvalid \in BOOLEAN /\ rready \in BOOLEAN
  BY DEF ReadInv, ReadTypes, ReadState, ReadStates
<1>2. PICK x \in Seq(Words) : x = IF ar # None /\ ArFits THEN ar ELSE <<>>
  <2>1. (IF ar # None /\ ArFits THEN ar ELSE <<>>) \in Seq(Words)
    BY <1>1
  <2>2. QED
    BY <2>1
<1>3. arQ' = arQ \o x
  BY <1>1, <1>2 DEF Tick, TakeRequests
<1>4. [k \in 1 .. Len(arQ') - Len(arQ) |-> ar[k].n] = Numbers(x)
  <2>1. Len(arQ') - Len(arQ) = Len(x)
    BY <1>1, <1>3
  <2>2. CASE ar # None /\ ArFits
    BY <1>1, <1>2, <2>1, <2>2 DEF Numbers
  <2>3. CASE ~(ar # None /\ ArFits)
    <3>1. x = <<>> /\ Len(x) = 0
      BY <1>2, <2>3
    <3>2. [k \in 1 .. 0 |-> ar[k].n] = Numbers(<<>>)
      BY DEF Numbers
    <3>3. QED
      BY <2>1, <3>1, <3>2
  <2>4. QED
    BY <2>2, <2>3
<1>5. PICK y \in Seq(Words) : y = rResp'
  <2>1. Tail(rResp) \in Seq(Words) \/ rResp = <<>>
    BY <1>1
  <2>2. rvalid => rResp # <<>>
    BY DEF ReadInv
  <2>3. rResp' \in Seq(Words)
    BY <1>1, <2>1, <2>2 DEF Tick, PresentResponses, Popped
  <2>4. QED
    BY <2>3
<1>6. (IF rvalid /\ rready THEN Tail(unanswered) ELSE unanswered) = Numbers((y \o outR) \o arQ)
  <2>1. CASE rvalid /\ rready
    <3>1. rResp # <<>> /\ y = Tail(rResp)
      BY <1>5, <2>1 DEF Tick, PresentResponses, Popped, ReadInv
    <3>2. PICK r \in Seq(Words) : r = (rResp \o outR) \o arQ
      BY <1>1, ConcatType
    <3>3. r # <<>> /\ Tail(r) = (y \o outR) \o arQ
      <4>1. Len(r) # 0
        BY <1>1, <3>1, <3>2
      <4>2. Tail(rResp \o outR) = Tail(rResp) \o outR
        BY <1>1, <3>1
      <4>3. rResp \o outR # <<>> /\ rResp \o outR \in Seq(Words)
        BY <1>1, <3>1
      <4>4. Tail((rResp \o outR) \o arQ) = Tail(rResp \o outR) \o arQ
        <5>1. PICK ro \in Seq(Words) : ro = rResp \o outR
          BY <4>3
        <5>2. ro # <<>> => Tail(ro \o arQ) = Tail(ro) \o arQ
          BY <1>1
        <5>3. QED
          BY <4>3, <5>1, <5>2
      <4>5. QED
        BY <3>1, <3>2, <4>1, <4>2, <4>4
    <3>4. Numbers(Tail(r)) = Tail(Numbers(r))
      BY <3>3, NumbersTail
    <3>5. QED
      BY <2>1, <3>2, <3>3, <3>4 DEF ReadInv
  <2>2. CASE ~(rvalid /\ rready)
    BY <1>5, <2>2 DEF Tick, PresentResponses, Popped, ReadInv
  <2>3. QED
    BY <2>1, <2>2
<1>7. PICK q \in Seq(Words) : q = (y \o outR) \o arQ
  BY <1>1, ConcatType
<1>8. unanswered' = Numbers(q) \o Numbers(x)
  BY <1>4, <1>6, <1>7 DEF Tick
<1>9. unanswered' = Numbers(q \o x)
  BY <1>8, NumbersConcat
<1>10. q \o x = (y \o outR) \o (arQ \o x)
  <2>1. PICK yo \in Seq(Words) : yo = y \o outR
    BY <1>1, ConcatType
  <2>2. (yo \o arQ) \o x = yo \o (arQ \o x)
    <3>1. arQ \in Seq(Words)
      BY <1>1
    <3>2. QED
      BY <3>1, ConcatAssociative, SMTT(20)
  <2>3. QED
    BY <1>7, <2>1, <2>2
<1>11. unanswered' = Numbers((y \o outR) \o (arQ \o x))
  BY <1>9, <1>10
<1>12. (unanswered = Numbers((rResp \o outR) \o arQ))'
  BY <1>3, <1>5, <1>11 DEF Tick, Numbers
<1>13. (rvalid => rResp # <<>> /\ ruser = Head(rResp))'
  BY DEF Tick, PresentResponses
<1>14. ReadTypes'
  <2>1. ArrivalTypes' /\ ar' \in Seq(Words) \cup {None}
    <3>1. ArrivalTypes /\ OutputInterface
      BY DEF ReadInv, ReadTypes, Tick
    <3>2. PICK p \in Packets \cup {None} : Give(p)
      BY <3>1, Arrival
    <3>3. ar' \in Seq(Words) \cup {None}
      BY <3>2, PacketRequest DEF Give, OnPort
    <3>4. QED
      BY <3>1, <3>3, Arrival
  <2>2. arQ' \in Seq(Words) /\ rvalid' \in BOOLEAN /\ rready' \in BOOLEAN
    BY <1>1, <1>3 DEF Tick, PresentResponses
  <2>3. ReadState' \in ReadStates
    BY <1>1, <1>5 DEF Tick, ReadState, ReadStates
  <2>4. QED
    BY <2>1, <2>2, <2>3 DEF ReadTypes, ReadStates
<1>15. QED
  BY <1>12, <1>13, <1>14 DEF ReadInv

\* The callbacks and the new request move words along the three queues.
LEMMA ReadMemTick == ReadInv /\ MemTick => ReadInv'
<1> SUFFICES ASSUME ReadInv, MemTick PROVE ReadInv'
  OBVIOUS
<1>1. /\ rResp \in Seq(Words) /\ outR \in Seq(Words) /\ arQ \in Seq(Words)
      /\ rvalid \in BOOLEAN /\ rready \in BOOLEAN /\ ReadState \in ReadStates
  BY DEF ReadInv, ReadTypes, ReadState, ReadStates
<1>2. PICK reads \in ReadsDone, done \in {0, 1}, accepted \in BOOLEAN :
        /\ Issue(reads, SubSeq(outW, done + 1, Len(outW)), accepted)
        /\ ooo' = reads.ooo /\ rResp' = reads.resp
  BY DEF MemTick
<1>3. reads \in ReadStates /\ Advanced(ReadState, reads)
  BY <1>1, ReadsDoneKeepOrder
<1>4. PICK resp \in Seq(Words), out \in Seq(Words) : resp = reads.resp /\ out = reads.out
  BY <1>3 DEF ReadStates
<1>5. resp \o out = rResp \o outR /\ Len(resp) >= Len(rResp)
  BY <1>3, <1>4 DEF Advanced, ReadState
<1>6. /\ arQ' \in Seq(Words) /\ outR' \in Seq(Words)
      /\ (resp \o outR') \o arQ' = (rResp \o outR) \o arQ
  <2>1. CASE accepted /\ Kind = "read"
    <3>1. arQ # <<>>
      BY <2>1 DEF Kind
    <3>2. arQ' = Tail(arQ) /\ outR' = Append(out, Head(arQ))
      BY <1>2, <1>4, <2>1 DEF Issue
    <3>3. PICK x \in Words, rest \in Seq(Words) : x = Head(arQ) /\ rest = Tail(arQ)
      BY <1>1, <3>1, HeadTail
    <3>4. arQ = <<x>> \o rest
      BY <1>1, <3>1, <3>3, HeadTail
    <3>5. Append(out, x) = out \o <<x>> /\ <<x>> \in Seq(Words) /\ Append(out, x) \in Seq(Words)
      OBVIOUS
    <3>6. PICK one \in Seq(Words) : one = <<x>>
      BY <3>5
    <3>7. (resp \o (out \o one)) \o rest = (resp \o out) \o (one \o rest)
      <4>1. PICK ro \in Seq(Words) : ro = resp \o out
        BY ConcatType
      <4>2. resp \o (out \o one) = (resp \o out) \o one
        OBVIOUS
      <4>3. (ro \o one) \o rest = ro \o (one \o rest)
        OBVIOUS
      <4>4. QED
        BY <4>1, <4>2, <4>3
    <3>8. (resp \o outR') \o arQ' = (resp \o out) \o arQ
      BY <3>2, <3>3, <3>4, <3>5, <3>6, <3>7
    <3>9. QED
      BY <1>5, <3>2, <3>3, <3>5, <3>8
  <2>2. CASE ~(accepted /\ Kind = "read")
    <3>1. arQ' = arQ /\ outR' = out
      BY <1>2, <1>4, <2>2 DEF Issue
    <3>2. QED
      BY <1>1, <1>5, <3>1
  <2>3. QED
    BY <2>1, <2>2
<1>7. unanswered' = Numbers((rResp' \o outR') \o arQ')
  BY <1>2, <1>4, <1>6 DEF MemTick, answers, ReadInv
<1>8. (unanswered = Numbers((rResp \o outR) \o arQ))'
  BY <1>7 DEF Numbers
<1>9. (rvalid => rResp # <<>> /\ ruser = Head(rResp))'
  <2>1. CASE rvalid
    <3>1. rResp # <<>> /\ ruser = Head(rResp) /\ Len(rResp) >= 1
      BY <1>1, <2>1 DEF ReadInv
    <3>2. (rResp \o outR)[1] = rResp[1] /\ (resp \o out)[1] = resp[1] /\ Len(resp) >= 1
      BY <1>1, <1>5, <3>1
    <3>3. Head(resp) = Head(rResp) /\ resp # <<>>
      BY <1>1, <1>5, <3>1, <3>2
    <3>4. QED
      BY <1>2, <1>4, <3>1, <3>3 DEF MemTick, responses
  <2>2. CASE ~rvalid
    BY <2>2 DEF MemTick, responses
  <2>3. QED
    BY <2>1, <2>2
<1>10. ReadTypes'
  <2>1. ReadState' \in ReadStates
    BY <1>2, <1>3, <1>4, <1>6 DEF ReadState, ReadStates
  <2>2. UNCHANGED <<packet, numW, numR, data, ar, rvalid, rready>>
    BY DEF MemTick, requests, responses
  <2>3. QED
    BY <1>6, <2>1, <2>2 DEF ReadInv, ReadTypes, ArrivalTypes, ReadStates
<1>11. QED
  BY <1>8, <1>9, <1>10 DEF ReadInv

LEMMA ReadNext == ReadInv /\ [Next]_vars => ReadInv'
<1> SUFFICES ASSUME ReadInv, [Next]_vars PROVE ReadInv'
  OBVIOUS
<1>1. CASE Tick
  BY <1>1, ReadTick
<1>2. CASE MemTick
  BY <1>2, ReadMemTick
<1>3. ASSUME UNCHANGED <<packet, numW, numR, data, ar, rResp, outR, arQ, ooo, rvalid, ruser, unanswered>>,
             rready' \in BOOLEAN
      PROVE  ReadInv'
  <2>1. ReadState' = ReadState
    BY <1>3 DEF ReadState
  <2>2. ReadTypes'
    BY <1>3, <2>1 DEF ReadInv, ReadTypes, ArrivalTypes, ReadStates
  <2>3. QED
    BY <1>3, <2>2 DEF ReadInv, Numbers
<1>4. CASE ClockEdge \/ ReadEmptyFront \/ UNCHANGED vars
  BY <1>3, <1>4 DEF ClockEdge, ReadEmptyFront, vars, requests, queues, responses, answers,
                    ReadInv, ReadTypes
<1>5. CASE Settle
  <2>1. rready' \in BOOLEAN
    BY <1>5 DEF Settle, InputReady
  <2>2. QED
    BY <1>3, <1>5, <2>1 DEF Settle, requests, queues, answers
<1>6. QED
  BY <1>1, <1>2, <1>4, <1>5 DEF Next

\* Reads are answered in the order of their requests, and none is lost or answered
\* twice, in whatever order the simulator completes them, merged or not: the map
\* of reads completed out of order never holds back or lets go the wrong one.
THEOREM ReadsAreInOrder == Spec => []ReadsInOrder
<1>1. ReadInv => ReadsInOrder
  BY DEF ReadInv, ReadsInOrder, Numbers
<1>2. QED
  BY <1>1, ReadInit, ReadNext, PTL DEF Spec

(***************************************************************************)
(* Writes.                                                                 *)
(***************************************************************************)
LEMMA Sizes ==
  /\ QueueSize \in Nat /\ Margin \in Nat /\ MemFirst \in BOOLEAN
  /\ Margin < QueueSize
BY MemAssumption

\* Tick tests the occupancies that the request was put on the port for, grown by no
\* more than the margin.
LEMMA RequestsFit ==
  ASSUME MarginSuffices, WriteInv, TickNext
  PROVE  (aw # None => AwFits) /\ (w # None => WFits)
<1>1. aw # None => AwFits
  BY DEF WriteInv, OccInv, AwFits
<1>2. ASSUME w # None PROVE WFits
  <2>1. occ.w < QueueSize /\ occ.aw > 0
    BY <1>2 DEF WriteInv, OccInv
  <2>2. Debt \in Nat
    BY DEF Debt, WriteInv, WriteTypes
  <2>3. Debt < QueueSize
    <3>1. CASE MemFirst
      <4>1. Debt <= QueueSize - Margin + 1 + (IF pending = {"Tick"} THEN 1 ELSE 0)
        BY <1>2, <3>1 DEF WriteInv, DebtInv, Late
      <4>2. QED
        BY <2>2, <3>1, <4>1, Sizes DEF MarginSuffices
    <3>2. CASE ~MemFirst
      <4>1. Debt <= QueueSize - Margin + 1 + (IF pending = {"MemTick"} THEN -1 ELSE 0)
        BY <1>2, <3>2 DEF WriteInv, DebtInv, Late
      <4>2. QED
        BY <2>2, <3>2, <4>1, Sizes DEF MarginSuffices
    <3>3. QED
      BY <3>1, <3>2
  <2>4. QED
    BY <2>1, <2>3 DEF WFits, Debt
<1>3. QED
  BY <1>1, <1>2

LEMMA WriteInit == Init => WriteInv
<1> SUFFICES ASSUME Init PROVE WriteInv
  OBVIOUS
<1>1. PhaseInv
  BY DEF Init, PhaseInv
<1>2. WriteTypes
  <2>1. <<>> \in Seq(WriteWords) /\ <<>> \in Seq(Nat)
    OBVIOUS
  <2>2. /\ DOMAIN occ = {"aw", "w", "ar", "outW", "outR", "b", "r"}
        /\ \A f \in {"aw", "w", "outW", "b"} : occ[f] \in Nat
    <3>1. occ = [aw |-> 0, w |-> 0, ar |-> 0, outW |-> 0, outR |-> 0, b |-> 0, r |-> 0]
      BY DEF Init
    <3>2. DOMAIN occ = {"aw", "w", "ar", "outW", "outR", "b", "r"}
      BY <3>1
    <3>3. occ.aw = 0 /\ occ.w = 0 /\ occ.outW = 0 /\ occ.b = 0
      BY <3>1
    <3>4. QED
      BY <3>2, <3>3
  <2>3. QED
    BY <2>1, <2>2 DEF Init, WriteTypes, ArrivalTypes
<1>3. NumberInv
  BY DEF Init, NumberInv, Base, AwLen, WLen, AwIn, WIn
<1>4. OccInv
  BY Sizes DEF Init, OccInv
<1>5. DebtInv
  BY DEF Init, DebtInv, Debt
<1>6. QED
  BY <1>1, <1>2, <1>3, <1>4, <1>5 DEF Init, WriteInv

\* MemTick removes the first word of both queues.
LEMMA WriteMemTick == WriteInv /\ MemTick => WriteInv'
<1> SUFFICES ASSUME WriteInv, MemTick PROVE WriteInv'
  OBVIOUS
<1> USE DEF requests, responses, answers
<1>1. /\ ArrivalTypes
      /\ aw \in Seq(WriteWords) \cup {None} /\ w \in Nat \cup {None}
      /\ awQ \in Seq(WriteWords) /\ outW \in Seq(WriteWords)
      /\ wQ \in Seq(Nat) /\ bResp \in Seq(Nat)
      /\ DOMAIN occ = {"aw", "w", "ar", "outW", "outR", "b", "r"}
      /\ \A f \in {"aw", "w", "outW", "b"} : occ[f] \in Nat
      /\ readFirst \in BOOLEAN
      /\ bvalid => bResp # <<>>
  BY DEF WriteInv, WriteTypes
<1>2. PICK reads \in ReadsDone, done \in {0, 1}, accepted \in BOOLEAN :
        /\ done <= Len(outW)
        /\ Issue(reads, SubSeq(outW, done + 1, Len(outW)), accepted)
        /\ bResp' = MemWriteCallback(done)
  BY DEF MemTick
<1>3. PICK left \in Seq(WriteWords) : /\ left = SubSeq(outW, done + 1, Len(outW))
                                /\ Len(left) = Len(outW) - done
  <2>1. \A i \in 1 .. Len(outW) : outW[i] \in WriteWords
    BY <1>1
  <2>2. Len(outW) \in Nat /\ done + 1 \in 1 .. Len(outW) + 1
    BY <1>1, <1>2
  <2>3. /\ SubSeq(outW, done + 1, Len(outW)) \in Seq(WriteWords)
        /\ Len(SubSeq(outW, done + 1, Len(outW))) = Len(outW) - done
    BY <1>1, <2>1, <2>2, SubSeqProperties
  <2>4. QED
    BY <2>3
<1>4. PICK write \in {0, 1} : write = IF accepted /\ Kind = "write" THEN 1 ELSE 0
  OBVIOUS
<1>5. Len(wQ) <= Len(awQ)
  BY <1>1 DEF WriteInv, NumberInv, WLen
<1>6. /\ awQ' \in Seq(WriteWords) /\ wQ' \in Seq(Nat)
      /\ Len(awQ') = Len(awQ) - write /\ Len(wQ') = Len(wQ) - write
      /\ \A k \in 1 .. Len(awQ') : awQ'[k] = awQ[k + write]
      /\ \A k \in 1 .. Len(wQ') : wQ'[k] = wQ[k + write]
  <2>1. CASE accepted /\ Kind = "write"
    <3>1. wQ # <<>> /\ write = 1
      BY <1>4, <2>1 DEF Kind
    <3>2. awQ # <<>>
      BY <1>1, <1>5, <3>1
    <3>3. awQ' = Tail(awQ) /\ wQ' = Tail(wQ)
      BY <1>2, <2>1 DEF Issue
    <3>4. QED
      BY <1>1, <3>1, <3>2, <3>3, SMTT(20)
  <2>2. CASE ~(accepted /\ Kind = "write")
    BY <1>1, <1>2, <1>4, <2>2 DEF Issue
  <2>3. QED
    BY <2>1, <2>2
<1>7. outW' \in Seq(WriteWords) /\ Len(outW') = Len(outW) - done + write
  <2>1. CASE accepted /\ Kind = "write"
    <3>1. wQ # <<>> /\ write = 1
      BY <1>4, <2>1 DEF Kind
    <3>2. awQ # <<>>
      BY <1>1, <1>5, <3>1
    <3>3. Head(awQ) \in WriteWords /\ Head(wQ) \in Nat
      BY <1>1, <3>1, <3>2, SMTT(20)
    <3>4. [Head(awQ) EXCEPT !.n = Head(wQ)] \in WriteWords
      BY <3>3 DEF WriteWords
    <3>5. PICK x \in WriteWords : outW' = Append(left, x)
      BY <1>2, <1>3, <2>1, <3>4 DEF Issue
    <3>6. Append(left, x) \in Seq(WriteWords) /\ Len(Append(left, x)) = Len(left) + 1
      OBVIOUS
    <3>7. Len(outW) - done + write = Len(left) + 1
      BY <1>3, <3>1
    <3>8. QED
      BY <3>5, <3>6, <3>7, Zenon
  <2>2. CASE ~(accepted /\ Kind = "write")
    BY <1>1, <1>2, <1>3, <1>4, <2>2, SMTT(20) DEF Issue
  <2>3. QED
    BY <2>1, <2>2
<1>8. bResp' \in Seq(Nat) /\ Len(bResp') \in Len(bResp) .. Len(bResp) + done
  <2>1. CASE done = 1 /\ Head(outW).last
    <3>1. Head(outW).n \in Nat
      <4>1. outW # <<>>
        BY <1>1, <1>2, <2>1
      <4>2. Head(outW) \in WriteWords
        BY <1>1, <4>1
      <4>3. QED
        BY <4>2 DEF WriteWords
    <3>2. bResp' = Append(bResp, Head(outW).n)
      BY <1>2, <2>1 DEF MemWriteCallback
    <3>3. QED
      BY <1>1, <2>1, <3>1, <3>2
  <2>2. CASE ~(done = 1 /\ Head(outW).last)
    BY <1>1, <1>2, <2>2 DEF MemWriteCallback
  <2>3. QED
    BY <2>1, <2>2
<1>9. /\ DOMAIN occ' = {"aw", "w", "ar", "outW", "outR", "b", "r"}
      /\ occ'.aw = occ.aw /\ occ'.w = occ.w /\ occ'.b = Len(bResp)
      /\ occ'.outW = IF CountersWritten THEN Len(outW') ELSE occ.outW
  BY <1>1 DEF MemTick
<1>10. PhaseInv'
  BY DEF MemTick, Run, WriteInv, PhaseInv, Second
<1>11. WriteTypes'
  <2>1. occ'.outW \in Nat
    BY <1>1, <1>7, <1>9
  <2>2. \A f \in {"aw", "w", "outW", "b"} : occ'[f] \in Nat
    BY <1>1, <1>9, <2>1
  <2>3. UNCHANGED <<aw, w, packet, numW, numR, data>> /\ readFirst' \in BOOLEAN
    BY DEF MemTick
  <2>4. bvalid' => bResp' # <<>>
    BY <1>1, <1>8 DEF MemTick
  <2>5. QED
    BY <1>1, <1>6, <1>7, <1>8, <1>9, <2>2, <2>3, <2>4 DEF WriteTypes, ArrivalTypes
<1>12. NumberInv'
  <2>0. Len(awQ) \in Nat /\ Len(wQ) \in Nat
    BY <1>1
  <2>1. UNCHANGED <<aw, w, packet, numW, data>>
    BY DEF MemTick
  <2>2. /\ AwLen' = AwLen /\ WLen' = WLen /\ AwLen \in Nat /\ WLen \in {0, 1}
        /\ AwIn(packet) \in Nat /\ WIn(packet) \in {0, 1}
        /\ AwIn(packet') = AwIn(packet) /\ WIn(packet') = WIn(packet)
    <3>1. AwIn(packet) \in Nat
      BY <1>1, PacketRequest DEF AwIn, ArrivalTypes
    <3>2. QED
      BY <1>1, <2>1, <3>1 DEF AwLen, WLen, WIn
  <2>3. Base' = Base + write /\ Base \in Int
    <3>1. Len(awQ) \in Nat /\ numW \in Nat /\ numW' = numW
      BY <1>1, <2>1 DEF ArrivalTypes
    <3>2. PICK i \in Nat : i = AwIn(packet) /\ i = AwIn(packet)'
      BY <2>1, <2>2
    <3>3. AwLen' = AwLen /\ AwLen \in Nat /\ Len(awQ') = Len(awQ) - write
      BY <1>6, <2>2
    <3>4. QED
      BY <3>1, <3>2, <3>3 DEF Base
  <2>4. PICK b \in Int, c \in Int : b = Base /\ c = b + write
    BY <2>3
  <2>5. /\ \A k \in 1 .. Len(awQ) : awQ[k].n = b + k
        /\ aw # None => \A k \in 1 .. Len(aw) : aw[k].n = b + Len(awQ) + k
        /\ AwIn(packet) # 0 =>
             \A k \in 1 .. Len(packet.req) : packet.req[k].n = b + Len(awQ) + AwLen + k
        /\ \A k \in 1 .. Len(wQ) : wQ[k] = b + k
        /\ w # None => w = b + Len(wQ) + 1
        /\ WIn(packet) # 0 => packet.req = data
        /\ data = b + Len(wQ) + WLen + WIn(packet)
        /\ Len(wQ) + WLen <= Len(awQ)
        /\ aw # None => w = None /\ Len(aw) <= Margin
        /\ packet # None => aw = None /\ w = None
    BY <2>4 DEF WriteInv, NumberInv
  <2>6. \A k \in 1 .. Len(awQ') : awQ'[k].n = c + k
    <3>1. SUFFICES ASSUME NEW k \in 1 .. Len(awQ') PROVE awQ'[k].n = c + k
      OBVIOUS
    <3>2. awQ'[k] = awQ[k + write]
      BY <1>6
    <3>3. k \in Nat /\ 1 <= k /\ k <= Len(awQ) - write
      BY <1>6, <2>0
    <3>4. k + write \in 1 .. Len(awQ)
      BY <2>0, <3>3
    <3>5. awQ'[k].n = b + (k + write)
      BY <2>5, <3>2, <3>4
    <3>6. QED
      BY <2>4, <3>3, <3>5
  <2>7. \A k \in 1 .. Len(wQ') : wQ'[k] = c + k
    <3>1. SUFFICES ASSUME NEW k \in 1 .. Len(wQ') PROVE wQ'[k] = c + k
      OBVIOUS
    <3>2. wQ'[k] = wQ[k + write]
      BY <1>6
    <3>3. k \in Nat /\ 1 <= k /\ k <= Len(wQ) - write
      BY <1>6, <2>0
    <3>4. k + write \in 1 .. Len(wQ)
      BY <2>0, <3>3
    <3>5. wQ'[k] = b + (k + write)
      BY <2>5, <3>2, <3>4
    <3>6. QED
      BY <2>4, <3>3, <3>5
  <2>8. aw # None => \A k \in 1 .. Len(aw) : aw[k].n = c + Len(awQ') + k
    BY <1>1, <1>6, <2>4, <2>5
  <2>9. w # None => w = c + Len(wQ') + 1
    BY <1>1, <1>6, <2>4, <2>5
  <2>10. AwIn(packet) # 0 =>
           \A k \in 1 .. Len(packet.req) : packet.req[k].n = c + Len(awQ') + AwLen + k
    BY <1>6, <2>0, <2>2, <2>4, <2>5
  <2>11. data = c + Len(wQ') + WLen + WIn(packet) /\ Len(wQ') + WLen <= Len(awQ')
    BY <1>6, <2>0, <2>2, <2>4, <2>5
  <2>12. Base' = c
    BY <2>3, <2>4
  <2>13. QED
    BY <2>1, <2>2, <2>5, <2>6, <2>7, <2>8, <2>9, <2>10, <2>11, <2>12 DEF NumberInv
<1>13. OccInv'
  <2>1. UNCHANGED <<aw, w, ready, settled>> /\ "MemTick" \in pending /\ pending' \subseteq pending
    BY DEF MemTick, Run
  <2>2. PortsCurrent' => PortsCurrent
    BY <2>1 DEF PortsCurrent
  <2>3. Len(awQ') <= occ'.aw /\ Len(wQ') <= occ'.w
    <3>1. /\ Len(awQ) \in Nat /\ Len(wQ) \in Nat /\ occ.aw \in Nat /\ occ.w \in Nat
      BY <1>1
    <3>2. Len(awQ') = Len(awQ) - write /\ Len(wQ') = Len(wQ) - write
      BY <1>6
    <3>3. Len(awQ) <= occ.aw /\ Len(wQ) <= occ.w
      BY DEF WriteInv, OccInv
    <3>4. QED
      BY <1>9, <3>1, <3>2, <3>3
  <2>4. QED
    BY <1>9, <2>1, <2>2, <2>3 DEF WriteInv, OccInv
<1>14. DebtInv'
  <2>0. /\ Len(outW) \in Nat /\ Len(bResp) \in Nat /\ Len(outW') \in Nat
        /\ Len(bResp') \in Nat /\ done \in {0, 1} /\ occ.outW \in Nat
    <3>1. Len(outW') \in Nat
      BY <1>7
    <3>2. Len(bResp') \in Nat
      BY <1>8
    <3>3. QED
      BY <1>1, <3>1, <3>2
  <2>1. UNCHANGED <<w, ready, settled>> /\ readFirst' = ~readFirst
    BY DEF MemTick
  <2>2. /\ "MemTick" \in pending /\ pending' = pending \ {"MemTick"} /\ ~settled
        /\ ~MemFirst => pending = {"MemTick"}
        /\ MemFirst => pending' = {"Tick"}
    BY Sizes DEF MemTick, Run, WriteInv, PhaseInv, Second
  <2>3. PICK d \in Nat, e \in Nat : /\ d = Debt /\ e = Debt' /\ e <= d + 1
    <3>1. Debt \in Nat /\ Debt' \in Nat
      BY <2>0 DEF Debt
    <3>2. Debt' <= Debt + 1
      BY <1>7, <1>8, <2>0 DEF Debt
    <3>3. QED
      BY <3>1, <3>2
  <2>4. Len(outW') <= occ'.outW + (IF readFirst' THEN 1 ELSE 0)
    <3>1. Len(outW) <= occ.outW + (IF readFirst THEN 1 ELSE 0) /\ occ.outW \in Nat
      BY <1>1 DEF WriteInv, DebtInv
    <3>2. readFirst \in BOOLEAN /\ (readFirst => CountersWritten)
      BY <1>1 DEF CountersWritten
    <3> HIDE DEF CountersWritten
    <3>3. CASE CountersWritten
      BY <1>9, <2>0, <3>3
    <3>4. CASE ~CountersWritten
      <4>1. readFirst' /\ ~readFirst /\ occ'.outW = occ.outW
        BY <1>9, <2>1, <3>2, <3>4
      <4>2. QED
        BY <1>7, <2>0, <3>1, <4>1
    <3>5. QED
      BY <3>3, <3>4
  <2>5. Debt' <= occ'.outW + occ'.b + 1
    <3>1. CASE CountersWritten
      BY <1>8, <1>9, <2>0, <3>1 DEF Debt
    <3>2. CASE ~CountersWritten
      <4>1. Len(outW) <= occ.outW
        BY <1>1, <3>2 DEF WriteInv, DebtInv, CountersWritten
      <4>2. QED
        BY <1>7, <1>8, <1>9, <2>0, <3>2, <4>1 DEF Debt
    <3>3. QED
      BY <3>1, <3>2
  <2>6. ASSUME PortsCurrent', ready'.w
        PROVE  e <= QueueSize - Margin
                      + (IF ~settled' /\ "MemTick" \notin pending' THEN 1 ELSE 0)
    <3>1. d <= QueueSize - Margin
      BY <2>1, <2>2, <2>3, <2>6, Sizes DEF PortsCurrent, WriteInv, DebtInv
    <3>2. QED
      BY <2>1, <2>2, <2>3, <3>1, Sizes
  <2>7. ASSUME w' # None
        PROVE  e <= QueueSize - Margin + 1 + Late'
    <3>1. CASE MemFirst
      <4>1. d <= QueueSize - Margin + 1
        <5>1. pending # {"Tick"} /\ w # None
          BY <2>1, <2>2, <2>7
        <5>2. QED
          BY <2>3, <3>1, <5>1, Sizes DEF WriteInv, DebtInv, Late
      <4>2. QED
        BY <2>2, <2>3, <3>1, <4>1, Sizes DEF Late
    <3>2. CASE ~MemFirst
      <4>1. d <= QueueSize - Margin + 1 + (-1)
        BY <2>1, <2>2, <2>3, <2>7, <3>2 DEF WriteInv, DebtInv, Late
      <4>2. pending' # {"MemTick"}
        BY <2>2
      <4>3. QED
        BY <2>2, <2>3, <3>2, <4>1, <4>2, Sizes DEF Late
    <3>3. QED
      BY <3>1, <3>2
  <2>8. QED
    BY <2>3, <2>4, <2>5, <2>6, <2>7 DEF DebtInv
<1>15. QED
  BY <1>10, <1>11, <1>12, <1>13, <1>14 DEF MemTick, WriteInv

\* Tick takes what is on the port, and the adapter puts something else there.
LEMMA WriteTick == MarginSuffices /\ WriteInv /\ Tick /\ orderly' => WriteInv'
<1> SUFFICES ASSUME MarginSuffices, WriteInv, Tick, orderly' PROVE WriteInv'
  OBVIOUS
<1>1. /\ ArrivalTypes
      /\ aw \in Seq(WriteWords) \cup {None} /\ w \in Nat \cup {None}
      /\ awQ \in Seq(WriteWords) /\ outW \in Seq(WriteWords)
      /\ wQ \in Seq(Nat) /\ bResp \in Seq(Nat)
      /\ DOMAIN occ = {"aw", "w", "ar", "outW", "outR", "b", "r"}
      /\ \A f \in {"aw", "w", "outW", "b"} : occ[f] \in Nat
      /\ readFirst \in BOOLEAN
      /\ bvalid => bResp # <<>>
  BY DEF WriteInv, WriteTypes
<1>2. (aw # None => AwFits) /\ (w # None => WFits)
  <2>1. TickNext
    BY Sizes DEF TickNext, Tick, Run
  <2>2. QED
    BY <2>1, RequestsFit
<1>3. /\ AwLen \in Nat /\ AwLen <= Margin /\ WLen \in {0, 1}
      /\ AwIn(packet) \in Nat /\ WIn(packet) \in {0, 1}
      /\ Len(awQ) \in Nat /\ Len(wQ) \in Nat
      /\ Len(outW) \in Nat /\ Len(bResp) \in Nat
  <2>1. aw # None => Len(aw) <= Margin
    BY DEF WriteInv, NumberInv
  <2>2. AwIn(packet) \in Nat
    BY <1>1, PacketRequest DEF AwIn, ArrivalTypes
  <2>3. QED
    BY <1>1, <2>1, <2>2, Sizes DEF AwLen, WLen, WIn
<1>4. PICK b \in Int : b = Base
  <2>1. Base \in Int
    BY <1>1, <1>3 DEF Base, ArrivalTypes
  <2>2. QED
    BY <2>1
<1>5. /\ \A k \in 1 .. Len(awQ) : awQ[k].n = b + k
      /\ aw # None => \A k \in 1 .. Len(aw) : aw[k].n = b + Len(awQ) + k
      /\ \A k \in 1 .. Len(wQ) : wQ[k] = b + k
      /\ w # None => w = b + Len(wQ) + 1
      /\ data = b + Len(wQ) + WLen + WIn(packet)
      /\ Len(wQ) + WLen <= Len(awQ)
      /\ WIn(packet) # 0 => packet.req = data
      /\ AwIn(packet) # 0 =>
           \A k \in 1 .. Len(packet.req) : packet.req[k].n = b + Len(awQ) + AwLen + k
  BY <1>4 DEF WriteInv, NumberInv
<1>6. /\ awQ' \in Seq(WriteWords) /\ Len(awQ') = Len(awQ) + AwLen
      /\ \A k \in 1 .. Len(awQ') : awQ'[k].n = b + k
  <2>1. CASE aw = None
    BY <1>1, <1>3, <1>5, <2>1 DEF Tick, TakeRequests, AwLen
  <2>2. CASE aw # None
    <3>1. awQ' = awQ \o aw /\ AwLen = Len(aw) /\ aw \in Seq(WriteWords)
      BY <1>1, <1>2, <2>2 DEF Tick, TakeRequests, AwLen
    <3>2. awQ' \in Seq(WriteWords) /\ Len(awQ') = Len(awQ) + Len(aw)
      BY <1>1, <3>1
    <3>3. \A k \in 1 .. Len(awQ) : awQ'[k] = awQ[k]
      BY <1>1, <3>1
    <3>4. \A k \in Len(awQ) + 1 .. Len(awQ) + Len(aw) : awQ'[k] = aw[k - Len(awQ)]
      BY <1>1, <3>1
    <3>5. ASSUME NEW k \in 1 .. Len(awQ) + Len(aw) PROVE awQ'[k].n = b + k
      <4>1. CASE k <= Len(awQ)
        <5>1. k \in 1 .. Len(awQ)
          BY <1>3, <4>1
        <5>2. QED
          BY <1>5, <3>3, <5>1
      <4>2. CASE ~(k <= Len(awQ))
        <5>1. k - Len(awQ) \in 1 .. Len(aw) /\ k \in Int
          BY <1>3, <3>1, <4>2
        <5>2. aw[k - Len(awQ)].n = b + Len(awQ) + (k - Len(awQ))
          BY <1>5, <2>2, <5>1
        <5>3. awQ'[k] = aw[k - Len(awQ)]
          BY <1>3, <3>1, <3>4, <4>2
        <5>4. QED
          BY <1>3, <5>1, <5>2, <5>3
      <4>3. QED
        BY <4>1, <4>2
    <3>6. QED
      BY <3>1, <3>2, <3>5
  <2>3. QED
    BY <2>1, <2>2
<1>7. /\ wQ' \in Seq(Nat) /\ Len(wQ') = Len(wQ) + WLen
      /\ \A k \in 1 .. Len(wQ') : wQ'[k] = b + k
  <2>1. CASE w = None
    BY <1>1, <1>3, <1>5, <2>1 DEF Tick, TakeRequests, WLen
  <2>2. CASE w # None
    <3>1. wQ' = Append(wQ, w) /\ WLen = 1 /\ w \in Nat /\ w = b + Len(wQ) + 1
      BY <1>1, <1>2, <1>5, <2>2 DEF Tick, TakeRequests, WLen
    <3>2. QED
      <4>1. /\ wQ' \in Seq(Nat) /\ Len(wQ') = Len(wQ) + 1
            /\ \A k \in 1 .. Len(wQ) : wQ'[k] = wQ[k]
            /\ wQ'[Len(wQ) + 1] = w
        BY <1>1, <3>1
      <4>2. ASSUME NEW k \in 1 .. Len(wQ) + 1 PROVE wQ'[k] = b + k
        <5>1. CASE k \in 1 .. Len(wQ)
          BY <1>5, <4>1, <5>1
        <5>2. CASE k = Len(wQ) + 1
          BY <1>3, <3>1, <4>1, <5>2
        <5>3. QED
          BY <1>3, <5>1, <5>2
      <4>3. QED
        BY <3>1, <4>1, <4>2
  <2>3. QED
    BY <2>1, <2>2
<1>8. /\ numW - AwIn(packet) = b + Len(awQ')
      /\ data - WIn(packet) = b + Len(wQ')
      /\ Len(wQ') <= Len(awQ')
      /\ Len(awQ') \in Nat /\ Len(wQ') \in Nat
  <2>1. b = numW - AwIn(packet) - AwLen - Len(awQ) /\ numW \in Nat /\ data \in Nat
    BY <1>1, <1>4 DEF Base, ArrivalTypes
  <2>2. Len(awQ') = Len(awQ) + AwLen /\ Len(wQ') = Len(wQ) + WLen
    BY <1>6, <1>7
  <2>3. data = b + Len(wQ) + WLen + WIn(packet) /\ Len(wQ) + WLen <= Len(awQ)
    BY <1>5
  <2>4. Len(awQ') \in Nat /\ Len(wQ') \in Nat /\ Len(wQ') <= Len(awQ')
    BY <1>3, <2>2, <2>3
  <2>5. numW - AwIn(packet) = b + Len(awQ')
    BY <1>3, <2>1, <2>2, SMTT(20)
  <2>6. data - WIn(packet) = b + Len(wQ')
    <3>1. PICK i \in Int : i = WIn(packet)
      BY <1>3
    <3>2. data = b + Len(wQ) + WLen + i /\ data \in Int
      BY <2>1, <2>3, <3>1
    <3>3. data - i = b + Len(wQ')
      BY <1>3, <2>2, <3>2
    <3>4. QED
      BY <3>1, <3>3
  <2>7. QED
    BY <2>4, <2>5, <2>6
<1>8a. Len(awQ') \in Nat /\ Len(wQ') \in Nat /\ Len(wQ') <= Len(awQ')
  BY <1>8
<1>9. /\ DOMAIN occ' = {"aw", "w", "ar", "outW", "outR", "b", "r"}
      /\ occ'.aw = Len(awQ') /\ occ'.w = Len(wQ')
      /\ occ'.outW = occ.outW /\ occ'.b = occ.b
  BY <1>1 DEF Tick
<1>10. outW' = outW /\ bResp' \in Seq(Nat) /\ Len(bResp') <= Len(bResp)
  <2>1. (Tail(bResp) \in Seq(Nat) /\ Len(Tail(bResp)) <= Len(bResp)) \/ bResp = <<>>
    BY <1>1
  <2>2. QED
    BY <1>1, <2>1 DEF Tick, PresentResponses, Popped
<1>11. PhaseInv'
  BY Sizes DEF Tick, Run, WriteInv, PhaseInv, Second
<1>12. ~PortsCurrent'
  BY DEF Tick, Run, WriteInv, PhaseInv, PortsCurrent
<1>13. PortsCurrent /\ ~settled
  BY DEF Tick, Run, WriteInv, PhaseInv, PortsCurrent
\* What does not depend on the new request.
<1>14. /\ Len(awQ') <= occ'.aw /\ Len(wQ') <= occ'.w
       /\ Len(outW') <= occ'.outW + (IF readFirst' THEN 1 ELSE 0)
       /\ Debt' <= occ'.outW + occ'.b + 1
       /\ Debt' \in Nat /\ Debt' <= Debt
  <2>1. readFirst' = readFirst
    BY DEF Tick
  <2>2. Len(bResp') \in Nat /\ occ.outW \in Nat /\ occ.b \in Nat
    BY <1>1, <1>10
  <2>3. Debt' \in Nat /\ Debt \in Nat /\ Debt' <= Debt
    BY <1>3, <1>10, <2>2 DEF Debt
  <2>4. /\ Len(outW) <= occ.outW + (IF readFirst THEN 1 ELSE 0)
        /\ Debt <= occ.outW + occ.b + 1
    BY DEF WriteInv, DebtInv
  <2>5. QED
    BY <1>8, <1>9, <1>10, <2>1, <2>2, <2>3, <2>4, SMTT(20)
<1>15. ArrivalTypes' /\ Orderly
  BY <1>1, Arrival DEF Tick
<1>16. PICK p \in Packets \cup {None} : Comes(p) /\ Give(p)
  BY <1>1, Arrival DEF Tick
\* The packet continues the numbering.
<1>17. /\ numW' = b + Len(awQ') + AwIn(p) /\ data' = b + Len(wQ') + WIn(p)
       /\ AwIn(p) \in Nat /\ WIn(p) \in {0, 1}
       /\ p # None /\ p.type = "aw" =>
            \A k \in 1 .. Len(p.req) : p.req[k].n = b + Len(awQ') + k
       /\ p # None /\ p.type = "w" => p.req = data'
  <2>0. /\ AwIn(p) \in Nat /\ WIn(p) \in {0, 1}
        /\ p # None => p.type \in {"aw", "w", "ar"}
    BY PacketRequest DEF AwIn, WIn
  <2>1. CASE p = packet /\ UNCHANGED <<numW, data>>
    <3>1. numW' = b + Len(awQ') + AwIn(p) /\ data' = b + Len(wQ') + WIn(p)
      <4>1. AwIn(p) = AwIn(packet) /\ WIn(p) = WIn(packet) /\ numW' = numW /\ data' = data
        BY <2>1
      <4>2. /\ numW - AwIn(packet) = b + Len(awQ') /\ data - WIn(packet) = b + Len(wQ')
            /\ numW \in Nat /\ data \in Nat
        BY <1>1, <1>8 DEF ArrivalTypes
      <4>3. QED
        BY <1>3, <1>8a, <4>1, <4>2, SMTT(20)
    <3>2. ASSUME p # None, p.type = "aw", NEW k \in 1 .. Len(p.req)
          PROVE  p.req[k].n = b + Len(awQ') + k
      <4>1. AwIn(p) = Len(p.req) /\ Len(p.req) \in Nat \ {0}
        <5>1. p.req \in Seq(WriteWords)
          BY <3>2, PacketRequest
        <5>2. Len(p.req) \in Nat
          BY <5>1
        <5>3. QED
          BY <3>2, <5>2 DEF AwIn
      <4>2. AwIn(packet) # 0 /\ packet = p
        BY <2>1, <4>1
      <4>3. p.req[k].n = b + Len(awQ) + AwLen + k
        BY <1>5, <3>2, <4>2
      <4>4. Len(awQ') = Len(awQ) + AwLen /\ k \in Int
        BY <1>6
      <4>5. QED
        BY <1>3, <4>3, <4>4
    <3>3. p # None /\ p.type = "w" => p.req = data'
      BY <1>5, <2>1 DEF WIn
    <3>4. QED
      BY <2>0, <3>1, <3>2, <3>3
  <2>2. CASE packet = None /\ p # None /\ p.type = "ar" /\ UNCHANGED <<numW, data>>
    <3>1. AwIn(p) = 0 /\ WIn(p) = 0 /\ AwIn(packet) = 0 /\ WIn(packet) = 0
      BY <2>2 DEF AwIn, WIn
    <3>2. QED
      BY <1>1, <1>4, <1>8, <2>0, <2>2, <3>1 DEF ArrivalTypes
  <2>3. CASE /\ packet = None /\ p # None /\ p.type = "aw"
             /\ \A k \in 1 .. Len(p.req) : p.req[k].n = numW + k
             /\ numW' = numW + Len(p.req) /\ UNCHANGED data
    <3>1. AwIn(p) = Len(p.req) /\ WIn(p) = 0 /\ AwIn(packet) = 0 /\ WIn(packet) = 0
      BY <2>3 DEF AwIn, WIn
    <3>2. numW = b + Len(awQ') /\ data = b + Len(wQ')
      BY <1>1, <1>4, <1>8, <3>1 DEF ArrivalTypes
    <3>3. QED
      BY <1>4, <1>8a, <2>0, <2>3, <3>1, <3>2
  <2>4. CASE /\ packet = None /\ p # None /\ p.type = "w" /\ p.req = data + 1
             /\ data' = data + 1 /\ UNCHANGED numW
    <3>1. AwIn(p) = 0 /\ WIn(p) = 1 /\ AwIn(packet) = 0 /\ WIn(packet) = 0
      BY <2>4 DEF AwIn, WIn
    <3>2. numW = b + Len(awQ') /\ data = b + Len(wQ')
      BY <1>1, <1>4, <1>8, <3>1 DEF ArrivalTypes
    <3>3. QED
      BY <1>4, <1>8a, <2>0, <2>4, <3>1, <3>2
  <2>5. QED
    BY <1>16, <2>1, <2>2, <2>3, <2>4 DEF Comes
<1>18. /\ DOMAIN occ' = {"aw", "w", "ar", "outW", "outR", "b", "r"}
       /\ \A f \in {"aw", "w", "outW", "b"} : occ'[f] \in Nat
       /\ readFirst' \in BOOLEAN /\ ~undefined'
       /\ bvalid' => bResp' # <<>>
       /\ outW' \in Seq(WriteWords)
  <2>1. \A f \in {"aw", "w", "outW", "b"} : occ'[f] \in Nat
    BY <1>1, <1>8a, <1>9
  <2>2. QED
    BY <1>1, <1>9, <1>10, <2>1 DEF Tick, PresentResponses, WriteInv
\* It waits for its port, or is a read, or there is none.
<1>19. CASE /\ aw' = None /\ w' = None
            /\ packet' = p \/ (AwIn(p) = 0 /\ WIn(p) = 0 /\ packet' = None)
  <2>1. AwLen' = 0 /\ WLen' = 0 /\ AwIn(packet') = AwIn(p) /\ WIn(packet') = WIn(p)
    BY <1>19 DEF AwLen, WLen, AwIn, WIn
  <2>2. Base' = b
    <3>1. AwIn(packet)' = AwIn(p)
      BY <2>1 DEF AwIn
    <3>2. QED
      BY <1>4, <1>8a, <1>17, <2>1, <3>1 DEF Base
  <2>3. NumberInv'
    <3>1. /\ AwIn(packet') # 0 =>
                \A k \in 1 .. Len(packet'.req) : packet'.req[k].n = b + Len(awQ') + 0 + k
          /\ WIn(packet') # 0 => packet'.req = data'
      BY <1>4, <1>8a, <1>17, <1>19, <2>1 DEF AwIn, WIn
    <3>2. data' = b + Len(wQ') + 0 + WIn(packet')
      BY <1>4, <1>8a, <1>17, <2>1
    <3>3. QED
      BY <1>6, <1>7, <1>8a, <1>19, <2>1, <2>2, <3>1, <3>2 DEF NumberInv, AwIn, WIn
  <2>4. WriteTypes'
    BY <1>6, <1>7, <1>10, <1>15, <1>18, <1>19 DEF WriteTypes
  <2>5. OccInv' /\ DebtInv'
    BY <1>12, <1>14, <1>19 DEF OccInv, DebtInv
  <2>6. QED
    BY <1>11, <1>18, <2>3, <2>4, <2>5 DEF WriteInv
<1>20. CASE p # None /\ p.type = "aw" /\ ready.aw /\ packet' = None /\ aw' = p.req /\ w' = None
  <2>1. p.req \in Seq(WriteWords) /\ Len(p.req) \in Nat /\ p.req # None
    <3>1. p.req \in Seq(WriteWords)
      BY <1>20, PacketRequest
    <3>2. QED
      BY <3>1, NoneApart
  <2>2. /\ aw' # None /\ AwLen' = Len(p.req) /\ WLen' = 0
        /\ AwIn(p) = Len(p.req) /\ WIn(p) = 0 /\ AwIn(packet') = 0 /\ WIn(packet') = 0
    BY <1>20, <2>1 DEF AwLen, WLen, AwIn, WIn
  <2>3. Base' = b
    <3>1. AwIn(packet)' = 0
      BY <2>2 DEF AwIn
    <3>2. PICK n \in Nat : n = Len(p.req)
      BY <2>1
    <3>3. AwLen' = n /\ numW' = b + Len(awQ') + n
      BY <1>17, <2>2, <3>2
    <3>4. QED
      BY <1>8a, <3>1, <3>3 DEF Base
  <2>4. NumberInv'
    <3>1. \A k \in 1 .. Len(aw') : aw'[k].n = b + Len(awQ') + k
      BY <1>17, <1>20
    <3>2. data' = b + Len(wQ') + 0 + WIn(packet')
      BY <1>4, <1>8a, <1>17, <2>2
    <3>3. Len(aw') <= Margin
      BY <1>15, <2>2 DEF Orderly
    <3>4. QED
      BY <1>6, <1>7, <1>8a, <1>20, <2>2, <2>3, <3>1, <3>2, <3>3 DEF NumberInv, AwIn, WIn
  <2>5. WriteTypes'
    BY <1>6, <1>7, <1>10, <1>15, <1>18, <1>20, <2>1 DEF WriteTypes
  <2>6. OccInv'
    <3>1. occ.aw < QueueSize - Margin /\ Len(awQ) <= occ.aw /\ occ.aw \in Nat
      BY <1>1, <1>13, <1>20 DEF WriteInv, OccInv
    <3>2. occ'.aw < QueueSize
      BY <1>3, <1>6, <1>9, <3>1, Sizes
    <3>3. QED
      BY <1>12, <1>14, <1>20, <3>2 DEF OccInv
  <2>7. DebtInv'
    BY <1>12, <1>14, <1>20 DEF DebtInv
  <2>8. QED
    BY <1>11, <1>18, <2>4, <2>5, <2>6, <2>7 DEF WriteInv
<1>21. CASE p # None /\ p.type = "w" /\ ready.w /\ packet' = None /\ aw' = None /\ w' = p.req
  <2>1. p.req \in Nat /\ p.req # None
    <3>1. p.req \in Nat
      BY <1>21, PacketRequest
    <3>2. QED
      BY <3>1, NoneApart
  <2>2. /\ w' # None /\ AwLen' = 0 /\ WLen' = 1
        /\ AwIn(p) = 0 /\ WIn(p) = 1 /\ AwIn(packet') = 0 /\ WIn(packet') = 0
    BY <1>21, <2>1 DEF AwLen, WLen, AwIn, WIn
  <2>3. Base' = b
    <3>1. AwIn(packet)' = 0
      BY <2>2 DEF AwIn
    <3>2. QED
      BY <1>4, <1>8a, <1>17, <2>1, <2>2, <3>1 DEF Base
  <2>4. /\ w' = b + Len(wQ') + 1 /\ data' = b + Len(wQ') + 1
        /\ Len(wQ') + 1 <= Len(awQ')
    <3>1. w' = b + Len(wQ') + 1 /\ data' = b + Len(wQ') + 1 /\ numW' = b + Len(awQ')
      BY <1>4, <1>8a, <1>17, <1>21, <2>2
    <3>2. w' <= numW'
      BY <1>15, <2>2 DEF Orderly
    <3>3. QED
      BY <1>4, <1>8a, <3>1, <3>2
  <2>5. NumberInv'
    <3>1. data' = b + Len(wQ') + 1 + WIn(packet')
      BY <1>4, <1>8a, <2>2, <2>4
    <3>2. QED
      BY <1>6, <1>7, <1>21, <2>2, <2>3, <2>4, <3>1 DEF NumberInv, AwIn, WIn
  <2>6. WriteTypes'
    BY <1>6, <1>7, <1>10, <1>15, <1>18, <1>21, <2>1 DEF WriteTypes
  <2>7. OccInv'
    <3>1. occ.w < QueueSize - Margin /\ Len(wQ) <= occ.w /\ occ.w \in Nat
      BY <1>1, <1>13, <1>21 DEF WriteInv, OccInv
    <3>2. occ'.w < QueueSize /\ occ'.aw > 0
      <4>1. Len(wQ') = Len(wQ) + WLen
        BY <1>7
      <4>2. Margin >= 2
        BY Sizes DEF MarginSuffices
      <4>3. QED
        BY <1>3, <1>8a, <1>9, <2>4, <3>1, <4>1, <4>2, Sizes
    <3>3. QED
      BY <1>12, <1>14, <1>21, <3>2 DEF OccInv
  <2>8. DebtInv'
    <3>1. Debt <= QueueSize - Margin + (IF "MemTick" \notin pending THEN 1 ELSE 0)
      BY <1>13, <1>21 DEF WriteInv, DebtInv
    <3>2. /\ MemFirst => pending = {"Tick"} /\ pending' = {}
          /\ ~MemFirst => "MemTick" \in pending /\ pending' = {"MemTick"}
      BY Sizes DEF Tick, Run, WriteInv, PhaseInv, Second
    <3>3. Debt \in Nat
      BY <1>3 DEF Debt
    <3>4. Debt' <= QueueSize - Margin + 1 + Late'
      <4>1. CASE MemFirst
        BY <1>14, <3>1, <3>2, <3>3, <4>1, Sizes DEF Late
      <4>2. CASE ~MemFirst
        BY <1>14, <3>1, <3>2, <3>3, <4>2, Sizes DEF Late
      <4>3. QED
        BY <4>1, <4>2
    <3>5. QED
      BY <1>12, <1>14, <3>4 DEF DebtInv
  <2>9. QED
    BY <1>11, <1>18, <2>5, <2>6, <2>7, <2>8 DEF WriteInv
<1>22. QED
  <2>1. CASE p = None
    BY <1>16, <1>19, <2>1 DEF Give, OnPort, AwIn, WIn
  <2>2. CASE p # None /\ ~ready[p.type]
    BY <1>16, <1>19, <2>2 DEF Give, OnPort
  <2>3. CASE p # None /\ ready[p.type]
    <3>1. p.type \in {"aw", "w", "ar"}
      BY <2>3, PacketRequest
    <3>2. CASE p.type = "ar"
      BY <1>16, <1>19, <2>3, <3>2 DEF Give, OnPort, AwIn, WIn
    <3>3. CASE p.type = "aw"
      BY <1>16, <1>20, <2>3, <3>3 DEF Give, OnPort
    <3>4. CASE p.type = "w"
      BY <1>16, <1>21, <2>3, <3>4 DEF Give, OnPort
    <3>5. QED
      BY <3>1, <3>2, <3>3, <3>4
  <2>4. QED
    BY <2>1, <2>2, <2>3

LEMMA WriteOther == WriteInv /\ (ClockEdge \/ Settle \/ UNCHANGED vars) => WriteInv'
<1> SUFFICES ASSUME WriteInv, ClockEdge \/ Settle \/ UNCHANGED vars PROVE WriteInv'
  OBVIOUS
<1>1. /\ UNCHANGED <<aw, w, packet, numW, numR, data, awQ, wQ, outW, bResp, readFirst,
                     occ, bvalid, undefined>>
      /\ (~settled /\ settled') \/ UNCHANGED ready
  BY DEF ClockEdge, Settle, vars, requests, queues, responses, answers
<1>2. PhaseInv'
  <2>1. CASE ClockEdge
    BY <2>1 DEF ClockEdge, PhaseInv
  <2>2. CASE Settle
    BY <2>2 DEF Settle, WriteInv, PhaseInv
  <2>3. CASE UNCHANGED vars
    BY <2>3 DEF vars, WriteInv, PhaseInv
  <2>4. QED
    BY <2>1, <2>2, <2>3
<1>3. NumberInv' /\ Debt' = Debt
  BY <1>1 DEF WriteInv, NumberInv, Base, AwLen, WLen, AwIn, WIn, Debt
<1>4. \A f \in {"aw", "w", "outW", "b"} : occ[f] \in Nat
  BY DEF WriteInv, WriteTypes
<1>5. WriteTypes'
  BY <1>1 DEF WriteInv, WriteTypes, ArrivalTypes
<1>6. OccInv' /\ DebtInv'
  <2>1. CASE Settle
    <3>1. /\ ready'.aw => occ.aw < QueueSize - Margin
          /\ ready'.w => /\ occ.w < QueueSize - Margin
                         /\ occ.outW + occ.b < QueueSize - Margin
      BY <2>1 DEF Settle, Assign, ReadyPorts
    <3>2. Debt \in Nat /\ Debt <= occ.outW + occ.b + 1
      BY DEF WriteInv, WriteTypes, DebtInv, Debt
    <3>3. ready'.w => Debt <= QueueSize - Margin
      BY <1>4, <3>1, <3>2, Sizes
    <3>4. pending' = pending /\ settled' /\ Late' = Late
      BY <2>1 DEF Settle, Late
    <3>5. OccInv'
      BY <1>1, <3>1 DEF WriteInv, OccInv
    <3>6. DebtInv'
      BY <1>1, <1>3, <3>3, <3>4, Sizes DEF WriteInv, DebtInv
    <3>7. QED
      BY <3>5, <3>6
  <2>2. CASE ClockEdge
    <3>1. /\ ready' = ready /\ PortsCurrent /\ settled
          /\ pending = {} /\ pending' = {"Tick", "MemTick"}
      BY <2>2 DEF ClockEdge, PortsCurrent
    <3>2. Late = 0 /\ Late' = 0
      BY <3>1 DEF Late
    <3>3. OccInv'
      BY <1>1, <3>1 DEF WriteInv, OccInv
    <3>4. DebtInv'
      BY <1>1, <1>3, <3>1, <3>2 DEF WriteInv, DebtInv
    <3>5. QED
      BY <3>3, <3>4
  <2>3. CASE UNCHANGED vars
    BY <1>3, <2>3 DEF vars, WriteInv, OccInv, DebtInv, PortsCurrent, Late
  <2>4. QED
    BY <2>1, <2>2, <2>3
<1>7. QED
  BY <1>1, <1>2, <1>3, <1>5, <1>6 DEF WriteInv

LEMMA WriteNext == MarginSuffices /\ OrderlyInv /\ [Next]_vars => OrderlyInv'
<1> SUFFICES ASSUME MarginSuffices, OrderlyInv, [Next]_vars, orderly' PROVE WriteInv'
  BY DEF OrderlyInv
<1>1. orderly
  BY DEF Next, ClockEdge, Tick, MemTick, ReadEmptyFront, Settle, Orderly, requests, vars
<1>2. WriteInv
  BY <1>1 DEF OrderlyInv
\* There is an address for the data: MemTick is defined.
<1>3. ~ReadEmptyFront
  <2>1. Len(wQ) <= Len(awQ) /\ wQ \in Seq(Nat) /\ awQ \in Seq(WriteWords)
    BY <1>2 DEF WriteInv, WriteTypes, NumberInv, WLen
  <2>2. awQ = <<>> => wQ = <<>>
    BY <2>1
  <2>3. QED
    BY <2>2 DEF ReadEmptyFront, AddressMissing, Kind
<1>4. QED
  BY <1>2, <1>3, WriteTick, WriteMemTick, WriteOther DEF Next

\* While requests are orderly, no write request that the adapter puts on the port is
\* lost, whichever thread runs first, if the margin is at least 3 (2 if Tick runs
\* before MemTick): what Tick tests may be two writes past what the ready ports were
\* computed from.
THEOREM NoWriteIsLost ==
  ASSUME MarginSuffices
  PROVE  Spec => []WritesFit
<1>1. MarginSuffices
  OBVIOUS
<1>2. OrderlyInv /\ [Next]_vars => OrderlyInv'
  BY <1>1, WriteNext
<1>3. OrderlyInv => WritesFit
  BY <1>1, RequestsFit DEF WritesFit, OrderlyInv
<1>4. Init => OrderlyInv
  BY WriteInit DEF OrderlyInv
<1>5. QED
  BY <1>2, <1>3, <1>4, PTL DEF Spec

\* As long as the NoC has let no data overtake its address and no burst was longer
\* than the margin, each word of data leaves its queue with the address of its own
\* number, and MemTick never takes the front of an empty address queue.
THEOREM DataMeetsItsAddress ==
  ASSUME MarginSuffices
  PROVE  Spec => []DataMeetsAddress
<1>1. OrderlyInv /\ [Next]_vars => OrderlyInv'
  BY WriteNext
<1>2. OrderlyInv => DataMeetsAddress
  <2> SUFFICES ASSUME OrderlyInv, orderly PROVE DataMeetsAddress
    BY DEF DataMeetsAddress
  <2>1. WriteInv
    BY DEF OrderlyInv
  <2>2. Len(wQ) \in Nat /\ Len(awQ) \in Nat /\ Len(wQ) <= Len(awQ)
    BY <2>1 DEF WriteInv, WriteTypes, NumberInv, WLen
  <2>3. QED
    BY <2>1, <2>2 DEF WriteInv, NumberInv, DataMeetsAddress
<1>3. Init => OrderlyInv
  BY WriteInit DEF OrderlyInv
<1>4. QED
  BY <1>1, <1>2, <1>3, PTL DEF Spec
=============================================================================
