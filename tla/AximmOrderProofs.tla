-------------------------- MODULE AximmOrderProofs --------------------------
(***************************************************************************)
(* The order of the transactions of AximmPath: from the handshake with one *)
(* adapter to the port of the other, the flits of a type carry consecutive *)
(* numbers.  That needs the phase of the clocks, since the packetization   *)
(* of a slave or master adapter counts the adapter cycles of a node cycle, *)
(* and the modules at both ends, since they hold a transaction until its   *)
(* handshake.                                                              *)
(***************************************************************************)
EXTENDS AximmPathProofs

\* The clock of a module has a whole number of adapter cycles to a cycle, at least
\* two: with one, a transaction captured at an edge is lost.  _packetization_cycle,
\* a uint8_t, counts them.
WholePeriods ==
  \A c \in {"req", "rsp"} : \E k \in 2 .. 256 : Period[c] = k * Period["adapter"]

\* The responder's FIFOs have room for all commands, so that its ready stays high.
RoomEnough == MaxCommands < RespFifoDepth

(***************************************************************************)
(* Sequences of flits by the numbers of their transactions.                *)
(***************************************************************************)
\* The number that the next flit of the type has.
After(f) == IF f.tail THEN f.tx.id + 1 ELSE f.tx.id

Places(q, t) == {k \in 1 .. Len(q) : q[k].tx.type = t}

\* The flits of type t in q belong to the transactions from i up to j.
Numbers(q, t, i, j) ==
  /\ i \in Nat /\ j \in Nat /\ i <= j
  /\ \A k \in Places(q, t) : i <= q[k].tx.id /\ After(q[k]) <= j
  /\ \A k, l \in Places(q, t) : k < l => After(q[k]) <= q[l].tx.id
  /\ \A n \in i .. j - 1 : \E k \in Places(q, t) : q[k].tail /\ q[k].tx.id = n

Below(q, t, j) == \A k \in Places(q, t) : q[k].tx.id < j

Ordered(q) ==
  \A k, l \in 1 .. Len(q) :
    k < l /\ q[k].tx.type = q[l].tx.type =>
      \/ q[k].tx.id < q[l].tx.id
      \/ q[k].tx.id = q[l].tx.id /\ q[k].seq < q[l].seq

\* The number that comes after f for type t, when i was due before it.
Past(f, t, i) == IF f.tx.type = t THEN After(f) ELSE i

Tracked(T) == \A f \in T : f.tx.id \in Nat /\ f.tail \in BOOLEAN

LEMMA NumbersEmpty ==
  ASSUME NEW t, NEW i \in Nat
  PROVE  Numbers(<<>>, t, i, i)
<1>1. Places(<<>>, t) = {}
  BY DEF Places
<1>2. i .. i - 1 = {}
  OBVIOUS
<1>3. QED
  BY <1>1, <1>2 DEF Numbers

LEMMA NumbersNone ==
  ASSUME NEW t, NEW i, NEW j, Numbers(<<>>, t, i, j)
  PROVE  i = j
<1>1. Places(<<>>, t) = {} /\ i \in Nat /\ j \in Nat /\ i <= j
  BY DEF Places, Numbers
<1>2. i < j => i \in i .. j - 1
  BY <1>1
<1>3. QED
  BY <1>1, <1>2 DEF Numbers

LEMMA NumbersAppend ==
  ASSUME NEW T, Tracked(T), NEW q \in Seq(T), NEW f \in T, NEW t, NEW i, NEW j,
         Numbers(q, t, i, j), f.tx.type = t => f.tx.id = j
  PROVE  Numbers(Append(q, f), t, i, Past(f, t, j))
<1>1. /\ Len(q) \in Nat /\ Len(Append(q, f)) = Len(q) + 1
      /\ \A k \in 1 .. Len(q) : Append(q, f)[k] = q[k] /\ q[k] \in T
      /\ Append(q, f)[Len(q) + 1] = f
  BY Appended
<1>2. PICK p : p = Append(q, f)
  OBVIOUS
<1>3. /\ i \in Nat /\ j \in Nat /\ i <= j
      /\ \A k \in Places(q, t) : i <= q[k].tx.id /\ After(q[k]) <= j
      /\ \A k, l \in Places(q, t) : k < l => After(q[k]) <= q[l].tx.id
      /\ \A n \in i .. j - 1 : \E k \in Places(q, t) : q[k].tail /\ q[k].tx.id = n
  BY DEF Numbers
<1>4. \A k \in Places(q, t) : k \in 1 .. Len(q) /\ p[k] = q[k] /\ k < Len(q) + 1
                             /\ After(q[k]) \in Nat
  BY <1>1, <1>2 DEF Places, After, Tracked
<1>5. CASE f.tx.type # t
  <2>1. Places(p, t) = Places(q, t)
    BY <1>1, <1>2, <1>5 DEF Places
  <2>2. Past(f, t, j) = j
    BY <1>5 DEF Past
  <2>3. QED
    BY <1>2, <1>3, <1>4, <2>1, <2>2 DEF Numbers
<1>6. CASE f.tx.type = t
  <2>1. Places(p, t) = Places(q, t) \cup {Len(q) + 1}
    BY <1>1, <1>2, <1>6 DEF Places
  <2>2. /\ Past(f, t, j) = After(f) /\ f.tx.id = j /\ f.tail \in BOOLEAN
        /\ After(f) = (IF f.tail THEN j + 1 ELSE j)
    BY <1>6 DEF Past, After, Tracked
  <2>3. \A k \in Places(p, t) : i <= p[k].tx.id /\ After(p[k]) <= After(f)
    BY <1>1, <1>2, <1>3, <1>4, <2>1, <2>2
  <2>4. ASSUME NEW k \in Places(p, t), NEW l \in Places(p, t), k < l
        PROVE  After(p[k]) <= p[l].tx.id
    <3>1. k \in Places(q, t) /\ p[k] = q[k]
      BY <1>1, <1>4, <2>1, <2>4
    <3>2. CASE l \in Places(q, t)
      BY <1>3, <1>4, <2>4, <3>1, <3>2
    <3>3. CASE l = Len(q) + 1
      BY <1>1, <1>2, <1>3, <2>2, <3>1, <3>3
    <3>4. QED
      BY <2>1, <3>2, <3>3
  <2>5. ASSUME NEW n \in i .. After(f) - 1
        PROVE  \E k \in Places(p, t) : p[k].tail /\ p[k].tx.id = n
    <3>1. CASE n = j
      <4>1. f.tail
        BY <1>3, <2>2, <3>1
      <4>2. Len(q) + 1 \in Places(p, t) /\ p[Len(q) + 1] = f
        BY <1>1, <1>2, <2>1
      <4>3. QED
        BY <2>2, <3>1, <4>1, <4>2
    <3>2. CASE n # j
      <4>1. n \in i .. j - 1
        BY <1>3, <2>2, <3>2
      <4>2. PICK k \in Places(q, t) : q[k].tail /\ q[k].tx.id = n
        BY <1>3, <4>1
      <4>3. QED
        BY <1>4, <2>1, <4>2
    <3>3. QED
      BY <3>1, <3>2
  <2>6. After(f) \in Nat /\ i <= After(f)
    BY <1>3, <2>2
  <2>7. Numbers(p, t, i, After(f))
    <3>1. \A k, l \in Places(p, t) : k < l => After(p[k]) <= p[l].tx.id
      BY <2>4
    <3> HIDE DEF Places
    <3>2. QED
      BY <1>3, <2>3, <2>5, <2>6, <3>1 DEF Numbers
  <2>8. QED
    BY <1>2, <2>2, <2>7
<1>7. QED
  BY <1>5, <1>6

LEMMA NumbersTail ==
  ASSUME NEW T, Tracked(T), NEW q \in Seq(T), q # <<>>, NEW t, NEW i, NEW j,
         Numbers(q, t, i, j)
  PROVE  /\ Head(q).tx.type = t => Head(q).tx.id = i
         /\ Numbers(Tail(q), t, Past(Head(q), t, i), j)
<1>1. /\ Head(q) \in T /\ Tail(q) \in Seq(T) /\ Len(q) \in Nat \ {0}
      /\ q[1] = Head(q) /\ Len(Tail(q)) = Len(q) - 1
      /\ \A k \in 1 .. Len(q) - 1 : Tail(q)[k] = q[k + 1]
      /\ \A k \in 1 .. Len(q) : q[k] \in T
  BY HeadTail
<1>2. PICK p, f : p = Tail(q) /\ f = Head(q)
  OBVIOUS
<1>3. /\ i \in Nat /\ j \in Nat /\ i <= j
      /\ \A k \in Places(q, t) : i <= q[k].tx.id /\ After(q[k]) <= j
      /\ \A k, l \in Places(q, t) : k < l => After(q[k]) <= q[l].tx.id
      /\ \A n \in i .. j - 1 : \E k \in Places(q, t) : q[k].tail /\ q[k].tx.id = n
  BY DEF Numbers
<1>4. \A k \in Places(p, t) : k \in Nat \ {0} /\ k + 1 \in Places(q, t) /\ p[k] = q[k + 1]
  BY <1>1, <1>2 DEF Places
<1>5. \A k \in Places(q, t) : k = 1 \/ (k - 1 \in Places(p, t) /\ p[k - 1] = q[k])
  BY <1>1, <1>2 DEF Places
<1>6. \A k \in Places(q, t) : k \in 1 .. Len(q) /\ q[k].tx.id \in Nat /\ q[k].tail \in BOOLEAN
                             /\ After(q[k]) = IF q[k].tail THEN q[k].tx.id + 1 ELSE q[k].tx.id
  BY <1>1 DEF Places, Tracked, After
<1>7. CASE f.tx.type # t
  <2>1. 1 \notin Places(q, t) /\ Past(f, t, i) = i
    BY <1>1, <1>2, <1>7 DEF Places, Past
  <2>2. ASSUME NEW n \in i .. j - 1
        PROVE  \E k \in Places(p, t) : p[k].tail /\ p[k].tx.id = n
    <3>1. PICK k \in Places(q, t) : q[k].tail /\ q[k].tx.id = n
      BY <1>3
    <3>2. QED
      BY <1>5, <2>1, <3>1
  <2>3. \A k, l \in Places(p, t) : k < l => After(p[k]) <= p[l].tx.id
    BY <1>3, <1>4
  <2>4. \A k \in Places(p, t) : i <= p[k].tx.id /\ After(p[k]) <= j
    BY <1>3, <1>4
  <2>5. Numbers(p, t, i, j)
    BY <1>3, <2>2, <2>3, <2>4 DEF Numbers
  <2>6. QED
    BY <1>2, <1>7, <2>1, <2>5
<1>8. CASE f.tx.type = t
  <2>1. 1 \in Places(q, t) /\ q[1] = f /\ Past(f, t, i) = After(f)
    BY <1>1, <1>2, <1>8 DEF Places, Past
  <2>2. \A k \in Places(p, t) : After(f) <= p[k].tx.id /\ After(p[k]) <= j
    BY <1>3, <1>4, <2>1
  <2>3. f.tx.id = i
    <3>1. CASE i = j
      BY <1>3, <1>6, <2>1, <3>1
    <3>2. CASE i < j
      <4>1. i \in i .. j - 1
        BY <1>3, <3>2
      <4>2. PICK k \in Places(q, t) : q[k].tail /\ q[k].tx.id = i
        BY <1>3, <4>1
      <4>3. CASE k = 1
        BY <2>1, <4>2, <4>3
      <4>4. CASE k # 1
        <5>1. 1 < k
          BY <1>6, <4>4
        <5>2. After(q[1]) <= q[k].tx.id
          BY <1>3, <2>1, <5>1
        <5>3. /\ i <= f.tx.id /\ f.tx.id \in Nat /\ f.tail \in BOOLEAN
              /\ After(f) = (IF f.tail THEN f.tx.id + 1 ELSE f.tx.id)
          BY <1>3, <1>6, <2>1
        <5>4. After(f) <= i
          BY <2>1, <4>2, <5>2
        <5>5. QED
          BY <1>3, <5>3, <5>4
      <4>5. QED
        BY <4>3, <4>4
    <3>3. QED
      BY <1>3, <3>1, <3>2
  <2>4. /\ After(f) = (IF f.tail THEN i + 1 ELSE i) /\ After(f) \in Nat /\ After(f) <= j
        /\ f.tail \in BOOLEAN
    BY <1>3, <1>6, <2>1, <2>3
  <2>5. ASSUME NEW n \in After(f) .. j - 1
        PROVE  \E k \in Places(p, t) : p[k].tail /\ p[k].tx.id = n
    <3>1. n \in i .. j - 1
      BY <1>3, <2>4
    <3>2. PICK k \in Places(q, t) : q[k].tail /\ q[k].tx.id = n
      BY <1>3, <3>1
    <3>3. k # 1
      BY <2>1, <2>3, <2>4, <3>2
    <3>4. QED
      BY <1>5, <3>2, <3>3
  <2>6. \A k, l \in Places(p, t) : k < l => After(p[k]) <= p[l].tx.id
    BY <1>3, <1>4
  <2>7. Numbers(p, t, After(f), j)
    BY <1>3, <2>2, <2>4, <2>5, <2>6 DEF Numbers
  <2>8. QED
    BY <1>2, <2>1, <2>3, <2>7
<1>9. QED
  BY <1>7, <1>8

\* One packet: the flits of the transaction x.
PacketOf(p, x) ==
  /\ Len(p) \in 1 .. 255
  /\ \A k \in 1 .. Len(p) : p[k].tx = x /\ p[k].seq = k - 1 /\ p[k].tail = (k = Len(p))

LEMMA MadePacket ==
  ASSUME NEW S, NEW a, NEW old, Input(old, S), Starts(a, old)
  PROVE  PacketOf(Made(a, old), old.iReg) /\ old.iReg \in TxOf(S)
<1>1. PICK x \in TxOf(S) : x = old.iReg
  BY DEF Starts, Input
<1>2. PICK n \in 1 .. 255 : n = NumFlits[x.type]
  <2>1. x.type \in Types
    BY TxFields
  <2>2. QED
    BY <2>1, AximmAssumption
<1>3. PICK p : p = [k \in 1 .. n |-> FlitOf(x, k - 1)]
  OBVIOUS
<1>4. Made(a, old) = p
  BY <1>1, <1>2, <1>3 DEF Made
<1>7. Len(p) = n
  BY <1>3
<1>5. ASSUME NEW k \in 1 .. n
      PROVE  p[k].tx = x /\ p[k].seq = k - 1 /\ p[k].tail = (k = n)
  <2>1. p[k] = FlitOf(x, k - 1)
    BY <1>3
  <2>2. FlitOf(x, k - 1).tx = x /\ FlitOf(x, k - 1).seq = k - 1
        /\ FlitOf(x, k - 1).tail = (k - 1 = n - 1)
    BY <1>2 DEF FlitOf
  <2>3. (k - 1 = n - 1) = (k = n)
    OBVIOUS
  <2>4. QED
    BY <2>1, <2>2, <2>3
<1>6. QED
  BY <1>1, <1>2, <1>4, <1>5, <1>7 DEF PacketOf

\* r is q followed by p, of which q has m elements and p has n.
Follows(r, q, p, m, n) ==
  /\ m = Len(q) /\ n = Len(p) /\ Len(r) = m + n
  /\ \A k \in 1 .. m : k \in 1 .. m + n /\ r[k] = q[k]
  /\ \A k \in (m + 1) .. (m + n) : k - m \in 1 .. n /\ r[k] = p[k - m]

LEMMA Concatenated ==
  ASSUME NEW T, NEW q \in Seq(T), NEW p \in Seq(T)
  PROVE  \E r \in Seq(T), m \in Nat, n \in Nat : r = q \o p /\ Follows(r, q, p, m, n)
<1>1. PICK r, m, n : r = q \o p /\ m = Len(q) /\ n = Len(p)
  OBVIOUS
<1>2. r \in Seq(T) /\ m \in Nat /\ n \in Nat /\ Len(r) = m + n
  BY <1>1
<1>3. ASSUME NEW k \in 1 .. m
      PROVE  k \in 1 .. m + n /\ r[k] = q[k]
  BY <1>1, <1>2
<1>4. ASSUME NEW k \in (m + 1) .. (m + n)
      PROVE  k - m \in 1 .. n /\ r[k] = p[k - m]
  BY <1>1, <1>2
<1>5. QED
  BY <1>1, <1>2, <1>3, <1>4 DEF Follows

\* A packet continues the numbers of its type by one.
LEMMA NumbersPacket ==
  ASSUME NEW T, Tracked(T), NEW q \in Seq(T), NEW p \in Seq(T), NEW x, PacketOf(p, x),
         NEW t, NEW i, NEW j, Numbers(q, t, i, j), x.type = t => x.id = j
  PROVE  Numbers(q \o p, t, i, j + Count(x.type = t))
<1>1. PICK r \in Seq(T), m \in Nat, n \in Nat : r = q \o p /\ Follows(r, q, p, m, n)
  BY Concatenated
<1>2. m = Len(q) /\ n = Len(p) /\ n \in 1 .. 255
  BY <1>1 DEF PacketOf, Follows
<1>3. /\ \A k \in 1 .. m : k \in 1 .. m + n /\ r[k] = q[k]
      /\ \A k \in (m + 1) .. (m + n) : k - m \in 1 .. n /\ r[k] = p[k - m]
      /\ Len(r) = m + n
  BY <1>1 DEF Follows
<1>4. \A k \in 1 .. n : p[k].tx = x /\ p[k].tail = (k = n)
  BY <1>2 DEF PacketOf
<1>5. /\ i \in Nat /\ j \in Nat /\ i <= j
      /\ \A k \in Places(q, t) : i <= q[k].tx.id /\ After(q[k]) <= j
      /\ \A k, l \in Places(q, t) : k < l => After(q[k]) <= q[l].tx.id
      /\ \A d \in i .. j - 1 : \E k \in Places(q, t) : q[k].tail /\ q[k].tx.id = d
  BY DEF Numbers
<1>6. Places(q, t) \subseteq 1 .. m
  BY <1>2 DEF Places
<1>7. CASE x.type # t
  <2>1. Places(r, t) = Places(q, t)
    <3>1. \A k \in (m + 1) .. (m + n) : r[k].tx.type # t
      BY <1>3, <1>4, <1>7
    <3>2. \A k \in 1 .. m + n : k \in 1 .. m \/ k \in (m + 1) .. (m + n)
      OBVIOUS
    <3>3. QED
      BY <1>2, <1>3, <3>1, <3>2 DEF Places
  <2>2. \A k \in Places(q, t) : r[k] = q[k]
    BY <1>3, <1>6
  <2>3. Numbers(r, t, i, j)
    BY <1>5, <2>1, <2>2 DEF Numbers
  <2>4. j + Count(x.type = t) = j
    BY <1>5, <1>7 DEF Count
  <2>5. QED
    BY <1>1, <2>3, <2>4
<1>8. CASE x.type = t
  <2>1. x.id = j /\ j + Count(x.type = t) = j + 1
    BY <1>5, <1>8 DEF Count
  <2>2. Places(r, t) = Places(q, t) \cup (m + 1) .. (m + n)
    <3>1. \A k \in (m + 1) .. (m + n) : r[k].tx.type = t
      BY <1>3, <1>4, <1>8
    <3>2. \A k \in 1 .. m + n : k \in 1 .. m \/ k \in (m + 1) .. (m + n)
      OBVIOUS
    <3>3. \A k \in (m + 1) .. (m + n) : k \in 1 .. m + n
      OBVIOUS
    <3>4. QED
      BY <1>2, <1>3, <3>1, <3>2, <3>3 DEF Places
  <2>3. \A k \in Places(q, t) : r[k] = q[k] /\ k \in 1 .. m /\ k < m + 1 /\ After(q[k]) \in Nat
    <3>1. SUFFICES ASSUME NEW k \in Places(q, t)
                   PROVE  r[k] = q[k] /\ k \in 1 .. m /\ k < m + 1 /\ After(q[k]) \in Nat
      OBVIOUS
    <3>2. k \in 1 .. m /\ q[k] \in T
      BY <1>2, <1>6, SMTT(20)
    <3>3. After(q[k]) \in Nat
      BY <3>2 DEF Tracked, After
    <3>4. QED
      BY <1>3, <3>2, <3>3
  <2>4. \A k \in (m + 1) .. (m + n) : r[k].tx.id = j /\ r[k].tail = (k = m + n)
    <3>1. SUFFICES ASSUME NEW k \in (m + 1) .. (m + n)
                   PROVE  r[k].tx.id = j /\ r[k].tail = (k = m + n)
      OBVIOUS
    <3>2. r[k] = p[k - m] /\ k - m \in 1 .. n
      BY <1>3
    <3>3. p[k - m].tx = x /\ p[k - m].tail = (k - m = n)
      BY <1>4, <3>2
    <3>4. (k - m = n) = (k = m + n)
      OBVIOUS
    <3>5. QED
      BY <2>1, <3>2, <3>3, <3>4
  <2>5. \A k \in (m + 1) .. (m + n) : After(r[k]) = IF k = m + n THEN j + 1 ELSE j
    BY <2>4 DEF After
  <2>6. \A k \in Places(r, t) : i <= r[k].tx.id /\ After(r[k]) <= j + 1
    <3>1. SUFFICES ASSUME NEW k \in Places(r, t)
                   PROVE  i <= r[k].tx.id /\ After(r[k]) <= j + 1
      OBVIOUS
    <3>2. CASE k \in Places(q, t)
      BY <1>5, <2>3, <3>2, SMTT(20)
    <3>3. CASE k \in (m + 1) .. (m + n)
      <4>1. After(r[k]) \in {j, j + 1} /\ r[k].tx.id = j
        BY <2>4, <2>5, <3>3
      <4>2. QED
        BY <1>5, <4>1
    <3>4. QED
      BY <2>2, <3>1, <3>2, <3>3
  <2>7. ASSUME NEW k \in Places(r, t), NEW l \in Places(r, t), k < l
        PROVE  After(r[k]) <= r[l].tx.id
    <3>1. CASE k \in Places(q, t) /\ l \in Places(q, t)
      BY <1>5, <2>3, <2>7, <3>1
    <3>2. CASE k \in Places(q, t) /\ l \in (m + 1) .. (m + n)
      BY <1>5, <2>3, <2>4, <3>2
    <3>3. CASE k \in (m + 1) .. (m + n)
      <4>1. l \in (m + 1) .. (m + n) /\ k # m + n
        BY <2>2, <2>3, <2>7, <3>3
      <4>2. QED
        BY <1>5, <2>4, <2>5, <3>3, <4>1
    <3>4. QED
      BY <2>2, <3>1, <3>2, <3>3
  <2>8. ASSUME NEW d \in i .. j
        PROVE  \E k \in Places(r, t) : r[k].tail /\ r[k].tx.id = d
    <3>1. CASE d = j
      <4>1. m + n \in (m + 1) .. (m + n)
        BY <1>2, SMTT(20)
      <4>2. r[m + n].tx.id = j /\ r[m + n].tail /\ m + n \in Places(r, t)
        BY <2>2, <2>4, <4>1
      <4>3. QED
        BY <3>1, <4>2
    <3>2. CASE d # j
      <4>1. d \in i .. j - 1
        BY <1>5, <3>2
      <4>2. QED
        BY <1>5, <2>2, <2>3, <4>1
    <3>3. QED
      BY <3>1, <3>2
  <2>9. Numbers(r, t, i, j + 1)
    <3>1. \A k, l \in Places(r, t) : k < l => After(r[k]) <= r[l].tx.id
      BY <2>7
    <3>2. (j + 1) - 1 = j /\ j + 1 \in Nat /\ i <= j + 1
      BY <1>5
    <3>3. QED
      BY <1>5, <2>6, <2>8, <3>1, <3>2 DEF Numbers
  <2>10. QED
    BY <1>1, <2>1, <2>9
<1>9. QED
  BY <1>7, <1>8

LEMMA OrderedPacket ==
  ASSUME NEW T, NEW q \in Seq(T), NEW p \in Seq(T), NEW x, PacketOf(p, x), Ordered(q),
         Below(q, x.type, x.id)
  PROVE  Ordered(q \o p)
<1>1. PICK r \in Seq(T), m \in Nat, n \in Nat : r = q \o p /\ Follows(r, q, p, m, n)
  BY Concatenated
<1>2. m = Len(q) /\ n = Len(p) /\ n \in 1 .. 255
  BY <1>1 DEF PacketOf, Follows
<1>3. /\ \A k \in 1 .. m : k \in 1 .. m + n /\ r[k] = q[k]
      /\ \A k \in (m + 1) .. (m + n) : k - m \in 1 .. n /\ r[k] = p[k - m]
      /\ Len(r) = m + n
  BY <1>1 DEF Follows
<1>4. \A k \in 1 .. n : p[k].tx = x /\ p[k].seq = k - 1
  BY <1>2 DEF PacketOf
<1>5. SUFFICES ASSUME NEW k \in 1 .. m + n, NEW l \in 1 .. m + n, k < l,
                      r[k].tx.type = r[l].tx.type
               PROVE  \/ r[k].tx.id < r[l].tx.id
                      \/ r[k].tx.id = r[l].tx.id /\ r[k].seq < r[l].seq
  <2>1. ASSUME \A k, l \in 1 .. m + n : k < l /\ r[k].tx.type = r[l].tx.type =>
                 r[k].tx.id < r[l].tx.id \/ (r[k].tx.id = r[l].tx.id /\ r[k].seq < r[l].seq)
        PROVE  Ordered(r)
    BY <1>3, <2>1 DEF Ordered
  <2>2. QED
    BY <1>1, <2>1
<1>9. \A c, d \in 1 .. m : c < d /\ q[c].tx.type = q[d].tx.type =>
        q[c].tx.id < q[d].tx.id \/ (q[c].tx.id = q[d].tx.id /\ q[c].seq < q[d].seq)
  BY <1>2 DEF Ordered
<1>6. CASE l \in 1 .. m
  <2>1. k \in 1 .. m
    BY <1>5, <1>6
  <2>2. r[k] = q[k] /\ r[l] = q[l]
    BY <1>3, <1>6, <2>1
  <2>3. QED
    BY <1>5, <1>6, <1>9, <2>1, <2>2
<1>7. CASE l \notin 1 .. m
  <2>4. l \in (m + 1) .. (m + n)
    BY <1>5, <1>7
  <2>5. r[l] = p[l - m] /\ l - m \in 1 .. n
    BY <1>3, <2>4
  <2>1. r[l].tx = x /\ r[l].seq = (l - m) - 1
    BY <1>4, <2>5
  <2>2. CASE k \in 1 .. m
    <3>1. r[k] = q[k] /\ k \in Places(q, x.type)
      BY <1>2, <1>3, <1>5, <2>1, <2>2 DEF Places
    <3>2. QED
      BY <2>1, <3>1 DEF Below
  <2>3. CASE k \notin 1 .. m
    <3>2. k \in (m + 1) .. (m + n)
      BY <1>5, <2>3
    <3>3. r[k] = p[k - m] /\ k - m \in 1 .. n
      BY <1>3, <3>2
    <3>1. r[k].tx = x /\ r[k].seq = (k - m) - 1
      BY <1>4, <3>3
    <3>4. QED
      BY <1>5, <2>1, <2>4, <3>1, <3>2
  <2>6. QED
    BY <2>2, <2>3
<1>8. QED
  BY <1>6, <1>7

LEMMA BelowPacket ==
  ASSUME NEW T, Tracked(T), NEW q \in Seq(T), NEW p \in Seq(T), NEW x, PacketOf(p, x), NEW t,
         NEW j \in Nat, Below(q, t, j), x.type = t => x.id = j
  PROVE  Below(q \o p, t, j + Count(x.type = t))
<1>1. PICK r \in Seq(T), m \in Nat, n \in Nat : r = q \o p /\ Follows(r, q, p, m, n)
  BY Concatenated
<1>2. m = Len(q) /\ n = Len(p) /\ n \in 1 .. 255
  BY <1>1 DEF PacketOf, Follows
<1>3. /\ \A k \in 1 .. m : k \in 1 .. m + n /\ r[k] = q[k]
      /\ \A k \in (m + 1) .. (m + n) : k - m \in 1 .. n /\ r[k] = p[k - m]
      /\ Len(r) = m + n
  BY <1>1 DEF Follows
<1>7. \A k \in 1 .. m : q[k] \in T
  BY <1>2, SMTT(20)
<1>4. \A k \in 1 .. n : p[k].tx = x
  BY <1>2 DEF PacketOf
<1>5. ASSUME NEW k \in Places(r, t) PROVE r[k].tx.id < j + Count(x.type = t)
  <2>1. k \in 1 .. m + n /\ r[k].tx.type = t
    BY <1>3 DEF Places
  <2>2. CASE k \in 1 .. m
    <3>1. k \in Places(q, t) /\ r[k] = q[k] /\ q[k].tx.id \in Nat
      BY <1>2, <1>3, <1>7, <2>1, <2>2 DEF Places, Tracked
    <3>2. q[k].tx.id < j
      BY <3>1 DEF Below
    <3>3. QED
      BY <3>1, <3>2 DEF Count
  <2>3. CASE k \notin 1 .. m
    <3>1. r[k].tx = x
      BY <1>3, <1>4, <2>1, <2>3
    <3>2. QED
      BY <2>1, <3>1 DEF Count
  <2>4. QED
    BY <2>2, <2>3
<1>6. QED
  BY <1>1, <1>5 DEF Below

LEMMA OrderedTail ==
  ASSUME NEW T, NEW q \in Seq(T), q # <<>>
  PROVE  /\ Ordered(q) => Ordered(Tail(q))
         /\ \A t, j : Below(q, t, j) => Below(Tail(q), t, j)
<1>1. /\ Len(q) \in Nat \ {0} /\ Len(Tail(q)) = Len(q) - 1
      /\ \A k \in 1 .. Len(q) - 1 : Tail(q)[k] = q[k + 1]
  BY HeadTail
<1>2. PICK p : p = Tail(q)
  OBVIOUS
<1>3. \A k \in 1 .. Len(p) : k + 1 \in 1 .. Len(q) /\ p[k] = q[k + 1]
  BY <1>1, <1>2
<1>4. ASSUME Ordered(q) PROVE Ordered(p)
  <2>1. SUFFICES ASSUME NEW k \in 1 .. Len(p), NEW l \in 1 .. Len(p), k < l,
                        p[k].tx.type = p[l].tx.type
                 PROVE  \/ p[k].tx.id < p[l].tx.id
                        \/ p[k].tx.id = p[l].tx.id /\ p[k].seq < p[l].seq
    BY DEF Ordered
  <2>2. k + 1 < l + 1
    BY <1>1, <1>2, <2>1
  <2>3. PICK c \in 1 .. Len(q), d \in 1 .. Len(q) : c = k + 1 /\ d = l + 1
    BY <1>3, <2>1
  <2>4. p[k] = q[c] /\ p[l] = q[d] /\ c < d
    BY <1>3, <2>1, <2>2, <2>3
  <2>5. \/ q[c].tx.id < q[d].tx.id
        \/ q[c].tx.id = q[d].tx.id /\ q[c].seq < q[d].seq
    BY <1>4, <2>1, <2>4 DEF Ordered
  <2>6. QED
    BY <2>4, <2>5
<1>5. ASSUME NEW t, NEW j, Below(q, t, j) PROVE Below(p, t, j)
  BY <1>3, <1>5 DEF Below, Places
<1>6. QED
  BY <1>2, <1>4, <1>5

LEMMA OrderedOnce ==
  ASSUME NEW S, NEW q \in Seq(FlitsOf(S)), Ordered(q)
  PROVE  MadeOnce(q)
<1>1. \A k \in 1 .. Len(q) : q[k].tx.id \in Nat /\ q[k].seq \in Nat
  <2>1. \A k \in 1 .. Len(q) : q[k] \in FlitsOf(S)
    OBVIOUS
  <2>2. QED
    BY <2>1 DEF FlitsOf, Flits, Transactions
<1>2. SUFFICES ASSUME NEW j \in 1 .. Len(q), NEW k \in 1 .. Len(q), q[j] = q[k], j < k
               PROVE  FALSE
  BY DEF MadeOnce
<1>3. q[j].tx.type = q[k].tx.type
  BY <1>2
<1>4. \/ q[j].tx.id < q[k].tx.id
      \/ q[j].tx.id = q[k].tx.id /\ q[j].seq < q[k].seq
  BY <1>2, <1>3 DEF Ordered
<1>5. QED
  BY <1>1, <1>2, <1>4

LEMMA FlitsTracked == \A S : Tracked(FlitsOf(S))
BY DEF Tracked, FlitsOf, Flits, Transactions

(***************************************************************************)
(* The clocks: an adapter edge at every period of the adapter clock, and a *)
(* node edge at every FreqRatio-th of them.                                *)
(***************************************************************************)
Idle(a, k, j) ==
  /\ a.cycle \in 0 .. 255 /\ a.numFlits \in 0 .. 255
  /\ a.iReg # NoTx => a.cycle = (k - 1) - j

\* The next edge of clock c comes j adapter periods after that of the adapters.
Timely(c, a) ==
  \E j \in 0 .. FreqRatio(c) - 1 :
    left[c] = left["adapter"] + j * Period["adapter"] /\ Idle(a, FreqRatio(c), j)

TimeOk == left["adapter"] \in {0, Period["adapter"]} /\ Timely("req", slave) /\ Timely("rsp", master)

LEMMA Quotient ==
  ASSUME NEW p \in Nat \ {0}, NEW k \in Nat
  PROVE  (k * p) \div p = k
<1>1. PICK q \in Int, r \in 0 .. p - 1 : q = (k * p) \div p /\ r = (k * p) % p
  OBVIOUS
<1>2. k * p = p * q + r
  BY <1>1
<1>3. PICK d \in Int : d = k - q
  OBVIOUS
<1>4. p * d = r
  BY <1>2, <1>3
<1>5. d = 0
  <2>1. CASE d >= 1
    <3>1. p * d = p + p * (d - 1) /\ d - 1 \in Nat
      BY <2>1
    <3>2. p * (d - 1) \in Nat
      BY <3>1
    <3>3. QED
      BY <1>4, <3>1, <3>2
  <2>2. CASE d <= -1
    <3>1. PICK e \in Nat : d = -1 - e
      BY <2>2
    <3>2. p * d = -p - p * e /\ p * e \in Nat
      BY <3>1
    <3>3. QED
      BY <1>4, <3>2
  <2>3. QED
    BY <2>1, <2>2
<1>6. QED
  BY <1>1, <1>3, <1>5

LEMMA Ratios ==
  ASSUME WholePeriods, NEW c \in {"req", "rsp"}
  PROVE  /\ FreqRatio(c) \in 2 .. 256 /\ Period["adapter"] \in Nat \ {0}
         /\ Period[c] = FreqRatio(c) * Period["adapter"]
<1>1. PICK p \in Nat \ {0} : p = Period["adapter"]
  BY PathAssumption DEF Clocks
<1>2. PICK k \in 2 .. 256 : Period[c] = k * p
  BY <1>1 DEF WholePeriods
<1>3. FreqRatio(c) = k
  BY <1>1, <1>2, Quotient DEF FreqRatio
<1>4. QED
  BY <1>1, <1>2, <1>3

LEMMA DueNow ==
  ASSUME WholePeriods, TimeOk
  PROVE  /\ Step = left["adapter"] /\ "adapter" \in Due
         /\ \A c \in Clocks : c \in Due <=> left[c] = left["adapter"]
<1>1. PICK p, l \in Nat : p # 0 /\ p = Period["adapter"] /\ l = left["adapter"] /\ l \in {0, p}
  BY PathAssumption DEF TimeOk, Clocks
<1>2. ASSUME NEW c \in {"req", "rsp"}
      PROVE  left[c] \in Nat /\ l <= left[c]
  <2>1. PICK k \in 2 .. 256 : k = FreqRatio(c)
    BY Ratios
  <2>2. PICK j \in 0 .. k - 1 : left[c] = l + j * p
    BY <1>1, <2>1 DEF TimeOk, Timely
  <2>3. j * p \in Nat
    BY <2>2
  <2>4. QED
    BY <2>2, <2>3
<1>3. \A c \in Clocks : left[c] \in Nat /\ l <= left[c]
  BY <1>1, <1>2 DEF Clocks
<1>4. l \in {left[c] : c \in Clocks}
  BY <1>1 DEF Clocks
<1>5. PICK s : s = Step
  OBVIOUS
<1>6. s \in {left[c] : c \in Clocks} /\ \A c \in Clocks : s <= left[c]
  BY <1>3, <1>4, <1>5 DEF Step
<1>7. s = l
  BY <1>1, <1>3, <1>6 DEF Clocks
<1>8. QED
  BY <1>1, <1>5, <1>7 DEF Due, Clocks

LEMMA NextEdges ==
  ASSUME WholePeriods, TimeOk, FabricEdge
  PROVE  /\ left'["adapter"] = Period["adapter"]
         /\ \A c \in {"req", "rsp"} : \A j \in 0 .. FreqRatio(c) - 1 :
              left[c] = left["adapter"] + j * Period["adapter"] =>
                /\ c \in Due <=> j = 0
                /\ left'[c] = Period["adapter"]
                     + (IF j = 0 THEN FreqRatio(c) - 1 ELSE j - 1) * Period["adapter"]
<1>1. PICK p, l \in Nat : p # 0 /\ p = Period["adapter"] /\ l = left["adapter"] /\ l \in {0, p}
  BY PathAssumption DEF TimeOk, Clocks
<1>2. /\ Step = l /\ "adapter" \in Due
      /\ \A c \in Clocks : c \in Due <=> left[c] = l
  BY <1>1, DueNow
<1>3. \A c \in Clocks : left'[c] = IF c \in Due THEN Period[c] ELSE left[c] - l
  BY <1>2 DEF FabricEdge
<1>4. ASSUME NEW c \in {"req", "rsp"}, NEW j \in 0 .. FreqRatio(c) - 1, left[c] = l + j * p
      PROVE  /\ c \in Due <=> j = 0
             /\ left'[c] = p + (IF j = 0 THEN FreqRatio(c) - 1 ELSE j - 1) * p
  <2>1. PICK k \in 2 .. 256 : k = FreqRatio(c) /\ Period[c] = k * p
    BY <1>1, Ratios
  <2>2. c \in Clocks
    BY DEF Clocks
  <2>3. CASE j = 0
    <3>1. left[c] = l
      BY <1>1, <1>4, <2>3
    <3>2. left'[c] = k * p
      BY <1>2, <1>3, <2>1, <2>2, <3>1
    <3>3. k * p = p + (k - 1) * p
      OBVIOUS
    <3>4. QED
      BY <1>2, <2>1, <2>2, <2>3, <3>1, <3>2, <3>3
  <2>4. CASE j # 0
    <3>1. j \in Nat \ {0} /\ j - 1 \in Nat
      BY <2>1, <2>4
    <3>2. PICK e \in Nat : e = (j - 1) * p
      BY <3>1
    <3>3. left[c] = l + (p + e)
      <4>1. j * p = p + e
        BY <3>1, <3>2
      <4>2. QED
        BY <1>4, <4>1
    <3>4. left[c] # l
      <4>1. p + e # 0
        BY <1>1
      <4>2. QED
        BY <3>3, <4>1
    <3>5. left'[c] = left[c] - l
      BY <1>2, <1>3, <2>2, <3>4
    <3>6. left[c] - l = p + (j - 1) * p
      BY <3>2, <3>3
    <3>7. QED
      BY <1>2, <2>2, <2>4, <3>4, <3>5, <3>6
  <2>5. QED
    BY <2>3, <2>4
<1>5. left'["adapter"] = p
  BY <1>1, <1>2, <1>3 DEF Clocks
<1>6. QED
  BY <1>1, <1>4, <1>5

(***************************************************************************)
(* The sending half: an edge makes the packet of the transaction in the    *)
(* registers, if none has been made of it, and captures another one.       *)
(***************************************************************************)
Waiting(a) == a.iReg # NoTx /\ a.cycle = 0

\* acc: the numbers accepted.  The packets of type t made so far are below this.
MadeUpTo(acc, a, t) == (acc[t] + 1) - Count(Waiting(a) /\ a.iReg.type = t)

SenderOk(acc, a, S) ==
  /\ a.iReg # NoTx => a.iReg.id = acc[a.iReg.type]
  /\ Ordered(a.injFifo)
  /\ \A t \in S : Below(a.injFifo, t, MadeUpTo(acc, a, t))

\* got: the transaction captured at this edge, if there is one.
Sends(a, b, k, j, got) ==
  /\ b.injFifo = a.injFifo \o Made(a, a) /\ b.injReg = a.injReg
  /\ b.cycle = NextCycle(a, a, k)
  /\ b.numFlits = IF Starts(a, a) THEN Len(Made(a, a)) ELSE a.numFlits
  /\ b.iReg = IF j = 0 THEN got ELSE a.iReg
  /\ got # NoTx => j = 0 /\ a.cycle = 0

Counts(acc, acc2, got, S) == \A t \in S : acc2[t] = acc[t] + Count(Shows(got, t))

\* What an edge adds to the stream.
Makes(acc, acc2, a, b, p, S) ==
  /\ b.injFifo = a.injFifo \o p /\ b.injReg = a.injReg /\ p \in Seq(FlitsOf(S))
  /\ IF Waiting(a)
     THEN /\ PacketOf(p, a.iReg) /\ a.iReg \in TxOf(S)
          /\ a.iReg.id = MadeUpTo(acc, a, a.iReg.type)
          /\ \A t \in S : MadeUpTo(acc2, b, t) = MadeUpTo(acc, a, t) + Count(a.iReg.type = t)
     ELSE p = <<>> /\ \A t \in S : MadeUpTo(acc2, b, t) = MadeUpTo(acc, a, t)

LEMMA CycleOf ==
  ASSUME NEW S, NEW a, Input(a, S), NEW k \in 2 .. 256, NEW j \in 0 .. k - 1, Idle(a, k, j),
         NEW got, NEW b, Sends(a, b, k, j, got)
  PROVE  /\ Idle(b, k, IF j = 0 THEN k - 1 ELSE j - 1)
         /\ got # NoTx => a.iReg = NoTx
         /\ Waiting(a) => j # 0
         /\ Waiting(b) <=> got # NoTx
<1>1. PICK c \in 0 .. 255, n \in 0 .. 255 : c = a.cycle /\ n = a.numFlits
  BY DEF Idle
<1>2. a.iReg # NoTx => c = (k - 1) - j
  BY <1>1 DEF Idle
<1>3. b.cycle = IF c = 0 THEN IF a.iReg # NoTx THEN 1 ELSE 0
                ELSE IF c = Limit(a, k) THEN 0 ELSE (c + 1) % 256
  BY <1>1 DEF Sends, NextCycle, Starts
<1>4. Limit(a, k) \in 0 .. 255 /\ Limit(a, k) >= k - 1
  <2>1. Limit(a, k) = (IF n >= k THEN n - 1 ELSE k - 1) % 256
    BY <1>1 DEF Limit
  <2>2. CASE n >= k
    <3>1. n - 1 \in 0 .. 255 /\ (n - 1) % 256 = n - 1
      BY <2>2
    <3>2. QED
      BY <2>1, <2>2, <3>1
  <2>3. CASE ~(n >= k)
    <3>1. k - 1 \in 0 .. 255 /\ (k - 1) % 256 = k - 1
      OBVIOUS
    <3>2. QED
      BY <2>1, <2>3, <3>1
  <2>4. QED
    BY <2>2, <2>3
<1>5. b.cycle \in 0 .. 255
  <2>1. (c + 1) % 256 \in 0 .. 255
    BY <1>1
  <2>2. QED
    BY <1>3, <2>1
<1>6. b.numFlits \in 0 .. 255
  <2>1. CASE Starts(a, a)
    <3>1. Len(Made(a, a)) \in 1 .. 255
      BY <2>1, MadePacket DEF PacketOf
    <3>2. QED
      BY <2>1, <3>1, SMTT(20) DEF Sends
  <2>2. CASE ~Starts(a, a)
    BY <1>1, <2>2 DEF Sends
  <2>3. QED
    BY <2>1, <2>2
<1>7. got # NoTx => j = 0 /\ c = 0
  BY <1>1 DEF Sends
<1>8. CASE j = 0
  <2>1. b.iReg = got
    BY <1>8 DEF Sends
  <2>2. a.iReg # NoTx => c # 0
    BY <1>2, <1>8
  <2>3. got # NoTx => a.iReg = NoTx /\ b.cycle = 0
    BY <1>3, <1>7, <2>2
  <2>4. (k - 1) - (k - 1) = 0
    OBVIOUS
  <2>5. Idle(b, k, k - 1)
    BY <1>5, <1>6, <2>1, <2>3, <2>4 DEF Idle
  <2>6. ~Waiting(a)
    BY <1>1, <2>2 DEF Waiting
  <2>7. Waiting(b) <=> got # NoTx
    BY <2>1, <2>3 DEF Waiting
  <2>8. QED
    BY <1>8, <2>3, <2>5, <2>6, <2>7
<1>9. CASE j # 0
  <2>1. b.iReg = a.iReg /\ got = NoTx
    BY <1>7, <1>9 DEF Sends
  <2>2. ASSUME a.iReg # NoTx
        PROVE  b.cycle = (k - 1) - (j - 1) /\ b.cycle # 0
    <3>1. c = (k - 1) - j /\ c < k - 1
      BY <1>2, <1>9, <2>2
    <3>2. c + 1 \in 0 .. 255 /\ (c + 1) % 256 = c + 1
      BY <3>1
    <3>3. c # Limit(a, k)
      BY <1>4, <3>1
    <3>4. b.cycle = c + 1
      BY <1>3, <2>2, <3>2, <3>3
    <3>5. QED
      BY <1>1, <3>1, <3>4
  <2>3. Idle(b, k, j - 1)
    BY <1>5, <1>6, <2>1, <2>2 DEF Idle
  <2>4. ~Waiting(b)
    BY <2>1, <2>2 DEF Waiting
  <2>5. QED
    BY <1>9, <2>1, <2>3, <2>4
<1>10. QED
  BY <1>8, <1>9
LEMMA SenderStep ==
  ASSUME NEW S \in SUBSET Types, NEW a, Input(a, S), Queued(a, S),
         NEW k \in 2 .. 256, NEW j \in 0 .. k - 1, Idle(a, k, j),
         NEW got \in TxOf(S) \cup {NoTx}, NEW b, Sends(a, b, k, j, got),
         NEW acc \in [Types -> Nat], NEW acc2, Counts(acc, acc2, got, S),
         got # NoTx => got.id = acc[got.type] + 1, SenderOk(acc, a, S)
  PROVE  SenderOk(acc2, b, S) /\ Makes(acc, acc2, a, b, Made(a, a), S)
<1>1. PICK p \in Seq(FlitsOf(S)), q \in Seq(FlitsOf(S)) : p = Made(a, a) /\ q = a.injFifo
  BY MadeType DEF Queued
<1>2. b.injFifo = q \o p /\ b.injReg = a.injReg
  BY <1>1 DEF Sends
<1>3. /\ got # NoTx => a.iReg = NoTx
      /\ Waiting(a) => j # 0
      /\ Waiting(b) <=> got # NoTx
      /\ b.iReg = IF j = 0 THEN got ELSE a.iReg
      /\ got # NoTx => j = 0
  <2>1. /\ got # NoTx => a.iReg = NoTx
        /\ Waiting(a) => j # 0
        /\ Waiting(b) <=> got # NoTx
    BY CycleOf
  <2>2. /\ b.iReg = IF j = 0 THEN got ELSE a.iReg
        /\ got # NoTx => j = 0
    BY DEF Sends
  <2>3. QED
    BY <2>1, <2>2
<1>4. \A t \in S : t \in Types /\ acc[t] \in Nat
  OBVIOUS
<1>5. \A t \in S : acc2[t] = acc[t] + Count(Shows(got, t))
  BY DEF Counts
<1>6. Ordered(q) /\ (a.iReg # NoTx => a.iReg.id = acc[a.iReg.type])
      /\ \A t \in S : Below(q, t, MadeUpTo(acc, a, t))
  BY <1>1 DEF SenderOk
<1>7. b.iReg # NoTx => b.iReg.id = acc2[b.iReg.type]
  <2>1. CASE j = 0 /\ got # NoTx
    <3>1. b.iReg = got /\ got.type \in S /\ got.id = acc[got.type] + 1
      BY <1>3, <2>1, TxFields
    <3>2. acc2[got.type] = acc[got.type] + 1
      BY <1>5, <2>1, <3>1 DEF Count, Shows
    <3>3. QED
      BY <3>1, <3>2
  <2>2. CASE j # 0 /\ a.iReg # NoTx
    <3>1. b.iReg = a.iReg /\ got = NoTx /\ a.iReg.type \in S
      BY <1>3, <2>2, TxFields DEF Input
    <3>2. acc2[a.iReg.type] = acc[a.iReg.type]
      BY <1>4, <1>5, <3>1 DEF Count, Shows
    <3>3. QED
      BY <1>6, <2>2, <3>1, <3>2
  <2>3. QED
    BY <1>3, <2>1, <2>2
<1>8. CASE Waiting(a)
  <2>1. PICK x \in TxOf(S) : x = a.iReg
    BY <1>8 DEF Waiting, Input
  <2>2. PacketOf(p, x)
    BY <1>1, <1>8, <2>1, MadePacket DEF Waiting, Starts
  <2>3. got = NoTx /\ ~Waiting(b)
    BY <1>3, <1>8 DEF Waiting
  <2>4. x.type \in S /\ x.id = acc[x.type]
    BY <1>6, <1>8, <2>1, TxFields DEF Waiting
  <2>5. \A t \in S : MadeUpTo(acc, a, t) = (acc[t] + 1) - Count(x.type = t)
    BY <1>8, <2>1 DEF MadeUpTo
  <2>6. \A t \in S : MadeUpTo(acc2, b, t) = acc[t] + 1
    BY <1>4, <1>5, <2>3 DEF MadeUpTo, Count, Shows
  <2>7. \A t \in S : MadeUpTo(acc2, b, t) = MadeUpTo(acc, a, t) + Count(x.type = t)
    BY <1>4, <2>5, <2>6 DEF Count
  <2>8. x.id = MadeUpTo(acc, a, x.type)
    BY <1>4, <2>4, <2>5 DEF Count
  <2>9. Makes(acc, acc2, a, b, p, S)
    BY <1>2, <1>1, <1>8, <2>1, <2>2, <2>7, <2>8 DEF Makes
  <2>10. Ordered(q \o p)
    <3>1. Below(q, x.type, x.id)
      BY <1>6, <2>4, <2>8
    <3>2. QED
      BY <1>6, <2>2, <3>1, OrderedPacket
  <2>11. ASSUME NEW t \in S PROVE Below(q \o p, t, MadeUpTo(acc2, b, t))
    <3>1. PICK m : m = MadeUpTo(acc, a, t)
      OBVIOUS
    <3>2. m \in Nat
      BY <1>4, <2>5, <3>1 DEF Count
    <3>3. x.type = t => x.id = m
      BY <2>8, <3>1
    <3>4. Below(q, t, m)
      BY <1>6, <3>1
    <3>5. Below(q \o p, t, m + Count(x.type = t))
      BY <2>2, <3>2, <3>3, <3>4, FlitsTracked, BelowPacket
    <3>6. QED
      BY <2>7, <3>1, <3>5
  <2>12. QED
    BY <1>1, <1>2, <1>7, <2>9, <2>10, <2>11 DEF SenderOk
<1>9. CASE ~Waiting(a)
  <2>1. p = <<>>
    BY <1>1, <1>9 DEF Waiting, Made, Starts
  <2>2. q \o p = q
    BY <2>1
  <2>3. \A t \in S : MadeUpTo(acc, a, t) = acc[t] + 1
    BY <1>4, <1>9 DEF MadeUpTo, Count
  <2>4. ASSUME NEW t \in S PROVE MadeUpTo(acc2, b, t) = acc[t] + 1
    <3>1. CASE got = NoTx
      <4>1. ~Waiting(b) /\ acc2[t] = acc[t]
        BY <1>3, <1>4, <1>5, <3>1 DEF Count, Shows
      <4>2. QED
        BY <1>4, <4>1 DEF MadeUpTo, Count
    <3>2. CASE got # NoTx
      <4>1. Waiting(b) /\ b.iReg = got
        BY <1>3, <3>2
      <4>2. acc2[t] = acc[t] + Count(got.type = t)
        BY <1>5, <3>2 DEF Count, Shows
      <4>3. MadeUpTo(acc2, b, t) = ((acc[t] + Count(got.type = t)) + 1) - Count(got.type = t)
        BY <4>1, <4>2 DEF MadeUpTo
      <4>4. QED
        BY <1>4, <4>3 DEF Count
    <3>3. QED
      BY <3>1, <3>2
  <2>5. Makes(acc, acc2, a, b, p, S)
    BY <1>1, <1>2, <1>9, <2>1, <2>3, <2>4 DEF Makes
  <2>6. QED
    BY <1>1, <1>2, <1>6, <1>7, <2>2, <2>3, <2>4, <2>5 DEF SenderOk
<1>10. QED
  BY <1>8, <1>9

LEMMA FrontedConcat ==
  ASSUME NEW E, NEW e \in E, NEW q \in Seq(E), NEW p \in Seq(E)
  PROVE  <<e>> \o (q \o p) = (<<e>> \o q) \o p
<1>1. <<e>> \in Seq(E)
  OBVIOUS
<1>2. QED
  BY <1>1, ConcatAssociative

LEMMA StreamGrows ==
  ASSUME NEW S, NEW a, Queued(a, S), NEW p \in Seq(FlitsOf(S)),
         NEW b, b.injFifo = a.injFifo \o p, b.injReg = a.injReg
  PROVE  Stream(b) = Stream(a) \o p
<1>1. PICK q \in Seq(FlitsOf(S)), s \in Seq(FlitsOf(S)) : q = a.injFifo /\ s = Stream(a)
  BY StreamType DEF Queued
<1>2. b.injFifo = q \o p /\ b.injReg = a.injReg
  BY <1>1
<1>3. CASE a.injReg = NoFlit
  <2>1. Stream(b) = <<>> \o (q \o p) /\ s = <<>> \o q
    BY <1>1, <1>2, <1>3 DEF Stream
  <2>2. QED
    BY <1>1, <2>1
<1>4. CASE a.injReg # NoFlit
  <2>1. PICK f \in FlitsOf(S) : f = a.injReg
    BY <1>4 DEF Queued
  <2>2. Stream(b) = <<f>> \o (q \o p) /\ s = <<f>> \o q
    BY <1>1, <1>2, <1>4, <2>1 DEF Stream
  <2>3. <<f>> \o (q \o p) = (<<f>> \o q) \o p
    BY FrontedConcat
  <2>4. QED
    BY <1>1, <2>2, <2>3
<1>5. QED
  BY <1>3, <1>4

\* What an edge does to the numbers of the stream.
LEMMA StreamMakes ==
  ASSUME NEW S \in SUBSET Types, NEW a, Queued(a, S), NEW acc, NEW acc2, NEW b, NEW p,
         Makes(acc, acc2, a, b, p, S), NEW t \in S, NEW z,
         Numbers(Stream(a), t, z, MadeUpTo(acc, a, t))
  PROVE  Numbers(Stream(b), t, z, MadeUpTo(acc2, b, t))
<1>1. PICK q \in Seq(FlitsOf(S)), s \in Seq(FlitsOf(S)), r \in Seq(FlitsOf(S)) :
        q = a.injFifo /\ s = Stream(a) /\ r = p
  BY StreamType DEF Queued, Makes
<1>2. Stream(b) = s \o r
  <2>1. b.injFifo = a.injFifo \o r /\ b.injReg = a.injReg
    BY <1>1 DEF Makes
  <2>2. QED
    BY <1>1, <2>1, StreamGrows
<1>3. CASE Waiting(a)
  <2>1. PICK x \in TxOf(S) : x = a.iReg
    BY <1>3 DEF Makes
  <2>2. PacketOf(r, x) /\ (x.type = t => x.id = MadeUpTo(acc, a, t))
        /\ MadeUpTo(acc2, b, t) = MadeUpTo(acc, a, t) + Count(x.type = t)
    BY <1>1, <1>3, <2>1 DEF Makes
  <2>3. Numbers(s \o r, t, z, MadeUpTo(acc, a, t) + Count(x.type = t))
    BY <1>1, <2>2, FlitsTracked, NumbersPacket
  <2>4. QED
    BY <1>2, <2>2, <2>3
<1>4. CASE ~Waiting(a)
  <2>1. r = <<>> /\ MadeUpTo(acc2, b, t) = MadeUpTo(acc, a, t)
    BY <1>1, <1>4 DEF Makes
  <2>2. s \o r = s
    BY <2>1
  <2>3. QED
    BY <1>1, <1>2, <2>1, <2>2
<1>5. QED
  BY <1>3, <1>4

(***************************************************************************)
(* The receiving half: the packets that are complete, the packet that is   *)
(* being put together, and the flits in the FIFO of the type.              *)
(***************************************************************************)
Mark(p) == [tx |-> p[1].tx, tail |-> TRUE]
Marks(q) == [k \in 1 .. Len(q) |-> Mark(q[k])]

MarkType == [tx : Transactions, tail : {TRUE}]

\* The packets of the output register and of the output FIFO.
Packed(b) == IF b.outPacket = <<>> THEN b.outFifo ELSE <<b.outPacket>> \o b.outFifo

\* The packet that is being put together is of the type that has priority.
Building(b, t, i) ==
  b.constructed # <<>> =>
    /\ b.depacketizing /\ b.constructed[1].tx.type = Head(b.priority)
    /\ b.constructed[1].tx.type = t => b.constructed[1].tx.id = i

\* What b has of the transactions of type t, from the one to be presented next.
Arrived(b, t, i, j) ==
  \E x \in Nat : /\ Numbers(Marks(Packed(b)), t, i, x)
                 /\ Building(b, t, x) /\ Numbers(b.ejFifo[t], t, x, j)

LEMMA MarkTracked == Tracked(MarkType)
BY DEF Tracked, MarkType, Transactions

LEMMA MarkOf ==
  ASSUME NEW S, NEW p \in Parts(S)
  PROVE  /\ Mark(p) \in MarkType /\ p[1] \in FlitsOf(S)
         /\ Mark(p).tx = p[1].tx /\ Mark(p).tail = TRUE
<1>1. p[1] \in FlitsOf(S)
  BY DEF Parts
<1>2. p[1].tx \in Transactions
  BY <1>1, FlitFields
<1>3. QED
  BY <1>1, <1>2 DEF Mark, MarkType

LEMMA MarksOf ==
  ASSUME NEW S, NEW q \in Seq(Parts(S))
  PROVE  /\ Marks(q) \in Seq(MarkType) /\ Len(Marks(q)) = Len(q)
         /\ \A k \in 1 .. Len(q) : Marks(q)[k] = Mark(q[k])
<1>1. PICK n \in Nat : n = Len(q)
  OBVIOUS
<1>2. ASSUME NEW k \in 1 .. n PROVE Mark(q[k]) \in MarkType
  <2>1. q[k] \in Parts(S)
    BY <1>1
  <2>2. QED
    BY <2>1, MarkOf
<1>3. Marks(q) = [k \in 1 .. n |-> Mark(q[k])]
  BY <1>1 DEF Marks
<1>4. QED
  BY <1>1, <1>2, <1>3

LEMMA MarksAppend ==
  ASSUME NEW S, NEW q \in Seq(Parts(S)), NEW p \in Parts(S)
  PROVE  Marks(Append(q, p)) = Append(Marks(q), Mark(p))
<1>1. PICK r \in Seq(Parts(S)), n \in Nat : r = Append(q, p) /\ n = Len(q)
  <2>1. Append(q, p) \in Seq(Parts(S)) /\ Len(q) \in Nat
    BY Appended
  <2>2. QED
    BY <2>1
<1>2. /\ Len(r) = n + 1 /\ r[n + 1] = p
      /\ \A k \in 1 .. n : r[k] = q[k]
  BY <1>1, Appended
<1>3. PICK s \in Seq(MarkType) : s = Marks(q) /\ Len(s) = n /\ \A k \in 1 .. n : s[k] = Mark(q[k])
  BY <1>1, MarksOf
<1>4. PICK u \in Seq(MarkType) : u = Marks(r) /\ Len(u) = n + 1
                                 /\ \A k \in 1 .. n + 1 : u[k] = Mark(r[k])
  BY <1>2, MarksOf
<1>5. PICK v \in Seq(MarkType) : v = Append(s, Mark(p)) /\ Len(v) = n + 1 /\ v[n + 1] = Mark(p)
                                 /\ \A k \in 1 .. n : v[k] = s[k]
  <2>1. Mark(p) \in MarkType
    BY MarkOf
  <2>2. /\ Append(s, Mark(p)) \in Seq(MarkType) /\ Len(Append(s, Mark(p))) = Len(s) + 1
        /\ Append(s, Mark(p))[Len(s) + 1] = Mark(p)
        /\ \A k \in 1 .. Len(s) : Append(s, Mark(p))[k] = s[k]
    BY <2>1, Appended
  <2>3. QED
    BY <1>3, <2>2
<1>6. ASSUME NEW k \in 1 .. n + 1 PROVE u[k] = v[k]
  <2>1. CASE k = n + 1
    BY <1>2, <1>4, <1>5, <2>1
  <2>2. CASE k \in 1 .. n
    BY <1>2, <1>3, <1>4, <1>5, <2>2
  <2>3. QED
    BY <2>1, <2>2
<1>7. u = v
  BY <1>4, <1>5, <1>6, SeqEqual
<1>8. QED
  BY <1>1, <1>3, <1>4, <1>5, <1>7

LEMMA MarksTail ==
  ASSUME NEW S, NEW q \in Seq(Parts(S)), q # <<>>
  PROVE  /\ Marks(q) # <<>> /\ Head(Marks(q)) = Mark(Head(q))
         /\ Marks(Tail(q)) = Tail(Marks(q))
<1>1. PICK r \in Seq(Parts(S)), n \in Nat : r = Tail(q) /\ n + 1 = Len(q)
  <2>1. Tail(q) \in Seq(Parts(S)) /\ Len(q) \in Nat \ {0}
    BY HeadTail
  <2>2. Len(q) - 1 \in Nat /\ (Len(q) - 1) + 1 = Len(q)
    BY <2>1
  <2>3. QED
    BY <2>1, <2>2
<1>2. Len(r) = n /\ (\A k \in 1 .. n : r[k] = q[k + 1]) /\ Head(q) = q[1]
  BY <1>1, HeadTail
<1>3. PICK s \in Seq(MarkType) : s = Marks(q) /\ Len(s) = n + 1
                                 /\ \A k \in 1 .. n + 1 : s[k] = Mark(q[k])
  BY <1>1, MarksOf
<1>4. PICK u \in Seq(MarkType) : u = Marks(r) /\ Len(u) = n /\ \A k \in 1 .. n : u[k] = Mark(r[k])
  BY <1>2, MarksOf
<1>5. s # <<>>
  BY <1>3
<1>6. PICK v \in Seq(MarkType) : v = Tail(s) /\ Len(v) = n /\ Head(s) = s[1]
                                 /\ \A k \in 1 .. n : v[k] = s[k + 1]
  <2>1. (n + 1) - 1 = n
    OBVIOUS
  <2>2. /\ Tail(s) \in Seq(MarkType) /\ Len(Tail(s)) = Len(s) - 1 /\ Head(s) = s[1]
        /\ \A k \in 1 .. Len(s) - 1 : Tail(s)[k] = s[k + 1]
    BY <1>5, HeadTail
  <2>3. Len(s) - 1 = n
    BY <1>3, <2>1
  <2>4. Len(Tail(s)) = n /\ \A k \in 1 .. n : Tail(s)[k] = s[k + 1]
    BY <2>2, <2>3
  <2>5. QED
    BY <2>2, <2>4, Zenon
<1>7. ASSUME NEW k \in 1 .. n PROVE u[k] = v[k]
  <2>1. k + 1 \in 1 .. n + 1
    OBVIOUS
  <2>2. QED
    BY <1>2, <1>3, <1>4, <1>6, <2>1
<1>8. u = v
  BY <1>4, <1>6, <1>7, SeqEqual
<1>9. Head(s) = Mark(Head(q))
  BY <1>2, <1>3, <1>6
<1>10. QED
  BY <1>1, <1>3, <1>4, <1>5, <1>6, <1>8, <1>9

(***************************************************************************)
(* The transactions that flits belong to: all of q are of those in P.      *)
(***************************************************************************)
From(q, P) == \A k \in 1 .. Len(q) : q[k].tx \in P

LEMMA FromAppend ==
  ASSUME NEW T, NEW q \in Seq(T), NEW f \in T, NEW P, From(q, P), f.tx \in P
  PROVE  From(Append(q, f), P)
<1>1. PICK r : r = Append(q, f)
  OBVIOUS
<1>2. PICK n \in Nat : n = Len(q)
  OBVIOUS
<1>3. Len(r) = n + 1 /\ r[n + 1] = f /\ \A k \in 1 .. n : r[k] = q[k]
  BY <1>1, <1>2, Appended
<1>4. ASSUME NEW k \in 1 .. n + 1 PROVE r[k].tx \in P
  <2>1. CASE k = n + 1
    BY <1>3, <2>1
  <2>2. CASE k \in 1 .. n
    BY <1>2, <1>3, <2>2 DEF From
  <2>3. QED
    BY <2>1, <2>2
<1>5. QED
  BY <1>1, <1>3, <1>4 DEF From

LEMMA FromTail ==
  ASSUME NEW T, NEW q \in Seq(T), q # <<>>, NEW P, From(q, P)
  PROVE  Head(q) \in T /\ Head(q).tx \in P /\ From(Tail(q), P)
<1>1. PICK r, n : r = Tail(q) /\ n = Len(q)
  OBVIOUS
<1>2. /\ Head(q) \in T /\ n \in Nat \ {0} /\ q[1] = Head(q)
      /\ Len(r) = n - 1 /\ \A k \in 1 .. n - 1 : r[k] = q[k + 1]
  BY <1>1, HeadTail
<1>3. \A k \in 1 .. n : q[k].tx \in P
  BY <1>1 DEF From
<1>4. ASSUME NEW k \in 1 .. n - 1 PROVE r[k].tx \in P
  <2>1. k + 1 \in 1 .. n
    BY <1>2
  <2>2. QED
    BY <1>2, <1>3, <2>1
<1>5. 1 \in 1 .. n
  BY <1>2
<1>6. QED
  BY <1>1, <1>2, <1>3, <1>4, <1>5 DEF From

LEMMA FromPacket ==
  ASSUME NEW T, NEW q \in Seq(T), NEW p \in Seq(T), NEW P, From(q, P), From(p, P)
  PROVE  From(q \o p, P)
<1>1. PICK r \in Seq(T), m \in Nat, n \in Nat : r = q \o p /\ Follows(r, q, p, m, n)
  BY Concatenated
<1>2. \A k \in 1 .. m : q[k].tx \in P
  BY <1>1 DEF From, Follows
<1>3. \A k \in 1 .. n : p[k].tx \in P
  BY <1>1 DEF From, Follows
<1>4. ASSUME NEW k \in 1 .. m + n PROVE r[k].tx \in P
  <2>1. CASE k \in 1 .. m
    BY <1>1, <1>2, <2>1 DEF Follows
  <2>2. CASE k \in (m + 1) .. (m + n)
    BY <1>1, <1>3, <2>2 DEF Follows
  <2>3. QED
    BY <2>1, <2>2
<1>5. QED
  BY <1>1, <1>4 DEF From, Follows

LEMMA PackedType ==
  ASSUME NEW S, NEW a, Output(a, S)
  PROVE  /\ Packed(a) \in Seq(Parts(S))
         /\ PacketAtHand(a) = IF Packed(a) = <<>> THEN <<>> ELSE Head(Packed(a))
<1>1. PICK q \in Seq(Parts(S)), p \in Seq(FlitsOf(S)) : q = a.outFifo /\ p = a.outPacket
  BY DEF Output
<1>2. CASE p = <<>>
  BY <1>1, <1>2 DEF Packed, PacketAtHand
<1>3. CASE p # <<>>
  <2>1. p \in Parts(S)
    BY <1>3 DEF Parts
  <2>2. <<p>> \o q \in Seq(Parts(S)) /\ <<p>> \o q # <<>> /\ Head(<<p>> \o q) = p
    BY <2>1
  <2>3. QED
    BY <1>1, <1>3, <2>2 DEF Packed, PacketAtHand
<1>4. QED
  BY <1>2, <1>3

\* The transaction presented is that of the first packet.
Presents(a, b, x) ==
  IF x # NoTx
  THEN /\ Packed(a) # <<>> /\ x = Mark(Head(Packed(a))).tx
       /\ Packed(b) = Tail(Packed(a))
  ELSE Packed(b) = Packed(a)

\* What the adapter has received, of the types S, is of transactions in P.
ReceiverFrom(b, P, S) ==
  /\ From(Marks(Packed(b)), P)
  /\ b.constructed # <<>> => b.constructed[1].tx \in P
  /\ \A t \in S : From(b.ejFifo[t], P)

SameBuilding(a, b) ==
  /\ b.ejFifo = a.ejFifo /\ b.constructed = a.constructed
  /\ b.depacketizing = a.depacketizing /\ b.priority = a.priority

LEMMA OutputPresents ==
  ASSUME NEW S, NEW a, DOMAIN a = Fields, Output(a, S), NEW ready,
         NEW b, b = OutputInterface(a, ready)
  PROVE  Presents(a, b, Presented(a, ready)) /\ SameBuilding(a, b)
<1>1. PICK q \in Seq(Parts(S)), p \in Seq(FlitsOf(S)) : q = a.outFifo /\ p = a.outPacket
  BY DEF Output
<1>2. /\ b.outFifo = (IF p = <<>> /\ q # <<>> THEN Tail(q) ELSE q)
      /\ b.outPacket = (IF Presented(a, ready) # NoTx THEN <<>> ELSE PacketAtHand(a))
      /\ SameBuilding(a, b)
  BY <1>1 DEF OutputInterface, Fields, SameBuilding
<1>3. PICK r \in Seq(Parts(S)) : r = Packed(a)
                                 /\ PacketAtHand(a) = IF r = <<>> THEN <<>> ELSE Head(r)
  BY PackedType
<1>4. /\ r = <<>> => p = <<>> /\ q = <<>>
      /\ r # <<>> => b.outFifo = Tail(r) /\ Head(r) \in Parts(S)
  <2>1. CASE p # <<>>
    <3>1. p \in Parts(S)
      BY <2>1 DEF Parts
    <3>2. r = <<p>> \o q
      BY <1>1, <1>3, <2>1 DEF Packed
    <3>3. r # <<>> /\ Tail(r) = q /\ Head(r) = p
      BY <3>1, <3>2
    <3>4. QED
      BY <1>2, <2>1, <3>1, <3>3
  <2>2. CASE p = <<>>
    <3>1. r = q
      BY <1>1, <1>3, <2>2 DEF Packed
    <3>2. QED
      BY <1>2, <2>2, <3>1, HeadTail
  <2>3. QED
    BY <2>1, <2>2
<1>5. CASE r = <<>>
  <2>1. Presented(a, ready) = NoTx
    BY <1>3, <1>5 DEF Presented
  <2>2. Packed(b) = <<>>
    BY <1>2, <1>3, <1>4, <1>5, <2>1 DEF Packed
  <2>3. QED
    BY <1>2, <1>3, <1>5, <2>1, <2>2 DEF Presents
<1>6. CASE r # <<>>
  <2>1. PICK h \in Parts(S) : h = Head(r) /\ h = PacketAtHand(a) /\ h # <<>>
    BY <1>3, <1>4, <1>6 DEF Parts
  <2>2. Presented(a, ready) = IF h[1].tx.type \in ready THEN Mark(h).tx ELSE NoTx
    BY <2>1 DEF Presented, Mark
  <2>3. CASE Presented(a, ready) # NoTx
    <3>1. Packed(b) = Tail(r)
      BY <1>2, <1>4, <1>6, <2>3 DEF Packed
    <3>2. Presented(a, ready) = Mark(h).tx
      BY <2>2, <2>3
    <3>3. QED
      BY <1>2, <1>3, <1>6, <2>1, <2>3, <3>1, <3>2 DEF Presents
  <2>4. CASE Presented(a, ready) = NoTx
    <3>1. b.outPacket = h /\ b.outFifo = Tail(r)
      BY <1>2, <1>4, <1>6, <2>1, <2>4
    <3>2. Packed(b) = <<h>> \o Tail(r)
      BY <2>1, <3>1 DEF Packed
    <3>3. <<h>> \o Tail(r) = r
      BY <1>6, <2>1
    <3>4. QED
      BY <1>2, <1>3, <2>4, <3>2, <3>3 DEF Presents
  <2>5. QED
    BY <2>3, <2>4
<1>7. QED
  BY <1>5, <1>6

LEMMA ArrivedSame ==
  ASSUME NEW a, NEW b, SameBuilding(a, b), Packed(b) = Packed(a), NEW t, NEW i, NEW j,
         Arrived(a, t, i, j)
  PROVE  Arrived(b, t, i, j)
BY DEF SameBuilding, Arrived, Building

\* What is presented has the number that is due.
LEMMA ArrivedPresents ==
  ASSUME NEW S, NEW a, DOMAIN a = Fields, Output(a, S), NEW ready,
         NEW b, b = OutputInterface(a, ready), NEW x, x = Presented(a, ready),
         NEW t, NEW i, NEW j, Arrived(a, t, i, j)
  PROVE  /\ Shows(x, t) => x.id = i
         /\ Arrived(b, t, i + Count(Shows(x, t)), j)
<1>1. Presents(a, b, x) /\ SameBuilding(a, b)
  BY OutputPresents
<1>2. PICK m \in Nat : /\ Numbers(Marks(Packed(a)), t, i, m)
                       /\ Building(a, t, m) /\ Numbers(a.ejFifo[t], t, m, j)
  BY DEF Arrived
<1>3. i \in Nat
  BY <1>2 DEF Numbers
<1>4. PICK r \in Seq(Parts(S)) : r = Packed(a)
  BY PackedType
<1>5. Building(b, t, m) /\ Numbers(b.ejFifo[t], t, m, j)
  BY <1>1, <1>2 DEF SameBuilding, Building
<1>6. CASE x = NoTx
  <2>1. Packed(b) = Packed(a) /\ i + Count(Shows(x, t)) = i
    BY <1>1, <1>3, <1>6 DEF Presents, Count, Shows
  <2>2. QED
    BY <1>1, <1>3, <1>6, <2>1, ArrivedSame DEF Shows
<1>7. CASE x # NoTx
  <2>1. r # <<>> /\ x = Mark(Head(r)).tx /\ Packed(b) = Tail(r)
    BY <1>1, <1>4, <1>7 DEF Presents
  <2>2. PICK q \in Seq(MarkType) : q = Marks(r) /\ q # <<>> /\ Head(q) = Mark(Head(r))
                                   /\ Marks(Tail(r)) = Tail(q)
    BY <2>1, MarksOf, MarksTail
  <2>3. PICK f : f = Head(q) /\ f.tx = x /\ f.tail = TRUE
    BY <2>1, <2>2 DEF Mark
  <2>4. /\ f.tx.type = t => f.tx.id = i
        /\ Numbers(Tail(q), t, Past(f, t, i), m)
    BY <1>2, <1>4, <2>2, <2>3, MarkTracked, NumbersTail
  <2>5. Past(f, t, i) = i + Count(Shows(x, t))
    BY <1>3, <1>7, <2>3, <2>4 DEF Past, After, Count, Shows
  <2>6. Numbers(Marks(Packed(b)), t, i + Count(Shows(x, t)), m)
    BY <2>1, <2>2, <2>4, <2>5
  <2>7. QED
    BY <1>3, <1>5, <2>3, <2>4, <2>6 DEF Arrived, Shows
<1>8. QED
  BY <1>6, <1>7

\* What is presented is of P too.
LEMMA FromPresents ==
  ASSUME NEW S, NEW a, DOMAIN a = Fields, Output(a, S), NEW ready,
         NEW b, b = OutputInterface(a, ready), NEW x, x = Presented(a, ready),
         NEW P, NEW RR, ReceiverFrom(a, P, RR)
  PROVE  ReceiverFrom(b, P, RR) /\ (x # NoTx => x \in P)
<1>1. Presents(a, b, x) /\ SameBuilding(a, b)
  BY OutputPresents
<1>2. PICK r \in Seq(Parts(S)) : r = Packed(a)
  BY PackedType
<1>3. From(Marks(r), P)
  BY <1>2 DEF ReceiverFrom
<1>4. CASE x = NoTx
  <2>1. Packed(b) = Packed(a)
    BY <1>1, <1>4 DEF Presents
  <2>2. QED
    BY <1>1, <1>4, <2>1 DEF ReceiverFrom, SameBuilding
<1>5. CASE x # NoTx
  <2>1. r # <<>> /\ x = Mark(Head(r)).tx /\ Packed(b) = Tail(r)
    BY <1>1, <1>2, <1>5 DEF Presents
  <2>2. PICK q \in Seq(MarkType) : q = Marks(r) /\ q # <<>> /\ Head(q) = Mark(Head(r))
                                   /\ Marks(Tail(r)) = Tail(q)
    BY <2>1, MarksOf, MarksTail
  <2>3. Head(q).tx \in P /\ From(Tail(q), P)
    BY <1>3, <2>2, FromTail
  <2>4. From(Marks(Packed(b)), P) /\ x \in P
    BY <2>1, <2>2, <2>3
  <2>5. QED
    BY <1>1, <2>4 DEF ReceiverFrom, SameBuilding
<1>6. QED
  BY <1>4, <1>5

\* What taking a flit f of type x out of its FIFO does.
Builds(a, b, f, x) ==
  /\ b.ejFifo = [a.ejFifo EXCEPT ![x] = Tail(@)]
  /\ b.outPacket = a.outPacket
  /\ IF f.tail
     THEN b.constructed = <<>> /\ b.outFifo = Append(a.outFifo, Append(a.constructed, f))
     ELSE /\ b.constructed = Append(a.constructed, f) /\ b.outFifo = a.outFifo
          /\ b.depacketizing /\ Head(b.priority) = x
  /\ a.constructed # <<>> /\ a.depacketizing => Head(a.priority) = x

LEMMA DepacketizationBuilds ==
  ASSUME NEW S, NEW a, DOMAIN a = Fields, Receiver(a, S), NEW b, b = OutputDepacketization(a)
  PROVE  \/ /\ b.ejFifo = a.ejFifo /\ b.constructed = a.constructed /\ Packed(b) = Packed(a)
            /\ a.depacketizing => b.depacketizing /\ b.priority = a.priority
         \/ \E x \in S : \E f \in FlitsOf({x}) :
              Builds(a, b, f, x) /\ f = Head(a.ejFifo[x]) /\ a.ejFifo[x] # <<>>
<1>1. PICK r : r = Arbitrated(a)
  OBVIOUS
<1>2. Order(r, S) /\ Head(r) \in S
  BY <1>1, ArbitratedOrder DEF Receiver, Fifos
<1>3. PICK x \in S : x = Head(r)
  BY <1>2
<1>4. a.depacketizing => r = a.priority
  BY <1>1 DEF Arbitrated
<1>5. CASE ~HasCompletePacket(a, x)
  <2>1. b = a
    BY <1>1, <1>3, <1>5 DEF OutputDepacketization
  <2>2. QED
    BY <2>1
<1>6. CASE HasCompletePacket(a, x) /\ ~Takes(a)
  <2>1. b = [a EXCEPT !.priority = r, !.depacketizing = TRUE]
    BY <1>1, <1>3, <1>6 DEF OutputDepacketization
  <2>2. /\ b.ejFifo = a.ejFifo /\ b.constructed = a.constructed /\ b.priority = r
        /\ b.depacketizing = TRUE /\ b.outFifo = a.outFifo /\ b.outPacket = a.outPacket
    BY <2>1 DEF Fields
  <2>3. Packed(b) = Packed(a)
    BY <2>2 DEF Packed
  <2>4. QED
    BY <1>4, <2>2, <2>3
<1>7. CASE Takes(a)
  <2>1. HasCompletePacket(a, x)
    BY <1>1, <1>3, <1>7 DEF Takes
  <2>2. PICK f : f = FlitTaken(a)
    OBVIOUS
  <2>3. f = Head(a.ejFifo[x])
    BY <1>1, <1>3, <2>2 DEF FlitTaken
  <2>4. b = WithFlitTaken(a)
    BY <1>1, <1>3, <1>7, <2>1 DEF OutputDepacketization
  <2>5. b = [a EXCEPT !.ejFifo[x]     = Tail(@),
                      !.popCount[x]   = IF f.tail THEN @ + 1 ELSE @,
                      !.constructed   = IF f.tail THEN <<>> ELSE Append(a.constructed, f),
                      !.outFifo       = IF f.tail THEN Append(@, Append(a.constructed, f)) ELSE @,
                      !.depacketizing = ~f.tail,
                      !.priority      = IF f.tail THEN Rotated(r, 1) ELSE r]
    BY <1>1, <1>3, <2>2, <2>4 DEF WithFlitTaken
  <2>6. /\ b.ejFifo = [a.ejFifo EXCEPT ![x] = Tail(@)]
        /\ b.popCount = [a.popCount EXCEPT ![x] = IF f.tail THEN @ + 1 ELSE @]
        /\ b.pushCount = a.pushCount
        /\ b.constructed = (IF f.tail THEN <<>> ELSE Append(a.constructed, f))
        /\ b.outFifo = (IF f.tail THEN Append(a.outFifo, Append(a.constructed, f)) ELSE a.outFifo)
        /\ b.outPacket = a.outPacket
        /\ b.depacketizing = ~f.tail
        /\ b.priority = (IF f.tail THEN Rotated(r, 1) ELSE r)
    BY <2>5 DEF Fields
  <2>7. Builds(a, b, f, x)
    BY <1>3, <1>4, <2>6 DEF Builds
  <2>8. Unfiles(a, b, f, x, S)
    BY <1>3, <2>1, <2>3, <2>6 DEF Unfiles, Receiver
  <2>9. f \in FlitsOf({x})
    BY <2>8, Unfiled
  <2>10. a.ejFifo[x] # <<>>
    <3>1. a.pushCount[x] = a.popCount[x] + Tails(a.ejFifo[x])
          /\ a.pushCount[x] \in Nat /\ a.popCount[x] \in Nat
      BY DEF Receiver, Fifos
    <3>2. a.pushCount[x] > a.popCount[x]
      BY <2>1 DEF HasCompletePacket
    <3>3. QED
      BY <3>1, <3>2, TailsEmpty
  <2>11. QED
    BY <2>3, <2>7, <2>9, <2>10
<1>8. QED
  BY <1>5, <1>6, <1>7

\* A packet that is complete follows the others.
LEMMA PackedBuilds ==
  ASSUME NEW S, NEW a, Output(a, S), NEW d \in Parts(S),
         NEW b, b.outFifo = Append(a.outFifo, d), b.outPacket = a.outPacket
  PROVE  Packed(b) = Append(Packed(a), d)
<1>1. PICK q \in Seq(Parts(S)), p \in Seq(FlitsOf(S)) : q = a.outFifo /\ p = a.outPacket
  BY DEF Output
<1>2. CASE p = <<>>
  BY <1>1, <1>2 DEF Packed
<1>3. CASE p # <<>>
  <2>1. p \in Parts(S)
    BY <1>3 DEF Parts
  <2>2. Packed(a) = <<p>> \o q /\ Packed(b) = <<p>> \o Append(q, d)
    BY <1>1, <1>3 DEF Packed
  <2>3. <<p>> \o Append(q, d) = Append(<<p>> \o q, d)
    <3>1. <<p>> \in Seq(Parts(S))
      BY <2>1
    <3>2. QED
      BY <3>1, AppendIsConcat, ConcatAssociative
  <2>4. QED
    BY <2>2, <2>3
<1>4. QED
  BY <1>2, <1>3

LEMMA ArrivedBuilds ==
  ASSUME NEW S, NEW a, DOMAIN a = Fields, Receiver(a, S), Output(a, S),
         NEW b, b = OutputDepacketization(a),
         NEW t \in S, NEW i, NEW j, Arrived(a, t, i, j)
  PROVE  Arrived(b, t, i, j)
<1>1. PICK m \in Nat : /\ Numbers(Marks(Packed(a)), t, i, m)
                       /\ Building(a, t, m) /\ Numbers(a.ejFifo[t], t, m, j)
  BY DEF Arrived
<1>2. CASE /\ b.ejFifo = a.ejFifo /\ b.constructed = a.constructed /\ Packed(b) = Packed(a)
           /\ a.depacketizing => b.depacketizing /\ b.priority = a.priority
  <2>1. Building(b, t, m)
    BY <1>1, <1>2 DEF Building
  <2>2. QED
    BY <1>1, <1>2, <2>1 DEF Arrived
<1>3. ASSUME NEW x \in S, NEW f \in FlitsOf({x}), Builds(a, b, f, x), f = Head(a.ejFifo[x]),
             a.ejFifo[x] # <<>>
      PROVE  Arrived(b, t, i, j)
  <2>1. f.tx.type = x /\ f.tail \in BOOLEAN /\ f \in FlitsOf(S)
    BY FlitsOfSome, FlitFields
  <2>2. PICK c \in Seq(FlitsOf(S)) : c = a.constructed
    BY DEF Receiver
  <2>3. /\ c # <<>> => a.depacketizing /\ c[1].tx.type = x
        /\ c # <<>> /\ c[1].tx.type = t => c[1].tx.id = m
    BY <1>1, <1>3, <2>2 DEF Building, Builds
  <2>4. PICK d : d = Append(c, f)
    OBVIOUS
  <2>5. d \in Parts(S) /\ d # <<>> /\ d[1] = IF c = <<>> THEN f ELSE c[1]
    <3>1. /\ d \in Seq(FlitsOf(S)) /\ d # <<>>
          /\ \A k \in 1 .. Len(c) : d[k] = c[k]
          /\ d[Len(c) + 1] = f
      BY <2>1, <2>4, Appended
    <3>2. c # <<>> => 1 \in 1 .. Len(c)
      OBVIOUS
    <3>3. c = <<>> => Len(c) + 1 = 1
      OBVIOUS
    <3>4. QED
      BY <3>1, <3>2, <3>3 DEF Parts
  <2>6. \E n \in Nat :
          /\ Numbers(b.ejFifo[t], t, n, j)
          /\ n = IF x = t /\ f.tail THEN m + 1 ELSE m
          /\ x = t => f.tx.id = m
    <3>1. PICK q \in Seq(FlitsOf({t})) : q = a.ejFifo[t]
      BY DEF Receiver, Fifos
    <3>2. CASE x # t
      <4>1. b.ejFifo[t] = q
        BY <1>3, <3>1, <3>2 DEF Builds
      <4>2. QED
        BY <1>1, <3>1, <3>2, <4>1
    <3>3. CASE x = t
      <4>1. b.ejFifo[t] = Tail(q)
        BY <1>3, <3>1, <3>3 DEF Builds, Receiver, Fifos
      <4>2. /\ f.tx.type = t => f.tx.id = m
            /\ Numbers(Tail(q), t, Past(f, t, m), j)
        BY <1>1, <1>3, <3>1, <3>3, FlitsTracked, NumbersTail
      <4>3. Past(f, t, m) = IF f.tail THEN m + 1 ELSE m
        BY <2>1, <3>3, <4>2 DEF Past, After
      <4>4. (IF f.tail THEN m + 1 ELSE m) \in Nat
        OBVIOUS
      <4>5. QED
        BY <2>1, <3>3, <4>1, <4>2, <4>3, <4>4
    <3>4. QED
      BY <3>2, <3>3
  <2>7. d[1].tx.type = x /\ (x = t => d[1].tx.id = m)
    BY <2>1, <2>3, <2>5, <2>6
  <2>8. CASE ~f.tail
    <3>1. b.constructed = d /\ b.depacketizing /\ Head(b.priority) = x
      BY <1>3, <2>2, <2>4, <2>8 DEF Builds
    <3>2. Building(b, t, m)
      BY <2>7, <3>1 DEF Building
    <3>3. Packed(b) = Packed(a)
      BY <1>3, <2>8 DEF Builds, Packed
    <3>4. Numbers(b.ejFifo[t], t, m, j)
      BY <2>6, <2>8
    <3>5. QED
      BY <1>1, <3>2, <3>3, <3>4 DEF Arrived
  <2>9. CASE f.tail
    <3>1. b.constructed = <<>> /\ b.outFifo = Append(a.outFifo, d) /\ b.outPacket = a.outPacket
      BY <1>3, <2>2, <2>4, <2>9 DEF Builds
    <3>2. PICK r \in Seq(Parts(S)) : r = Packed(a)
      BY PackedType
    <3>3. Packed(b) = Append(r, d)
      BY <2>5, <3>1, <3>2, PackedBuilds
    <3>4. Marks(Append(r, d)) = Append(Marks(r), Mark(d)) /\ Marks(r) \in Seq(MarkType)
      BY <2>5, <3>2, MarksAppend, MarksOf
    <3>5. PICK g \in MarkType : g = Mark(d) /\ g.tx = d[1].tx /\ g.tail = TRUE
      BY <2>5, MarkOf
    <3>6. g.tx.type = t => g.tx.id = m
      BY <2>7, <3>5
    <3>7. Numbers(Append(Marks(r), g), t, i, Past(g, t, m))
      BY <1>1, <3>2, <3>4, <3>5, <3>6, MarkTracked, NumbersAppend
    <3>8. Past(g, t, m) = IF x = t THEN m + 1 ELSE m
      BY <2>7, <3>5, <3>6 DEF Past, After
    <3>9. PICK n \in Nat : Numbers(b.ejFifo[t], t, n, j) /\ n = IF x = t THEN m + 1 ELSE m
      BY <2>6, <2>9
    <3>10. Numbers(Marks(Packed(b)), t, i, n)
      BY <3>3, <3>4, <3>5, <3>7, <3>8, <3>9
    <3>11. Building(b, t, n)
      BY <3>1 DEF Building
    <3>12. QED
      BY <3>9, <3>10, <3>11 DEF Arrived
  <2>10. QED
    BY <2>1, <2>8, <2>9
<1>4. QED
  BY <1>2, <1>3, DepacketizationBuilds

LEMMA FromBuilds ==
  ASSUME NEW S, NEW a, DOMAIN a = Fields, Receiver(a, S), Output(a, S),
         NEW b, b = OutputDepacketization(a), NEW P, ReceiverFrom(a, P, S)
  PROVE  ReceiverFrom(b, P, S)
<1>1. CASE /\ b.ejFifo = a.ejFifo /\ b.constructed = a.constructed /\ Packed(b) = Packed(a)
           /\ a.depacketizing => b.depacketizing /\ b.priority = a.priority
  BY <1>1 DEF ReceiverFrom
<1>2. ASSUME NEW x \in S, NEW f \in FlitsOf({x}), Builds(a, b, f, x), f = Head(a.ejFifo[x]),
             a.ejFifo[x] # <<>>
      PROVE  ReceiverFrom(b, P, S)
  <2>1. f \in FlitsOf(S) /\ f.tail \in BOOLEAN
    BY FlitsOfSome, FlitFields
  <2>2. PICK q \in Seq(FlitsOf({x})) : q = a.ejFifo[x] /\ From(q, P)
    BY DEF Receiver, Fifos, ReceiverFrom
  <2>3. f.tx \in P /\ From(Tail(q), P)
    BY <1>2, <2>2, FromTail
  <2>4. ASSUME NEW t \in S PROVE From(b.ejFifo[t], P)
    <3>1. b.ejFifo[t] = IF t = x THEN Tail(q) ELSE a.ejFifo[t]
      BY <1>2, <2>2 DEF Builds, Receiver, Fifos
    <3>2. QED
      BY <2>3, <3>1 DEF ReceiverFrom
  <2>5. PICK c \in Seq(FlitsOf(S)) : c = a.constructed /\ (c # <<>> => c[1].tx \in P)
    BY DEF Receiver, ReceiverFrom
  <2>6. PICK d : d = Append(c, f)
    OBVIOUS
  <2>7. d \in Parts(S) /\ d[1].tx \in P
    <3>1. /\ d \in Seq(FlitsOf(S)) /\ d # <<>>
          /\ \A k \in 1 .. Len(c) : d[k] = c[k]
          /\ d[Len(c) + 1] = f
      BY <2>1, <2>6, Appended
    <3>2. c # <<>> => 1 \in 1 .. Len(c)
      OBVIOUS
    <3>3. c = <<>> => Len(c) + 1 = 1
      OBVIOUS
    <3>4. QED
      BY <2>3, <2>5, <3>1, <3>2, <3>3 DEF Parts
  <2>8. CASE ~f.tail
    <3>1. b.constructed = d /\ Packed(b) = Packed(a)
      BY <1>2, <2>5, <2>6, <2>8 DEF Builds, Packed
    <3>2. QED
      BY <2>4, <2>7, <3>1 DEF ReceiverFrom
  <2>9. CASE f.tail
    <3>1. b.constructed = <<>> /\ b.outFifo = Append(a.outFifo, d) /\ b.outPacket = a.outPacket
      BY <1>2, <2>5, <2>6, <2>9 DEF Builds
    <3>2. PICK r \in Seq(Parts(S)) : r = Packed(a) /\ From(Marks(r), P)
      BY PackedType DEF ReceiverFrom
    <3>3. Packed(b) = Append(r, d)
      BY <2>7, <3>1, <3>2, PackedBuilds
    <3>4. /\ Marks(Append(r, d)) = Append(Marks(r), Mark(d)) /\ Marks(r) \in Seq(MarkType)
          /\ Mark(d) \in MarkType /\ Mark(d).tx = d[1].tx
      BY <2>7, <3>2, MarksAppend, MarksOf, MarkOf
    <3>5. From(Append(Marks(r), Mark(d)), P)
      BY <2>7, <3>2, <3>4, FromAppend
    <3>6. QED
      BY <2>4, <3>1, <3>3, <3>4, <3>5 DEF ReceiverFrom
  <2>10. QED
    BY <2>1, <2>8, <2>9
<1>3. QED
  BY <1>1, <1>2, DepacketizationBuilds

\* The flit on its way from the NoC to the adapter.
Opt(f) == IF f = NoFlit THEN <<>> ELSE <<f>>

\* A flit of type x that finds room in its FIFO.
EjectsTo(a, b, f, x) ==
  /\ b.ejFifo = [a.ejFifo EXCEPT ![x] = Append(@, f)]
  /\ b.constructed = a.constructed /\ b.depacketizing = a.depacketizing
  /\ b.priority = a.priority /\ b.outFifo = a.outFifo /\ b.outPacket = a.outPacket

LEMMA EjectionFiles ==
  ASSUME NEW S, NEW a, DOMAIN a = Fields, a.ejectReg = NoFlit, NEW f \in FlitsOf(S),
         NEW x, x = f.tx.type, NEW b, b = OutputEjection(a, f), b.ejectReg = NoFlit
  PROVE  EjectsTo(a, b, f, x)
<1>1. Ejected(a, f) = f /\ f # NoFlit
  BY FlitFields DEF Ejected
<1>2. CASE Len(a.ejFifo[x]) >= EjectionDepth
  <2>1. b = [a EXCEPT !.ejectReg = f]
    BY <1>1, <1>2 DEF OutputEjection
  <2>2. b.ejectReg = f
    BY <2>1 DEF Fields
  <2>3. QED
    BY <1>1, <2>2
<1>3. CASE ~(Len(a.ejFifo[x]) >= EjectionDepth)
  <2>1. b = [a EXCEPT !.ejectReg = NoFlit,
                      !.ejFifo[x] = Append(@, f),
                      !.pushCount[x] = IF f.tail THEN @ + 1 ELSE @]
    BY <1>1, <1>3 DEF OutputEjection
  <2>2. QED
    BY <2>1 DEF Fields, EjectsTo
<1>4. QED
  BY <1>2, <1>3

LEMMA ArrivedEjects ==
  ASSUME NEW S, NEW a, DOMAIN a = Fields, Receiver(a, S), a.ejectReg = NoFlit,
         NEW f \in FlitsOf(S) \cup {NoFlit},
         NEW b, b = OutputEjection(a, f), b.ejectReg = NoFlit,
         NEW t \in S, NEW i, NEW j, NEW y, Arrived(a, t, i, j), Numbers(Opt(f), t, j, y)
  PROVE  Arrived(b, t, i, y)
<1>1. Ejected(a, f) = f
  BY DEF Ejected
<1>2. CASE f = NoFlit
  <2>1. b = a /\ j = y
    BY <1>1, <1>2, NumbersNone DEF OutputEjection, Opt
  <2>2. QED
    BY <2>1
<1>3. CASE f # NoFlit
  <2>1. f \in FlitsOf(S) /\ f.tx.type \in S
    BY <1>3, FlitFields
  <2>2. PICK x \in S : x = f.tx.type
    BY <2>1
  <2>3. /\ b.ejFifo = [a.ejFifo EXCEPT ![x] = Append(a.ejFifo[x], f)]
        /\ b.constructed = a.constructed /\ b.depacketizing = a.depacketizing
        /\ b.priority = a.priority /\ b.outFifo = a.outFifo /\ b.outPacket = a.outPacket
    <3>1. EjectsTo(a, b, f, x)
      BY <2>1, <2>2, EjectionFiles
    <3>2. QED
      BY <3>1 DEF EjectsTo
  <2>4. Packed(b) = Packed(a)
    BY <2>3 DEF Packed
  <2>5. PICK m \in Nat : /\ Numbers(Marks(Packed(a)), t, i, m)
                         /\ Building(a, t, m) /\ Numbers(a.ejFifo[t], t, m, j)
    BY DEF Arrived
  <2>6. Building(b, t, m)
    BY <2>3, <2>5 DEF Building
  <2>7. /\ f.tx.type = t => f.tx.id = j
        /\ y = Past(f, t, j)
    <3>1. PICK o : o = <<f>> /\ o \in Seq(FlitsOf(S)) /\ o # <<>> /\ Head(o) = f /\ Tail(o) = <<>>
      <4>1. <<f>> \in Seq(FlitsOf(S)) /\ <<f>> # <<>> /\ Head(<<f>>) = f /\ Tail(<<f>>) = <<>>
        BY <2>1
      <4>2. QED
        BY <4>1, Zenon
    <3>2. Numbers(o, t, j, y)
      BY <1>3, <3>1 DEF Opt
    <3>3. (f.tx.type = t => f.tx.id = j) /\ Numbers(<<>>, t, Past(f, t, j), y)
      <4>1. /\ Head(o).tx.type = t => Head(o).tx.id = j
            /\ Numbers(Tail(o), t, Past(Head(o), t, j), y)
        <5>1. Tracked(FlitsOf(S)) /\ o \in Seq(FlitsOf(S)) /\ o # <<>>
          BY <3>1, FlitsTracked
        <5>2. QED
          BY <3>2, <5>1, NumbersTail
      <4>2. QED
        BY <3>1, <4>1
    <3>4. QED
      BY <3>3, NumbersNone
  <2>8. PICK q \in Seq(FlitsOf({t})) : q = a.ejFifo[t]
    BY DEF Receiver, Fifos
  <2>9. CASE x = t
    <3>1. f \in FlitsOf({t})
      BY <2>1, <2>2, <2>9, FlitsOfOne
    <3>2. b.ejFifo[t] = Append(q, f)
      BY <2>3, <2>8, <2>9 DEF Receiver, Fifos
    <3>3. Numbers(Append(q, f), t, m, Past(f, t, j))
      BY <2>5, <2>7, <2>8, <3>1, FlitsTracked, NumbersAppend
    <3>4. QED
      BY <2>4, <2>5, <2>6, <2>7, <3>2, <3>3 DEF Arrived
  <2>10. CASE x # t
    <3>1. b.ejFifo[t] = q /\ y = j
      BY <2>2, <2>3, <2>7, <2>8, <2>10 DEF Past
    <3>2. QED
      BY <2>4, <2>5, <2>6, <2>8, <3>1 DEF Arrived
  <2>11. QED
    BY <2>9, <2>10
<1>4. QED
  BY <1>2, <1>3

(***************************************************************************)
(* All flits of type t from the adapter a over the NoC n to the adapter b, *)
(* where f is the flit that b has not looked at: the numbers from i up to  *)
(* j, none missing and none twice.                                         *)
(***************************************************************************)
Route(a, n, b, t, f, i, j) ==
  \E x, y, z : /\ Arrived(b, t, i, x) /\ Numbers(Opt(f), t, x, y)
               /\ Numbers(Line(n, VcOf[t]), t, y, z) /\ Numbers(Stream(a), t, z, j)

LEMMA RouteUp ==
  ASSUME NEW a, NEW n, NEW b, NEW t, NEW f, NEW i, NEW j, Route(a, n, b, t, f, i, j)
  PROVE  i \in Nat /\ j \in Nat /\ i <= j
<1>1. PICK x, y, z : /\ Arrived(b, t, i, x) /\ Numbers(Opt(f), t, x, y)
                     /\ Numbers(Line(n, VcOf[t]), t, y, z) /\ Numbers(Stream(a), t, z, j)
  BY DEF Route
<1>2. PICK w : Numbers(Marks(Packed(b)), t, i, w) /\ Numbers(b.ejFifo[t], t, w, x)
  BY <1>1 DEF Arrived
<1>3. \A q, k, l : Numbers(q, t, k, l) => k \in Nat /\ l \in Nat /\ k <= l
  BY DEF Numbers
<1>4. i \in Nat /\ w \in Nat /\ x \in Nat /\ y \in Nat /\ z \in Nat /\ j \in Nat
      /\ i <= w /\ w <= x /\ x <= y /\ y <= z /\ z <= j
  BY <1>1, <1>2, <1>3
<1>5. QED
  BY <1>4

\* The adapter puts the first flit of the stream into the inject channel.
LEMMA RouteInjects ==
  ASSUME NEW S \in SUBSET Types, NEW a, Queued(a, S), NEW n, NocTypes(n, S), n.inject = NoFlit,
         NEW d, Stream(d) = IF CanInject(a) THEN Tail(Stream(a)) ELSE Stream(a),
         NEW m, m.inject = (IF CanInject(a) THEN NextFlit(a) ELSE n.inject), m.rbuf = n.rbuf,
         NEW b, NEW t \in S, NEW f, NEW i, NEW j, Route(a, n, b, t, f, i, j)
  PROVE  Route(d, m, b, t, f, i, j)
<1>1. PICK x, y, z : /\ Arrived(b, t, i, x) /\ Numbers(Opt(f), t, x, y)
                     /\ Numbers(Line(n, VcOf[t]), t, y, z) /\ Numbers(Stream(a), t, z, j)
  BY DEF Route
<1>2. PICK v \in VCs : v = VcOf[t]
  BY AximmAssumption
<1>3. PICK q \in Seq(FlitsOf(S)) : q = n.rbuf[v] /\ Line(n, v) = q
  <2>1. n.rbuf[v] \in Seq(FlitsOf(S))
    BY DEF NocTypes
  <2>2. Line(n, v) = n.rbuf[v]
    BY LineType
  <2>3. QED
    BY <2>1, <2>2
<1>4. CASE ~CanInject(a)
  <2>1. Line(m, v) = q
    BY <1>3, <1>4 DEF Line, On
  <2>2. QED
    BY <1>1, <1>2, <1>3, <1>4, <2>1 DEF Route
<1>5. CASE CanInject(a)
  <2>1. PICK s \in Seq(FlitsOf(S)) : s = Stream(a)
    BY StreamType
  <2>2. PICK g : g = NextFlit(a) /\ g # NoFlit
    BY <1>5 DEF CanInject
  <2>3. s # <<>> /\ g = Head(s) /\ g \in FlitsOf(S)
    BY <2>1, <2>2, StreamType, HeadTail
  <2>4. /\ g.tx.type = t => g.tx.id = z
        /\ Numbers(Tail(s), t, Past(g, t, z), j)
    <3>1. Tracked(FlitsOf(S))
      BY FlitsTracked
    <3>2. QED
      BY <1>1, <2>1, <2>3, <3>1, NumbersTail
  <2>5. g.vc = VcOf[g.tx.type] /\ g.tx.type \in Types
    BY <2>3, FlitFields
  <2>6. Numbers(Line(m, v), t, y, Past(g, t, z))
    <3>1. CASE g.vc = v
      <4>1. Line(m, v) = Append(q, g)
        <5>1. Line(m, v) = q \o <<g>>
          BY <1>3, <1>5, <2>2, <3>1 DEF Line, On
        <5>2. QED
          BY <2>3, <5>1, AppendIsConcat
      <4>2. Tracked(FlitsOf(S))
        BY FlitsTracked
      <4>3. Numbers(Append(q, g), t, y, Past(g, t, z))
        BY <1>1, <1>2, <1>3, <2>3, <2>4, <4>2, NumbersAppend
      <4>4. QED
        BY <4>1, <4>3
    <3>2. CASE g.vc # v
      <4>1. Line(m, v) = q
        BY <1>3, <1>5, <2>2, <3>2 DEF Line, On
      <4>2. g.tx.type # t
        BY <1>2, <2>5, <3>2
      <4>3. QED
        BY <1>1, <1>2, <1>3, <4>1, <4>2 DEF Past
    <3>3. QED
      BY <3>1, <3>2
  <2>7. Stream(d) = Tail(s)
    BY <1>5, <2>1
  <2>8. QED
    BY <1>1, <1>2, <2>4, <2>6, <2>7 DEF Route
<1>6. QED
  BY <1>4, <1>5

\* The NoC moves a flit of one VC to the eject channel, or none.
LEMMA RouteTicks ==
  ASSUME NEW S \in SUBSET Types, NEW n, NocTypes(n, S), NEW m, NocStep(n, m),
         NEW a, NEW b, NEW t \in S, NEW i, NEW j, Route(a, n, b, t, NoFlit, i, j)
  PROVE  Route(a, m, b, t, m.eject, i, j)
<1>1. PICK x, y, z : /\ Arrived(b, t, i, x) /\ Numbers(Opt(NoFlit), t, x, y)
                     /\ Numbers(Line(n, VcOf[t]), t, y, z) /\ Numbers(Stream(a), t, z, j)
  BY DEF Route
<1>2. y = x /\ y \in Nat
  <2>1. Numbers(<<>>, t, x, y)
    BY <1>1 DEF Opt
  <2>2. QED
    BY <2>1, NumbersNone DEF Numbers
<1>3. PICK v \in VCs : v = VcOf[t]
  BY AximmAssumption
<1>4. PICK q \in Seq(FlitsOf(S)) : q = Line(n, v) /\ q = Buffered(n)[v] /\ q \in Seq(FlitsOn(S, v))
  BY LineType
<1>5. m.inject = NoFlit
  BY DEF NocStep
<1>6. Line(m, v) = m.rbuf[v] \o <<>>
  BY <1>5 DEF Line, On
<1>7. CASE NothingMoves(n, m)
  <2>1. Line(m, v) = q /\ m.eject = NoFlit
    BY <1>4, <1>6, <1>7 DEF NothingMoves
  <2>2. QED
    BY <1>1, <1>3, <1>4, <2>1 DEF Route
<1>8. ASSUME NEW w \in VCs, Forwards(n, m, w)
      PROVE  Route(a, m, b, t, m.eject, i, j)
  <2>1. PICK p \in Seq(FlitsOn(S, w)) : p = Buffered(n)[w]
    BY LineType
  <2>2. PICK f : f = m.eject
    OBVIOUS
  <2>3. f = Head(p) /\ p # <<>>
    BY <1>8, <2>1, <2>2 DEF Forwards
  <2>4. f \in FlitsOn(S, w)
    BY <2>3, HeadTail
  <2>5. f \in FlitsOf(S) /\ f.vc = w /\ f.vc = VcOf[f.tx.type] /\ f.tx.type \in Types /\ f # NoFlit
    BY <2>4, FlitFields DEF FlitsOn
  <2>6. DOMAIN Buffered(n) = VCs
    BY DEF Buffered
  <2>7. Tracked(FlitsOf(S))
    BY FlitsTracked
  <2>8. /\ f.tx.type = t => f.tx.id = y
        /\ Numbers(Line(m, v), t, Past(f, t, y), z)
    <3>1. CASE w = v
      <4>1. q = p
        BY <1>4, <2>1, <3>1
      <4>2. m.rbuf[v] = Tail(q)
        BY <1>4, <1>8, <2>6, <3>1 DEF Forwards
      <4>3. Tail(q) \in Seq(FlitsOf(S))
        BY <2>3, <4>1, HeadTail
      <4>4. Line(m, v) = Tail(q)
        BY <1>6, <4>2, <4>3
      <4>5. /\ f.tx.type = t => f.tx.id = y
            /\ Numbers(Tail(q), t, Past(f, t, y), z)
        BY <1>1, <1>3, <1>4, <2>3, <2>7, <4>1, NumbersTail
      <4>6. QED
        BY <4>4, <4>5
    <3>2. CASE w # v
      <4>1. m.rbuf[v] = q
        BY <1>4, <1>8, <2>6, <3>2 DEF Forwards
      <4>2. Line(m, v) = q
        BY <1>6, <4>1
      <4>3. f.tx.type # t
        BY <1>3, <2>5, <3>2
      <4>4. QED
        BY <1>1, <1>3, <1>4, <4>2, <4>3 DEF Past
    <3>3. QED
      BY <3>1, <3>2
  <2>9. Numbers(Opt(f), t, y, Past(f, t, y))
    <3>1. PICK e : e = <<>> /\ e \in Seq(FlitsOf(S)) /\ Append(e, f) = <<f>>
      <4>1. <<>> \in Seq(FlitsOf(S)) /\ Append(<<>>, f) = <<f>>
        BY <2>5
      <4>2. QED
        BY <4>1, Zenon
    <3>2. Numbers(e, t, y, y)
      BY <1>2, <3>1, NumbersEmpty
    <3>3. Numbers(Append(e, f), t, y, Past(f, t, y))
      BY <2>5, <2>7, <2>8, <3>1, <3>2, NumbersAppend
    <3>4. QED
      BY <2>5, <3>1, <3>3 DEF Opt
  <2>10. QED
    BY <1>1, <1>2, <1>3, <2>2, <2>8, <2>9 DEF Route
<1>9. QED
  BY <1>7, <1>8 DEF NocStep

LEMMA RouteEjects ==
  ASSUME NEW S, NEW b, DOMAIN b = Fields, Receiver(b, S), b.ejectReg = NoFlit,
         NEW f \in FlitsOf(S) \cup {NoFlit},
         NEW c, c = OutputEjection(b, f), c.ejectReg = NoFlit,
         NEW a, NEW n, NEW t \in S, NEW i, NEW j, Route(a, n, b, t, f, i, j)
  PROVE  Route(a, n, c, t, NoFlit, i, j)
<1>1. PICK x, y, z : /\ Arrived(b, t, i, x) /\ Numbers(Opt(f), t, x, y)
                     /\ Numbers(Line(n, VcOf[t]), t, y, z) /\ Numbers(Stream(a), t, z, j)
  BY DEF Route
<1>2. Arrived(c, t, i, y)
  BY <1>1, ArrivedEjects
<1>3. Numbers(Opt(NoFlit), t, y, y)
  <2>1. y \in Nat
    BY <1>1 DEF Numbers
  <2>2. QED
    BY <2>1, NumbersEmpty DEF Opt
<1>4. QED
  BY <1>1, <1>2, <1>3 DEF Route

(***************************************************************************)
(* The threads of the node and adapter clocks, in either order.            *)
(***************************************************************************)
Packetizes(a, b, old, k) ==
  /\ b.injFifo = a.injFifo \o Made(a, old) /\ b.injReg = a.injReg
  /\ b.cycle = NextCycle(a, old, k)
  /\ b.numFlits = IF Starts(a, old) THEN Len(Made(a, old)) ELSE a.numFlits
  /\ b.iReg = a.iReg /\ b.gotAw = a.gotAw

Handshakes(a, b, j, got, aw) ==
  /\ b.injFifo = a.injFifo /\ b.injReg = a.injReg /\ b.cycle = a.cycle
  /\ b.numFlits = a.numFlits
  /\ b.iReg = IF j = 0 THEN got ELSE a.iReg
  /\ b.gotAw = aw

\* x is what is presented, if anything is.
Receives(a, b, x, S) ==
  /\ \A t \in S : \A i, j : Arrived(a, t, i, j) =>
       /\ Shows(x, t) => x.id = i
       /\ Arrived(b, t, i + Count(Shows(x, t)), j)
  /\ \A P : ReceiverFrom(a, P, S) => ReceiverFrom(b, P, S) /\ (x # NoTx => x \in P)

LEMMA AdapterThreads ==
  ASSUME NEW SS, NEW RR, NEW a, Adapter(a, SS, RR), NEW old, NEW k,
         NEW b, b = AdapterClock(a, old, k)
  PROVE  Packetizes(a, b, old, k) /\ Receives(a, b, NoTx, RR)
<1>1. PICK c : c = OutputDepacketization(a)
  OBVIOUS
<1>2. /\ DOMAIN c = Fields /\ c.injFifo = a.injFifo /\ c.injReg = a.injReg /\ c.cycle = a.cycle
      /\ c.numFlits = a.numFlits /\ c.iReg = a.iReg /\ c.gotAw = a.gotAw
  BY <1>1 DEF Adapter, OutputDepacketization, WithFlitTaken, Fields
<1>3. b = InputPacketization(c, old, k)
  BY <1>1 DEF AdapterClock
<1>4. /\ b.injFifo = c.injFifo \o Made(c, old) /\ b.injReg = c.injReg
      /\ b.cycle = NextCycle(c, old, k)
      /\ b.numFlits = (IF Starts(c, old) THEN Len(Made(c, old)) ELSE c.numFlits)
      /\ b.iReg = c.iReg /\ b.gotAw = c.gotAw
      /\ SameBuilding(c, b) /\ b.outFifo = c.outFifo /\ b.outPacket = c.outPacket
  BY <1>2, <1>3 DEF InputPacketization, Fields, SameBuilding
<1>5. /\ Starts(c, old) = Starts(a, old) /\ Made(c, old) = Made(a, old)
      /\ NextCycle(c, old, k) = NextCycle(a, old, k)
  BY <1>2 DEF Starts, Made, NextCycle, Limit
<1>6. Packetizes(a, b, old, k)
  BY <1>2, <1>4, <1>5 DEF Packetizes
<1>7. ASSUME NEW t \in RR, NEW i, NEW j, Arrived(a, t, i, j)
      PROVE  Arrived(b, t, i + Count(Shows(NoTx, t)), j)
  <2>1. Arrived(c, t, i, j)
    BY <1>1, <1>7, ArrivedBuilds DEF Adapter
  <2>2. Packed(b) = Packed(c)
    BY <1>4 DEF Packed
  <2>3. Arrived(b, t, i, j)
    BY <1>4, <2>1, <2>2, ArrivedSame
  <2>4. i \in Nat
    BY <2>3 DEF Arrived, Numbers
  <2>5. i + Count(Shows(NoTx, t)) = i
    BY <2>4 DEF Count, Shows
  <2>6. QED
    BY <2>3, <2>5
<1>8. ASSUME NEW P, ReceiverFrom(a, P, RR) PROVE ReceiverFrom(b, P, RR)
  <2>1. ReceiverFrom(c, P, RR)
    BY <1>1, <1>8, FromBuilds DEF Adapter
  <2>2. QED
    BY <1>4, <2>1 DEF ReceiverFrom, SameBuilding, Packed
<1>9. QED
  BY <1>6, <1>7, <1>8 DEF Receives, Shows

LEMMA ReceivesNothing ==
  ASSUME NEW a, NEW S
  PROVE  Receives(a, a, NoTx, S)
<1>1. ASSUME NEW t \in S, NEW i, NEW j, Arrived(a, t, i, j)
      PROVE  i + Count(Shows(NoTx, t)) = i
  <2>1. i \in Nat
    BY <1>1 DEF Arrived, Numbers
  <2>2. QED
    BY <2>1 DEF Count, Shows
<1>2. QED
  BY <1>1 DEF Receives, Shows

\* One of the two threads presents nothing.
LEMMA ReceivesBoth ==
  ASSUME NEW S, NEW a, NEW b, NEW c, NEW x, NEW y, Receives(a, b, x, S), Receives(b, c, y, S),
         x = NoTx \/ y = NoTx
  PROVE  Receives(a, c, IF x = NoTx THEN y ELSE x, S)
<1>1. PICK w : w = IF x = NoTx THEN y ELSE x
  OBVIOUS
<1>2. ASSUME NEW t \in S, NEW i, NEW j, Arrived(a, t, i, j)
      PROVE  /\ Shows(w, t) => w.id = i
             /\ Arrived(c, t, i + Count(Shows(w, t)), j)
  <2>1. PICK d : d = i + Count(Shows(x, t))
    OBVIOUS
  <2>2. i \in Nat /\ (Shows(x, t) => x.id = i) /\ Arrived(b, t, d, j)
    <3>1. i \in Nat
      BY <1>2 DEF Arrived, Numbers
    <3>2. (Shows(x, t) => x.id = i) /\ Arrived(b, t, i + Count(Shows(x, t)), j)
      BY <1>2 DEF Receives
    <3>3. QED
      BY <2>1, <3>1, <3>2
  <2>3. (Shows(y, t) => y.id = d) /\ Arrived(c, t, d + Count(Shows(y, t)), j)
    BY <2>2 DEF Receives
  <2>4. CASE x = NoTx
    <3>1. w = y /\ d = i
      BY <1>1, <2>1, <2>2, <2>4 DEF Count, Shows
    <3>2. QED
      BY <2>3, <3>1
  <2>5. CASE x # NoTx
    <3>1. w = x /\ y = NoTx
      BY <1>1, <2>5
    <3>2. d + Count(Shows(y, t)) = d
      BY <2>1, <2>2, <3>1 DEF Count, Shows
    <3>3. QED
      BY <2>1, <2>2, <2>3, <3>1, <3>2
  <2>6. QED
    BY <2>4, <2>5
<1>3. ASSUME NEW P, ReceiverFrom(a, P, S)
      PROVE  ReceiverFrom(c, P, S) /\ (w # NoTx => w \in P)
  <2>1. ReceiverFrom(b, P, S) /\ (x # NoTx => x \in P)
    BY <1>3 DEF Receives
  <2>2. ReceiverFrom(c, P, S) /\ (y # NoTx => y \in P)
    BY <2>1 DEF Receives
  <2>3. QED
    BY <1>1, <2>1, <2>2
<1>4. QED
  BY <1>1, <1>2, <1>3 DEF Receives

LEMMA OutputReceives ==
  ASSUME NEW SS, NEW RR, NEW a, Adapter(a, SS, RR), NEW c, DOMAIN c = Fields,
         SameBuilding(a, c), SameOutput(a, c), NEW ready, NEW b, b = OutputInterface(c, ready)
  PROVE  Receives(a, b, Presented(a, ready), RR)
<1>1. Output(c, RR) /\ Packed(c) = Packed(a) /\ Presented(c, ready) = Presented(a, ready)
  BY DEF Adapter, Output, SameOutput, Packed, Presented, PacketAtHand
<1>2. PICK x : x = Presented(c, ready)
  OBVIOUS
<1>3. ASSUME NEW t \in RR, NEW i, NEW j, Arrived(a, t, i, j)
      PROVE  /\ Shows(x, t) => x.id = i
             /\ Arrived(b, t, i + Count(Shows(x, t)), j)
  <2>1. Arrived(c, t, i, j)
    BY <1>1, <1>3, ArrivedSame
  <2>2. QED
    BY <1>1, <1>2, <2>1, ArrivedPresents
<1>4. ASSUME NEW P, ReceiverFrom(a, P, RR)
      PROVE  ReceiverFrom(b, P, RR) /\ (x # NoTx => x \in P)
  <2>1. ReceiverFrom(c, P, RR)
    BY <1>1, <1>4 DEF ReceiverFrom, SameBuilding
  <2>2. QED
    BY <1>1, <1>2, <2>1, FromPresents
<1>5. QED
  BY <1>1, <1>2, <1>3, <1>4 DEF Receives

LEMMA ThreadsSend ==
  ASSUME NEW a, NEW b, NEW c, NEW k, NEW j, NEW got, NEW aw, got # NoTx => j = 0 /\ a.cycle = 0,
         \/ Packetizes(a, b, a, k) /\ Handshakes(b, c, j, got, aw)
         \/ Handshakes(a, b, j, got, aw) /\ Packetizes(b, c, a, k)
  PROVE  Sends(a, c, k, j, got) /\ c.gotAw = aw
<1>1. CASE Packetizes(a, b, a, k) /\ Handshakes(b, c, j, got, aw)
  BY <1>1 DEF Packetizes, Handshakes, Sends
<1>2. CASE Handshakes(a, b, j, got, aw) /\ Packetizes(b, c, a, k)
  <2>1. /\ Starts(b, a) = Starts(a, a) /\ Made(b, a) = Made(a, a)
        /\ NextCycle(b, a, k) = NextCycle(a, a, k)
    BY <1>2 DEF Handshakes, Starts, Made, NextCycle, Limit
  <2>2. QED
    BY <1>2, <2>1 DEF Packetizes, Handshakes, Sends
<1>3. QED
  BY <1>1, <1>2

(***************************************************************************)
(* What the adapters capture.                                              *)
(***************************************************************************)
SlaveGot(old, port, ids) ==
  IF SlaveReady(old, port) = {} THEN NoTx
  ELSE LET t == CHOOSE u \in SlaveReady(old, port) : TRUE
       IN  Addressed([port[t] EXCEPT !.id = ids[t]], old)

MasterGot(old, port, ids) ==
  IF MasterReady(old, port) = {} THEN NoTx
  ELSE LET t == CHOOSE u \in MasterReady(old, port) : "R" \in MasterReady(old, port) => u = "R"
       IN  [port[t] EXCEPT !.id = ids[t], !.dest = port[t].user]

\* The handshake of got at the ports, of which those in taken are ready.
Gets(old, port, ids, got, taken, S) ==
  /\ got \in TxOf(S) \cup {NoTx}
  /\ taken = IF got = NoTx THEN {} ELSE {got.type}
  /\ got # NoTx => /\ got.id = ids[got.type] /\ old.cycle = 0
                   /\ port[got.type] # NoTx /\ got.n = port[got.type].n

\* _got_aw after the handshake.
GotAw(a, got, port) ==
  IF got = NoTx THEN a.gotAw
  ELSE CASE got.type = "AW" -> TRUE
         [] got.type = "W"  -> ~port["W"].last
         [] got.type = "AR" -> a.gotAw

LEMMA SlaveReadyOne ==
  ASSUME NEW old, Input(old, Requests), NEW port, NEW t \in SlaveReady(old, port)
  PROVE  /\ SlaveReady(old, port) = {t} /\ t \in Requests /\ Asks(old, port, t) /\ old.cycle = 0
<1>1. ~(old.full \/ old.cycle # 0)
  BY DEF SlaveReady
<1>2. PICK o : o = OrderOf(old.setting)
  OBVIOUS
<1>3. o[1] \in Requests /\ o[2] \in Requests /\ o[3] \in Requests
  <2>1. old.setting = 0 \/ old.setting = 1 \/ old.setting = 2
    BY DEF Input
  <2>2. QED
    BY <1>2, <2>1 DEF OrderOf, Requests
<1>4. PICK T : T = {i \in 1 .. 3 : Asks(old, port, o[i])
                                   /\ \A j \in 1 .. i - 1 : ~Asks(old, port, o[j])}
  OBVIOUS
<1>5. SlaveReady(old, port) = {o[k] : k \in T}
  BY <1>1, <1>2, <1>4 DEF SlaveReady
<1>6. ASSUME NEW k \in T, NEW l \in T PROVE k = l
  <2>1. k < l \/ l < k \/ k = l
    BY <1>4
  <2>2. k < l => k \in 1 .. l - 1
    BY <1>4
  <2>3. l < k => l \in 1 .. k - 1
    BY <1>4
  <2>4. QED
    BY <1>4, <2>1, <2>2, <2>3
<1>7. PICK k \in T : t = o[k]
  BY <1>5
<1>8. SlaveReady(old, port) = {t}
  BY <1>5, <1>6, <1>7
<1>9. k \in 1 .. 3 /\ Asks(old, port, t)
  BY <1>4, <1>7
<1>10. QED
  BY <1>1, <1>3, <1>7, <1>8, <1>9

LEMMA SlaveGets ==
  ASSUME NEW old, Input(old, Requests), NEW port, Port(port, Requests),
         NEW ids \in [Types -> Nat], NEW got, got = SlaveGot(old, port, ids)
  PROVE  /\ Gets(old, port, ids, got, SlaveReady(old, port), Requests)
         /\ got # NoTx => Asks(old, port, got.type)
         /\ \A a : DOMAIN a = Fields =>
              LET b == SlaveInputInterface(a, old, port, ids)
              IN  b.iReg = got /\ b.gotAw = GotAw(a, got, port)
<1>1. CASE SlaveReady(old, port) = {}
  <2>1. got = NoTx
    BY <1>1 DEF SlaveGot
  <2>2. ASSUME NEW a, DOMAIN a = Fields, NEW b, b = SlaveInputInterface(a, old, port, ids)
        PROVE  b.iReg = got /\ b.gotAw = GotAw(a, got, port)
    <3>1. b = [a EXCEPT !.iReg = NoTx]
      BY <1>1, <2>2 DEF SlaveInputInterface
    <3>2. b.iReg = NoTx /\ b.gotAw = a.gotAw
      BY <2>2, <3>1 DEF Fields
    <3>3. QED
      BY <2>1, <3>2 DEF GotAw
  <2>3. QED
    BY <1>1, <2>1, <2>2 DEF Gets
<1>2. CASE SlaveReady(old, port) # {}
  <2>1. PICK t : t = CHOOSE u \in SlaveReady(old, port) : TRUE
    OBVIOUS
  <2>2. t \in SlaveReady(old, port)
    BY <1>2, <2>1
  <2>3. /\ SlaveReady(old, port) = {t} /\ t \in Requests /\ Asks(old, port, t) /\ old.cycle = 0
    BY <2>2, SlaveReadyOne
  <2>4. port[t] # NoTx /\ t \in Types
    BY <2>3 DEF Asks, Types
  <2>5. PICK x : x = [port[t] EXCEPT !.id = ids[t]]
    OBVIOUS
  <2>6. x \in TxOf({t}) /\ x.id = ids[t] /\ x.n = port[t].n
    <3>1. port[t] \in TxOf({t}) /\ ids[t] \in Nat
      BY <2>3, <2>4 DEF Port
    <3>2. QED
      BY <2>5, <3>1, Numbered, Nodes DEF TxOf, Transactions
  <2>7. got = Addressed(x, old)
    BY <1>2, <2>1, <2>5 DEF SlaveGot
  <2>8. got \in TxOf({t}) /\ got.id = ids[t] /\ got.n = port[t].n
    <3>1. old.lastDest \in Nat
      BY DEF Input
    <3>2. QED
      BY <2>6, <2>7, <3>1, Numbered DEF Addressed, TxOf, Transactions
  <2>9. got \in TxOf(Requests) /\ got.type = t /\ got # NoTx
    BY <2>3, <2>8, TxOfSome, TxFields
  <2>10. ASSUME NEW a, DOMAIN a = Fields, NEW b, b = SlaveInputInterface(a, old, port, ids)
         PROVE  b.iReg = got /\ b.gotAw = GotAw(a, got, port)
    <3>1. b = [a EXCEPT !.iReg    = got,
                        !.setting = Setting(t),
                        !.gotAw   = CASE t = "AW" -> TRUE
                                      [] t = "W"  -> ~port[t].last
                                      [] t = "AR" -> @]
      BY <1>2, <2>1, <2>5, <2>7, <2>10 DEF SlaveInputInterface
    <3>2. b.iReg = got
      BY <2>10, <3>1 DEF Fields
    <3>3. b.gotAw = CASE t = "AW" -> TRUE
                      [] t = "W"  -> ~port[t].last
                      [] t = "AR" -> a.gotAw
      BY <2>10, <3>1 DEF Fields
    <3>4. GotAw(a, got, port) = CASE t = "AW" -> TRUE
                                  [] t = "W"  -> ~port["W"].last
                                  [] t = "AR" -> a.gotAw
      BY <2>9 DEF GotAw
    <3>5. t = "AR" \/ t = "AW" \/ t = "W"
      BY <2>3 DEF Requests
    <3>6. QED
      BY <3>2, <3>3, <3>4, <3>5
  <2>11. QED
    BY <2>3, <2>4, <2>8, <2>9, <2>10 DEF Gets
<1>3. QED
  BY <1>1, <1>2

LEMMA MasterGets ==
  ASSUME NEW old, NEW port, Port(port, Responses),
         NEW ids \in [Types -> Nat], NEW got, got = MasterGot(old, port, ids)
  PROVE  /\ Gets(old, port, ids, got, MasterReady(old, port), Responses)
         /\ \A a : DOMAIN a = Fields =>
              LET b == MasterInputInterface(a, old, port, ids)
              IN  b.iReg = got /\ b.gotAw = a.gotAw
<1>1. CASE MasterReady(old, port) = {}
  <2>1. got = NoTx
    BY <1>1 DEF MasterGot
  <2>2. ASSUME NEW a, DOMAIN a = Fields, NEW b, b = MasterInputInterface(a, old, port, ids)
        PROVE  b.iReg = got /\ b.gotAw = a.gotAw
    <3>1. b = [a EXCEPT !.iReg = NoTx]
      BY <1>1, <2>2 DEF MasterInputInterface
    <3>2. QED
      BY <2>1, <2>2, <3>1 DEF Fields
  <2>3. QED
    BY <1>1, <2>1, <2>2 DEF Gets
<1>2. CASE MasterReady(old, port) # {}
  <2>1. PICK t : t = CHOOSE u \in MasterReady(old, port) :
                       "R" \in MasterReady(old, port) => u = "R"
    OBVIOUS
  <2>2. t \in MasterReady(old, port)
    <3>1. \E u \in MasterReady(old, port) : "R" \in MasterReady(old, port) => u = "R"
      BY <1>2
    <3>2. QED
      BY <2>1, <3>1, Zenon
  <2>3. t \in Responses /\ port[t] # NoTx /\ old.cycle = 0
    BY <2>2 DEF MasterReady
  <2>4. MasterReady(old, port) = {t}
    <3>1. \A u \in MasterReady(old, port) :
            u \in {"R", "B"} /\ (u # Prior(old.setting) => port[Prior(old.setting)] = NoTx)
            /\ port[u] # NoTx
      BY DEF MasterReady, Responses
    <3>2. Prior(old.setting) \in {"R", "B"}
      BY DEF Prior
    <3>3. \A u, w \in MasterReady(old, port) : u = w
      BY <3>1, <3>2
    <3>4. QED
      BY <2>2, <3>3
  <2>5. PICK p \in TxOf({t}) : p = port[t]
    BY <2>3 DEF Port
  <2>6. ids[t] \in Nat /\ p.user \in Nat
    BY <2>3, TxFields DEF Types
  <2>7. got = [p EXCEPT !.id = ids[t], !.dest = p.user]
    BY <1>2, <2>1, <2>5 DEF MasterGot
  <2>8. got \in TxOf({t}) /\ got.id = ids[t] /\ got.n = port[t].n
    BY <2>5, <2>6, <2>7 DEF TxOf, Transactions
  <2>9. got \in TxOf(Responses) /\ got.type = t /\ got # NoTx
    BY <2>3, <2>8, TxOfSome, TxFields
  <2>10. ASSUME NEW a, DOMAIN a = Fields, NEW b, b = MasterInputInterface(a, old, port, ids)
         PROVE  b.iReg = got /\ b.gotAw = a.gotAw
    <3>1. b = [a EXCEPT !.iReg = got, !.setting = IF t = "R" THEN 1 ELSE 0]
      BY <1>2, <2>1, <2>5, <2>7, <2>10 DEF MasterInputInterface
    <3>2. QED
      BY <2>10, <3>1 DEF Fields
  <2>11. QED
    BY <2>3, <2>4, <2>8, <2>9, <2>10 DEF Gets
<1>3. QED
  BY <1>1, <1>2

LEMMA SlaveNodeThreads ==
  ASSUME ModulesOk, AdaptersOk, NEW a, Adapter(a, Requests, Responses),
         NEW b, b = SlaveNodeEdge(a), NEW j, "req" \in Due <=> j = 0,
         NEW got, got = IF j = 0 THEN SlaveGot(slave, requester.port, Ids) ELSE NoTx
  PROVE  /\ Handshakes(a, b, j, got, GotAw(a, got, requester.port))
         /\ Receives(a, b, IF j = 0 THEN Presented(a, Responses) ELSE NoTx, Responses)
<1>1. CASE j # 0
  <2>1. b = a /\ got = NoTx
    BY <1>1 DEF SlaveNodeEdge
  <2>2. Handshakes(a, b, j, got, GotAw(a, got, requester.port))
    BY <1>1, <2>1 DEF Handshakes, GotAw
  <2>3. QED
    BY <1>1, <2>1, <2>2, ReceivesNothing
<1>2. CASE j = 0
  <2>1. PICK port, ids, old : port = requester.port /\ ids = Ids /\ old = slave
    OBVIOUS
  <2>2. ids \in [Types -> Nat]
    <3>1. \A t \in Types : accepted[t] + 1 \in Nat
      BY DEF ModulesOk
    <3>2. QED
      BY <2>1, <3>1 DEF Ids
  <2>3. Port(port, Requests) /\ Input(old, Requests)
    BY <2>1 DEF ModulesOk, RequesterOk, AdaptersOk, Adapter
  <2>4. PICK c : c = SlaveInputInterface(a, old, port, ids)
    OBVIOUS
  <2>5. got = SlaveGot(old, port, ids) /\ DOMAIN a = Fields
    BY <1>2, <2>1 DEF Adapter
  <2>6. c.iReg = got /\ c.gotAw = GotAw(a, got, port)
    BY <2>2, <2>3, <2>4, <2>5, SlaveGets
  <2>7. /\ DOMAIN c = Fields /\ SameBuilding(a, c) /\ SameOutput(a, c)
        /\ c.injFifo = a.injFifo /\ c.injReg = a.injReg /\ c.cycle = a.cycle
        /\ c.numFlits = a.numFlits
    BY <2>4, <2>5 DEF SlaveInputInterface, Fields, SameBuilding, SameOutput
  <2>8. b = OutputInterface(c, Responses)
    BY <1>2, <2>1, <2>4 DEF SlaveNodeEdge, SlaveNodeClock
  <2>9. /\ b.injFifo = c.injFifo /\ b.injReg = c.injReg /\ b.cycle = c.cycle
        /\ b.numFlits = c.numFlits /\ b.iReg = c.iReg /\ b.gotAw = c.gotAw
    BY <2>7, <2>8 DEF OutputInterface, Fields
  <2>10. Handshakes(a, b, j, got, GotAw(a, got, requester.port))
    BY <1>2, <2>1, <2>6, <2>7, <2>9 DEF Handshakes
  <2>11. Receives(a, b, Presented(a, Responses), Responses)
    BY <2>7, <2>8, OutputReceives
  <2>12. QED
    BY <1>2, <2>10, <2>11
<1>3. QED
  BY <1>1, <1>2

LEMMA MasterNodeThreads ==
  ASSUME ModulesOk, AdaptersOk, NEW a, Adapter(a, Responses, Requests),
         NEW b, b = MasterNodeEdge(a), NEW j, "rsp" \in Due <=> j = 0,
         NEW got, got = IF j = 0 THEN MasterGot(master, responder.port, Ids) ELSE NoTx
  PROVE  /\ Handshakes(a, b, j, got, a.gotAw)
         /\ Receives(a, b, IF j = 0 THEN Presented(a, responder.ready) ELSE NoTx, Requests)
<1>1. CASE j # 0
  <2>1. b = a /\ got = NoTx
    BY <1>1 DEF MasterNodeEdge
  <2>2. Handshakes(a, b, j, got, a.gotAw)
    BY <1>1, <2>1 DEF Handshakes
  <2>3. QED
    BY <1>1, <2>1, <2>2, ReceivesNothing
<1>2. CASE j = 0
  <2>1. PICK port, ids, old : port = responder.port /\ ids = Ids /\ old = master
    OBVIOUS
  <2>2. ids \in [Types -> Nat]
    <3>1. \A t \in Types : accepted[t] + 1 \in Nat
      BY DEF ModulesOk
    <3>2. QED
      BY <2>1, <3>1 DEF Ids
  <2>3. Port(port, Responses)
    BY <2>1 DEF ModulesOk, ResponderOk
  <2>4. PICK c : c = MasterInputInterface(a, old, port, ids)
    OBVIOUS
  <2>5. got = MasterGot(old, port, ids) /\ DOMAIN a = Fields
    BY <1>2, <2>1 DEF Adapter
  <2>6. c.iReg = got /\ c.gotAw = a.gotAw
    BY <2>2, <2>3, <2>4, <2>5, MasterGets
  <2>7. /\ DOMAIN c = Fields /\ SameBuilding(a, c) /\ SameOutput(a, c)
        /\ c.injFifo = a.injFifo /\ c.injReg = a.injReg /\ c.cycle = a.cycle
        /\ c.numFlits = a.numFlits
    BY <2>4, <2>5 DEF MasterInputInterface, Fields, SameBuilding, SameOutput
  <2>8. b = OutputInterface(c, responder.ready)
    BY <1>2, <2>1, <2>4 DEF MasterNodeEdge, MasterNodeClock
  <2>9. /\ b.injFifo = c.injFifo /\ b.injReg = c.injReg /\ b.cycle = c.cycle
        /\ b.numFlits = c.numFlits /\ b.iReg = c.iReg /\ b.gotAw = c.gotAw
    BY <2>7, <2>8 DEF OutputInterface, Fields
  <2>10. Handshakes(a, b, j, got, a.gotAw)
    BY <1>2, <2>6, <2>7, <2>9 DEF Handshakes
  <2>11. Receives(a, b, Presented(a, responder.ready), Requests)
    BY <2>7, <2>8, OutputReceives
  <2>12. QED
    BY <1>2, <2>10, <2>11
<1>3. QED
  BY <1>1, <1>2

(***************************************************************************)
(* An edge at one adapter: its node clock has one if j is 0, got is the    *)
(* transaction captured then and x the one presented.                      *)
(***************************************************************************)
EdgeAt(a, b, k, j, got, x, sig, sig2, RR) ==
  /\ got # NoTx \/ x # NoTx => j = 0
  /\ Sends(a, b, k, j, got) /\ Receives(a, b, x, RR)
  /\ sig2 = IF j = 0 THEN x ELSE sig

LEMMA SlaveEdges ==
  ASSUME ModulesOk, AdaptersOk, NEW adapterFirst \in BOOLEAN, Adapters(adapterFirst),
         "adapter" \in Due, NEW j, "req" \in Due <=> j = 0,
         rpEjected \in VcsOf(Responses) \cup {NoVC}
  PROVE  \E got, x :
           /\ EdgeAt(slave, slave', FreqRatio("req"), j, got, x, response, response', Responses)
           /\ Gets(slave, requester.port, Ids, got, SlaveTaken, Requests)
           /\ got # NoTx => Asks(slave, requester.port, got.type)
           /\ slave'.gotAw = GotAw(slave, got, requester.port)
<1>1. PICK got : got = IF j = 0 THEN SlaveGot(slave, requester.port, Ids) ELSE NoTx
  OBVIOUS
<1>2. /\ Gets(slave, requester.port, Ids, got, SlaveTaken, Requests)
      /\ got # NoTx => Asks(slave, requester.port, got.type)
  <2>1. CASE j # 0
    BY <1>1, <2>1 DEF Gets, SlaveTaken
  <2>2. CASE j = 0
    <3>1. Ids \in [Types -> Nat]
      <4>1. \A t \in Types : accepted[t] + 1 \in Nat
        BY DEF ModulesOk
      <4>2. QED
        BY <4>1 DEF Ids
    <3>2. Port(requester.port, Requests) /\ Input(slave, Requests)
      BY DEF ModulesOk, RequesterOk, AdaptersOk, Adapter
    <3>3. SlaveTaken = SlaveReady(slave, requester.port)
      BY <2>2 DEF SlaveTaken
    <3>4. got = SlaveGot(slave, requester.port, Ids)
      BY <1>1, <2>2
    <3>5. QED
      BY <3>1, <3>2, <3>3, <3>4, SlaveGets
  <2>3. QED
    BY <2>1, <2>2
<1>3. got # NoTx => j = 0 /\ slave.cycle = 0
  BY <1>1, <1>2 DEF Gets
<1>4. PICK k : k = FreqRatio("req")
  OBVIOUS
<1>5. Adapter(slave, Requests, Responses)
  BY DEF AdaptersOk
<1>6. CASE adapterFirst
  <2>1. PICK s : s = SlaveAdapterEdge(slave)
    OBVIOUS
  <2>2. PICK x : x = IF j = 0 THEN Presented(s, Responses) ELSE NoTx
    OBVIOUS
  <2>3. slave' = SlaveNodeEdge(s) /\ response' = IF j = 0 THEN x ELSE response
    BY <1>6, <2>1, <2>2 DEF Adapters
  <2>4. s = AdapterClock(slave, slave, k)
    BY <1>4, <2>1 DEF SlaveAdapterEdge
  <2>5. Packetizes(slave, s, slave, k) /\ Receives(slave, s, NoTx, Responses)
    BY <1>5, <2>4, AdapterThreads
  <2>6. Adapter(s, Requests, Responses)
    BY <2>1, SlaveAdapterEdgeOk DEF AdaptersOk, Edged
  <2>7. PICK aw : aw = GotAw(s, got, requester.port)
    OBVIOUS
  <2>8. Handshakes(s, slave', j, got, aw) /\ Receives(s, slave', x, Responses)
    BY <1>1, <2>2, <2>3, <2>6, <2>7, SlaveNodeThreads
  <2>9. Sends(slave, slave', k, j, got) /\ slave'.gotAw = aw
    BY <1>3, <2>5, <2>8, ThreadsSend
  <2>10. Receives(slave, slave', x, Responses)
    BY <2>5, <2>8, ReceivesBoth
  <2>11. aw = GotAw(slave, got, requester.port)
    BY <2>5, <2>7 DEF Packetizes, GotAw
  <2>12. EdgeAt(slave, slave', k, j, got, x, response, response', Responses)
    BY <1>3, <2>2, <2>3, <2>9, <2>10 DEF EdgeAt
  <2>13. QED
    BY <1>2, <1>4, <2>9, <2>11, <2>12
<1>7. CASE ~adapterFirst
  <2>1. PICK s : s = SlaveNodeEdge(slave)
    OBVIOUS
  <2>2. PICK x : x = IF j = 0 THEN Presented(slave, Responses) ELSE NoTx
    OBVIOUS
  <2>3. slave' = SlaveAdapterEdge(s) /\ response' = IF j = 0 THEN x ELSE response
    BY <1>7, <2>1, <2>2 DEF Adapters
  <2>4. slave' = AdapterClock(s, slave, k)
    BY <1>4, <2>3 DEF SlaveAdapterEdge
  <2>5. PICK aw : aw = GotAw(slave, got, requester.port)
    OBVIOUS
  <2>6. Handshakes(slave, s, j, got, aw) /\ Receives(slave, s, x, Responses)
    BY <1>1, <1>5, <2>1, <2>2, <2>5, SlaveNodeThreads
  <2>7. Adapter(s, Requests, Responses)
    BY <1>5, <2>1, SlaveNodeEdgeOk DEF Kept
  <2>8. Packetizes(s, slave', slave, k) /\ Receives(s, slave', NoTx, Responses)
    BY <2>4, <2>7, AdapterThreads
  <2>9. Sends(slave, slave', k, j, got) /\ slave'.gotAw = aw
    BY <1>3, <2>6, <2>8, ThreadsSend
  <2>10. Receives(slave, slave', x, Responses)
    BY <2>6, <2>8, ReceivesBoth
  <2>11. EdgeAt(slave, slave', k, j, got, x, response, response', Responses)
    BY <1>3, <2>2, <2>3, <2>9, <2>10 DEF EdgeAt
  <2>12. QED
    BY <1>2, <1>4, <2>5, <2>9, <2>11
<1>8. QED
  BY <1>6, <1>7

LEMMA MasterEdges ==
  ASSUME ModulesOk, AdaptersOk, NEW adapterFirst \in BOOLEAN, Adapters(adapterFirst),
         "adapter" \in Due, NEW j, "rsp" \in Due <=> j = 0,
         rqEjected \in VcsOf(Requests) \cup {NoVC}
  PROVE  \E got, x :
           /\ EdgeAt(master, master', FreqRatio("rsp"), j, got, x, request, request', Requests)
           /\ Gets(master, responder.port, Ids, got, MasterTaken, Responses)
<1>1. PICK got : got = IF j = 0 THEN MasterGot(master, responder.port, Ids) ELSE NoTx
  OBVIOUS
<1>2. Gets(master, responder.port, Ids, got, MasterTaken, Responses)
  <2>1. CASE j # 0
    BY <1>1, <2>1 DEF Gets, MasterTaken
  <2>2. CASE j = 0
    <3>1. Ids \in [Types -> Nat]
      <4>1. \A t \in Types : accepted[t] + 1 \in Nat
        BY DEF ModulesOk
      <4>2. QED
        BY <4>1 DEF Ids
    <3>2. Port(responder.port, Responses)
      BY DEF ModulesOk, ResponderOk
    <3>3. MasterTaken = MasterReady(master, responder.port)
      BY <2>2 DEF MasterTaken
    <3>4. got = MasterGot(master, responder.port, Ids)
      BY <1>1, <2>2
    <3>5. QED
      BY <3>1, <3>2, <3>3, <3>4, MasterGets
  <2>3. QED
    BY <2>1, <2>2
<1>3. got # NoTx => j = 0 /\ master.cycle = 0
  BY <1>1, <1>2 DEF Gets
<1>4. PICK k : k = FreqRatio("rsp")
  OBVIOUS
<1>5. Adapter(master, Responses, Requests)
  BY DEF AdaptersOk
<1>6. CASE adapterFirst
  <2>1. PICK s : s = MasterAdapterEdge(master)
    OBVIOUS
  <2>2. PICK x : x = IF j = 0 THEN Presented(s, responder.ready) ELSE NoTx
    OBVIOUS
  <2>3. master' = MasterNodeEdge(s) /\ request' = IF j = 0 THEN x ELSE request
    BY <1>6, <2>1, <2>2 DEF Adapters
  <2>4. s = AdapterClock(master, master, k)
    BY <1>4, <2>1 DEF MasterAdapterEdge
  <2>5. Packetizes(master, s, master, k) /\ Receives(master, s, NoTx, Requests)
    BY <1>5, <2>4, AdapterThreads
  <2>6. Adapter(s, Responses, Requests)
    BY <2>1, MasterAdapterEdgeOk DEF AdaptersOk, Edged
  <2>7. Handshakes(s, master', j, got, s.gotAw) /\ Receives(s, master', x, Requests)
    BY <1>1, <2>2, <2>3, <2>6, MasterNodeThreads
  <2>8. Sends(master, master', k, j, got)
    BY <1>3, <2>5, <2>7, ThreadsSend
  <2>9. Receives(master, master', x, Requests)
    BY <2>5, <2>7, ReceivesBoth
  <2>10. EdgeAt(master, master', k, j, got, x, request, request', Requests)
    BY <1>3, <2>2, <2>3, <2>8, <2>9 DEF EdgeAt
  <2>11. QED
    BY <1>2, <1>4, <2>10
<1>7. CASE ~adapterFirst
  <2>1. PICK s : s = MasterNodeEdge(master)
    OBVIOUS
  <2>2. PICK x : x = IF j = 0 THEN Presented(master, responder.ready) ELSE NoTx
    OBVIOUS
  <2>3. master' = MasterAdapterEdge(s) /\ request' = IF j = 0 THEN x ELSE request
    BY <1>7, <2>1, <2>2 DEF Adapters
  <2>4. master' = AdapterClock(s, master, k)
    BY <1>4, <2>3 DEF MasterAdapterEdge
  <2>5. Handshakes(master, s, j, got, master.gotAw) /\ Receives(master, s, x, Requests)
    BY <1>1, <1>5, <2>1, <2>2, MasterNodeThreads
  <2>6. Adapter(s, Responses, Requests)
    BY <1>5, <2>1, MasterNodeEdgeOk DEF Kept
  <2>7. Packetizes(s, master', master, k) /\ Receives(s, master', NoTx, Requests)
    BY <2>4, <2>6, AdapterThreads
  <2>8. Sends(master, master', k, j, got)
    BY <1>3, <2>5, <2>7, ThreadsSend
  <2>9. Receives(master, master', x, Requests)
    BY <2>5, <2>7, ReceivesBoth
  <2>10. EdgeAt(master, master', k, j, got, x, request, request', Requests)
    BY <1>3, <2>2, <2>3, <2>8, <2>9 DEF EdgeAt
  <2>11. QED
    BY <1>2, <1>4, <2>10
<1>8. QED
  BY <1>6, <1>7

(***************************************************************************)
(* One direction, for the types S: what is delivered next, i, is what the  *)
(* route starts with.  del: the numbers delivered; sig: what b presents.   *)
(***************************************************************************)
Shown(del, sig, t, i) ==
  /\ Shows(sig, t) => sig.id = i - 1
  /\ del[t] + Count(Shows(sig, t)) <= i - 1
  /\ RoomEnough \/ t \in Responses => del[t] + Count(Shows(sig, t)) = i - 1

OrderOk(acc, del, a, n, b, S, f, sig) ==
  \A t \in S : \E i \in Nat \ {0} :
    Shown(del, sig, t, i) /\ Route(a, n, b, t, f, i, MadeUpTo(acc, a, t))

\* Of the types in R what is presented is taken when the node clock has an edge.
Delivers(del, del2, sig, j, S, R) ==
  \A t \in S : del2[t] = IF j = 0 /\ Shows(sig, t) /\ t \in R
                         THEN IF sig.id = del[t] THEN 0 ELSE sig.id
                         ELSE del[t]

\* Nothing is delivered twice, and with room at the module nothing is left out.
DeliveredOk(acc, del, del2, sig, j, S, R) ==
  \A t \in S :
    /\ del2[t] \in Nat /\ del[t] + Count(j = 0 /\ Shows(sig, t) /\ t \in R) <= del2[t]
    /\ RoomEnough \/ t \in Responses =>
         del2[t] = del[t] \/ (del2[t] = del[t] + 1 /\ del[t] < acc[t])

LEMMA OrderBounds ==
  ASSUME NEW acc \in [Types -> Nat], NEW del \in [Types -> Nat], NEW a, NEW n, NEW b,
         NEW S \in SUBSET Types, NEW f, NEW sig, OrderOk(acc, del, a, n, b, S, f, sig),
         NEW t \in S
  PROVE  del[t] + Count(Shows(sig, t)) <= acc[t]
<1>1. PICK i \in Nat \ {0} :
        Shown(del, sig, t, i) /\ Route(a, n, b, t, f, i, MadeUpTo(acc, a, t))
  BY DEF OrderOk
<1>2. PICK j : j = MadeUpTo(acc, a, t)
  OBVIOUS
<1>3. i <= j
  BY <1>1, <1>2, RouteUp
<1>4. acc[t] \in Nat /\ del[t] \in Nat
  OBVIOUS
<1>5. j \in Int /\ j <= acc[t] + 1
  BY <1>2, <1>4 DEF MadeUpTo, Count
<1>6. del[t] + Count(Shows(sig, t)) <= i - 1 /\ Count(Shows(sig, t)) \in Nat
  BY <1>1 DEF Shown, Count
<1>7. QED
  BY <1>3, <1>4, <1>5, <1>6

LEMMA RouteEdge ==
  ASSUME NEW S \in SUBSET Types, NEW a, Queued(a, S), NEW acc, NEW acc2, NEW a2, NEW p,
         Makes(acc, acc2, a, a2, p, S),
         NEW b, NEW b2, NEW x, Receives(b, b2, x, S),
         NEW n, NEW m, m.inject = n.inject, m.rbuf = n.rbuf,
         NEW t \in S, NEW f, NEW i, Route(a, n, b, t, f, i, MadeUpTo(acc, a, t))
  PROVE  /\ Shows(x, t) => x.id = i
         /\ Route(a2, m, b2, t, f, i + Count(Shows(x, t)), MadeUpTo(acc2, a2, t))
<1>1. PICK u, y, z :
        /\ Arrived(b, t, i, u) /\ Numbers(Opt(f), t, u, y)
        /\ Numbers(Line(n, VcOf[t]), t, y, z) /\ Numbers(Stream(a), t, z, MadeUpTo(acc, a, t))
  BY DEF Route
<1>2. (Shows(x, t) => x.id = i) /\ Arrived(b2, t, i + Count(Shows(x, t)), u)
  BY <1>1 DEF Receives
<1>3. Line(m, VcOf[t]) = Line(n, VcOf[t])
  BY DEF Line
<1>4. Numbers(Stream(a2), t, z, MadeUpTo(acc2, a2, t))
  BY <1>1, StreamMakes
<1>5. QED
  BY <1>1, <1>2, <1>3, <1>4 DEF Route

LEMMA OrderEdge ==
  ASSUME NEW S \in SUBSET Types, NEW acc \in [Types -> Nat], NEW del \in [Types -> Nat],
         NEW a, NEW a2, NEW acc2, NEW p, NEW b, NEW b2, NEW x, NEW j, NEW n, NEW m, NEW f,
         NEW sig, NEW sig2, NEW del2, NEW R,
         OrderOk(acc, del, a, n, b, S, f, sig), Queued(a, S), Makes(acc, acc2, a, a2, p, S),
         Receives(b, b2, x, S), Delivers(del, del2, sig, j, S, R),
         x # NoTx => j = 0, sig2 = (IF j = 0 THEN x ELSE sig),
         m.inject = n.inject, m.rbuf = n.rbuf,
         RoomEnough \/ S \subseteq Responses => S \subseteq R,
         S \subseteq Responses \/ S \cap Responses = {}
  PROVE  OrderOk(acc2, del2, a2, m, b2, S, f, sig2) /\ DeliveredOk(acc, del, del2, sig, j, S, R)
<1>1. SUFFICES ASSUME NEW t \in S
               PROVE  /\ \E i \in Nat \ {0} :
                           Shown(del2, sig2, t, i) /\ Route(a2, m, b2, t, f, i, MadeUpTo(acc2, a2, t))
                      /\ del2[t] \in Nat /\ del[t] + Count(j = 0 /\ Shows(sig, t) /\ t \in R) <= del2[t]
                      /\ RoomEnough \/ t \in Responses =>
                           del2[t] = del[t] \/ (del2[t] = del[t] + 1 /\ del[t] < acc[t])
  BY DEF OrderOk, DeliveredOk
<1>2. PICK i \in Nat \ {0} :
        Shown(del, sig, t, i) /\ Route(a, n, b, t, f, i, MadeUpTo(acc, a, t))
  BY DEF OrderOk
<1>3. PICK d \in Nat, e \in {0, 1}, c \in {0, 1} :
        d = del[t] /\ e = Count(Shows(x, t)) /\ c = Count(Shows(sig, t))
  <2>1. del[t] \in Nat /\ Count(Shows(x, t)) \in {0, 1} /\ Count(Shows(sig, t)) \in {0, 1}
    BY DEF Count
  <2>2. QED
    BY <2>1
<1>4. (Shows(x, t) => x.id = i) /\ Route(a2, m, b2, t, f, i + e, MadeUpTo(acc2, a2, t))
  BY <1>2, <1>3, RouteEdge
<1>5. /\ Shows(sig, t) => sig.id = i - 1
      /\ d + c <= i - 1
      /\ RoomEnough \/ t \in Responses => d + c = i - 1
  BY <1>2, <1>3 DEF Shown
<1>6. /\ c = 1 <=> Shows(sig, t)
      /\ e = 1 <=> Shows(x, t)
  BY <1>3 DEF Count
<1>7. RoomEnough \/ t \in Responses => t \in R
  OBVIOUS
<1>8. PICK d2 : d2 = del2[t]
  OBVIOUS
<1>9. d2 = IF j = 0 /\ c = 1 /\ t \in R THEN i - 1 ELSE d
  <2>1. d2 = IF j = 0 /\ c = 1 /\ t \in R
             THEN IF sig.id = d THEN 0 ELSE sig.id
             ELSE d
    BY <1>3, <1>6, <1>8 DEF Delivers
  <2>2. c = 1 => sig.id = i - 1 /\ i - 1 # d
    BY <1>5, <1>6
  <2>3. QED
    BY <2>1, <2>2
<1>10. d2 \in Nat /\ d2 <= i - 1
  BY <1>5, <1>9
<1>11. d + Count(j = 0 /\ Shows(sig, t) /\ t \in R) <= d2
  BY <1>5, <1>6, <1>9 DEF Count
<1>12. ASSUME RoomEnough \/ t \in Responses
       PROVE  d2 = d \/ (d2 = d + 1 /\ d < acc[t])
  <2>1. d + c <= acc[t] /\ acc[t] \in Nat
    BY <1>3, OrderBounds
  <2>2. CASE c = 1
    BY <1>5, <1>9, <1>12, <2>1, <2>2
  <2>3. CASE c = 0
    BY <1>9, <2>3
  <2>4. QED
    BY <2>2, <2>3
<1>13. Shown(del2, sig2, t, i + e)
  <2>1. CASE j = 0
    <3>1. sig2 = x /\ (Shows(x, t) => x.id = (i + e) - 1)
      BY <1>4, <1>6, <2>1
    <3>2. d2 + e <= (i + e) - 1
      BY <1>10
    <3>3. RoomEnough \/ t \in Responses => d2 + e = (i + e) - 1
      BY <1>5, <1>7, <1>9, <2>1
    <3>4. QED
      BY <1>3, <1>8, <3>1, <3>2, <3>3 DEF Shown
  <2>2. CASE j # 0
    <3>1. sig2 = sig /\ e = 0 /\ d2 = d
      BY <1>6, <1>9, <2>2 DEF Shows
    <3>2. i + e = i
      BY <3>1
    <3>3. QED
      BY <1>2, <1>3, <1>8, <3>1, <3>2 DEF Shown
  <2>3. QED
    BY <2>1, <2>2
<1>14. i + e \in Nat \ {0}
  OBVIOUS
<1>15. QED
  BY <1>3, <1>4, <1>8, <1>10, <1>11, <1>12, <1>13, <1>14

(***************************************************************************)
(* The modules.  While the adapter has captured nothing, a module presents *)
(* what is at the front of its queue.  A command accepted as an AW stays   *)
(* at the front until its W is accepted.                                   *)
(***************************************************************************)
RequesterPort(q) ==
  IF q.fifo = <<>> THEN Modules!NoRequest ELSE Modules!PortFor(Head(q.fifo), q.awAccepted)

RequesterInv(q, c, g, acc, a) ==
  /\ a.gotAw = q.awAccepted /\ q.awAccepted \in BOOLEAN
  /\ q.awAccepted => q.fifo # <<>> /\ Head(q.fifo).write
  /\ a.iReg = NoTx => q.port = RequesterPort(q)
  /\ (acc["AR"] + acc["AW"]) + (Len(q.fifo) + Count(c # NoTx)) <= g + Count(q.awAccepted)
  /\ acc["W"] + Count(q.awAccepted) = acc["AW"]
  /\ g <= MaxCommands

Offers(q, c, c2, g, g2) ==
  IF c # NoTx /\ q.full THEN c2 = c /\ g2 = g
  ELSE IF g = MaxCommands THEN c2 = NoTx /\ g2 = g
  ELSE c2 \in Commands(g + 1) /\ g2 = g + 1

LEMMA Offered ==
  ASSUME NEW q, NEW c, NEW c2, NEW g \in Nat, NEW g2, Offers(q, c, c2, g, g2), g <= MaxCommands
  PROVE  /\ g2 \in Nat /\ g2 <= MaxCommands
         /\ Count(c # NoTx /\ ~q.full) + Count(c2 # NoTx) + g <= Count(c # NoTx) + g2
<1>1. MaxCommands \in Nat
  BY PathAssumption
<1>2. CASE c # NoTx /\ q.full
  BY <1>2 DEF Offers, Count
<1>3. CASE ~(c # NoTx /\ q.full) /\ g = MaxCommands
  BY <1>3 DEF Offers, Count
<1>4. CASE ~(c # NoTx /\ q.full) /\ g # MaxCommands
  BY <1>1, <1>4 DEF Offers, Count
<1>5. QED
  BY <1>2, <1>3, <1>4

LEMMA PushedQueue ==
  ASSUME NEW q, RequesterOk(q), NEW c \in Cmds \cup {NoTx}, NEW f, f = Modules!Pushed(q, c)
  PROVE  /\ f \in Seq(Cmds) /\ Len(f) = Len(q.fifo) + Count(c # NoTx /\ ~q.full)
         /\ q.fifo # <<>> => f # <<>> /\ Head(f) = Head(q.fifo)
<1>1. q.fifo \in Seq(Cmds)
  BY DEF RequesterOk
<1>2. CASE c # NoTx /\ ~q.full
  <2>1. f = Append(q.fifo, c) /\ c \in Cmds
    BY <1>2 DEF Modules!Pushed
  <2>2. QED
    BY <1>1, <1>2, <2>1 DEF Count
<1>3. CASE ~(c # NoTx /\ ~q.full)
  <2>1. f = q.fifo /\ Count(c # NoTx /\ ~q.full) = 0 /\ Len(q.fifo) \in Nat
    BY <1>1, <1>3 DEF Modules!Pushed, Count
  <2>2. QED
    BY <1>1, <2>1
<1>4. QED
  BY <1>2, <1>3

\* What is presented for a command, by its type.
LEMMA PortOf ==
  ASSUME NEW q, RequesterOk(q), q.port = RequesterPort(q), q.awAccepted \in BOOLEAN,
         NEW t \in Requests, q.port[t] # NoTx
  PROVE  /\ q.fifo # <<>> /\ q.port[t].last = TRUE /\ q.port[t].n = Head(q.fifo).n
         /\ t = "AR" => ~Head(q.fifo).write
         /\ t = "AW" => Head(q.fifo).write /\ ~q.awAccepted
         /\ t = "W"  => Head(q.fifo).write
<1>1. q.fifo # <<>>
  BY DEF RequesterPort, Modules!NoRequest, Requests
<1>2. PICK c : c = Head(q.fifo)
  OBVIOUS
<1>3. q.port = Modules!PortFor(c, q.awAccepted)
  BY <1>1, <1>2 DEF RequesterPort
<1>4. c.write \in BOOLEAN
  <2>1. c \in Cmds
    BY <1>1, <1>2, HeadTail DEF RequesterOk
  <2>2. QED
    BY <2>1 DEF Cmds
<1>5. CASE c.write
  <2>1. q.port = [AR |-> NoTx,
                  AW |-> IF q.awAccepted THEN NoTx
                         ELSE Modules!Tx("AW", ResponderNode, RequesterNode, c.n),
                  W  |-> Modules!Tx("W", 0, RequesterNode, c.n)]
    BY <1>3, <1>5 DEF Modules!PortFor, Modules!NoRequest
  <2>2. t # "AR" /\ (t = "AW" => ~q.awAccepted) /\ t \in {"AW", "W"}
    BY <2>1 DEF Requests
  <2>3. q.port[t].last = TRUE /\ q.port[t].n = c.n
    BY <2>1, <2>2 DEF Modules!Tx
  <2>4. QED
    BY <1>1, <1>2, <1>5, <2>2, <2>3
<1>6. CASE ~c.write
  <2>1. q.port = [AR |-> Modules!Tx("AR", ResponderNode, RequesterNode, c.n),
                  AW |-> NoTx, W |-> NoTx]
    BY <1>3, <1>6 DEF Modules!PortFor, Modules!NoRequest
  <2>2. t = "AR"
    BY <2>1 DEF Requests
  <2>3. q.port[t].last = TRUE /\ q.port[t].n = c.n
    BY <2>1, <2>2 DEF Modules!Tx
  <2>4. QED
    BY <1>1, <1>2, <1>6, <2>2, <2>3
<1>7. QED
  BY <1>4, <1>5, <1>6

LEMMA RequesterEdge ==
  ASSUME NEW q, RequesterOk(q), NEW c \in Cmds \cup {NoTx}, NEW g \in Nat, NEW a,
         NEW acc \in [Types -> Nat], RequesterInv(q, c, g, acc, a),
         NEW c2, NEW g2, Offers(q, c, c2, g, g2),
         NEW got \in TxOf(Requests) \cup {NoTx},
         got # NoTx => a.iReg = NoTx /\ Asks(a, q.port, got.type),
         NEW resp, NEW taken, taken = (IF got = NoTx THEN {} ELSE {got.type}),
         NEW q2, q2 = Modules!RequesterTick(q, c, taken, resp),
         NEW b, b.iReg = got, b.gotAw = GotAw(a, got, q.port),
         NEW acc2, Counts(acc, acc2, got, Requests)
  PROVE  RequesterInv(q2, c2, g2, acc2, b)
<1>1. PICK f : f = Modules!Pushed(q, c)
  OBVIOUS
<1>2. /\ f \in Seq(Cmds) /\ Len(f) = Len(q.fifo) + Count(c # NoTx /\ ~q.full)
      /\ q.fifo # <<>> => f # <<>> /\ Head(f) = Head(q.fifo)
  BY <1>1, PushedQueue
<1>3. /\ q2.fifo = Modules!Popped(f, taken \cap {"W", "AR"} # {})
      /\ q2.awAccepted = IF "AW" \in taken THEN TRUE
                         ELSE IF "W" \in taken THEN FALSE ELSE q.awAccepted
      /\ q2.port = IF f = <<>> THEN Modules!NoRequest
                   ELSE Modules!PortFor(Head(f), q.awAccepted)
  BY <1>1 DEF Modules!RequesterTick
<1>4. /\ g2 \in Nat /\ g2 <= MaxCommands
      /\ Count(c # NoTx /\ ~q.full) + Count(c2 # NoTx) + g <= Count(c # NoTx) + g2
  BY Offered DEF RequesterInv
<1>5. /\ a.gotAw = q.awAccepted /\ q.awAccepted \in BOOLEAN
      /\ q.awAccepted => q.fifo # <<>> /\ Head(q.fifo).write
      /\ (acc["AR"] + acc["AW"]) + (Len(q.fifo) + Count(c # NoTx)) <= g + Count(q.awAccepted)
      /\ acc["W"] + Count(q.awAccepted) = acc["AW"]
  BY DEF RequesterInv
<1>6. PICK nr, nw, nd : /\ nr = acc["AR"] /\ nw = acc["AW"] /\ nd = acc["W"]
                        /\ nr \in Nat /\ nw \in Nat /\ nd \in Nat
  BY DEF Types, Requests
<1>7. /\ acc2["AR"] = nr + Count(Shows(got, "AR")) /\ acc2["AW"] = nw + Count(Shows(got, "AW"))
      /\ acc2["W"] = nd + Count(Shows(got, "W"))
  BY <1>6 DEF Counts, Requests
<1>8. PICK x, y, z, n, m : /\ x = Count(c # NoTx /\ ~q.full) /\ y = Count(c2 # NoTx)
                           /\ z = Count(c # NoTx) /\ n = Len(q.fifo) /\ m = Len(f)
  OBVIOUS
<1>9. x \in Nat /\ y \in Nat /\ z \in Nat /\ n \in Nat /\ m \in Nat /\ m = n + x /\ x + y + g <= z + g2
  <2>1. q.fifo \in Seq(Cmds)
    BY DEF RequesterOk
  <2>2. n \in Nat /\ m \in Nat
    BY <1>2, <1>8, <2>1
  <2>3. x \in Nat /\ y \in Nat /\ z \in Nat
    BY <1>8 DEF Count
  <2>4. QED
    BY <1>2, <1>4, <1>8, <2>2, <2>3
<1>10. nr + nw + n + z <= g + Count(q.awAccepted) /\ nd + Count(q.awAccepted) = nw
  <2>1. (nr + nw) + (n + z) <= g + Count(q.awAccepted) /\ nd + Count(q.awAccepted) = nw
    BY <1>5, <1>6, <1>8
  <2>2. Count(q.awAccepted) \in Nat
    BY DEF Count
  <2>3. QED
    BY <1>6, <1>9, <2>1, <2>2
<1>11. nr + nw + m + y <= g2 + Count(q.awAccepted)
  BY <1>4, <1>6, <1>9, <1>10 DEF Count
<1>12. CASE got = NoTx
  <2>1. taken = {} /\ b.gotAw = q.awAccepted
    BY <1>5, <1>12 DEF GotAw
  <2>2. q2.fifo = f /\ q2.awAccepted = q.awAccepted
    BY <1>3, <2>1 DEF Modules!Popped
  <2>3. q2.port = RequesterPort(q2)
    BY <1>3, <2>2 DEF RequesterPort
  <2>4. acc2["AR"] = nr /\ acc2["AW"] = nw /\ acc2["W"] = nd
    BY <1>6, <1>7, <1>12 DEF Shows, Count
  <2>5. (acc2["AR"] + acc2["AW"]) + (Len(q2.fifo) + Count(c2 # NoTx)) <= g2 + Count(q2.awAccepted)
    <3>1. Count(q2.awAccepted) \in Nat
      BY DEF Count
    <3>2. (nr + nw) + (m + y) <= g2 + Count(q2.awAccepted)
      BY <1>4, <1>6, <1>9, <1>11, <2>2, <3>1
    <3>3. QED
      BY <1>8, <2>2, <2>4, <3>2
  <2>6. acc2["W"] + Count(q2.awAccepted) = acc2["AW"]
    BY <1>10, <2>2, <2>4
  <2>7. q2.awAccepted => q2.fifo # <<>> /\ Head(q2.fifo).write
    BY <1>2, <1>5, <2>2
  <2>8. QED
    BY <1>4, <1>5, <2>1, <2>2, <2>3, <2>5, <2>6, <2>7 DEF RequesterInv
<1>13. CASE got # NoTx
  <2>1. PICK t : t = got.type
    OBVIOUS
  <2>2. /\ t \in Requests /\ taken = {t} /\ b.iReg # NoTx
        /\ q.port = RequesterPort(q) /\ q.port[t] # NoTx /\ (t = "W" => q.awAccepted)
    BY <1>5, <1>13, <2>1, TxFields DEF RequesterInv, Asks
  <2>3. /\ q.fifo # <<>> /\ q.port[t].last = TRUE
        /\ t = "AR" => ~Head(q.fifo).write
        /\ t = "AW" => Head(q.fifo).write /\ ~q.awAccepted
        /\ t = "W"  => Head(q.fifo).write
    BY <1>5, <2>2, PortOf
  <2>4. f # <<>> /\ Head(f) = Head(q.fifo)
    BY <1>2, <2>3
  <2>5. Shows(got, "AR") = (t = "AR") /\ Shows(got, "AW") = (t = "AW") /\ Shows(got, "W") = (t = "W")
    BY <1>13, <2>1 DEF Shows
  <2>6. CASE t = "AW"
    <3>1. q2.fifo = f /\ q2.awAccepted = TRUE
      BY <1>3, <2>2, <2>6 DEF Modules!Popped
    <3>2. b.gotAw = TRUE
      BY <1>13, <2>1, <2>6 DEF GotAw
    <3>3. acc2["AR"] = nr /\ acc2["AW"] = nw + 1 /\ acc2["W"] = nd
      <4>1. ~Shows(got, "AR") /\ Shows(got, "AW") /\ ~Shows(got, "W")
        BY <2>5, <2>6
      <4>2. QED
        BY <1>6, <1>7, <4>1 DEF Count
    <3>4. nr + nw + m + y <= g2 /\ nd = nw
      <4>1. Count(q.awAccepted) = 0
        BY <2>3, <2>6 DEF Count
      <4>2. nr + nw + m + y <= g2 + 0 /\ nd + 0 = nw
        BY <1>10, <1>11, <4>1
      <4>3. QED
        BY <1>4, <1>6, <1>9, <4>2
    <3>5. (acc2["AR"] + acc2["AW"]) + (Len(q2.fifo) + Count(c2 # NoTx)) <= g2 + Count(q2.awAccepted)
      <4>1. Count(q2.awAccepted) = 1
        BY <3>1 DEF Count
      <4>2. (nr + (nw + 1)) + (m + y) <= g2 + 1
        BY <1>4, <1>6, <1>9, <3>4
      <4>3. QED
        BY <1>8, <3>1, <3>3, <4>1, <4>2
    <3>6. acc2["W"] + Count(q2.awAccepted) = acc2["AW"]
      BY <1>6, <3>1, <3>3, <3>4 DEF Count
    <3>7. QED
      BY <1>4, <2>2, <2>3, <2>4, <2>6, <3>1, <3>2, <3>5, <3>6 DEF RequesterInv
  <2>7. CASE t # "AW"
    <3>1. t \in {"AR", "W"}
      BY <2>2, <2>7 DEF Requests
    <3>2. q2.fifo = Tail(f) /\ q2.awAccepted = FALSE
      BY <1>3, <1>5, <2>2, <2>3, <2>4, <3>1 DEF Modules!Popped
    <3>3. b.gotAw = FALSE
      <4>1. CASE t = "AR"
        BY <1>5, <1>13, <2>1, <2>3, <4>1 DEF GotAw
      <4>2. CASE t = "W"
        BY <1>13, <2>1, <2>3, <4>2 DEF GotAw
      <4>3. QED
        BY <3>1, <4>1, <4>2
    <3>4. Len(q2.fifo) = m - 1
      BY <1>2, <1>8, <2>4, <3>2, HeadTail
    <3>5. acc2["AR"] + acc2["AW"] = nr + nw + Count(t = "AR") /\ acc2["AW"] = nw
          /\ acc2["W"] = nd + Count(t = "W")
      <4>1. CASE t = "AR"
        <5>1. Shows(got, "AR") /\ ~Shows(got, "AW") /\ ~Shows(got, "W")
          BY <2>5, <4>1
        <5>2. QED
          BY <1>6, <1>7, <4>1, <5>1 DEF Count
      <4>2. CASE t = "W"
        <5>1. ~Shows(got, "AR") /\ ~Shows(got, "AW") /\ Shows(got, "W")
          BY <2>5, <4>2
        <5>2. QED
          BY <1>6, <1>7, <4>2, <5>1 DEF Count
      <4>3. QED
        BY <3>1, <4>1, <4>2
    <3>6. q.awAccepted = (t = "W")
      BY <1>5, <2>2, <2>3, <3>1
    <3>7. nr + nw + m + y <= g2 + Count(t = "W") /\ nd + Count(t = "W") = nw
      BY <1>10, <1>11, <3>6
    <3>8. Count(t = "AR") + Count(t = "W") = 1 /\ Count(t = "AR") \in Nat /\ Count(t = "W") \in Nat
      BY <3>1 DEF Count
    <3>9. (nr + nw + Count(t = "AR")) + ((m - 1) + y) <= g2
      BY <1>4, <1>6, <1>9, <3>7, <3>8
    <3>10. (acc2["AR"] + acc2["AW"]) + (Len(q2.fifo) + Count(c2 # NoTx)) <= g2 + Count(q2.awAccepted)
      <4>1. Count(q2.awAccepted) = 0
        BY <3>2 DEF Count
      <4>2. QED
        BY <1>4, <1>8, <3>4, <3>5, <3>9, <4>1
    <3>11. acc2["W"] + Count(q2.awAccepted) = acc2["AW"]
      BY <1>6, <3>2, <3>5, <3>7, <3>8 DEF Count
    <3>12. QED
      BY <1>4, <2>2, <3>2, <3>3, <3>10, <3>11 DEF RequesterInv
  <2>8. QED
    BY <2>6, <2>7
<1>14. QED
  BY <1>12, <1>13

LEMMA RequesterKept ==
  ASSUME NEW q, NEW c, NEW g, NEW a, NEW acc \in [Types -> Nat], RequesterInv(q, c, g, acc, a),
         NEW b, b.iReg = a.iReg, b.gotAw = a.gotAw,
         NEW acc2, Counts(acc, acc2, NoTx, Requests)
  PROVE  RequesterInv(q, c, g, acc2, b)
<1>1. acc2["AR"] = acc["AR"] /\ acc2["AW"] = acc["AW"] /\ acc2["W"] = acc["W"]
  BY DEF Counts, Requests, Shows, Count, Types
<1>2. QED
  BY <1>1 DEF RequesterInv

ResponderPort(p) ==
  IF p.resps = <<>> THEN Modules!NoResponse
  ELSE [Modules!NoResponse EXCEPT ![Head(p.resps).type] = Head(p.resps)]

Held3(p) == Len(p.resps) + Len(p.reads) + Len(p.waddrs)

\* Every request delivered is in a queue, or was answered by an accepted response.
ResponderInv(p, acc, del, a) ==
  /\ a.iReg = NoTx => p.port = ResponderPort(p)
  /\ (acc["R"] + acc["B"]) + Held3(p) <= del["AR"] + del["AW"]
  /\ Len(p.wdata) <= del["W"]

HasRoom(p) ==
  /\ Len(p.reads) < RespFifoDepth /\ Len(p.waddrs) < RespFifoDepth
  /\ Len(p.wdata) < RespFifoDepth /\ Len(p.resps) < RespFifoDepth

LEMMA PoppedLen ==
  ASSUME NEW S, NEW q \in Seq(S), NEW b \in BOOLEAN, b => q # <<>>
  PROVE  Len(Modules!Popped(q, b)) \in Nat /\ Len(Modules!Popped(q, b)) + Count(b) = Len(q)
<1>1. CASE b
  <2>1. Modules!Popped(q, b) = Tail(q) /\ Count(b) = 1
    BY <1>1 DEF Modules!Popped, Count
  <2>2. Len(Tail(q)) = Len(q) - 1 /\ Len(q) \in Nat \ {0}
    BY <1>1, HeadTail
  <2>3. QED
    BY <2>1, <2>2
<1>2. CASE ~b
  <2>1. Modules!Popped(q, b) = q /\ Count(b) = 0
    BY <1>2 DEF Modules!Popped, Count
  <2>2. QED
    BY <2>1
<1>3. QED
  BY <1>1, <1>2

GotInto(S, q, b, f) == f \in Seq(S) /\ Len(f) = Len(q) + Count(b) /\ Len(f) \in Nat

LEMMA GotLen ==
  ASSUME NEW S, NEW q \in Seq(S), NEW x, NEW b \in BOOLEAN, b => x \in S,
         NEW f, f = IF b THEN Append(q, x) ELSE q
  PROVE  GotInto(S, q, b, f)
<1>1. CASE b
  BY <1>1 DEF Count, GotInto
<1>2. CASE ~b
  <2>1. f = q /\ Count(b) = 0 /\ Len(q) \in Nat
    BY <1>2 DEF Count
  <2>2. QED
    BY <2>1 DEF GotInto
<1>3. QED
  BY <1>1, <1>2

Serves(p, req, taken, r) ==
  /\ Held3(r) \in Nat /\ Held3(p) \in Nat /\ Len(r.wdata) \in Nat
  /\ Held3(r) + Count(taken # {}) =
       Held3(p) + (Count(Modules!Got(p, req, "AR")) + Count(Modules!Got(p, req, "AW")))
  /\ Len(r.wdata) <= Len(p.wdata) + Count(Modules!Got(p, req, "W"))
  /\ taken = {} => r.port = ResponderPort(r)
  /\ HasRoom(r) => r.ready = Requests

LEMMA ResponderQueues ==
  ASSUME NEW p, ResponderOk(p), NEW req \in TxOf(Requests) \cup {NoTx}, NEW taken,
         taken # {} => p.resps # <<>>,
         NEW r, r = Modules!ResponderTick(p, req, taken)
  PROVE  Serves(p, req, taken, r)
<1> DEFINE T == TxOf(Requests)
           gr == Modules!Got(p, req, "AR")
           gw == Modules!Got(p, req, "AW")
           gd == Modules!Got(p, req, "W")
           rs == IF gr THEN Append(p.reads, req) ELSE p.reads
           ws == IF gw THEN Append(p.waddrs, req) ELSE p.waddrs
           ds == IF gd THEN Append(p.wdata, req) ELSE p.wdata
           read == rs # <<>>
           write == ~read /\ ws # <<>> /\ ds # <<>>
           new == IF read THEN <<Modules!Tx("R", 0, Head(rs).user, Head(rs).n)>>
                  ELSE IF write THEN <<Modules!Tx("B", 0, Head(ws).user, Head(ws).n)>>
                  ELSE <<>>
           resps == p.resps \o new
           rest == Modules!Popped(resps, taken # {})
           room(f) == Len(f) < RespFifoDepth /\ Len(rest) < RespFifoDepth
<1>1. /\ r.reads = Modules!Popped(rs, read) /\ r.waddrs = Modules!Popped(ws, write)
      /\ r.wdata = Modules!Popped(ds, write) /\ r.resps = rest
      /\ r.port = (IF resps = <<>> THEN Modules!NoResponse
                   ELSE [Modules!NoResponse EXCEPT ![Head(resps).type] = Head(resps)])
      /\ r.ready = {t \in {"AR", "AW", "W"} :
                      room(CASE t = "AR" -> Modules!Popped(rs, read)
                             [] t = "AW" -> Modules!Popped(ws, write)
                             [] t = "W"  -> Modules!Popped(ds, write))}
  BY DEF Modules!ResponderTick
<1>2. gr \in BOOLEAN /\ gw \in BOOLEAN /\ gd \in BOOLEAN /\ (gr \/ gw \/ gd => req \in T)
  BY DEF Modules!Got
<1>3. /\ p.reads \in Seq(T) /\ p.waddrs \in Seq(T) /\ p.wdata \in Seq(T)
      /\ p.resps \in Seq(TxOf(Responses))
  BY DEF ResponderOk
<1> HIDE DEF T, gr, gw, gd
<1>3a. /\ rs = IF gr THEN Append(p.reads, req) ELSE p.reads
       /\ ws = IF gw THEN Append(p.waddrs, req) ELSE p.waddrs
       /\ ds = IF gd THEN Append(p.wdata, req) ELSE p.wdata
  OBVIOUS
<1> HIDE DEF rs, ws, ds
<1>4. /\ rs \in Seq(T) /\ Len(rs) = Len(p.reads) + Count(gr) /\ Len(rs) \in Nat
      /\ ws \in Seq(T) /\ Len(ws) = Len(p.waddrs) + Count(gw) /\ Len(ws) \in Nat
      /\ ds \in Seq(T) /\ Len(ds) = Len(p.wdata) + Count(gd) /\ Len(ds) \in Nat
  <2>1. rs \in Seq(T) /\ Len(rs) = Len(p.reads) + Count(gr) /\ Len(rs) \in Nat
    <3>1. /\ p.reads \in Seq(T) /\ gr \in BOOLEAN /\ (gr => req \in T)
          /\ rs = IF gr THEN Append(p.reads, req) ELSE p.reads
      BY <1>2, <1>3, <1>3a
    <3>2. GotInto(T, p.reads, gr, rs)
      BY <3>1, GotLen
    <3>3. QED
      BY <3>2 DEF GotInto
  <2>2. ws \in Seq(T) /\ Len(ws) = Len(p.waddrs) + Count(gw) /\ Len(ws) \in Nat
    <3>1. /\ p.waddrs \in Seq(T) /\ gw \in BOOLEAN /\ (gw => req \in T)
          /\ ws = IF gw THEN Append(p.waddrs, req) ELSE p.waddrs
      BY <1>2, <1>3, <1>3a
    <3>2. GotInto(T, p.waddrs, gw, ws)
      BY <3>1, GotLen
    <3>3. QED
      BY <3>2 DEF GotInto
  <2>3. ds \in Seq(T) /\ Len(ds) = Len(p.wdata) + Count(gd) /\ Len(ds) \in Nat
    <3>1. /\ p.wdata \in Seq(T) /\ gd \in BOOLEAN /\ (gd => req \in T)
          /\ ds = IF gd THEN Append(p.wdata, req) ELSE p.wdata
      BY <1>2, <1>3, <1>3a
    <3>2. GotInto(T, p.wdata, gd, ds)
      BY <3>1, GotLen
    <3>3. QED
      BY <3>2 DEF GotInto
  <2>4. QED
    BY <2>1, <2>2, <2>3
<1>5. \E U : new \in Seq(U) /\ p.resps \in Seq(U)
  <2>1. PICK e : e = IF read THEN Modules!Tx("R", 0, Head(rs).user, Head(rs).n)
                     ELSE Modules!Tx("B", 0, Head(ws).user, Head(ws).n)
    OBVIOUS
  <2>2. PICK U : U = TxOf(Responses) \cup {e}
    OBVIOUS
  <2>3. new = <<e>> \/ new = <<>>
    BY <2>1
  <2> HIDE DEF new
  <2>4. new \in Seq(U)
    <3>1. e \in U
      BY <2>2
    <3>2. <<e>> \in Seq(U) /\ <<>> \in Seq(U)
      BY <3>1
    <3>3. QED
      BY <2>3, <3>2
  <2>5. p.resps \in Seq(U)
    BY <1>3, <2>2
  <2>6. QED
    BY <2>4, <2>5
<1>6. PICK U : new \in Seq(U) /\ p.resps \in Seq(U)
  BY <1>5
<1>7. Len(new) = Count(read) + Count(write)
  BY DEF Count
<1> HIDE DEF new
<1>8. resps \in Seq(U) /\ Len(resps) = Len(p.resps) + Len(new) /\ Len(p.resps) \in Nat
  BY <1>6
<1>9. taken # {} => resps # <<>>
  <2>1. Len(new) \in Nat /\ (p.resps # <<>> => Len(p.resps) # 0)
    BY <1>6
  <2>2. QED
    BY <1>8, <2>1
<1>10. read \in BOOLEAN /\ write \in BOOLEAN /\ (taken # {}) \in BOOLEAN
  OBVIOUS
<1>11. (read => rs # <<>>) /\ (write => ws # <<>> /\ ds # <<>>)
  OBVIOUS
<1> HIDE DEF read, write, resps
<1>12. PICK ar, aw, at \in BOOLEAN : ar = read /\ aw = write /\ at = (taken # {})
  BY <1>10
<1>13. /\ Len(r.reads) \in Nat /\ Len(r.reads) + Count(ar) = Len(rs)
       /\ Len(r.waddrs) \in Nat /\ Len(r.waddrs) + Count(aw) = Len(ws)
       /\ Len(r.wdata) \in Nat /\ Len(r.wdata) + Count(aw) = Len(ds)
  <2>1. r.reads = Modules!Popped(rs, ar) /\ r.waddrs = Modules!Popped(ws, aw)
        /\ r.wdata = Modules!Popped(ds, aw)
    BY <1>1, <1>12
  <2>2. (ar => rs # <<>>) /\ (aw => ws # <<>> /\ ds # <<>>)
    BY <1>11, <1>12
  <2>3. Len(r.reads) \in Nat /\ Len(r.reads) + Count(ar) = Len(rs)
    BY <1>4, <2>1, <2>2, PoppedLen
  <2>4. Len(r.waddrs) \in Nat /\ Len(r.waddrs) + Count(aw) = Len(ws)
    BY <1>4, <2>1, <2>2, PoppedLen
  <2>5. Len(r.wdata) \in Nat /\ Len(r.wdata) + Count(aw) = Len(ds)
    BY <1>4, <2>1, <2>2, PoppedLen
  <2>6. QED
    BY <2>3, <2>4, <2>5
<1>14. Len(r.resps) \in Nat /\ Len(r.resps) + Count(at) = Len(resps)
  <2>1. r.resps = Modules!Popped(resps, at) /\ (at => resps # <<>>)
    BY <1>1, <1>9, <1>12
  <2>2. QED
    BY <1>8, <2>1, PoppedLen
<1>15. PICK nr, nw, nd, np \in Nat : /\ nr = Len(p.reads) /\ nw = Len(p.waddrs)
                                     /\ nd = Len(p.wdata) /\ np = Len(p.resps)
  <2>1. Len(p.reads) \in Nat /\ Len(p.waddrs) \in Nat /\ Len(p.wdata) \in Nat /\ Len(p.resps) \in Nat
    BY <1>3
  <2>2. QED
    BY <2>1
<1>16. PICK cr, cw, ct, kr, kw, kd \in Nat :
         /\ cr = Count(ar) /\ cw = Count(aw) /\ ct = Count(at)
         /\ kr = Count(gr) /\ kw = Count(gw) /\ kd = Count(gd)
  <2>1. \A b : Count(b) \in Nat
    BY DEF Count
  <2>2. QED
    BY <2>1
<1>17. /\ Len(r.reads) + cr = nr + kr /\ Len(r.waddrs) + cw = nw + kw
       /\ Len(r.resps) + ct = np + (cr + cw)
  <2>1. Len(new) = cr + cw
    BY <1>7, <1>12, <1>16
  <2>2. QED
    BY <1>4, <1>8, <1>13, <1>14, <1>15, <1>16, <2>1
<1>18. PICK mr, mw, md, mp \in Nat : /\ mr = Len(r.reads) /\ mw = Len(r.waddrs)
                                     /\ md = Len(r.wdata) /\ mp = Len(r.resps)
  BY <1>13, <1>14
<1>19. mr + cr = nr + kr /\ mw + cw = nw + kw /\ mp + ct = np + (cr + cw) /\ md + cw = nd + kd
  BY <1>4, <1>13, <1>15, <1>16, <1>17, <1>18
<1>20. ASSUME taken = {}
       PROVE  r.port = ResponderPort(r)
  <2>1. r.resps = resps
    BY <1>1, <1>20 DEF Modules!Popped
  <2>2. QED
    BY <1>1, <2>1 DEF ResponderPort
<1>21. ASSUME HasRoom(r)
       PROVE  r.ready = Requests
  <2>1. \A t \in {"AR", "AW", "W"} :
          room(CASE t = "AR" -> Modules!Popped(rs, read)
                 [] t = "AW" -> Modules!Popped(ws, write)
                 [] t = "W"  -> Modules!Popped(ds, write))
    <3> HIDE DEF rest
    <3>1. room(Modules!Popped(rs, read)) /\ room(Modules!Popped(ws, write))
          /\ room(Modules!Popped(ds, write))
      BY <1>1, <1>21 DEF HasRoom
    <3> HIDE DEF room
    <3>2. QED
      BY <3>1
  <2> HIDE DEF room
  <2>2. QED
    BY <1>1, <2>1 DEF Requests
<1>22. QED
  <2>1. Held3(r) = mp + mr + mw /\ Held3(p) = np + nr + nw
    BY <1>15, <1>18 DEF Held3
  <2>2. ct = Count(taken # {})
    BY <1>12, <1>16 DEF Count
  <2>3. (mp + mr + mw) + ct = (np + nr + nw) + (kr + kw) /\ md <= nd + kd
    BY <1>19
  <2>4. Held3(r) \in Nat /\ Held3(p) \in Nat /\ Len(r.wdata) \in Nat
    <3>1. mp + mr + mw \in Nat /\ np + nr + nw \in Nat
      OBVIOUS
    <3>2. QED
      BY <1>18, <2>1, <3>1
  <2>5. Held3(r) + Count(taken # {}) = Held3(p) + (Count(gr) + Count(gw))
    BY <1>16, <2>1, <2>2, <2>3
  <2>6. Len(r.wdata) <= Len(p.wdata) + Count(gd)
    BY <1>15, <1>16, <1>18, <2>3
  <2>7. QED
    BY <1>20, <1>21, <2>4, <2>5, <2>6 DEF gr, gw, gd, Serves

LEMMA ResponderEdge ==
  ASSUME NEW p, ResponderOk(p), NEW req \in TxOf(Requests) \cup {NoTx}, NEW a,
         NEW acc \in [Types -> Nat], NEW del \in [Types -> Nat], ResponderInv(p, acc, del, a),
         NEW got \in TxOf(Responses) \cup {NoTx},
         got # NoTx => a.iReg = NoTx /\ p.port[got.type] # NoTx,
         NEW taken, taken = (IF got = NoTx THEN {} ELSE {got.type}),
         NEW r, r = Modules!ResponderTick(p, req, taken), NEW b, b.iReg = got,
         NEW acc2, Counts(acc, acc2, got, Responses), NEW del2,
         \A t \in Requests : del2[t] \in Nat /\ del[t] + Count(Modules!Got(p, req, t)) <= del2[t]
  PROVE  ResponderInv(r, acc2, del2, b) /\ (HasRoom(r) => r.ready = Requests)
<1>1. taken # {} <=> got # NoTx
  OBVIOUS
<1>2. taken # {} => p.resps # <<>>
  <2>1. SUFFICES ASSUME got # NoTx PROVE p.resps # <<>>
    BY <1>1
  <2>2. p.port = ResponderPort(p) /\ got.type \in Responses
    BY <2>1, TxFields DEF ResponderInv
  <2>3. QED
    BY <2>1, <2>2 DEF ResponderPort, Modules!NoResponse, Responses
<1>3. /\ Held3(r) \in Nat /\ Held3(p) \in Nat /\ Len(r.wdata) \in Nat
      /\ Held3(r) + Count(taken # {}) =
           Held3(p) + (Count(Modules!Got(p, req, "AR")) + Count(Modules!Got(p, req, "AW")))
      /\ Len(r.wdata) <= Len(p.wdata) + Count(Modules!Got(p, req, "W"))
      /\ taken = {} => r.port = ResponderPort(r)
      /\ HasRoom(r) => r.ready = Requests
  <2>1. Serves(p, req, taken, r)
    BY <1>2, ResponderQueues
  <2>2. QED
    BY <2>1 DEF Serves
<1>4. PICK ct, kr, kw, kd \in Nat :
        /\ ct = Count(taken # {}) /\ kr = Count(Modules!Got(p, req, "AR"))
        /\ kw = Count(Modules!Got(p, req, "AW")) /\ kd = Count(Modules!Got(p, req, "W"))
  <2>1. \A x : Count(x) \in Nat
    BY DEF Count
  <2>2. QED
    BY <2>1
<1>5. /\ del2["AR"] \in Nat /\ del2["AW"] \in Nat /\ del2["W"] \in Nat
      /\ del["AR"] + kr <= del2["AR"] /\ del["AW"] + kw <= del2["AW"] /\ del["W"] + kd <= del2["W"]
  BY <1>4 DEF Requests
<1>6. PICK dr, dw, dd, ar, ab \in Nat :
        dr = del["AR"] /\ dw = del["AW"] /\ dd = del["W"] /\ ar = acc["R"] /\ ab = acc["B"]
  BY DEF Types, Requests, Responses
<1>7. acc2["R"] \in Nat /\ acc2["B"] \in Nat /\ acc2["R"] + acc2["B"] = (ar + ab) + ct
  <2>1. acc2["R"] = ar + Count(Shows(got, "R")) /\ acc2["B"] = ab + Count(Shows(got, "B"))
    BY <1>6 DEF Counts, Responses
  <2>2. CASE got = NoTx
    <3>1. ~Shows(got, "R") /\ ~Shows(got, "B") /\ taken = {}
      BY <2>2 DEF Shows
    <3>2. Count(Shows(got, "R")) = 0 /\ Count(Shows(got, "B")) = 0 /\ ct = 0
      BY <1>4, <3>1 DEF Count
    <3>3. QED
      BY <1>6, <2>1, <3>2
  <2>3. CASE got # NoTx
    <3>1. got.type \in Responses /\ taken # {}
      BY <2>3, TxFields
    <3>2. ct = 1
      BY <1>4, <3>1 DEF Count
    <3>3. CASE got.type = "R"
      <4>1. Count(Shows(got, "R")) = 1 /\ Count(Shows(got, "B")) = 0
        BY <2>3, <3>3 DEF Count, Shows
      <4>2. QED
        BY <1>6, <2>1, <3>2, <4>1
    <3>4. CASE got.type = "B"
      <4>1. Count(Shows(got, "R")) = 0 /\ Count(Shows(got, "B")) = 1
        BY <2>3, <3>4 DEF Count, Shows
      <4>2. QED
        BY <1>6, <2>1, <3>2, <4>1
    <3>5. QED
      BY <3>1, <3>3, <3>4 DEF Responses
  <2>4. QED
    BY <2>2, <2>3
<1>8. PICK er, ew, ed, nr, nb, hr, hp, lr, lp \in Nat :
        /\ er = del2["AR"] /\ ew = del2["AW"] /\ ed = del2["W"]
        /\ nr = acc2["R"] /\ nb = acc2["B"] /\ hr = Held3(r) /\ hp = Held3(p)
        /\ lr = Len(r.wdata) /\ lp = Len(p.wdata)
  <2>1. Len(p.wdata) \in Nat
    BY DEF ResponderOk
  <2>2. QED
    BY <1>3, <1>5, <1>7, <2>1
<1>9. nr + nb + hr <= er + ew /\ lr <= ed
  <2>1. (ar + ab) + hp <= dr + dw /\ lp <= dd
    BY <1>6, <1>8 DEF ResponderInv
  <2>2. hr + ct = hp + (kr + kw) /\ lr <= lp + kd
    BY <1>3, <1>4, <1>8
  <2>3. dr + kr <= er /\ dw + kw <= ew /\ dd + kd <= ed
    BY <1>5, <1>6, <1>8
  <2>4. nr + nb = (ar + ab) + ct
    BY <1>7, <1>8
  <2>5. QED
    BY <2>1, <2>2, <2>3, <2>4
<1>10. b.iReg = NoTx => r.port = ResponderPort(r)
  BY <1>1, <1>3
<1>11. (acc2["R"] + acc2["B"]) + Held3(r) <= del2["AR"] + del2["AW"] /\ Len(r.wdata) <= del2["W"]
  BY <1>8, <1>9
<1>12. QED
  BY <1>3, <1>10, <1>11 DEF ResponderInv

LEMMA ResponderKept ==
  ASSUME NEW p, ResponderOk(p), NEW a,
         NEW acc \in [Types -> Nat], NEW del \in [Types -> Nat], ResponderInv(p, acc, del, a),
         NEW b, b.iReg = a.iReg, NEW acc2, Counts(acc, acc2, NoTx, Responses), NEW del2,
         \A t \in Requests : del2[t] \in Nat /\ del[t] <= del2[t]
  PROVE  ResponderInv(p, acc2, del2, b)
<1>1. acc2["R"] = acc["R"] /\ acc2["B"] = acc["B"] /\ acc["R"] \in Nat /\ acc["B"] \in Nat
  <2>1. acc["R"] \in Nat /\ acc["B"] \in Nat
    BY DEF Types, Responses
  <2>2. acc2["R"] = acc["R"] + 0 /\ acc2["B"] = acc["B"] + 0
    BY DEF Counts, Responses, Shows, Count
  <2>3. QED
    BY <2>1, <2>2
<1>2. /\ del2["AR"] \in Nat /\ del2["AW"] \in Nat /\ del2["W"] \in Nat
      /\ del["AR"] <= del2["AR"] /\ del["AW"] <= del2["AW"] /\ del["W"] <= del2["W"]
      /\ del["AR"] \in Nat /\ del["AW"] \in Nat /\ del["W"] \in Nat
  BY DEF Types, Requests
<1>3. Len(p.wdata) \in Nat /\ Held3(p) \in Nat
  <2>1. Len(p.reads) \in Nat /\ Len(p.waddrs) \in Nat /\ Len(p.wdata) \in Nat /\ Len(p.resps) \in Nat
    BY DEF ResponderOk
  <2>2. PICK x, y, z \in Nat : x = Len(p.reads) /\ y = Len(p.waddrs) /\ z = Len(p.resps)
    BY <2>1
  <2>3. z + x + y \in Nat
    OBVIOUS
  <2>4. QED
    BY <2>1, <2>2, <2>3 DEF Held3
<1>4. /\ a.iReg = NoTx => p.port = ResponderPort(p)
      /\ (acc["R"] + acc["B"]) + Held3(p) <= del["AR"] + del["AW"]
      /\ Len(p.wdata) <= del["W"]
  BY DEF ResponderInv
<1>5. /\ (acc2["R"] + acc2["B"]) + Held3(p) <= del2["AR"] + del2["AW"]
      /\ Len(p.wdata) <= del2["W"]
  <2>1. PICK x, y, h, l, dr, dw, dd, er, ew, ed \in Nat :
          /\ x = acc["R"] /\ y = acc["B"] /\ h = Held3(p) /\ l = Len(p.wdata)
          /\ dr = del["AR"] /\ dw = del["AW"] /\ dd = del["W"]
          /\ er = del2["AR"] /\ ew = del2["AW"] /\ ed = del2["W"]
    BY <1>1, <1>2, <1>3
  <2>2. dr <= er /\ dw <= ew /\ dd <= ed /\ x + y + h <= dr + dw /\ l <= dd
    BY <1>2, <1>4, <2>1
  <2>3. x + y + h <= er + ew /\ l <= ed
    BY <2>2
  <2>4. QED
    BY <1>1, <2>1, <2>3
<1>6. QED
  BY <1>4, <1>5 DEF ResponderInv

\* What the requester gives: the adapter accepts no more than the commands given.
LEMMA AcceptedGiven ==
  ASSUME NEW q, RequesterOk(q), NEW c, NEW g \in Nat, NEW a, NEW acc \in [Types -> Nat],
         RequesterInv(q, c, g, acc, a)
  PROVE  acc["AR"] + acc["AW"] <= g
<1>1. PICK nr, nw, n, k, l \in Nat :
        /\ nr = acc["AR"] /\ nw = acc["AW"]
        /\ n = Len(q.fifo) /\ k = Count(c # NoTx) /\ l = Count(q.awAccepted)
  <2>1. acc["AR"] \in Nat /\ acc["AW"] \in Nat
    BY DEF Types, Requests
  <2>2. Len(q.fifo) \in Nat
    BY DEF RequesterOk
  <2>3. \A x : Count(x) \in Nat
    BY DEF Count
  <2>4. QED
    BY <2>1, <2>2, <2>3
<1>2. l <= n
  <2>1. q.fifo \in Seq(Cmds) /\ q.awAccepted \in BOOLEAN /\ (q.awAccepted => q.fifo # <<>>)
    BY DEF RequesterOk, RequesterInv
  <2>2. q.awAccepted => n # 0
    BY <1>1, <2>1
  <2>3. QED
    BY <1>1, <2>1, <2>2 DEF Count
<1>3. (nr + nw) + (n + k) <= g + l
  BY <1>1 DEF RequesterInv
<1>4. nr + nw <= g
  BY <1>2, <1>3
<1>5. QED
  BY <1>1, <1>4

\* With room for all commands no queue of the responder fills up.
LEMMA RespondersRoom ==
  ASSUME RoomEnough, NEW q, RequesterOk(q), NEW c, NEW g \in Nat, NEW a, NEW acc \in [Types -> Nat],
         RequesterInv(q, c, g, acc, a), NEW p, ResponderOk(p), NEW b, NEW del \in [Types -> Nat],
         ResponderInv(p, acc, del, b), \A t \in Requests : del[t] <= acc[t]
  PROVE  HasRoom(p)
<1>1. PICK dr, dw, dd, nr, nw, nd, ar, ab \in Nat :
        /\ dr = del["AR"] /\ dw = del["AW"] /\ dd = del["W"]
        /\ nr = acc["AR"] /\ nw = acc["AW"] /\ nd = acc["W"] /\ ar = acc["R"] /\ ab = acc["B"]
  BY DEF Types, Requests, Responses
<1>2. dr <= nr /\ dw <= nw /\ dd <= nd
  BY <1>1 DEF Requests
<1>3. /\ Len(p.reads) \in Nat /\ Len(p.waddrs) \in Nat /\ Len(p.wdata) \in Nat
      /\ Len(p.resps) \in Nat
  BY DEF ResponderOk
<1>4. (ar + ab) + (Len(p.resps) + Len(p.reads) + Len(p.waddrs)) <= dr + dw /\ Len(p.wdata) <= dd
  BY <1>1 DEF ResponderInv, Held3
<1>5. q.awAccepted \in BOOLEAN /\ nd + Count(q.awAccepted) = nw /\ g <= MaxCommands
  BY <1>1 DEF RequesterInv
<1>6. nr + nw <= g
  BY <1>1, AcceptedGiven
<1>7. nd <= nw
  BY <1>5 DEF Count
<1>8. MaxCommands \in Nat /\ RespFifoDepth \in Nat /\ g < RespFifoDepth
  BY <1>5, PathAssumption DEF RoomEnough
<1>9. PICK x, y, z, l \in Nat :
        x = Len(p.reads) /\ y = Len(p.waddrs) /\ z = Len(p.resps) /\ l = Len(p.wdata)
  BY <1>3
<1>10. (ar + ab) + (z + x + y) <= dr + dw /\ l <= dd
  BY <1>4, <1>9
<1>11. z + x + y <= g /\ l <= g
  <2>1. dr + dw <= g /\ dd <= g
    BY <1>2, <1>6, <1>7
  <2>2. QED
    BY <1>10, <2>1
<1>12. x < RespFifoDepth /\ y < RespFifoDepth /\ z < RespFifoDepth /\ l < RespFifoDepth
  BY <1>8, <1>11
<1>13. QED
  BY <1>9, <1>12 DEF HasRoom

(***************************************************************************)
(* The invariant of the whole path, and an edge of its clocks.             *)
(***************************************************************************)
OInv ==
  /\ delivered \in [Types -> Nat] /\ TimeOk /\ RegistersEmpty
  /\ SenderOk(accepted, slave, Requests) /\ SenderOk(accepted, master, Responses)
  /\ RequesterInv(requester, command, given, accepted, slave)
  /\ ResponderInv(responder, accepted, delivered, master)
  /\ RoomEnough => responder.ready = Requests
  /\ OrderOk(accepted, delivered, slave, ReqN, master, Requests,
             Unlooked("MasterNoc", rqEject), request)
  /\ OrderOk(accepted, delivered, master, RspN, slave, Responses,
             Unlooked("SlaveNoc", rpEject), response)

\* An edge of clock c, j adapter cycles ahead, at adapter a: got is captured and
\* x presented.
At(c, j, a) ==
  /\ j \in 0 .. FreqRatio(c) - 1 /\ left[c] = left["adapter"] + j * Period["adapter"]
  /\ Idle(a, FreqRatio(c), j) /\ (c \in Due <=> j = 0)

SlaveSide(j, got, x) ==
  /\ At("req", j, slave)
  /\ EdgeAt(slave, slave', FreqRatio("req"), j, got, x, response, response', Responses)
  /\ Gets(slave, requester.port, Ids, got, SlaveTaken, Requests)
  /\ got # NoTx => Asks(slave, requester.port, got.type)
  /\ slave'.gotAw = GotAw(slave, got, requester.port)

MasterSide(j, got, x) ==
  /\ At("rsp", j, master)
  /\ EdgeAt(master, master', FreqRatio("rsp"), j, got, x, request, request', Requests)
  /\ Gets(master, responder.port, Ids, got, MasterTaken, Responses)

LEMMA TypesHere ==
  ASSUME IInv
  PROVE  /\ ModulesOk /\ AdaptersOk
         /\ rqEjected \in VcsOf(Requests) \cup {NoVC} /\ rpEjected \in VcsOf(Responses) \cup {NoVC}
         /\ accepted \in [Types -> Nat] /\ given \in Nat
         /\ NocTypes(ReqN, Requests) /\ NocTypes(RspN, Responses)
         /\ RequesterOk(requester) /\ ResponderOk(responder)
         /\ command \in Cmds \cup {NoTx} /\ request \in TxOf(Requests) \cup {NoTx}
<1>1. ReqN.ejected = rqEjected /\ RspN.ejected = rpEjected
  BY DEF ReqN, RspN
<1>2. QED
  BY <1>1 DEF IInv, RequestsOk, ResponsesOk, Direction, ModulesOk

LEMMA Sides ==
  ASSUME WholePeriods, IInv, OInv, FabricEdge
  PROVE  /\ \E j, got, x : SlaveSide(j, got, x)
         /\ \E j, got, x : MasterSide(j, got, x)
<1>1. TimeOk /\ "adapter" \in Due /\ \A c \in Clocks : c \in Due <=> left[c] = left["adapter"]
  BY DueNow DEF OInv
<1>2. PICK adapterFirst \in BOOLEAN : Adapters(adapterFirst)
  BY DEF FabricEdge
<1>3. \E j : At("req", j, slave)
  <2>1. PICK j \in 0 .. FreqRatio("req") - 1 :
          left["req"] = left["adapter"] + j * Period["adapter"] /\ Idle(slave, FreqRatio("req"), j)
    BY <1>1 DEF TimeOk, Timely
  <2>2. "req" \in Due <=> j = 0
    BY <1>1, <2>1, NextEdges
  <2>3. QED
    BY <2>1, <2>2 DEF At
<1>4. \E j : At("rsp", j, master)
  <2>1. PICK j \in 0 .. FreqRatio("rsp") - 1 :
          left["rsp"] = left["adapter"] + j * Period["adapter"] /\ Idle(master, FreqRatio("rsp"), j)
    BY <1>1 DEF TimeOk, Timely
  <2>2. "rsp" \in Due <=> j = 0
    BY <1>1, <2>1, NextEdges
  <2>3. QED
    BY <2>1, <2>2 DEF At
<1>5. PICK j : At("req", j, slave)
  BY <1>3
<1>6. PICK i : At("rsp", i, master)
  BY <1>4
<1>7. \E got, x : SlaveSide(j, got, x)
  <2>1. "req" \in Due <=> j = 0
    BY <1>5 DEF At
  <2>2. PICK got, x :
          /\ EdgeAt(slave, slave', FreqRatio("req"), j, got, x, response, response', Responses)
          /\ Gets(slave, requester.port, Ids, got, SlaveTaken, Requests)
          /\ got # NoTx => Asks(slave, requester.port, got.type)
          /\ slave'.gotAw = GotAw(slave, got, requester.port)
    BY <1>1, <1>2, <2>1, TypesHere, SlaveEdges
  <2>3. SlaveSide(j, got, x)
    BY <1>5, <2>2 DEF SlaveSide
  <2>4. QED
    BY <2>3
<1>8. \E got, x : MasterSide(i, got, x)
  <2>1. "rsp" \in Due <=> i = 0
    BY <1>6 DEF At
  <2>2. PICK got, x :
          /\ EdgeAt(master, master', FreqRatio("rsp"), i, got, x, request, request', Requests)
          /\ Gets(master, responder.port, Ids, got, MasterTaken, Responses)
    BY <1>1, <1>2, <2>1, TypesHere, MasterEdges
  <2>3. MasterSide(i, got, x)
    BY <1>6, <2>2 DEF MasterSide
  <2>4. QED
    BY <2>3
<1>9. QED
  BY <1>7, <1>8

\* The clock after its edge.
LEMMA SideTime ==
  ASSUME WholePeriods, IInv, OInv, FabricEdge, NEW c \in {"req", "rsp"}, NEW j, NEW a, At(c, j, a),
         NEW S, Input(a, S), NEW b, NEW got, Sends(a, b, FreqRatio(c), j, got)
  PROVE  /\ \E i \in 0 .. FreqRatio(c) - 1 :
              /\ left'[c] = left'["adapter"] + i * Period["adapter"]
              /\ Idle(b, FreqRatio(c), i)
         /\ got # NoTx => a.iReg = NoTx
<1>1. PICK k : k = FreqRatio(c)
  OBVIOUS
<1>2. k \in 2 .. 256 /\ j \in 0 .. k - 1 /\ Idle(a, k, j) /\ left[c] = left["adapter"] + j * Period["adapter"]
  BY <1>1, Ratios DEF At
<1>3. PICK i : i = IF j = 0 THEN k - 1 ELSE j - 1
  OBVIOUS
<1>4. Idle(b, k, i) /\ (got # NoTx => a.iReg = NoTx)
  <2>1. Sends(a, b, k, j, got)
    BY <1>1
  <2>2. /\ Idle(b, k, IF j = 0 THEN k - 1 ELSE j - 1)
        /\ got # NoTx => a.iReg = NoTx
    BY <1>2, <2>1, CycleOf
  <2>3. QED
    BY <1>3, <2>2
<1>5. TimeOk
  BY DEF OInv
<1>6. left'["adapter"] = Period["adapter"] /\ left'[c] = Period["adapter"] + i * Period["adapter"]
  BY <1>1, <1>2, <1>3, <1>5, NextEdges
<1>7. i \in 0 .. k - 1
  BY <1>2, <1>3
<1>8. QED
  BY <1>1, <1>4, <1>6, <1>7

LEMMA CountsTaken ==
  ASSUME NEW acc \in [Types -> Nat], NEW S \in SUBSET Types, NEW got, NEW got2,
         NEW P, P = (IF got = NoTx THEN {} ELSE {got.type}),
         NEW Q, Q \cap S = {}, NEW acc2, acc2 = Take(acc, P \cup Q)
  PROVE  Counts(acc, acc2, got, S)
<1>1. SUFFICES ASSUME NEW t \in S PROVE acc2[t] = acc[t] + Count(Shows(got, t))
  BY DEF Counts
<1>2. t \in P \cup Q <=> Shows(got, t)
  BY DEF Shows
<1>3. t \in Types /\ acc[t] \in Nat
  OBVIOUS
<1>4. acc2[t] = IF Shows(got, t) THEN acc[t] + 1 ELSE acc[t]
  BY <1>2, <1>3 DEF Take
<1>5. QED
  BY <1>3, <1>4 DEF Count

LEMMA DeliversResponses ==
  ASSUME IInv, FabricEdge, NEW j, "req" \in Due <=> j = 0
  PROVE  Delivers(delivered, delivered', response, j, Responses, Responses)
<1>1. SUFFICES ASSUME NEW t \in Responses
               PROVE  delivered'[t] = IF j = 0 /\ Shows(response, t) /\ t \in Responses
                                      THEN IF response.id = delivered[t] THEN 0 ELSE response.id
                                      ELSE delivered[t]
  BY DEF Delivers
<1>2. t \in Types /\ t \notin Requests
  BY DEF Types, Requests, Responses
<1>3. delivered'[t] = IF "req" \in Due /\ t \in Responses /\ Shows(response, t) THEN Seen(t, response)
                      ELSE IF "rsp" \in Due /\ Modules!Got(responder, request, t) THEN Seen(t, request)
                      ELSE delivered[t]
  BY <1>2 DEF FabricEdge
<1>4. ~Modules!Got(responder, request, t)
  BY <1>2, TypesHere, TxFields DEF Modules!Got
<1>5. delivered'[t] = IF "req" \in Due /\ Shows(response, t) THEN Seen(t, response) ELSE delivered[t]
  BY <1>3, <1>4
<1>6. QED
  BY <1>5 DEF Seen

LEMMA DeliversRequests ==
  ASSUME FabricEdge, NEW j, "rsp" \in Due <=> j = 0
  PROVE  Delivers(delivered, delivered', request, j, Requests, responder.ready)
<1>1. SUFFICES ASSUME NEW t \in Requests
               PROVE  delivered'[t] = IF j = 0 /\ Shows(request, t) /\ t \in responder.ready
                                      THEN IF request.id = delivered[t] THEN 0 ELSE request.id
                                      ELSE delivered[t]
  BY DEF Delivers
<1>2. t \in Types /\ t \notin Responses
  BY DEF Types, Requests, Responses
<1>3. delivered'[t] = IF "req" \in Due /\ t \in Responses /\ Shows(response, t) THEN Seen(t, response)
                      ELSE IF "rsp" \in Due /\ Modules!Got(responder, request, t) THEN Seen(t, request)
                      ELSE delivered[t]
  BY <1>2 DEF FabricEdge
<1>4. delivered'[t] = IF "rsp" \in Due /\ Modules!Got(responder, request, t) THEN Seen(t, request)
                      ELSE delivered[t]
  BY <1>2, <1>3
<1>5. Modules!Got(responder, request, t) <=> Shows(request, t) /\ t \in responder.ready
  BY DEF Modules!Got, Shows
<1>6. QED
  BY <1>4, <1>5 DEF Seen

\* What the two adapters accept and what the modules take of what is presented.
LEMMA EdgeCounts ==
  ASSUME IInv, FabricEdge, NEW j, NEW got, NEW x, SlaveSide(j, got, x),
         NEW i, NEW got2, NEW y, MasterSide(i, got2, y)
  PROVE  /\ Counts(accepted, accepted', got, Requests)
         /\ Counts(accepted, accepted', got2, Responses)
<1>1. PICK P, Q : P = SlaveTaken /\ Q = MasterTaken
  OBVIOUS
<1>2. /\ P = (IF got = NoTx THEN {} ELSE {got.type}) /\ got \in TxOf(Requests) \cup {NoTx}
      /\ Q = (IF got2 = NoTx THEN {} ELSE {got2.type}) /\ got2 \in TxOf(Responses) \cup {NoTx}
  BY <1>1 DEF SlaveSide, MasterSide, Gets
<1>3. P \cap Responses = {} /\ Q \cap Requests = {}
  <2>1. Requests \cap Responses = {}
    BY DEF Requests, Responses
  <2>2. (got # NoTx => got.type \in Requests) /\ (got2 # NoTx => got2.type \in Responses)
    BY <1>2, TxFields
  <2>3. QED
    BY <1>2, <2>1, <2>2
<1>4. accepted \in [Types -> Nat] /\ accepted' = Take(accepted, P \cup Q)
      /\ accepted' = Take(accepted, Q \cup P)
  <2>1. accepted' = Take(accepted, P \cup Q)
    BY <1>1 DEF FabricEdge
  <2>2. P \cup Q = Q \cup P
    OBVIOUS
  <2>3. QED
    BY <2>1, <2>2, TypesHere
<1>5. Counts(accepted, accepted', got, Requests)
  BY <1>2, <1>3, <1>4, SubTypes, CountsTaken
<1>6. Counts(accepted, accepted', got2, Responses)
  BY <1>2, <1>3, <1>4, SubTypes, CountsTaken
<1>7. QED
  BY <1>5, <1>6

LEMMA SenderEdge ==
  ASSUME WholePeriods, NEW c \in {"req", "rsp"}, NEW j, NEW a, At(c, j, a),
         NEW SS \in SUBSET Types, NEW RR, Adapter(a, SS, RR),
         NEW b, NEW got, Sends(a, b, FreqRatio(c), j, got), NEW port, NEW taken,
         Gets(a, port, Ids, got, taken, SS), accepted \in [Types -> Nat],
         NEW acc2, Counts(accepted, acc2, got, SS), SenderOk(accepted, a, SS)
  PROVE  SenderOk(acc2, b, SS) /\ Makes(accepted, acc2, a, b, Made(a, a), SS)
<1>1. PICK k : k = FreqRatio(c)
  OBVIOUS
<1>2. k \in 2 .. 256 /\ j \in 0 .. k - 1 /\ Idle(a, k, j)
  BY <1>1, Ratios DEF At
<1>3. Sends(a, b, k, j, got)
  BY <1>1
<1>4. got \in TxOf(SS) \cup {NoTx} /\ (got # NoTx => got.id = accepted[got.type] + 1)
  <2>1. got \in TxOf(SS) \cup {NoTx} /\ (got # NoTx => got.id = Ids[got.type])
    BY DEF Gets
  <2>2. got # NoTx => got.type \in Types
    BY <2>1, TxFields
  <2>3. QED
    BY <2>1, <2>2 DEF Ids
<1>5. Input(a, SS) /\ Queued(a, SS)
  BY DEF Adapter, Sender
<1>6. QED
  BY <1>2, <1>3, <1>4, <1>5, SenderStep

LEMMA FabricKeeps ==
  ASSUME FabricEdge
  PROVE  /\ rqInject' = rqInject /\ rqBuf' = rqBuf /\ rpInject' = rpInject /\ rpBuf' = rpBuf
         /\ rqEject' = rqEject /\ rpEject' = rpEject /\ pending' = pending
         /\ Unlooked("MasterNoc", rqEject)' = Unlooked("MasterNoc", rqEject)
         /\ Unlooked("SlaveNoc", rpEject)' = Unlooked("SlaveNoc", rpEject)
<1>1. /\ rqInject' = rqInject /\ rqBuf' = rqBuf /\ rpInject' = rpInject /\ rpBuf' = rpBuf
      /\ rqEject' = rqEject /\ rpEject' = rpEject /\ pending' = pending
  BY DEF FabricEdge
<1>2. \A s : CreditSeen(s)' <=> CreditSeen(s)
  BY <1>1, CreditSeenDone
<1>3. QED
  BY <1>1, <1>2 DEF Unlooked

\* Both directions over an edge.
LEMMA RequestsEdge ==
  ASSUME WholePeriods, IInv, OInv, FabricEdge, NEW j, NEW got, NEW x, SlaveSide(j, got, x),
         NEW i, NEW got2, NEW y, MasterSide(i, got2, y)
  PROVE  /\ SenderOk(accepted', slave', Requests)
         /\ OrderOk(accepted', delivered', slave', ReqN', master', Requests,
                    Unlooked("MasterNoc", rqEject)', request')
         /\ DeliveredOk(accepted, delivered, delivered', request, i, Requests, responder.ready)
<1>1. Counts(accepted, accepted', got, Requests)
  BY EdgeCounts
<1>2. SenderOk(accepted', slave', Requests) /\ Makes(accepted, accepted', slave, slave', Made(slave, slave), Requests)
  <2>1. Adapter(slave, Requests, Responses) /\ accepted \in [Types -> Nat] /\ SenderOk(accepted, slave, Requests)
    BY TypesHere DEF AdaptersOk, OInv
  <2>2. /\ At("req", j, slave) /\ Sends(slave, slave', FreqRatio("req"), j, got)
        /\ Gets(slave, requester.port, Ids, got, SlaveTaken, Requests)
    BY DEF SlaveSide, EdgeAt
  <2>3. QED
    BY <1>1, <2>1, <2>2, SubTypes, SenderEdge
<1>3. /\ Receives(master, master', y, Requests) /\ (y # NoTx => i = 0)
      /\ request' = (IF i = 0 THEN y ELSE request) /\ ("rsp" \in Due <=> i = 0)
  BY DEF MasterSide, EdgeAt, At
<1>4. Delivers(delivered, delivered', request, i, Requests, responder.ready)
  BY <1>3, DeliversRequests
<1>5. PICK n, m, f, d2, r2, acc2, a2, b2 :
        /\ n = ReqN /\ m = ReqN' /\ f = Unlooked("MasterNoc", rqEject) /\ d2 = delivered'
        /\ r2 = request' /\ acc2 = accepted' /\ a2 = slave' /\ b2 = master'
  OBVIOUS
<1>6. m.inject = n.inject /\ m.rbuf = n.rbuf /\ Unlooked("MasterNoc", rqEject)' = f
  BY <1>5, FabricKeeps DEF ReqN
<1>7. /\ Queued(slave, Requests) /\ accepted \in [Types -> Nat] /\ delivered \in [Types -> Nat]
      /\ OrderOk(accepted, delivered, slave, n, master, Requests, f, request)
  BY <1>5, TypesHere DEF AdaptersOk, Adapter, Sender, OInv
<1>8. (RoomEnough \/ Requests \subseteq Responses => Requests \subseteq responder.ready)
      /\ (Requests \subseteq Responses \/ Requests \cap Responses = {})
  <2>1. Requests \cap Responses = {} /\ Requests # {}
    BY DEF Requests, Responses
  <2>2. RoomEnough => responder.ready = Requests
    BY DEF OInv
  <2>3. QED
    BY <2>1, <2>2
<1>9. /\ Makes(accepted, acc2, slave, a2, Made(slave, slave), Requests)
      /\ Receives(master, b2, y, Requests) /\ r2 = (IF i = 0 THEN y ELSE request)
      /\ Delivers(delivered, d2, request, i, Requests, responder.ready)
  BY <1>2, <1>3, <1>4, <1>5
<1>10. OrderOk(acc2, d2, a2, m, b2, Requests, f, r2)
       /\ DeliveredOk(accepted, delivered, d2, request, i, Requests, responder.ready)
  BY <1>3, <1>6, <1>7, <1>8, <1>9, SubTypes, OrderEdge
<1>11. QED
  BY <1>2, <1>5, <1>6, <1>10

LEMMA ResponsesEdge ==
  ASSUME WholePeriods, IInv, OInv, FabricEdge, NEW j, NEW got, NEW x, SlaveSide(j, got, x),
         NEW i, NEW got2, NEW y, MasterSide(i, got2, y)
  PROVE  /\ SenderOk(accepted', master', Responses)
         /\ OrderOk(accepted', delivered', master', RspN', slave', Responses,
                    Unlooked("SlaveNoc", rpEject)', response')
         /\ DeliveredOk(accepted, delivered, delivered', response, j, Responses, Responses)
<1>1. Counts(accepted, accepted', got2, Responses)
  BY EdgeCounts
<1>2. SenderOk(accepted', master', Responses) /\ Makes(accepted, accepted', master, master', Made(master, master), Responses)
  <2>1. Adapter(master, Responses, Requests) /\ accepted \in [Types -> Nat] /\ SenderOk(accepted, master, Responses)
    BY TypesHere DEF AdaptersOk, OInv
  <2>2. /\ At("rsp", i, master) /\ Sends(master, master', FreqRatio("rsp"), i, got2)
        /\ Gets(master, responder.port, Ids, got2, MasterTaken, Responses)
    BY DEF MasterSide, EdgeAt
  <2>3. QED
    BY <1>1, <2>1, <2>2, SubTypes, SenderEdge
<1>3. /\ Receives(slave, slave', x, Responses) /\ (x # NoTx => j = 0)
      /\ response' = (IF j = 0 THEN x ELSE response) /\ ("req" \in Due <=> j = 0)
  BY DEF SlaveSide, EdgeAt, At
<1>4. Delivers(delivered, delivered', response, j, Responses, Responses)
  BY <1>3, DeliversResponses
<1>5. PICK n, m, f, d2, r2, acc2, a2, b2, S, R :
        /\ S = Responses /\ R = Responses
        /\ n = RspN /\ m = RspN' /\ f = Unlooked("SlaveNoc", rpEject) /\ d2 = delivered'
        /\ r2 = response' /\ acc2 = accepted' /\ a2 = master' /\ b2 = slave'
  OBVIOUS
<1>6. m.inject = n.inject /\ m.rbuf = n.rbuf /\ Unlooked("SlaveNoc", rpEject)' = f
  BY <1>5, FabricKeeps DEF RspN
<1>7. /\ Queued(master, S) /\ accepted \in [Types -> Nat] /\ delivered \in [Types -> Nat]
      /\ OrderOk(accepted, delivered, master, n, slave, S, f, response)
  BY <1>5, TypesHere DEF AdaptersOk, Adapter, Sender, OInv
<1>8. /\ S \in SUBSET Types /\ (RoomEnough \/ S \subseteq Responses => S \subseteq R)
      /\ S \subseteq Responses \/ S \cap Responses = {}
  BY <1>5, SubTypes
<1>9. /\ Makes(accepted, acc2, master, a2, Made(master, master), S)
      /\ Receives(slave, b2, x, S) /\ r2 = (IF j = 0 THEN x ELSE response)
      /\ Delivers(delivered, d2, response, j, S, R)
  BY <1>2, <1>3, <1>4, <1>5
<1>10. OrderOk(acc2, d2, a2, m, b2, S, f, r2)
       /\ DeliveredOk(accepted, delivered, d2, response, j, S, R)
  BY <1>3, <1>6, <1>7, <1>8, <1>9, OrderEdge
<1>11. QED
  BY <1>2, <1>5, <1>6, <1>10

LEMMA TimeEdge ==
  ASSUME WholePeriods, IInv, OInv, FabricEdge, NEW j, NEW got, NEW x, SlaveSide(j, got, x),
         NEW i, NEW got2, NEW y, MasterSide(i, got2, y)
  PROVE  TimeOk' /\ (got # NoTx => slave.iReg = NoTx) /\ (got2 # NoTx => master.iReg = NoTx)
<1>1. Input(slave, Requests) /\ Input(master, Responses)
  BY TypesHere DEF AdaptersOk, Adapter
<1>2. /\ At("req", j, slave) /\ Sends(slave, slave', FreqRatio("req"), j, got)
      /\ At("rsp", i, master) /\ Sends(master, master', FreqRatio("rsp"), i, got2)
  BY DEF SlaveSide, MasterSide, EdgeAt
<1>3. /\ \E l \in 0 .. FreqRatio("req") - 1 :
           /\ left'["req"] = left'["adapter"] + l * Period["adapter"]
           /\ Idle(slave', FreqRatio("req"), l)
      /\ got # NoTx => slave.iReg = NoTx
  BY <1>1, <1>2, SideTime
<1>4. /\ \E l \in 0 .. FreqRatio("rsp") - 1 :
           /\ left'["rsp"] = left'["adapter"] + l * Period["adapter"]
           /\ Idle(master', FreqRatio("rsp"), l)
      /\ got2 # NoTx => master.iReg = NoTx
  BY <1>1, <1>2, SideTime
<1>5. left'["adapter"] = Period["adapter"]
  BY NextEdges DEF OInv
<1>6. QED
  BY <1>3, <1>4, <1>5 DEF TimeOk, Timely, FreqRatio

LEMMA RequesterNext ==
  ASSUME WholePeriods, IInv, OInv, FabricEdge, NEW j, NEW got, NEW x, SlaveSide(j, got, x),
         NEW i, NEW got2, NEW y, MasterSide(i, got2, y)
  PROVE  RequesterInv(requester', command', given', accepted', slave')
<1>1. /\ RequesterOk(requester) /\ command \in Cmds \cup {NoTx} /\ given \in Nat
      /\ accepted \in [Types -> Nat] /\ RequesterInv(requester, command, given, accepted, slave)
  BY TypesHere DEF OInv
<1>2. /\ got \in TxOf(Requests) \cup {NoTx}
      /\ SlaveTaken = (IF got = NoTx THEN {} ELSE {got.type})
      /\ got # NoTx => slave.iReg = NoTx /\ Asks(slave, requester.port, got.type)
      /\ slave'.gotAw = GotAw(slave, got, requester.port)
      /\ slave'.iReg = (IF j = 0 THEN got ELSE slave.iReg)
      /\ got # NoTx => j = 0
      /\ "req" \in Due <=> j = 0
  BY TimeEdge DEF SlaveSide, Gets, EdgeAt, Sends, At
<1>3. Counts(accepted, accepted', got, Requests)
  BY EdgeCounts
<1>4. PICK q2, c2, g2, acc2, b, taken :
        /\ q2 = requester' /\ c2 = command' /\ g2 = given' /\ acc2 = accepted' /\ b = slave'
        /\ taken = SlaveTaken
  OBVIOUS
<1>5. CASE j = 0
  <2>1. q2 = Modules!RequesterTick(requester, command, taken, response) /\ Testbench
    BY <1>2, <1>4, <1>5 DEF FabricEdge
  <2>2. Offers(requester, command, c2, given, g2)
    BY <1>4, <2>1 DEF Testbench, Offers
  <2>3. /\ b.iReg = got /\ b.gotAw = GotAw(slave, got, requester.port)
        /\ Counts(accepted, acc2, got, Requests) /\ taken = (IF got = NoTx THEN {} ELSE {got.type})
    BY <1>2, <1>3, <1>4, <1>5
  <2>4. RequesterInv(q2, c2, g2, acc2, b)
    BY <1>1, <1>2, <2>1, <2>2, <2>3, RequesterEdge
  <2>5. QED
    BY <1>4, <2>4
<1>6. CASE j # 0
  <2>1. q2 = requester /\ c2 = command /\ g2 = given
    BY <1>2, <1>4, <1>6 DEF FabricEdge
  <2>2. got = NoTx /\ b.iReg = slave.iReg
    BY <1>2, <1>4, <1>6
  <2>3. b.gotAw = slave.gotAw /\ Counts(accepted, acc2, NoTx, Requests)
    BY <1>2, <1>3, <1>4, <2>2 DEF GotAw
  <2>4. RequesterInv(requester, command, given, acc2, b)
    BY <1>1, <2>2, <2>3, RequesterKept
  <2>5. QED
    BY <1>4, <2>1, <2>4
<1>7. QED
  BY <1>5, <1>6

LEMMA ResponderNext ==
  ASSUME WholePeriods, IInv, OInv, FabricEdge, NEW j, NEW got, NEW x, SlaveSide(j, got, x),
         NEW i, NEW got2, NEW y, MasterSide(i, got2, y)
  PROVE  /\ ResponderInv(responder', accepted', delivered', master')
         /\ HasRoom(responder') \/ responder' = responder => (RoomEnough => responder'.ready = Requests)
<1>1. /\ ResponderOk(responder) /\ request \in TxOf(Requests) \cup {NoTx}
      /\ accepted \in [Types -> Nat] /\ delivered \in [Types -> Nat]
      /\ ResponderInv(responder, accepted, delivered, master)
      /\ RoomEnough => responder.ready = Requests
  BY TypesHere DEF OInv
<1>2. /\ got2 \in TxOf(Responses) \cup {NoTx}
      /\ MasterTaken = (IF got2 = NoTx THEN {} ELSE {got2.type})
      /\ got2 # NoTx => master.iReg = NoTx /\ responder.port[got2.type] # NoTx
      /\ master'.iReg = (IF i = 0 THEN got2 ELSE master.iReg)
      /\ got2 # NoTx => i = 0
      /\ "rsp" \in Due <=> i = 0
  BY TimeEdge DEF MasterSide, Gets, EdgeAt, Sends, At
<1>3. Counts(accepted, accepted', got2, Responses)
  BY EdgeCounts
<1>4. DeliveredOk(accepted, delivered, delivered', request, i, Requests, responder.ready)
  BY RequestsEdge
<1>5. PICK p2, acc2, del2, b, taken :
        /\ p2 = responder' /\ acc2 = accepted' /\ del2 = delivered' /\ b = master'
        /\ taken = MasterTaken
  OBVIOUS
<1>6. \A t \in Requests : /\ del2[t] \in Nat
                          /\ delivered[t] + Count(i = 0 /\ Shows(request, t) /\ t \in responder.ready) <= del2[t]
  BY <1>4, <1>5 DEF DeliveredOk
<1>7. CASE i = 0
  <2>1. p2 = Modules!ResponderTick(responder, request, taken)
    BY <1>2, <1>5, <1>7 DEF FabricEdge
  <2>2. \A t \in Requests : /\ del2[t] \in Nat
                            /\ delivered[t] + Count(Modules!Got(responder, request, t)) <= del2[t]
    BY <1>6, <1>7 DEF Count, Shows, Modules!Got
  <2>3. /\ b.iReg = got2 /\ Counts(accepted, acc2, got2, Responses)
        /\ taken = (IF got2 = NoTx THEN {} ELSE {got2.type})
    BY <1>2, <1>3, <1>5, <1>7
  <2>4. ResponderInv(p2, acc2, del2, b) /\ (HasRoom(p2) => p2.ready = Requests)
    BY <1>1, <1>2, <2>1, <2>2, <2>3, ResponderEdge, SMTT(20)
  <2>5. QED
    BY <1>1, <1>5, <2>4
<1>8. CASE i # 0
  <2>1. p2 = responder
    BY <1>2, <1>5, <1>8 DEF FabricEdge
  <2>2. got2 = NoTx /\ b.iReg = master.iReg /\ Counts(accepted, acc2, NoTx, Responses)
    BY <1>2, <1>3, <1>5, <1>8
  <2>3. \A t \in Requests : del2[t] \in Nat /\ delivered[t] <= del2[t]
    <3>1. SUFFICES ASSUME NEW t \in Requests PROVE del2[t] \in Nat /\ delivered[t] <= del2[t]
      OBVIOUS
    <3>2. delivered[t] \in Nat
      BY <1>1 DEF Types
    <3>3. Count(i = 0 /\ Shows(request, t) /\ t \in responder.ready) = 0
      BY <1>8 DEF Count
    <3>4. QED
      BY <1>6, <3>2, <3>3
  <2>4. ResponderInv(responder, acc2, del2, b)
    BY <1>1, <2>2, <2>3, ResponderKept
  <2>5. QED
    BY <1>1, <1>5, <2>1, <2>4
<1>9. QED
  BY <1>7, <1>8

LEMMA FabricOrder ==
  ASSUME WholePeriods, FifosSuffice, IInv, OInv, FabricEdge
  PROVE  OInv'
<1>1. PICK j, got, x : SlaveSide(j, got, x)
  BY Sides
<1>2. PICK i, got2, y : MasterSide(i, got2, y)
  BY Sides
<1>3. TimeOk'
  BY <1>1, <1>2, TimeEdge
<1>4. /\ SenderOk(accepted', slave', Requests)
      /\ OrderOk(accepted', delivered', slave', ReqN', master', Requests,
                 Unlooked("MasterNoc", rqEject)', request')
      /\ DeliveredOk(accepted, delivered, delivered', request, i, Requests, responder.ready)
  BY <1>1, <1>2, RequestsEdge
<1>5. /\ SenderOk(accepted', master', Responses)
      /\ OrderOk(accepted', delivered', master', RspN', slave', Responses,
                 Unlooked("SlaveNoc", rpEject)', response')
      /\ DeliveredOk(accepted, delivered, delivered', response, j, Responses, Responses)
  BY <1>1, <1>2, ResponsesEdge
<1>6. delivered' \in [Types -> Nat]
  <2>1. \A t \in Types : delivered'[t] \in Nat
    BY <1>4, <1>5 DEF DeliveredOk, Types
  <2>2. \E F : delivered' = [t \in Types |-> F[t]]
    <3>1. delivered' = [t \in Types |-> delivered'[t]]
      BY DEF FabricEdge
    <3>2. QED
      BY <3>1
  <2>3. QED
    BY <2>1, <2>2
<1>7. RequesterInv(requester', command', given', accepted', slave')
  BY <1>1, <1>2, RequesterNext
<1>8. /\ ResponderInv(responder', accepted', delivered', master')
      /\ HasRoom(responder') \/ responder' = responder => (RoomEnough => responder'.ready = Requests)
  BY <1>1, <1>2, ResponderNext
<1>9. IInv' /\ RegistersEmpty'
  BY FabricEdgeInv, RegistersStep DEF OInv, Next
<1>10. ASSUME RoomEnough PROVE responder'.ready = Requests
  <2>1. /\ ModulesOk' /\ accepted' \in [Types -> Nat] /\ given' \in Nat
        /\ RequesterOk(requester') /\ ResponderOk(responder')
    BY <1>9 DEF IInv, ModulesOk
  <2>2. ASSUME NEW t \in Requests PROVE delivered'[t] <= accepted'[t]
    <3>1. PICK acc2, del2, a2, n2, b2, f2, sig2 :
            /\ acc2 = accepted' /\ del2 = delivered' /\ a2 = slave' /\ n2 = ReqN' /\ b2 = master'
            /\ f2 = Unlooked("MasterNoc", rqEject)' /\ sig2 = request'
      OBVIOUS
    <3>2. /\ acc2 \in [Types -> Nat] /\ del2 \in [Types -> Nat]
          /\ OrderOk(acc2, del2, a2, n2, b2, Requests, f2, sig2)
      BY <1>4, <1>6, <2>1, <3>1
    <3>3. del2[t] + Count(Shows(sig2, t)) <= acc2[t]
      BY <2>2, <3>2, SubTypes, OrderBounds
    <3>4. del2[t] \in Nat /\ acc2[t] \in Nat /\ Count(Shows(sig2, t)) \in Nat
      BY <2>2, <3>2, SubTypes DEF Count
    <3>5. QED
      BY <3>1, <3>3, <3>4
  <2>3. PICK q2, c2, g2, acc2, a2, p2, del2, b2 :
          /\ q2 = requester' /\ c2 = command' /\ g2 = given' /\ acc2 = accepted' /\ a2 = slave'
          /\ p2 = responder' /\ del2 = delivered' /\ b2 = master'
    OBVIOUS
  <2>4. /\ RequesterOk(q2) /\ g2 \in Nat /\ acc2 \in [Types -> Nat]
        /\ RequesterInv(q2, c2, g2, acc2, a2) /\ ResponderOk(p2) /\ del2 \in [Types -> Nat]
        /\ ResponderInv(p2, acc2, del2, b2) /\ \A t \in Requests : del2[t] <= acc2[t]
    BY <1>6, <1>7, <1>8, <2>1, <2>2, <2>3
  <2>5. HasRoom(p2)
    BY <1>10, <2>4, RespondersRoom
  <2>6. QED
    BY <1>8, <1>10, <2>3, <2>5
<1>11. QED
  BY <1>3, <1>4, <1>5, <1>6, <1>7, <1>8, <1>9, <1>10 DEF OInv

(***************************************************************************)
(* The threads of the NoC clock.                                           *)
(***************************************************************************)
SameRegisters(a, b) ==
  /\ b.iReg = a.iReg /\ b.gotAw = a.gotAw /\ b.cycle = a.cycle /\ b.numFlits = a.numFlits

LEMMA NocThreadSends ==
  ASSUME NEW S, NEW a, DOMAIN a = Fields, Queued(a, S), NEW credit, NEW f,
         NEW b, b = OutputEjection(InputInjection(a, credit, NoVC), f)
  PROVE  /\ SameRegisters(a, b)
         /\ b.injFifo = IF a.injReg = NoFlit /\ a.injFifo # <<>> THEN Tail(a.injFifo) ELSE a.injFifo
         /\ Stream(b) = IF CanInject(a) THEN Tail(Stream(a)) ELSE Stream(a)
<1>1. PICK c : c = InputInjection(a, credit, NoVC)
  OBVIOUS
<1>2. /\ DOMAIN c = Fields /\ SameRegisters(a, c)
      /\ c.injFifo = IF a.injReg = NoFlit /\ a.injFifo # <<>> THEN Tail(a.injFifo) ELSE a.injFifo
  BY <1>1 DEF InputInjection, Fields, SameRegisters
<1>3. Stream(c) = IF CanInject(a) THEN Tail(Stream(a)) ELSE Stream(a)
  BY <1>1, InjectionStream
<1>4. b = OutputEjection(c, f)
  BY <1>1
<1>5. SameRegisters(c, b) /\ b.injFifo = c.injFifo /\ b.injReg = c.injReg
  BY <1>2, <1>4 DEF OutputEjection, Fields, SameRegisters
<1>6. QED
  BY <1>2, <1>3, <1>5 DEF SameRegisters, Stream

LEMMA SenderNoc ==
  ASSUME NEW S, NEW a, Queued(a, S), NEW acc, SenderOk(acc, a, S), NEW b, SameRegisters(a, b),
         b.injFifo = IF a.injReg = NoFlit /\ a.injFifo # <<>> THEN Tail(a.injFifo) ELSE a.injFifo
  PROVE  SenderOk(acc, b, S) /\ \A t : MadeUpTo(acc, b, t) = MadeUpTo(acc, a, t)
<1>1. \A t : MadeUpTo(acc, b, t) = MadeUpTo(acc, a, t)
  BY DEF MadeUpTo, Waiting, SameRegisters
<1>2. a.injFifo \in Seq(FlitsOf(S))
  BY DEF Queued
<1>3. Ordered(b.injFifo) /\ \A t \in S : Below(b.injFifo, t, MadeUpTo(acc, a, t))
  BY <1>2, OrderedTail DEF SenderOk
<1>4. QED
  BY <1>1, <1>3 DEF SenderOk, SameRegisters

LEMMA NocThreadReceives ==
  ASSUME NEW S, NEW a, DOMAIN a = Fields, Receiver(a, S), a.ejectReg = NoFlit, NEW credit,
         NEW f \in FlitsOf(S) \cup {NoFlit},
         NEW b, b = OutputEjection(InputInjection(a, credit, NoVC), f), b.ejectReg = NoFlit,
         NEW o, NEW n, NEW t \in S, NEW i, NEW j, Route(o, n, a, t, f, i, j)
  PROVE  Route(o, n, b, t, NoFlit, i, j)
<1>1. PICK c : c = InputInjection(a, credit, NoVC)
  OBVIOUS
<1>2. /\ DOMAIN c = Fields /\ Receiver(c, S) /\ c.ejectReg = NoFlit
  BY <1>1, InjectionLeaves
<1>3. SameBuilding(a, c) /\ Packed(c) = Packed(a)
  BY <1>1 DEF InputInjection, Fields, SameBuilding, Packed
<1>4. Route(o, n, c, t, f, i, j)
  BY <1>3, ArrivedSame DEF Route
<1>5. b = OutputEjection(c, f)
  BY <1>1
<1>6. QED
  BY <1>2, <1>4, <1>5, RouteEjects

LEMMA OrderInjects ==
  ASSUME NEW S \in SUBSET Types, NEW a, Queued(a, S), NEW n, NocTypes(n, S), n.inject = NoFlit,
         NEW d, Stream(d) = IF CanInject(a) THEN Tail(Stream(a)) ELSE Stream(a),
         NEW m, m.inject = (IF CanInject(a) THEN NextFlit(a) ELSE n.inject), m.rbuf = n.rbuf,
         NEW acc, \A t : MadeUpTo(acc, d, t) = MadeUpTo(acc, a, t),
         NEW del, NEW b, NEW f, NEW sig, OrderOk(acc, del, a, n, b, S, f, sig)
  PROVE  OrderOk(acc, del, d, m, b, S, f, sig)
<1>1. SUFFICES ASSUME NEW t \in S
               PROVE  \E i \in Nat \ {0} :
                        Shown(del, sig, t, i) /\ Route(d, m, b, t, f, i, MadeUpTo(acc, d, t))
  BY DEF OrderOk
<1>2. PICK i \in Nat \ {0} :
        Shown(del, sig, t, i) /\ Route(a, n, b, t, f, i, MadeUpTo(acc, a, t))
  BY DEF OrderOk
<1>3. PICK j : j = MadeUpTo(acc, a, t)
  OBVIOUS
<1>4. Route(a, n, b, t, f, i, j)
  BY <1>2, <1>3
<1>5. Route(d, m, b, t, f, i, j)
  BY <1>4, RouteInjects
<1>6. MadeUpTo(acc, d, t) = j
  BY <1>3
<1>7. QED
  BY <1>2, <1>5, <1>6

LEMMA OrderEjects ==
  ASSUME NEW S, NEW b, DOMAIN b = Fields, Receiver(b, S), b.ejectReg = NoFlit, NEW credit,
         NEW f \in FlitsOf(S) \cup {NoFlit},
         NEW c, c = OutputEjection(InputInjection(b, credit, NoVC), f), c.ejectReg = NoFlit,
         NEW acc, NEW del, NEW a, NEW n, NEW sig, OrderOk(acc, del, a, n, b, S, f, sig)
  PROVE  OrderOk(acc, del, a, n, c, S, NoFlit, sig)
<1>1. SUFFICES ASSUME NEW t \in S
               PROVE  \E i \in Nat \ {0} :
                        Shown(del, sig, t, i) /\ Route(a, n, c, t, NoFlit, i, MadeUpTo(acc, a, t))
  BY DEF OrderOk
<1>2. PICK i \in Nat \ {0} :
        Shown(del, sig, t, i) /\ Route(a, n, b, t, f, i, MadeUpTo(acc, a, t))
  BY DEF OrderOk
<1>3. PICK j : j = MadeUpTo(acc, a, t)
  OBVIOUS
<1>4. Route(a, n, b, t, f, i, j)
  BY <1>2, <1>3
<1>5. Route(a, n, c, t, NoFlit, i, j)
  BY <1>4, NocThreadReceives
<1>6. QED
  BY <1>2, <1>3, <1>5

LEMMA OrderTicks ==
  ASSUME NEW S \in SUBSET Types, NEW n, NocTypes(n, S), NEW m, NocStep(n, m),
         NEW acc, NEW del, NEW a, NEW b, NEW sig, OrderOk(acc, del, a, n, b, S, NoFlit, sig)
  PROVE  OrderOk(acc, del, a, m, b, S, m.eject, sig)
<1>1. SUFFICES ASSUME NEW t \in S
               PROVE  \E i \in Nat \ {0} :
                        Shown(del, sig, t, i) /\ Route(a, m, b, t, m.eject, i, MadeUpTo(acc, a, t))
  BY DEF OrderOk
<1>2. PICK i \in Nat \ {0} :
        Shown(del, sig, t, i) /\ Route(a, n, b, t, NoFlit, i, MadeUpTo(acc, a, t))
  BY DEF OrderOk
<1>3. PICK j : j = MadeUpTo(acc, a, t)
  OBVIOUS
<1>4. Route(a, n, b, t, NoFlit, i, j)
  BY <1>2, <1>3
<1>5. Route(a, m, b, t, m.eject, i, j)
  BY <1>4, RouteTicks
<1>6. QED
  BY <1>2, <1>3, <1>5

\* What the NoC clock leaves alone: the clocks, the modules and what they see.
NocKeeps ==
  /\ left' = left /\ command' = command /\ given' = given /\ requester' = requester
  /\ responder' = responder /\ request' = request /\ response' = response
  /\ accepted' = accepted /\ delivered' = delivered

LEMMA ModulesKept ==
  ASSUME OInv, NocKeeps, SameRegisters(slave, slave'), SameRegisters(master, master')
  PROVE  /\ TimeOk' /\ delivered' \in [Types -> Nat]
         /\ RequesterInv(requester', command', given', accepted', slave')
         /\ ResponderInv(responder', accepted', delivered', master')
         /\ RoomEnough => responder'.ready = Requests
<1>1. TimeOk'
  BY DEF OInv, NocKeeps, TimeOk, Timely, Idle, SameRegisters, FreqRatio
<1>2. RequesterInv(requester', command', given', accepted', slave')
  BY DEF OInv, NocKeeps, RequesterInv, SameRegisters
<1>3. ResponderInv(responder', accepted', delivered', master')
  BY DEF OInv, NocKeeps, ResponderInv, SameRegisters
<1>4. QED
  BY <1>1, <1>2, <1>3 DEF OInv, NocKeeps

LEMMA SlaveNocOrder ==
  ASSUME FifosSuffice, IInv, OInv, SlaveNoc
  PROVE  OInv'
<1>1. /\ Adapter(slave, Requests, Responses) /\ Adapter(master, Responses, Requests)
      /\ NocTypes(ReqN, Requests) /\ NocTypes(RspN, Responses)
  BY TypesHere DEF AdaptersOk
<1>2. ~CreditSeen("SlaveNoc") /\ CreditSeen("SlaveNoc")' /\ (CreditSeen("MasterNoc")' <=> CreditSeen("MasterNoc"))
  BY AdapterTurn, Distinct DEF SlaveNoc, IInv
<1>3. PICK n, m, p, f, b :
        n = ReqN /\ m = ReqN' /\ p = RspN /\ f = Unlooked("MasterNoc", rqEject) /\ b = slave'
  OBVIOUS
<1>4. /\ b = OutputEjection(InputInjection(slave, rqCredit, NoVC), p.eject)
      /\ m.inject = (IF CanInject(slave) THEN NextFlit(slave) ELSE n.inject) /\ m.rbuf = n.rbuf
      /\ n.inject = NoFlit
      /\ master' = master /\ RspN' = p /\ Unlooked("MasterNoc", rqEject)' = f
      /\ Unlooked("SlaveNoc", rpEject) = p.eject /\ Unlooked("SlaveNoc", rpEject)' = NoFlit
  <2>1. b = OutputEjection(InputInjection(slave, rqCredit, NoVC), p.eject)
    BY <1>3 DEF SlaveNoc, RspN
  <2>2. /\ m.inject = (IF CanInject(slave) THEN NextFlit(slave) ELSE n.inject) /\ m.rbuf = n.rbuf
        /\ RspN' = p
    BY <1>3 DEF SlaveNoc, ReqN, RspN, rpVars
  <2>3. n.inject = NoFlit
    BY <1>2, <1>3 DEF IInv, RequestsOk, ReqN
  <2>4. /\ Unlooked("MasterNoc", rqEject)' = f
        /\ Unlooked("SlaveNoc", rpEject) = p.eject /\ Unlooked("SlaveNoc", rpEject)' = NoFlit
    BY <1>2, <1>3 DEF Unlooked, SlaveNoc, RspN
  <2>5. QED
    BY <2>1, <2>2, <2>3, <2>4 DEF SlaveNoc
<1>5. NocKeeps
  BY DEF SlaveNoc, moduleVars, NocKeeps
<1>6. /\ SameRegisters(slave, b)
      /\ b.injFifo = (IF slave.injReg = NoFlit /\ slave.injFifo # <<>> THEN Tail(slave.injFifo)
                                                                      ELSE slave.injFifo)
      /\ Stream(b) = (IF CanInject(slave) THEN Tail(Stream(slave)) ELSE Stream(slave))
  <2>1. PICK e, c : e = p.eject /\ c = rqCredit
    OBVIOUS
  <2>2. DOMAIN slave = Fields /\ Queued(slave, Requests) /\ b = OutputEjection(InputInjection(slave, c, NoVC), e)
    BY <1>1, <1>4, <2>1 DEF Adapter, Sender
  <2>3. QED
    BY <2>2, NocThreadSends
<1>7. SenderOk(accepted, b, Requests) /\ \A t : MadeUpTo(accepted, b, t) = MadeUpTo(accepted, slave, t)
  BY <1>1, <1>6, SenderNoc DEF Adapter, Sender, OInv
<1>8. IInv' /\ RegistersEmpty'
  BY SlaveNocInv, RegistersStep DEF OInv, Next
<1>9. OrderOk(accepted, delivered, b, m, master, Requests, f, request)
  <2>1. /\ Queued(slave, Requests) /\ NocTypes(n, Requests)
        /\ OrderOk(accepted, delivered, slave, n, master, Requests, f, request)
    BY <1>1, <1>3 DEF Adapter, Sender, OInv
  <2>2. QED
    BY <1>4, <1>6, <1>7, <2>1, SubTypes, OrderInjects
<1>10. OrderOk(accepted, delivered, master, p, b, Responses, NoFlit, response)
  <2>1. /\ DOMAIN slave = Fields /\ Receiver(slave, Responses) /\ slave.ejectReg = NoFlit
        /\ p.eject \in FlitsOf(Responses) \cup {NoFlit} /\ b.ejectReg = NoFlit
    BY <1>1, <1>3, <1>8 DEF Adapter, OInv, RegistersEmpty, NocTypes
  <2>2. OrderOk(accepted, delivered, master, p, slave, Responses, p.eject, response)
    BY <1>3, <1>4 DEF OInv
  <2>3. QED
    BY <1>4, <2>1, <2>2, OrderEjects
<1>11. SameRegisters(slave, slave') /\ SameRegisters(master, master')
  BY <1>3, <1>4, <1>6 DEF SameRegisters
<1>12. SenderOk(accepted', slave', Requests) /\ SenderOk(accepted', master', Responses)
  BY <1>3, <1>4, <1>5, <1>7 DEF NocKeeps, OInv
<1>13. /\ OrderOk(accepted', delivered', slave', ReqN', master', Requests,
                  Unlooked("MasterNoc", rqEject)', request')
       /\ OrderOk(accepted', delivered', master', RspN', slave', Responses,
                  Unlooked("SlaveNoc", rpEject)', response')
  BY <1>3, <1>4, <1>5, <1>9, <1>10 DEF NocKeeps
<1>14. QED
  BY <1>5, <1>8, <1>11, <1>12, <1>13, ModulesKept DEF OInv

LEMMA MasterNocOrder ==
  ASSUME FifosSuffice, IInv, OInv, MasterNoc
  PROVE  OInv'
<1>1. /\ Adapter(slave, Requests, Responses) /\ Adapter(master, Responses, Requests)
      /\ NocTypes(ReqN, Requests) /\ NocTypes(RspN, Responses)
  BY TypesHere DEF AdaptersOk
<1>2. ~CreditSeen("MasterNoc") /\ CreditSeen("MasterNoc")' /\ (CreditSeen("SlaveNoc")' <=> CreditSeen("SlaveNoc"))
  BY AdapterTurn, Distinct DEF MasterNoc, IInv
<1>3. PICK n, m, p, f, b :
        n = RspN /\ m = RspN' /\ p = ReqN /\ f = Unlooked("SlaveNoc", rpEject) /\ b = master'
  OBVIOUS
<1>4. /\ b = OutputEjection(InputInjection(master, rpCredit, NoVC), p.eject)
      /\ m.inject = (IF CanInject(master) THEN NextFlit(master) ELSE n.inject) /\ m.rbuf = n.rbuf
      /\ n.inject = NoFlit
      /\ slave' = slave /\ ReqN' = p /\ Unlooked("SlaveNoc", rpEject)' = f
      /\ Unlooked("MasterNoc", rqEject) = p.eject /\ Unlooked("MasterNoc", rqEject)' = NoFlit
  <2>1. b = OutputEjection(InputInjection(master, rpCredit, NoVC), p.eject)
    BY <1>3 DEF MasterNoc, ReqN
  <2>2. /\ m.inject = (IF CanInject(master) THEN NextFlit(master) ELSE n.inject) /\ m.rbuf = n.rbuf
        /\ ReqN' = p
    BY <1>3 DEF MasterNoc, ReqN, RspN, rqVars
  <2>3. n.inject = NoFlit
    BY <1>2, <1>3 DEF IInv, ResponsesOk, RspN
  <2>4. /\ Unlooked("SlaveNoc", rpEject)' = f
        /\ Unlooked("MasterNoc", rqEject) = p.eject /\ Unlooked("MasterNoc", rqEject)' = NoFlit
    BY <1>2, <1>3 DEF Unlooked, MasterNoc, ReqN
  <2>5. QED
    BY <2>1, <2>2, <2>3, <2>4 DEF MasterNoc
<1>5. NocKeeps
  BY DEF MasterNoc, moduleVars, NocKeeps
<1>6. /\ SameRegisters(master, b)
      /\ b.injFifo = (IF master.injReg = NoFlit /\ master.injFifo # <<>> THEN Tail(master.injFifo)
                                                                        ELSE master.injFifo)
      /\ Stream(b) = (IF CanInject(master) THEN Tail(Stream(master)) ELSE Stream(master))
  <2>1. PICK e, c : e = p.eject /\ c = rpCredit
    OBVIOUS
  <2>2. DOMAIN master = Fields /\ Queued(master, Responses) /\ b = OutputEjection(InputInjection(master, c, NoVC), e)
    BY <1>1, <1>4, <2>1 DEF Adapter, Sender
  <2>3. QED
    BY <2>2, NocThreadSends
<1>7. SenderOk(accepted, b, Responses) /\ \A t : MadeUpTo(accepted, b, t) = MadeUpTo(accepted, master, t)
  BY <1>1, <1>6, SenderNoc DEF Adapter, Sender, OInv
<1>8. IInv' /\ RegistersEmpty'
  BY MasterNocInv, RegistersStep DEF OInv, Next
<1>9. OrderOk(accepted, delivered, b, m, slave, Responses, f, response)
  <2>1. /\ Queued(master, Responses) /\ NocTypes(n, Responses)
        /\ OrderOk(accepted, delivered, master, n, slave, Responses, f, response)
    BY <1>1, <1>3 DEF Adapter, Sender, OInv
  <2>2. QED
    BY <1>4, <1>6, <1>7, <2>1, SubTypes, OrderInjects
<1>10. OrderOk(accepted, delivered, slave, p, b, Requests, NoFlit, request)
  <2>1. /\ DOMAIN master = Fields /\ Receiver(master, Requests) /\ master.ejectReg = NoFlit
        /\ p.eject \in FlitsOf(Requests) \cup {NoFlit} /\ b.ejectReg = NoFlit
    BY <1>1, <1>3, <1>8 DEF Adapter, OInv, RegistersEmpty, NocTypes
  <2>2. OrderOk(accepted, delivered, slave, p, master, Requests, p.eject, request)
    BY <1>3, <1>4 DEF OInv
  <2>3. QED
    BY <1>4, <2>1, <2>2, OrderEjects
<1>11. SameRegisters(slave, slave') /\ SameRegisters(master, master')
  BY <1>3, <1>4, <1>6 DEF SameRegisters
<1>12. SenderOk(accepted', slave', Requests) /\ SenderOk(accepted', master', Responses)
  BY <1>3, <1>4, <1>5, <1>7 DEF NocKeeps, OInv
<1>13. /\ OrderOk(accepted', delivered', slave', ReqN', master', Requests,
                  Unlooked("MasterNoc", rqEject)', request')
       /\ OrderOk(accepted', delivered', master', RspN', slave', Responses,
                  Unlooked("SlaveNoc", rpEject)', response')
  BY <1>3, <1>4, <1>5, <1>9, <1>10 DEF NocKeeps
<1>14. QED
  BY <1>5, <1>8, <1>11, <1>12, <1>13, ModulesKept DEF OInv

LEMMA TickOrder ==
  ASSUME FifosSuffice, IInv, OInv, Tick
  PROVE  OInv'
<1>1. CreditSeen("SlaveNoc") /\ ~CreditSeen("SlaveNoc")' /\ CreditSeen("MasterNoc") /\ ~CreditSeen("MasterNoc")'
  BY TickTurn, Distinct DEF Tick, IInv
<1>2. PICK n, m, p, q : n = ReqN /\ m = ReqN' /\ p = RspN /\ q = RspN'
  OBVIOUS
<1>3. NocStep(n, m) /\ NocStep(p, q)
  BY <1>2, ReqNocStep, RspNocStep DEF Tick
<1>4. /\ Unlooked("MasterNoc", rqEject) = NoFlit /\ Unlooked("MasterNoc", rqEject)' = m.eject
      /\ Unlooked("SlaveNoc", rpEject) = NoFlit /\ Unlooked("SlaveNoc", rpEject)' = q.eject
  BY <1>1, <1>2 DEF Unlooked, ReqN, RspN
<1>5. slave' = slave /\ master' = master /\ NocKeeps
  BY DEF Tick, moduleVars, NocKeeps
<1>6. /\ NocTypes(n, Requests) /\ NocTypes(p, Responses)
      /\ OrderOk(accepted, delivered, slave, n, master, Requests, NoFlit, request)
      /\ OrderOk(accepted, delivered, master, p, slave, Responses, NoFlit, response)
  BY <1>2, <1>4, TypesHere DEF OInv
<1>7. OrderOk(accepted, delivered, slave, m, master, Requests, m.eject, request)
  BY <1>3, <1>6, SubTypes, OrderTicks
<1>8. OrderOk(accepted, delivered, master, q, slave, Responses, q.eject, response)
  BY <1>3, <1>6, SubTypes, OrderTicks
<1>9. RegistersEmpty' /\ SameRegisters(slave, slave') /\ SameRegisters(master, master')
  BY <1>5 DEF OInv, RegistersEmpty, SameRegisters
<1>10. SenderOk(accepted', slave', Requests) /\ SenderOk(accepted', master', Responses)
  BY <1>5 DEF NocKeeps, OInv
<1>11. /\ OrderOk(accepted', delivered', slave', ReqN', master', Requests,
                  Unlooked("MasterNoc", rqEject)', request')
       /\ OrderOk(accepted', delivered', master', RspN', slave', Responses,
                  Unlooked("SlaveNoc", rpEject)', response')
  BY <1>2, <1>4, <1>5, <1>7, <1>8 DEF NocKeeps
<1>12. QED
  BY <1>5, <1>9, <1>10, <1>11, ModulesKept DEF OInv

LEMMA IdleOrder ==
  ASSUME IInv, OInv, NocEdge \/ UNCHANGED vars
  PROVE  OInv'
<1>1. /\ NocKeeps /\ slave' = slave /\ master' = master /\ ReqN' = ReqN /\ RspN' = RspN
      /\ rqEject' = rqEject /\ rpEject' = rpEject
  BY DEF NocEdge, vars, timeVars, moduleVars, rqVars, rpVars, NocKeeps, ReqN, RspN
<1>2. /\ CreditSeen("SlaveNoc")' <=> CreditSeen("SlaveNoc")
      /\ CreditSeen("MasterNoc")' <=> CreditSeen("MasterNoc")
  <2>1. CASE NocEdge
    BY <2>1, EdgeOfNoc, Distinct DEF NocEdge
  <2>2. CASE UNCHANGED vars
    <3>1. pending' = pending
      BY <2>2 DEF vars, timeVars
    <3>2. QED
      BY <3>1, CreditSeenDone
  <2>3. QED
    BY <2>1, <2>2
<1>3. /\ Unlooked("MasterNoc", rqEject)' = Unlooked("MasterNoc", rqEject)
      /\ Unlooked("SlaveNoc", rpEject)' = Unlooked("SlaveNoc", rpEject)
  BY <1>1, <1>2 DEF Unlooked
<1>4. RegistersEmpty' /\ SameRegisters(slave, slave') /\ SameRegisters(master, master')
  BY <1>1 DEF OInv, RegistersEmpty, SameRegisters
<1>5. SenderOk(accepted', slave', Requests) /\ SenderOk(accepted', master', Responses)
  BY <1>1 DEF NocKeeps, OInv
<1>6. /\ OrderOk(accepted', delivered', slave', ReqN', master', Requests,
                 Unlooked("MasterNoc", rqEject)', request')
      /\ OrderOk(accepted', delivered', master', RspN', slave', Responses,
                 Unlooked("SlaveNoc", rpEject)', response')
  BY <1>1, <1>3 DEF NocKeeps, OInv
<1>7. QED
  BY <1>1, <1>4, <1>5, <1>6, ModulesKept DEF OInv

LEMMA NextOrder ==
  ASSUME WholePeriods, FifosSuffice, IInv, OInv, [Next]_vars
  PROVE  OInv'
BY FabricOrder, SlaveNocOrder, MasterNocOrder, TickOrder, IdleOrder DEF Next

(***************************************************************************)
(* Initially nothing is under way.                                         *)
(***************************************************************************)
Fresh(a) ==
  /\ a.iReg = NoTx /\ a.cycle = 0 /\ a.numFlits = 0 /\ a.injFifo = <<>> /\ a.injReg = NoFlit
  /\ a.outPacket = <<>> /\ a.outFifo = <<>> /\ a.constructed = <<>>
  /\ a.gotAw = FALSE /\ a.ejectReg = NoFlit

LEMMA FreshSender ==
  ASSUME NEW acc \in [Types -> Nat], NEW a, Fresh(a), NEW S \in SUBSET Types
  PROVE  SenderOk(acc, a, S) /\ \A t \in S : MadeUpTo(acc, a, t) = acc[t] + 1
<1>1. PICK q : q = a.injFifo
  OBVIOUS
<1>2. q = <<>> /\ 1 .. Len(q) = {} /\ a.iReg = NoTx
  BY <1>1 DEF Fresh
<1>3. Ordered(q) /\ \A t, j : Below(q, t, j)
  BY <1>2 DEF Ordered, Below, Places
<1>4. ASSUME NEW t \in S PROVE MadeUpTo(acc, a, t) = acc[t] + 1
  <2>1. acc[t] \in Nat /\ Count(Waiting(a) /\ a.iReg.type = t) = 0
    BY <1>2 DEF Count, Waiting
  <2>2. QED
    BY <2>1 DEF MadeUpTo
<1>5. QED
  BY <1>1, <1>2, <1>3, <1>4 DEF SenderOk

LEMMA FreshRoute ==
  ASSUME NEW a, Fresh(a), NEW b, Fresh(b), NEW t \in Types, b.ejFifo[t] = <<>>,
         NEW n, n.inject = NoFlit, n.rbuf = [v \in VCs |-> <<>>]
  PROVE  Route(a, n, b, t, NoFlit, 1, 1)
<1>1. Numbers(<<>>, t, 1, 1)
  BY NumbersEmpty
<1>2. Arrived(b, t, 1, 1)
  <2>1. PICK q : q = Packed(b)
    OBVIOUS
  <2>2. q = <<>>
    BY <2>1 DEF Packed, Fresh
  <2>3. Marks(q) = <<>>
    BY <2>2 DEF Marks
  <2>4. QED
    BY <1>1, <2>1, <2>3 DEF Arrived, Building, Fresh
<1>3. Opt(NoFlit) = <<>>
  BY DEF Opt
<1>4. Line(n, VcOf[t]) = <<>>
  <2>1. VcOf[t] \in VCs
    BY AximmAssumption
  <2>2. n.rbuf[VcOf[t]] = <<>> /\ ~On(n.inject, VcOf[t])
    BY <2>1 DEF On
  <2>3. QED
    BY <2>2 DEF Line
<1>5. Stream(a) = <<>>
  BY DEF Stream, Fresh
<1>6. QED
  BY <1>1, <1>2, <1>3, <1>4, <1>5 DEF Route

LEMMA FreshOrder ==
  ASSUME NEW acc, acc = [t \in Types |-> 0], NEW S \in SUBSET Types,
         NEW a, Fresh(a), NEW b, Fresh(b), \A t \in S : b.ejFifo[t] = <<>>,
         NEW n, n.inject = NoFlit, n.rbuf = [v \in VCs |-> <<>>]
  PROVE  SenderOk(acc, a, S) /\ OrderOk(acc, acc, a, n, b, S, NoFlit, NoTx)
<1>1. acc \in [Types -> Nat]
  OBVIOUS
<1>2. SenderOk(acc, a, S) /\ \A t \in S : MadeUpTo(acc, a, t) = acc[t] + 1
  BY <1>1, FreshSender
<1>3. ASSUME NEW t \in S
      PROVE  \E i \in Nat \ {0} : Shown(acc, NoTx, t, i) /\ Route(a, n, b, t, NoFlit, i, MadeUpTo(acc, a, t))
  <2>1. acc[t] = 0 /\ MadeUpTo(acc, a, t) = 1
    BY <1>2
  <2>2. Route(a, n, b, t, NoFlit, 1, 1)
    BY FreshRoute
  <2>3. ~Shows(NoTx, t) /\ Count(Shows(NoTx, t)) = 0
    BY DEF Shows, Count
  <2>4. Shown(acc, NoTx, t, 1)
    BY <2>1, <2>3 DEF Shown
  <2>5. QED
    BY <2>1, <2>2, <2>4
<1>4. QED
  BY <1>2, <1>3 DEF OrderOk

LEMMA FreshAdapters ==
  ASSUME Init
  PROVE  /\ Fresh(slave) /\ \A t \in Responses : slave.ejFifo[t] = <<>>
         /\ Fresh(master) /\ \A t \in Requests : master.ejFifo[t] = <<>>
<1>1. Fresh(slave) /\ Fresh(master)
  BY DEF Init, SlaveInit, MasterInit, NewAdapter, Fresh
<1>2. ASSUME NEW t \in Responses PROVE slave.ejFifo[t] = <<>>
  <2>1. ToSet(<<"R", "B">>) = Responses
    BY DEF Responses, ToSet
  <2>2. slave.ejFifo = [u \in ToSet(<<"R", "B">>) |-> <<>>]
    BY DEF Init, SlaveInit, NewAdapter
  <2>3. QED
    BY <2>1, <2>2
<1>3. ASSUME NEW t \in Requests PROVE master.ejFifo[t] = <<>>
  <2>1. ToSet(<<"AR", "AW", "W">>) = Requests
    BY DEF Requests, ToSet
  <2>2. master.ejFifo = [u \in ToSet(<<"AR", "AW", "W">>) |-> <<>>]
    BY DEF Init, MasterInit, NewAdapter
  <2>3. QED
    BY <2>1, <2>2
<1>4. QED
  BY <1>1, <1>2, <1>3

LEMMA FreshTime ==
  ASSUME WholePeriods, Init
  PROVE  TimeOk
<1>1. left["adapter"] = 0 /\ left["req"] = 0 /\ left["rsp"] = 0
  BY DEF Init, Clocks
<1>2. ASSUME NEW c \in {"req", "rsp"}, NEW a, Fresh(a) PROVE Timely(c, a)
  <2>1. PICK k \in 2 .. 256 : k = FreqRatio(c) /\ Period["adapter"] \in Nat
    BY Ratios
  <2>2. 0 \in 0 .. k - 1
    BY <2>1
  <2>3. left[c] = left["adapter"] + 0 * Period["adapter"]
    BY <1>1, <2>1
  <2>4. Idle(a, k, 0)
    <3>1. a.iReg = NoTx /\ a.cycle = 0 /\ a.numFlits = 0
      BY <1>2 DEF Fresh
    <3>2. QED
      BY <3>1 DEF Idle
  <2>5. QED
    BY <2>1, <2>2, <2>3, <2>4 DEF Timely
<1>3. QED
  BY <1>1, <1>2, FreshAdapters DEF TimeOk

LEMMA InitOrder ==
  ASSUME WholePeriods, Init
  PROVE  OInv
<1>1. TimeOk
  BY FreshTime
<1>2. PICK z : z = accepted
  OBVIOUS
<1>3. z = [t \in Types |-> 0] /\ delivered = z /\ delivered \in [Types -> Nat]
  BY <1>2 DEF Init
<1>4. /\ ReqN.inject = NoFlit /\ ReqN.rbuf = [v \in VCs |-> <<>>] /\ rqEject = NoFlit
      /\ RspN.inject = NoFlit /\ RspN.rbuf = [v \in VCs |-> <<>>] /\ rpEject = NoFlit
  BY DEF Init, ReqNoc!NocInit, RspNoc!NocInit, ReqNoc!VCs, RspNoc!VCs, VCs, ReqN, RspN
<1>5. Unlooked("MasterNoc", rqEject) = NoFlit /\ Unlooked("SlaveNoc", rpEject) = NoFlit
  BY <1>4 DEF Unlooked
<1>6. SenderOk(z, slave, Requests) /\ OrderOk(z, z, slave, ReqN, master, Requests, NoFlit, NoTx)
  BY <1>3, <1>4, FreshAdapters, SubTypes, FreshOrder
<1>7. SenderOk(z, master, Responses) /\ OrderOk(z, z, master, RspN, slave, Responses, NoFlit, NoTx)
  BY <1>3, <1>4, FreshAdapters, SubTypes, FreshOrder
<1>8. z["AR"] = 0 /\ z["AW"] = 0 /\ z["W"] = 0 /\ z["R"] = 0 /\ z["B"] = 0
  BY <1>3 DEF Types, Requests, Responses
<1>9. RequesterInv(requester, command, given, z, slave)
  <2>1. requester = Modules!RequesterInit /\ command = NoTx /\ given = 0 /\ slave.gotAw = FALSE
    BY FreshAdapters DEF Init, Fresh
  <2>2. requester.fifo = <<>> /\ requester.awAccepted = FALSE /\ requester.port = Modules!NoRequest
    BY <2>1 DEF Modules!RequesterInit
  <2>3. Len(requester.fifo) = 0 /\ Count(command # NoTx) = 0 /\ Count(requester.awAccepted) = 0
    BY <2>1, <2>2 DEF Count
  <2>4. MaxCommands \in Nat
    BY PathAssumption
  <2>5. QED
    <3>1. slave.gotAw = requester.awAccepted /\ requester.awAccepted \in BOOLEAN
          /\ ~requester.awAccepted /\ RequesterPort(requester) = Modules!NoRequest
      BY <2>1, <2>2 DEF RequesterPort
    <3>2. /\ (z["AR"] + z["AW"]) + (Len(requester.fifo) + Count(command # NoTx))
                <= given + Count(requester.awAccepted)
          /\ z["W"] + Count(requester.awAccepted) = z["AW"] /\ given <= MaxCommands
      BY <1>8, <2>1, <2>3, <2>4
    <3>3. QED
      BY <2>2, <3>1, <3>2 DEF RequesterInv
<1>10. ResponderInv(responder, z, z, master) /\ responder.ready = Requests
  <2>1. responder = Modules!ResponderInit
    BY DEF Init
  <2>2. /\ responder.reads = <<>> /\ responder.waddrs = <<>> /\ responder.wdata = <<>>
        /\ responder.resps = <<>> /\ responder.port = Modules!NoResponse
        /\ responder.ready = Requests
    BY <2>1 DEF Modules!ResponderInit, Requests
  <2>3. Held3(responder) = 0 /\ Len(responder.wdata) = 0
    BY <2>2 DEF Held3
  <2>4. QED
    BY <1>8, <2>2, <2>3 DEF ResponderInv, ResponderPort
<1>11. RegistersEmpty
  BY FreshAdapters DEF Fresh, RegistersEmpty
<1>12. request = NoTx /\ response = NoTx
  BY DEF Init
<1>13. QED
  BY <1>1, <1>2, <1>3, <1>5, <1>6, <1>7, <1>9, <1>10, <1>11, <1>12 DEF OInv

(***************************************************************************)
(* What it says: AcceptedOnce, and the steps of the five channels.         *)
(***************************************************************************)
LEMMA OrderOnce ==
  ASSUME IInv, OInv
  PROVE  AcceptedOnce
<1>1. MadeOnce(slave.injFifo) /\ MadeOnce(master.injFifo)
  <2>1. slave.injFifo \in Seq(FlitsOf(Requests)) /\ master.injFifo \in Seq(FlitsOf(Responses))
    BY TypesHere DEF AdaptersOk, Adapter, Sender, Queued
  <2>2. Ordered(slave.injFifo) /\ Ordered(master.injFifo)
    BY DEF OInv, SenderOk
  <2>3. QED
    BY <2>1, <2>2, OrderedOnce
<1>2. accepted["AR"] + accepted["AW"] <= given
  BY TypesHere, AcceptedGiven DEF OInv
<1>3. ASSUME NEW t \in Requests PROVE delivered[t] <= accepted[t]
  <2>1. accepted \in [Types -> Nat] /\ delivered \in [Types -> Nat] /\ t \in Types
    BY TypesHere, SubTypes DEF OInv
  <2>2. delivered[t] + Count(Shows(request, t)) <= accepted[t]
    BY <2>1, SubTypes, OrderBounds DEF OInv
  <2>3. Count(Shows(request, t)) \in Nat /\ delivered[t] \in Nat /\ accepted[t] \in Nat
    BY <2>1 DEF Count
  <2>4. QED
    BY <2>2, <2>3
<1>4. accepted["R"] + accepted["B"] <= given
  <2>1. PICK ar, aw, r, b, dr, dw, g \in Nat :
          /\ ar = accepted["AR"] /\ aw = accepted["AW"] /\ r = accepted["R"] /\ b = accepted["B"]
          /\ dr = delivered["AR"] /\ dw = delivered["AW"] /\ g = given
    BY TypesHere DEF OInv, Types, Requests, Responses
  <2>2. dr <= ar /\ dw <= aw
    BY <1>3, <2>1 DEF Requests
  <2>3. PICK h \in Nat : h = Held3(responder)
    <3>1. PICK k, l, m \in Nat : /\ k = Len(responder.resps) /\ l = Len(responder.reads)
                               /\ m = Len(responder.waddrs)
      <4>1. ResponderOk(responder)
        BY TypesHere
      <4>2. /\ Len(responder.resps) \in Nat /\ Len(responder.reads) \in Nat
            /\ Len(responder.waddrs) \in Nat
        BY <4>1 DEF ResponderOk
      <4>3. QED
        BY <4>2
    <3>2. Held3(responder) = (k + l) + m
      BY <3>1 DEF Held3
    <3>3. (k + l) + m \in Nat
      OBVIOUS
    <3>4. QED
      BY <3>2, <3>3
  <2>4. (r + b) + h <= dr + dw
    BY <2>1, <2>3 DEF OInv, ResponderInv
  <2>5. ar + aw <= g
    BY <1>2, <2>1
  <2>6. QED
    BY <2>1, <2>2, <2>4, <2>5
<1>5. QED
  BY <1>1, <1>2, <1>4 DEF AcceptedOnce

LEMMA ChannelStep ==
  ASSUME WholePeriods, FifosSuffice, RoomEnough, IInv, OInv, [Next]_vars
  PROVE  [Channel!Next]_(Channel!vars)
<1>1. CASE FabricEdge
  <2>1. PICK j, got, x : SlaveSide(j, got, x)
    BY <1>1, Sides
  <2>2. PICK i, got2, y : MasterSide(i, got2, y)
    BY <1>1, Sides
  <2>3. /\ Counts(accepted, accepted', got, Requests)
        /\ Counts(accepted, accepted', got2, Responses)
    BY <1>1, <2>1, <2>2, EdgeCounts
  <2>4. /\ DeliveredOk(accepted, delivered, delivered', request, i, Requests, responder.ready)
        /\ DeliveredOk(accepted, delivered, delivered', response, j, Responses, Responses)
    BY <1>1, <2>1, <2>2, RequestsEdge, ResponsesEdge
  <2>5. accepted' \in [Types -> Nat] /\ delivered' \in [Types -> Nat]
    BY <1>1, NextInv, NextOrder DEF Next, IInv, ModulesOk, OInv
  <2>6. accepted \in [Types -> Nat]
    BY TypesHere
  <2>7. ASSUME NEW t \in Types
        PROVE  accepted'[t] = accepted[t] \/ accepted'[t] = accepted[t] + 1
    <3>1. accepted[t] \in Nat
      BY <2>6
    <3>2. \E b : accepted'[t] = accepted[t] + Count(b)
      BY <2>3 DEF Counts, Types
    <3>3. QED
      BY <3>1, <3>2 DEF Count
  <2>8. ASSUME NEW t \in Types
        PROVE  \/ delivered'[t] = delivered[t]
               \/ delivered'[t] = delivered[t] + 1 /\ delivered[t] < accepted[t]
    BY <2>4 DEF DeliveredOk, Types
  <2>9. QED
    BY <2>5, <2>7, <2>8 DEF Channel!Next, Channel!Counted, Channel!Waiting
<1>2. CASE UNCHANGED <<accepted, delivered>>
  BY <1>2 DEF Channel!vars
<1>3. CASE NocEdge \/ SlaveNoc \/ MasterNoc \/ Tick \/ UNCHANGED vars
  BY <1>2, <1>3 DEF NocEdge, SlaveNoc, MasterNoc, Tick, vars, moduleVars
<1>4. QED
  BY <1>1, <1>3 DEF Next

LEMMA ChannelInit == Init => Channel!Init
BY DEF Init, Channel!Init

(***************************************************************************)
(* Addresses and data.  P stands for the requests accepted so far: all     *)
(* that is under way or kept is of them, and an address and the data with  *)
(* the same number are of the same command.                                *)
(***************************************************************************)
Alike(P) == \A x, y \in P : x.type = "AW" /\ y.type = "W" /\ x.id = y.id => x.n = y.n

\* While the requester waits for its W, the last address is of the command in front.
Paired(acc, q, P) ==
  /\ Alike(P) /\ \A x \in P : x.id <= acc[x.type]
  /\ q.awAccepted => \A x \in P : x.type = "AW" /\ x.id = acc["AW"] => x.n = Head(q.fifo).n

SenderFrom(a, P) == (a.iReg # NoTx => a.iReg \in P) /\ From(Stream(a), P)

NocFrom(n, P) ==
  (\A v \in VCs : From(Line(n, v), P)) /\ (n.eject # NoFlit => n.eject.tx \in P)

\* The requests of type t that the responder has still to use, up to number d.
Lined(q, t, d, P) ==
  \A k \in 1 .. Len(q) : q[k] \in P /\ q[k].type = t /\ q[k].id = (d - Len(q)) + k

\* It has used as many addresses as data.
Stored(p, del, P) ==
  /\ Lined(p.waddrs, "AW", del["AW"], P) /\ Lined(p.wdata, "W", del["W"], P)
  /\ del["AW"] - Len(p.waddrs) = del["W"] - Len(p.wdata)
  /\ \A pair \in p.storage : pair[1] = pair[2]

Carried(P) ==
  /\ SenderFrom(slave, P) /\ NocFrom(ReqN, P) /\ ReceiverFrom(master, P, Requests)
  /\ request # NoTx => request \in P
  /\ Stored(responder, delivered, P)

PairInv ==
  \E P \in SUBSET TxOf(Requests) : Paired(accepted, requester, P) /\ Carried(P)

LEMMA FromMore ==
  ASSUME NEW P, NEW Q, P \subseteq Q
  PROVE  /\ \A q : From(q, P) => From(q, Q)
         /\ \A b, S : ReceiverFrom(b, P, S) => ReceiverFrom(b, Q, S)
         /\ \A n : NocFrom(n, P) => NocFrom(n, Q)
         /\ \A p, del : Stored(p, del, P) => Stored(p, del, Q)
<1>1. \A q : From(q, P) => From(q, Q)
  BY DEF From
<1>2. \A q, t, d : Lined(q, t, d, P) => Lined(q, t, d, Q)
  BY DEF Lined
<1>3. QED
  BY <1>1, <1>2 DEF ReceiverFrom, NocFrom, Stored

(***************************************************************************)
(* The requester: what is accepted is of the command in front.             *)
(***************************************************************************)
FrontStep(q, q2, got) ==
  /\ q2.awAccepted = IF got = NoTx THEN q.awAccepted ELSE got.type = "AW"
  /\ got # NoTx => got.n = Head(q.fifo).n /\ (q.awAccepted <=> got.type = "W")
  /\ q2.awAccepted => Head(q2.fifo) = Head(q.fifo)

LEMMA FrontEdge ==
  ASSUME NEW q, RequesterOk(q), NEW c \in Cmds \cup {NoTx}, NEW g, NEW a, NEW acc,
         RequesterInv(q, c, g, acc, a), NEW got \in TxOf(Requests) \cup {NoTx},
         got # NoTx => a.iReg = NoTx /\ Asks(a, q.port, got.type) /\ got.n = q.port[got.type].n,
         NEW resp, NEW taken, taken = (IF got = NoTx THEN {} ELSE {got.type}),
         NEW q2, q2 = Modules!RequesterTick(q, c, taken, resp)
  PROVE  FrontStep(q, q2, got)
<1>1. PICK f : f = Modules!Pushed(q, c)
  OBVIOUS
<1>2. q.fifo # <<>> => f # <<>> /\ Head(f) = Head(q.fifo)
  BY <1>1, PushedQueue
<1>3. /\ q2.fifo = Modules!Popped(f, taken \cap {"W", "AR"} # {})
      /\ q2.awAccepted = IF "AW" \in taken THEN TRUE
                         ELSE IF "W" \in taken THEN FALSE ELSE q.awAccepted
  BY <1>1 DEF Modules!RequesterTick
<1>4. /\ a.gotAw = q.awAccepted /\ q.awAccepted \in BOOLEAN
      /\ q.awAccepted => q.fifo # <<>> /\ Head(q.fifo).write
  BY DEF RequesterInv
<1>5. CASE got = NoTx
  <2>1. q2.fifo = f /\ q2.awAccepted = q.awAccepted
    BY <1>3, <1>5 DEF Modules!Popped
  <2>2. QED
    BY <1>2, <1>4, <1>5, <2>1 DEF FrontStep
<1>6. CASE got # NoTx
  <2>1. PICK t : t = got.type
    OBVIOUS
  <2>2. /\ t \in Requests /\ taken = {t} /\ got.n = q.port[t].n
        /\ q.port = RequesterPort(q) /\ q.port[t] # NoTx /\ (t = "W" => q.awAccepted)
    BY <1>4, <1>6, <2>1, TxFields DEF RequesterInv, Asks
  <2>3. /\ q.fifo # <<>> /\ q.port[t].n = Head(q.fifo).n
        /\ t = "AR" => ~Head(q.fifo).write
        /\ t = "AW" => Head(q.fifo).write /\ ~q.awAccepted
    BY <1>4, <2>2, PortOf
  <2>4. CASE t = "AW"
    <3>1. q2.fifo = f /\ q2.awAccepted = TRUE
      BY <1>3, <2>2, <2>4 DEF Modules!Popped
    <3>2. QED
      BY <1>2, <1>6, <2>1, <2>2, <2>3, <2>4, <3>1 DEF FrontStep
  <2>5. CASE t # "AW"
    <3>1. t \in {"AR", "W"}
      BY <2>2, <2>5 DEF Requests
    <3>2. (q.awAccepted <=> t = "W") /\ q2.awAccepted = FALSE
      BY <1>3, <1>4, <2>2, <2>3, <3>1
    <3>3. QED
      BY <1>6, <2>1, <2>2, <2>3, <2>5, <3>2 DEF FrontStep
  <2>6. QED
    BY <2>4, <2>5
<1>7. QED
  BY <1>5, <1>6

LEMMA PairedEdge ==
  ASSUME NEW P \in SUBSET TxOf(Requests), NEW acc \in [Types -> Nat], NEW q, Paired(acc, q, P),
         q.awAccepted \in BOOLEAN, acc["W"] + Count(q.awAccepted) = acc["AW"],
         NEW got \in TxOf(Requests) \cup {NoTx}, got # NoTx => got.id = acc[got.type] + 1,
         NEW q2, FrontStep(q, q2, got), NEW acc2, Counts(acc, acc2, got, Requests)
  PROVE  \E Q \in SUBSET TxOf(Requests) :
           Paired(acc2, q2, Q) /\ P \subseteq Q /\ (got # NoTx => got \in Q)
<1>1. PICK na, nw \in Nat : na = acc["AW"] /\ nw = acc["W"]
  BY DEF Types, Requests
<1>2. nw + Count(q.awAccepted) = na
  BY <1>1
<1>3. ASSUME NEW x \in P PROVE x.type \in Requests /\ x.id \in Nat /\ x.id <= acc[x.type] /\ acc[x.type] \in Nat
  <2>1. x.type \in Requests /\ x.id \in Nat /\ x.type \in Types
    BY TxFields DEF TxOf, Transactions
  <2>2. QED
    BY <2>1 DEF Paired
<1>4. CASE got = NoTx
  <2>1. acc2["AW"] = na /\ \A t \in Requests : acc2[t] = acc[t]
    <3>1. ASSUME NEW t \in Requests PROVE acc2[t] = acc[t]
      <4>1. acc2[t] = acc[t] + 0 /\ acc[t] \in Nat
        BY <1>4 DEF Counts, Count, Shows, Types
      <4>2. QED
        BY <4>1
    <3>2. QED
      BY <1>1, <3>1 DEF Requests
  <2>2. q2.awAccepted = q.awAccepted /\ (q2.awAccepted => Head(q2.fifo) = Head(q.fifo))
    BY <1>4 DEF FrontStep
  <2>3. Paired(acc2, q2, P)
    BY <1>1, <1>3, <2>1, <2>2 DEF Paired
  <2>4. QED
    BY <1>4, <2>3
<1>5. CASE got # NoTx
  <2>1. PICK Q \in SUBSET TxOf(Requests) : Q = P \cup {got}
    BY <1>5
  <2>2. got \in TxOf(Requests) /\ got.type \in Requests /\ got.id = acc[got.type] + 1
    BY <1>5, TxFields
  <2>3. /\ q2.awAccepted = (got.type = "AW") /\ got.n = Head(q.fifo).n
        /\ q.awAccepted <=> got.type = "W"
        /\ q2.awAccepted => Head(q2.fifo) = Head(q.fifo)
    BY <1>5 DEF FrontStep
  <2>4. ASSUME NEW t \in Requests
        PROVE  acc[t] \in Nat /\ acc2[t] = IF t = got.type THEN acc[t] + 1 ELSE acc[t]
    <3>1. acc[t] \in Nat /\ acc2[t] = acc[t] + Count(Shows(got, t)) /\ (Shows(got, t) <=> t = got.type)
      BY <1>5 DEF Counts, Shows, Types
    <3>2. QED
      BY <3>1 DEF Count
  <2>5. ASSUME NEW x \in Q PROVE x.id <= acc2[x.type]
    BY <1>3, <2>1, <2>2, <2>4
  <2>6. Alike(P) /\ (q.awAccepted => \A x \in P : x.type = "AW" /\ x.id = na => x.n = Head(q.fifo).n)
    BY <1>1 DEF Paired
  <2>7. \A x \in P : x.type = "W" => x.id <= nw
    BY <1>1, <1>3
  <2>8. \A x \in P : x.type = "AW" => x.id <= na
    BY <1>1, <1>3
  <2>9. CASE got.type = "AW"
    <3>1. got.id = na + 1 /\ nw = na /\ acc2["AW"] = na + 1
      <4>1. Count(q.awAccepted) = 0
        BY <2>3, <2>9 DEF Count
      <4>2. nw = na
        BY <1>1, <1>2, <4>1
      <4>3. QED
        BY <1>1, <2>2, <2>4, <2>9, <4>2
    <3>2. ASSUME NEW x \in Q, NEW y \in Q, x.type = "AW", y.type = "W", x.id = y.id PROVE x.n = y.n
      <4>1. y \in P /\ y.id <= nw /\ y.id \in Nat
        BY <1>3, <2>1, <2>7, <2>9, <3>2
      <4>2. x # got
        BY <3>1, <3>2, <4>1
      <4>3. QED
        BY <2>1, <2>6, <3>2, <4>1, <4>2 DEF Alike
    <3>3. ASSUME NEW x \in Q, x.type = "AW", x.id = na + 1 PROVE x.n = Head(q2.fifo).n
      <4>1. x \notin P
        BY <1>3, <2>8, <3>3
      <4>2. QED
        BY <2>1, <2>3, <2>9, <4>1
    <3>4. Paired(acc2, q2, Q)
      BY <2>5, <3>1, <3>2, <3>3 DEF Paired, Alike
    <3>5. QED
      BY <2>1, <3>4
  <2>10. CASE got.type = "W"
    <3>1. got.id = nw + 1 /\ nw + 1 = na /\ ~q2.awAccepted
      <4>1. Count(q.awAccepted) = 1
        BY <2>3, <2>10 DEF Count
      <4>2. nw + 1 = na
        BY <1>1, <1>2, <4>1
      <4>3. QED
        BY <1>1, <2>2, <2>3, <2>10, <4>2
    <3>2. ASSUME NEW x \in Q, NEW y \in Q, x.type = "AW", y.type = "W", x.id = y.id PROVE x.n = y.n
      <4>1. x \in P
        BY <2>1, <2>10, <3>2
      <4>2. CASE y = got
        BY <2>3, <2>6, <2>10, <3>1, <3>2, <4>1, <4>2
      <4>3. CASE y \in P
        BY <2>6, <3>2, <4>1, <4>3 DEF Alike
      <4>4. QED
        BY <2>1, <4>2, <4>3
    <3>3. Paired(acc2, q2, Q)
      BY <2>5, <3>1, <3>2 DEF Paired, Alike
    <3>4. QED
      BY <2>1, <3>3
  <2>11. CASE got.type = "AR"
    <3>1. ~q2.awAccepted /\ Alike(Q)
      <4>1. ~q2.awAccepted
        BY <2>3, <2>11
      <4>2. \A x \in Q : x.type \in {"AW", "W"} => x \in P
        BY <2>1, <2>11
      <4>3. QED
        BY <2>6, <4>1, <4>2 DEF Alike
    <3>2. Paired(acc2, q2, Q)
      BY <2>5, <3>1 DEF Paired
    <3>3. QED
      BY <2>1, <3>2
  <2>12. QED
    BY <2>2, <2>9, <2>10, <2>11 DEF Requests
<1>6. QED
  BY <1>4, <1>5

(***************************************************************************)
(* The adapters and the NoC: every flit comes from another one, or from    *)
(* the transaction in the registers.                                       *)
(***************************************************************************)
LEMMA SenderFromEdge ==
  ASSUME NEW S, NEW a, Input(a, S), Queued(a, S), NEW b, NEW k, NEW j, NEW got,
         Sends(a, b, k, j, got), NEW P, SenderFrom(a, P), NEW Q, P \subseteq Q,
         got # NoTx => got \in Q
  PROVE  SenderFrom(b, Q)
<1>1. PICK p \in Seq(FlitsOf(S)), s \in Seq(FlitsOf(S)) : p = Made(a, a) /\ s = Stream(a)
  BY MadeType, StreamType
<1>2. Stream(b) = s \o p
  <2>1. b.injFifo = a.injFifo \o p /\ b.injReg = a.injReg
    BY <1>1 DEF Sends
  <2>2. QED
    BY <1>1, <2>1, StreamGrows
<1>3. From(s, Q)
  BY <1>1, FromMore DEF SenderFrom
<1>4. From(p, Q)
  <2>1. CASE Starts(a, a)
    <3>1. PacketOf(p, a.iReg) /\ a.iReg \in Q
      BY <1>1, <2>1, MadePacket DEF SenderFrom, Starts
    <3>2. QED
      BY <3>1 DEF PacketOf, From
  <2>2. CASE ~Starts(a, a)
    <3>1. p = <<>>
      BY <1>1, <2>2 DEF Made
    <3>2. 1 .. Len(p) = {}
      BY <3>1
    <3>3. QED
      BY <3>2 DEF From
  <2>3. QED
    BY <2>1, <2>2
<1>5. From(s \o p, Q)
  BY <1>3, <1>4, FromPacket
<1>6. b.iReg # NoTx => b.iReg \in Q
  BY DEF Sends, SenderFrom
<1>7. QED
  BY <1>2, <1>5, <1>6 DEF SenderFrom

LEMMA FromInjects ==
  ASSUME NEW S, NEW a, Queued(a, S), NEW n, NocTypes(n, S), n.inject = NoFlit,
         NEW d, Stream(d) = (IF CanInject(a) THEN Tail(Stream(a)) ELSE Stream(a)), d.iReg = a.iReg,
         NEW m, m.inject = (IF CanInject(a) THEN NextFlit(a) ELSE n.inject), m.rbuf = n.rbuf,
         m.eject = n.eject, NEW P, SenderFrom(a, P), NocFrom(n, P)
  PROVE  SenderFrom(d, P) /\ NocFrom(m, P)
<1>1. PICK s \in Seq(FlitsOf(S)) : s = Stream(a) /\ From(s, P)
  BY StreamType DEF SenderFrom
<1>2. CASE ~CanInject(a)
  <2>1. \A v \in VCs : Line(m, v) = Line(n, v)
    BY <1>2 DEF Line
  <2>2. QED
    BY <1>2, <2>1 DEF SenderFrom, NocFrom
<1>3. CASE CanInject(a)
  <2>1. PICK g : g = NextFlit(a) /\ g # NoFlit
    BY <1>3 DEF CanInject
  <2>2. s # <<>> /\ g = Head(s)
    BY <1>1, <2>1, StreamType
  <2>3. g \in FlitsOf(S) /\ g.tx \in P /\ From(Tail(s), P)
    BY <1>1, <2>2, FromTail
  <2>4. ASSUME NEW v \in VCs PROVE From(Line(m, v), P)
    <3>1. PICK q \in Seq(FlitsOf(S)) : q = n.rbuf[v] /\ From(q, P)
      <4>1. n.rbuf[v] \in Seq(FlitsOf(S))
        BY DEF NocTypes
      <4>2. Line(n, v) = n.rbuf[v] /\ From(Line(n, v), P)
        BY LineType DEF NocFrom
      <4>3. QED
        BY <4>1, <4>2
    <3>2. CASE g.vc = v
      <4>1. Line(m, v) = q \o <<g>>
        BY <1>3, <2>1, <3>1, <3>2 DEF Line, On
      <4>2. q \o <<g>> = Append(q, g)
        BY <2>3, AppendIsConcat
      <4>3. QED
        BY <2>3, <3>1, <4>1, <4>2, FromAppend
    <3>3. CASE g.vc # v
      <4>1. Line(m, v) = q \o <<>>
        BY <1>3, <2>1, <3>1, <3>3 DEF Line, On
      <4>2. q \o <<>> = q
        OBVIOUS
      <4>3. QED
        BY <3>1, <4>1, <4>2
    <3>4. QED
      BY <3>2, <3>3
  <2>5. QED
    BY <1>1, <1>3, <2>3, <2>4 DEF SenderFrom, NocFrom
<1>4. QED
  BY <1>2, <1>3

LEMMA FromTicks ==
  ASSUME NEW S, NEW n, NocTypes(n, S), NEW m, NocStep(n, m), NEW P, NocFrom(n, P)
  PROVE  NocFrom(m, P)
<1>1. m.inject = NoFlit
  BY DEF NocStep
<1>2. \A v \in VCs : Line(m, v) = m.rbuf[v] \o <<>>
  BY <1>1 DEF Line, On
<1>3. ASSUME NEW v \in VCs
      PROVE  Buffered(n)[v] \in Seq(FlitsOf(S)) /\ From(Buffered(n)[v], P)
  BY LineType DEF NocFrom
<1>4. CASE NothingMoves(n, m)
  <2>1. ASSUME NEW v \in VCs PROVE From(Line(m, v), P)
    <3>1. PICK q \in Seq(FlitsOf(S)) : q = Buffered(n)[v] /\ From(q, P)
      BY <1>3
    <3>2. Line(m, v) = q \o <<>> /\ q \o <<>> = q
      BY <1>2, <1>4, <3>1 DEF NothingMoves
    <3>3. QED
      BY <3>1, <3>2
  <2>2. QED
    BY <1>4, <2>1 DEF NocFrom, NothingMoves
<1>5. ASSUME NEW w \in VCs, Forwards(n, m, w) PROVE NocFrom(m, P)
  <2>1. PICK p \in Seq(FlitsOf(S)) : p = Buffered(n)[w] /\ From(p, P)
    BY <1>3
  <2>2. m.eject = Head(p) /\ p # <<>>
    BY <1>5, <2>1 DEF Forwards
  <2>3. Head(p).tx \in P /\ From(Tail(p), P) /\ Tail(p) \in Seq(FlitsOf(S))
    BY <2>1, <2>2, FromTail, HeadTail
  <2>4. DOMAIN Buffered(n) = VCs
    BY DEF Buffered
  <2>5. ASSUME NEW v \in VCs PROVE From(Line(m, v), P)
    <3>1. PICK q \in Seq(FlitsOf(S)) : q = (IF v = w THEN Tail(p) ELSE Buffered(n)[v]) /\ From(q, P)
      BY <1>3, <2>3
    <3>2. m.rbuf[v] = q
      BY <1>5, <2>1, <2>4, <3>1 DEF Forwards
    <3>3. Line(m, v) = q \o <<>> /\ q \o <<>> = q
      BY <1>2, <3>2
    <3>4. QED
      BY <3>1, <3>3
  <2>6. QED
    BY <2>2, <2>3, <2>5 DEF NocFrom
<1>6. QED
  BY <1>4, <1>5 DEF NocStep

LEMMA FromEjects ==
  ASSUME NEW S, NEW a, DOMAIN a = Fields, Receiver(a, S), a.ejectReg = NoFlit, NEW credit,
         NEW f \in FlitsOf(S) \cup {NoFlit},
         NEW b, b = OutputEjection(InputInjection(a, credit, NoVC), f), b.ejectReg = NoFlit,
         NEW P, ReceiverFrom(a, P, S), f # NoFlit => f.tx \in P
  PROVE  ReceiverFrom(b, P, S)
<1>1. PICK c : c = InputInjection(a, credit, NoVC)
  OBVIOUS
<1>2. DOMAIN c = Fields /\ Receiver(c, S) /\ c.ejectReg = NoFlit
  BY <1>1, InjectionLeaves
<1>3. SameBuilding(a, c) /\ Packed(c) = Packed(a)
  BY <1>1 DEF InputInjection, Fields, SameBuilding, Packed
<1>4. ReceiverFrom(c, P, S)
  BY <1>3 DEF ReceiverFrom, SameBuilding
<1>5. b = OutputEjection(c, f)
  BY <1>1
<1>6. CASE f = NoFlit
  <2>1. b = c
    BY <1>2, <1>5, <1>6 DEF OutputEjection, Ejected
  <2>2. QED
    BY <1>4, <2>1
<1>7. CASE f # NoFlit
  <2>1. PICK x \in S : x = f.tx.type /\ f \in FlitsOf({x})
    <3>1. f \in FlitsOf(S) /\ f.tx.type \in S
      BY <1>7, FlitFields
    <3>2. QED
      BY <3>1, FlitsOfOne
  <2>2. /\ b.ejFifo = [c.ejFifo EXCEPT ![x] = Append(c.ejFifo[x], f)]
        /\ b.constructed = c.constructed /\ b.outFifo = c.outFifo /\ b.outPacket = c.outPacket
    <3>1. EjectsTo(c, b, f, x)
      BY <1>2, <1>5, <1>7, <2>1, EjectionFiles
    <3>2. QED
      BY <3>1 DEF EjectsTo
  <2>3. ASSUME NEW t \in S PROVE From(b.ejFifo[t], P)
    <3>1. PICK q \in Seq(FlitsOf({t})) : q = c.ejFifo[t] /\ From(q, P)
      BY <1>2, <1>4 DEF Receiver, Fifos, ReceiverFrom
    <3>2. CASE t = x
      <4>1. b.ejFifo[t] = Append(q, f)
        BY <1>2, <2>2, <3>1, <3>2 DEF Receiver, Fifos
      <4>2. QED
        BY <1>7, <2>1, <3>1, <3>2, <4>1, FromAppend
    <3>3. CASE t # x
      BY <2>2, <3>1, <3>3
    <3>4. QED
      BY <3>2, <3>3
  <2>4. Packed(b) = Packed(c)
    BY <2>2 DEF Packed
  <2>5. QED
    BY <1>4, <2>2, <2>3, <2>4 DEF ReceiverFrom
<1>8. QED
  BY <1>6, <1>7

(***************************************************************************)
(* The responder: it uses addresses and data in the order of their         *)
(* numbers, one of each at a time.                                         *)
(***************************************************************************)
\* f is q after the request number d + 1 was appended, if b, or the first taken off.
Longer(q, f, t, d, P, b) ==
  Lined(f, t, d + Count(b), P) /\ (d + Count(b)) - Len(f) = d - Len(q)

Shorter(q, f, t, d, P, b) ==
  /\ Lined(f, t, d, P) /\ d - Len(f) = (d - Len(q)) + Count(b)
  /\ b => Head(q) \in P /\ Head(q).type = t /\ Head(q).id = (d - Len(q)) + 1

LEMMA LinedAppend ==
  ASSUME NEW T, NEW q \in Seq(T), NEW t, NEW d \in Nat, NEW P, Lined(q, t, d, P),
         NEW b \in BOOLEAN, NEW x, b => x \in T /\ x \in P /\ x.type = t /\ x.id = d + 1,
         NEW f, f = IF b THEN Append(q, x) ELSE q
  PROVE  f \in Seq(T) /\ Longer(q, f, t, d, P, b)
<1>1. PICK n \in Nat : n = Len(q)
  OBVIOUS
<1>2. \A k \in 1 .. n : q[k] \in P /\ q[k].type = t /\ q[k].id = (d - n) + k
  BY <1>1 DEF Lined
<1>3. CASE b
  <2>1. /\ f \in Seq(T) /\ Len(f) = n + 1 /\ f[n + 1] = x
        /\ \A k \in 1 .. n : f[k] = q[k]
    BY <1>1, <1>3, Appended
  <2>2. Count(b) = 1
    BY <1>3 DEF Count
  <2>3. ASSUME NEW k \in 1 .. n + 1
        PROVE  f[k] \in P /\ f[k].type = t /\ f[k].id = ((d + 1) - (n + 1)) + k
    <3>1. ((d + 1) - (n + 1)) + k = (d - n) + k
      OBVIOUS
    <3>2. CASE k = n + 1
      <4>1. (d - n) + k = d + 1
        BY <3>2
      <4>2. QED
        BY <1>3, <2>1, <3>1, <3>2, <4>1
    <3>3. CASE k \in 1 .. n
      BY <1>2, <2>1, <3>1, <3>3
    <3>4. k = n + 1 \/ k \in 1 .. n
      OBVIOUS
    <3>5. QED
      BY <3>2, <3>3, <3>4, Zenon
  <2>4. Lined(f, t, d + 1, P)
    BY <2>1, <2>3 DEF Lined
  <2>5. (d + 1) - (n + 1) = d - n
    OBVIOUS
  <2>6. QED
    BY <1>1, <2>1, <2>2, <2>4, <2>5 DEF Longer
<1>4. CASE ~b
  <2>1. f = q /\ Count(b) = 0
    BY <1>4 DEF Count
  <2>2. d + Count(b) = d
    BY <2>1
  <2>3. QED
    BY <2>1, <2>2 DEF Longer
<1>5. QED
  BY <1>3, <1>4

LEMMA LinedPopped ==
  ASSUME NEW T, NEW q \in Seq(T), NEW t, NEW d \in Nat, NEW P, Lined(q, t, d, P),
         NEW b \in BOOLEAN, b => q # <<>>, NEW f, f = Modules!Popped(q, b)
  PROVE  Shorter(q, f, t, d, P, b)
<1>1. PICK n \in Nat : n = Len(q)
  OBVIOUS
<1>2. \A k \in 1 .. n : q[k] \in P /\ q[k].type = t /\ q[k].id = (d - n) + k
  BY <1>1 DEF Lined
<1>3. CASE b
  <2>1. /\ f = Tail(q) /\ n \in Nat \ {0} /\ q[1] = Head(q) /\ Len(f) = n - 1
        /\ \A k \in 1 .. n - 1 : f[k] = q[k + 1]
    BY <1>1, <1>3, HeadTail DEF Modules!Popped
  <2>2. Count(b) = 1
    BY <1>3 DEF Count
  <2>3. ASSUME NEW k \in 1 .. n - 1
        PROVE  f[k] \in P /\ f[k].type = t /\ f[k].id = (d - (n - 1)) + k
    <3>1. k + 1 \in 1 .. n /\ (d - (n - 1)) + k = (d - n) + (k + 1)
      BY <2>1
    <3>2. QED
      BY <1>2, <2>1, <3>1
  <2>4. Lined(f, t, d, P)
    BY <2>1, <2>3 DEF Lined
  <2>5. 1 \in 1 .. n /\ d - (n - 1) = (d - n) + 1
    BY <2>1
  <2>6. Head(q) \in P /\ Head(q).type = t /\ Head(q).id = (d - n) + 1
    BY <1>2, <2>1, <2>5
  <2>7. QED
    BY <1>1, <2>1, <2>2, <2>4, <2>5, <2>6 DEF Shorter
<1>4. CASE ~b
  <2>1. f = q /\ Count(b) = 0
    BY <1>4 DEF Modules!Popped, Count
  <2>2. (d - n) + 0 = d - n
    OBVIOUS
  <2>3. QED
    BY <1>1, <1>4, <2>1, <2>2 DEF Shorter
<1>5. QED
  BY <1>3, <1>4

LEMMA StoredEdge ==
  ASSUME NEW p, ResponderOk(p), NEW req \in TxOf(Requests) \cup {NoTx}, NEW P, Alike(P),
         req # NoTx => req \in P, NEW del \in [Types -> Nat], Stored(p, del, P), NEW taken,
         NEW r, r = Modules!ResponderTick(p, req, taken), NEW del2,
         \A t \in Requests : /\ Modules!Got(p, req, t) => req.id = del[t] + 1
                             /\ del2[t] = del[t] + Count(Modules!Got(p, req, t))
  PROVE  Stored(r, del2, P)
<1> DEFINE T == TxOf(Requests)
           gw == Modules!Got(p, req, "AW")
           gd == Modules!Got(p, req, "W")
           ws == IF gw THEN Append(p.waddrs, req) ELSE p.waddrs
           ds == IF gd THEN Append(p.wdata, req) ELSE p.wdata
<1>1. PICK write \in BOOLEAN :
        /\ write => ws # <<>> /\ ds # <<>>
        /\ r.waddrs = Modules!Popped(ws, write) /\ r.wdata = Modules!Popped(ds, write)
        /\ r.storage = IF write THEN p.storage \cup {<<Head(ws).n, Head(ds).n>>} ELSE p.storage
  <2>1. PICK write : write = (/\ ~((IF Modules!Got(p, req, "AR") THEN Append(p.reads, req) ELSE p.reads) # <<>>)
                              /\ ws # <<>> /\ ds # <<>>)
    OBVIOUS
  <2>2. QED
    BY <2>1 DEF Modules!ResponderTick
<1>2. /\ gw \in BOOLEAN /\ (gw => req \in T /\ req \in P /\ req.type = "AW")
      /\ gd \in BOOLEAN /\ (gd => req \in T /\ req \in P /\ req.type = "W")
  BY DEF Modules!Got
<1>3. PICK dw, dd \in Nat : dw = del["AW"] /\ dd = del["W"]
  BY DEF Types, Requests
<1>4. /\ gw => req.id = dw + 1 /\ del2["AW"] = dw + Count(gw)
      /\ gd => req.id = dd + 1 /\ del2["W"] = dd + Count(gd)
  BY <1>3 DEF Requests
<1>5. del2["AW"] = dw + Count(gw) /\ del2["W"] = dd + Count(gd)
  BY <1>3 DEF Requests
<1> HIDE DEF T, gw, gd
<1>6. /\ ws = IF gw THEN Append(p.waddrs, req) ELSE p.waddrs
      /\ ds = IF gd THEN Append(p.wdata, req) ELSE p.wdata
  OBVIOUS
<1> HIDE DEF ws, ds
<1>7. /\ p.waddrs \in Seq(T) /\ p.wdata \in Seq(T)
      /\ Lined(p.waddrs, "AW", dw, P) /\ Lined(p.wdata, "W", dd, P)
      /\ dw - Len(p.waddrs) = dd - Len(p.wdata) /\ \A pair \in p.storage : pair[1] = pair[2]
  BY <1>3 DEF ResponderOk, Stored, T
<1>8. /\ ws \in Seq(T) /\ Lined(ws, "AW", dw + Count(gw), P)
      /\ (dw + Count(gw)) - Len(ws) = dw - Len(p.waddrs)
  <2>1. PICK q, t : q = p.waddrs /\ t = "AW"
    OBVIOUS
  <2>2. q \in Seq(T) /\ Lined(q, t, dw, P) /\ ws = (IF gw THEN Append(q, req) ELSE q)
    BY <1>6, <1>7, <2>1
  <2>3. gw \in BOOLEAN /\ (gw => req \in T /\ req \in P /\ req.type = t /\ req.id = dw + 1)
    BY <1>2, <1>4, <2>1
  <2>4. ws \in Seq(T) /\ Longer(q, ws, t, dw, P, gw)
    BY <2>2, <2>3, LinedAppend
  <2>5. QED
    BY <2>1, <2>4 DEF Longer
<1>9. /\ ds \in Seq(T) /\ Lined(ds, "W", dd + Count(gd), P)
      /\ (dd + Count(gd)) - Len(ds) = dd - Len(p.wdata)
  <2>1. PICK q, t : q = p.wdata /\ t = "W"
    OBVIOUS
  <2>2. q \in Seq(T) /\ Lined(q, t, dd, P) /\ ds = (IF gd THEN Append(q, req) ELSE q)
    BY <1>6, <1>7, <2>1
  <2>3. gd \in BOOLEAN /\ (gd => req \in T /\ req \in P /\ req.type = t /\ req.id = dd + 1)
    BY <1>2, <1>4, <2>1
  <2>4. ds \in Seq(T) /\ Longer(q, ds, t, dd, P, gd)
    BY <2>2, <2>3, LinedAppend
  <2>5. QED
    BY <2>1, <2>4 DEF Longer
<1>10. PICK ew, ed \in Nat : ew = dw + Count(gw) /\ ed = dd + Count(gd)
  BY DEF Count
<1>11. /\ ws \in Seq(T) /\ Lined(ws, "AW", ew, P) /\ ds \in Seq(T) /\ Lined(ds, "W", ed, P)
       /\ ew - Len(ws) = ed - Len(ds)
  BY <1>7, <1>8, <1>9, <1>10
<1>12. /\ Lined(r.waddrs, "AW", ew, P) /\ ew - Len(r.waddrs) = (ew - Len(ws)) + Count(write)
       /\ write => Head(ws) \in P /\ Head(ws).type = "AW" /\ Head(ws).id = (ew - Len(ws)) + 1
  <2>1. PICK f, t : f = r.waddrs /\ t = "AW"
    OBVIOUS
  <2>2. ws \in Seq(T) /\ Lined(ws, t, ew, P) /\ f = Modules!Popped(ws, write) /\ (write => ws # <<>>)
    BY <1>1, <1>11, <2>1
  <2>3. Shorter(ws, f, t, ew, P, write)
    BY <2>2, LinedPopped
  <2>4. QED
    BY <2>1, <2>3 DEF Shorter
<1>13. /\ Lined(r.wdata, "W", ed, P) /\ ed - Len(r.wdata) = (ed - Len(ds)) + Count(write)
       /\ write => Head(ds) \in P /\ Head(ds).type = "W" /\ Head(ds).id = (ed - Len(ds)) + 1
  <2>1. PICK f, t : f = r.wdata /\ t = "W"
    OBVIOUS
  <2>2. ds \in Seq(T) /\ Lined(ds, t, ed, P) /\ f = Modules!Popped(ds, write) /\ (write => ds # <<>>)
    BY <1>1, <1>11, <2>1
  <2>3. Shorter(ds, f, t, ed, P, write)
    BY <2>2, LinedPopped
  <2>4. QED
    BY <2>1, <2>3 DEF Shorter
<1>14. write => Head(ws).n = Head(ds).n
  BY <1>11, <1>12, <1>13 DEF Alike
<1>15. \A pair \in r.storage : pair[1] = pair[2]
  BY <1>1, <1>7, <1>14
<1>16. ew - Len(r.waddrs) = ed - Len(r.wdata)
  BY <1>11, <1>12, <1>13
<1>17. QED
  BY <1>5, <1>10, <1>12, <1>13, <1>15, <1>16 DEF Stored

LEMMA StoredKept ==
  ASSUME NEW p, NEW P, NEW del, Stored(p, del, P), NEW del2,
         \A t \in Requests : del2[t] = del[t]
  PROVE  Stored(p, del2, P)
<1>1. del2["AW"] = del["AW"] /\ del2["W"] = del["W"]
  BY DEF Requests
<1>2. QED
  BY <1>1 DEF Stored

\* With room, what is presented to the responder is the next of its type, and is
\* delivered at the next edge of its clock.
LEMMA DeliversNext ==
  ASSUME RoomEnough, NEW acc, NEW del \in [Types -> Nat], NEW a, NEW n, NEW b,
         NEW S \in SUBSET Types, NEW f, NEW sig, OrderOk(acc, del, a, n, b, S, f, sig),
         NEW del2, NEW i, NEW R, S \subseteq R, Delivers(del, del2, sig, i, S, R), NEW t \in S
  PROVE  /\ Shows(sig, t) => sig.id = del[t] + 1
         /\ del2[t] = del[t] + Count(i = 0 /\ Shows(sig, t))
<1>1. PICK k \in Nat \ {0} : Shown(del, sig, t, k)
  BY DEF OrderOk
<1>2. PICK d \in Nat : d = del[t]
  BY DEF Types
<1>3. /\ Shows(sig, t) => sig.id = k - 1
      /\ d + Count(Shows(sig, t)) = k - 1
  BY <1>1, <1>2 DEF Shown
<1>4. Shows(sig, t) => sig.id = d + 1
  BY <1>3 DEF Count
<1>5. del2[t] = IF i = 0 /\ Shows(sig, t) THEN IF sig.id = d THEN 0 ELSE sig.id ELSE d
  BY <1>2 DEF Delivers
<1>6. del2[t] = d + Count(i = 0 /\ Shows(sig, t))
  <2>1. CASE i = 0 /\ Shows(sig, t)
    <3>1. sig.id = d + 1 /\ d + 1 # d
      BY <1>4, <2>1
    <3>2. QED
      BY <1>5, <2>1, <3>1 DEF Count
  <2>2. CASE ~(i = 0 /\ Shows(sig, t))
    BY <1>5, <2>2 DEF Count
  <2>3. QED
    BY <2>1, <2>2
<1>7. QED
  BY <1>2, <1>4, <1>6

LEMMA FabricPairs ==
  ASSUME WholePeriods, FifosSuffice, RoomEnough, IInv, OInv, PairInv, FabricEdge
  PROVE  PairInv'
<1>1. PICK P \in SUBSET TxOf(Requests) : Paired(accepted, requester, P) /\ Carried(P)
  BY DEF PairInv
<1>2. PICK j, got, x : SlaveSide(j, got, x)
  BY Sides
<1>3. PICK i, got2, y : MasterSide(i, got2, y)
  BY Sides
<1>4. /\ RequesterOk(requester) /\ command \in Cmds \cup {NoTx} /\ ResponderOk(responder)
      /\ request \in TxOf(Requests) \cup {NoTx}
      /\ accepted \in [Types -> Nat] /\ delivered \in [Types -> Nat]
      /\ RequesterInv(requester, command, given, accepted, slave)
      /\ responder.ready = Requests
  BY TypesHere DEF OInv
<1>5. /\ got \in TxOf(Requests) \cup {NoTx}
      /\ SlaveTaken = (IF got = NoTx THEN {} ELSE {got.type})
      /\ got # NoTx => /\ slave.iReg = NoTx /\ Asks(slave, requester.port, got.type)
                       /\ got.n = requester.port[got.type].n /\ got.id = accepted[got.type] + 1
      /\ got # NoTx => j = 0
      /\ "req" \in Due <=> j = 0
  <2>1. /\ Gets(slave, requester.port, Ids, got, SlaveTaken, Requests)
        /\ got # NoTx => slave.iReg = NoTx /\ Asks(slave, requester.port, got.type) /\ j = 0
        /\ "req" \in Due <=> j = 0
    BY <1>2, <1>3, TimeEdge DEF SlaveSide, EdgeAt, At
  <2>2. ASSUME got # NoTx PROVE got.id = accepted[got.type] + 1
    <3>1. got.id = Ids[got.type] /\ got.type \in Types
      BY <2>1, <2>2, TxFields DEF Gets
    <3>2. QED
      BY <3>1 DEF Ids
  <2>3. QED
    BY <2>1, <2>2 DEF Gets
<1>6. Counts(accepted, accepted', got, Requests)
  BY <1>2, <1>3, EdgeCounts
<1>7. PICK q2, acc2, taken : q2 = requester' /\ acc2 = accepted' /\ taken = SlaveTaken
  OBVIOUS
<1>8. FrontStep(requester, q2, got)
  <2>1. CASE j = 0
    <3>1. q2 = Modules!RequesterTick(requester, command, taken, response)
      BY <1>5, <1>7, <2>1 DEF FabricEdge
    <3>2. taken = (IF got = NoTx THEN {} ELSE {got.type})
      BY <1>5, <1>7
    <3>3. QED
      BY <1>4, <1>5, <3>1, <3>2, FrontEdge
  <2>2. CASE j # 0
    <3>1. q2 = requester /\ got = NoTx
      BY <1>5, <1>7, <2>2 DEF FabricEdge
    <3>2. QED
      BY <3>1 DEF FrontStep
  <2>3. QED
    BY <2>1, <2>2
<1>9. PICK Q \in SUBSET TxOf(Requests) :
        Paired(acc2, q2, Q) /\ P \subseteq Q /\ (got # NoTx => got \in Q)
  <2>1. requester.awAccepted \in BOOLEAN /\ accepted["W"] + Count(requester.awAccepted) = accepted["AW"]
    BY <1>4 DEF RequesterInv
  <2>2. Counts(accepted, acc2, got, Requests)
    BY <1>6, <1>7
  <2>3. QED
    BY <1>1, <1>4, <1>5, <1>8, <2>1, <2>2, PairedEdge
<1>10. SenderFrom(slave', Q)
  <2>1. PICK a, b, k : a = slave /\ b = slave' /\ k = FreqRatio("req")
    OBVIOUS
  <2>2. /\ Input(a, Requests) /\ Queued(a, Requests) /\ SenderFrom(a, P)
        /\ Sends(a, b, k, j, got)
    BY <1>1, <1>2, <2>1, TypesHere DEF AdaptersOk, Adapter, Sender, Carried, SlaveSide, EdgeAt
  <2>3. SenderFrom(b, Q)
    BY <1>9, <2>2, SenderFromEdge
  <2>4. QED
    BY <2>1, <2>3
<1>11. NocFrom(ReqN', Q)
  <2>1. PICK n, m : n = ReqN /\ m = ReqN'
    OBVIOUS
  <2>2. m.inject = n.inject /\ m.rbuf = n.rbuf /\ m.eject = n.eject /\ NocFrom(n, P)
    BY <1>1, <2>1, FabricKeeps DEF ReqN, Carried
  <2>3. \A v : Line(m, v) = Line(n, v)
    BY <2>2 DEF Line
  <2>4. NocFrom(m, P)
    BY <2>2, <2>3 DEF NocFrom
  <2>5. QED
    BY <1>9, <2>1, <2>4, FromMore
<1>12. /\ ReceiverFrom(master', Q, Requests) /\ (y # NoTx => y \in Q)
       /\ request' = (IF i = 0 THEN y ELSE request) /\ ("rsp" \in Due <=> i = 0)
  <2>1. /\ Receives(master, master', y, Requests)
        /\ request' = (IF i = 0 THEN y ELSE request) /\ ("rsp" \in Due <=> i = 0)
    BY <1>3 DEF MasterSide, EdgeAt, At
  <2>2. ReceiverFrom(master', P, Requests) /\ (y # NoTx => y \in P)
    BY <1>1, <2>1 DEF Carried, Receives
  <2>3. QED
    BY <1>9, <2>1, <2>2, FromMore
<1>13. request' # NoTx => request' \in Q
  BY <1>1, <1>9, <1>12 DEF Carried
<1>14. Stored(responder', delivered', Q)
  <2>1. PICK p2, del2, mtaken : p2 = responder' /\ del2 = delivered' /\ mtaken = MasterTaken
    OBVIOUS
  <2>2. ASSUME NEW t \in Requests
        PROVE  /\ Shows(request, t) => request.id = delivered[t] + 1
               /\ del2[t] = delivered[t] + Count(i = 0 /\ Shows(request, t))
    <3>1. PICK n, f, R : n = ReqN /\ f = Unlooked("MasterNoc", rqEject) /\ R = responder.ready
      OBVIOUS
    <3>2. /\ OrderOk(accepted, delivered, slave, n, master, Requests, f, request)
          /\ Delivers(delivered, del2, request, i, Requests, R) /\ Requests \subseteq R
      BY <1>4, <1>12, <2>1, <3>1, DeliversRequests DEF OInv
    <3>3. QED
      BY <1>4, <3>2, SubTypes, DeliversNext
  <2>3. Stored(responder, delivered, P)
    BY <1>1 DEF Carried
  <2>4. CASE i = 0
    <3>1. p2 = Modules!ResponderTick(responder, request, mtaken)
      BY <1>12, <2>1, <2>4 DEF FabricEdge
    <3>2. \A t \in Requests :
            /\ Modules!Got(responder, request, t) => request.id = delivered[t] + 1
            /\ del2[t] = delivered[t] + Count(Modules!Got(responder, request, t))
      <4>1. SUFFICES ASSUME NEW t \in Requests
                     PROVE  /\ Modules!Got(responder, request, t) => request.id = delivered[t] + 1
                            /\ del2[t] = delivered[t] + Count(Modules!Got(responder, request, t))
        OBVIOUS
      <4>2. Modules!Got(responder, request, t) <=> Shows(request, t)
        BY <1>4 DEF Modules!Got, Shows
      <4>3. Count(Modules!Got(responder, request, t)) = Count(i = 0 /\ Shows(request, t))
        BY <2>4, <4>2 DEF Count
      <4>4. QED
        BY <2>2, <4>2, <4>3
    <3>3. Alike(P) /\ (request # NoTx => request \in P)
      BY <1>1 DEF Paired, Carried
    <3>4. Stored(p2, del2, P)
      BY <1>4, <2>3, <3>1, <3>2, <3>3, StoredEdge
    <3>5. QED
      BY <1>9, <2>1, <3>4, FromMore
  <2>5. CASE i # 0
    <3>1. p2 = responder
      BY <1>12, <2>1, <2>5 DEF FabricEdge
    <3>2. ASSUME NEW t \in Requests PROVE del2[t] = delivered[t]
      <4>1. Count(i = 0 /\ Shows(request, t)) = 0
        BY <2>5 DEF Count
      <4>2. delivered[t] \in Nat /\ del2[t] = delivered[t] + 0
        BY <1>4, <2>2, <4>1 DEF Types
      <4>3. QED
        BY <4>2
    <3>3. Stored(p2, del2, P)
      BY <2>3, <3>1, <3>2, StoredKept
    <3>4. QED
      BY <1>9, <2>1, <3>3, FromMore
  <2>6. QED
    BY <2>4, <2>5
<1>15. Paired(accepted', requester', Q)
  BY <1>7, <1>9
<1>16. QED
  BY <1>10, <1>11, <1>12, <1>13, <1>14, <1>15 DEF PairInv, Carried

\* The NoC clock leaves the modules alone.
LEMMA PairsKept ==
  ASSUME NEW P \in SUBSET TxOf(Requests), Paired(accepted, requester, P), Carried(P), NocKeeps,
         SenderFrom(slave', P), NocFrom(ReqN', P), ReceiverFrom(master', P, Requests)
  PROVE  PairInv'
<1>1. Paired(accepted', requester', P) /\ Stored(responder', delivered', P)
      /\ (request' # NoTx => request' \in P)
  BY DEF NocKeeps, Carried
<1>2. QED
  BY <1>1 DEF PairInv, Carried

LEMMA SlaveNocPairs ==
  ASSUME IInv, PairInv, SlaveNoc
  PROVE  PairInv'
<1>1. PICK P \in SUBSET TxOf(Requests) : Paired(accepted, requester, P) /\ Carried(P)
  BY DEF PairInv
<1>2. PICK n, m, a, b, e, c :
        n = ReqN /\ m = ReqN' /\ a = slave /\ b = slave' /\ e = rpEject /\ c = rqCredit
  OBVIOUS
<1>3. /\ DOMAIN a = Fields /\ Queued(a, Requests) /\ NocTypes(n, Requests)
      /\ SenderFrom(a, P) /\ NocFrom(n, P)
  BY <1>1, <1>2, TypesHere DEF AdaptersOk, Adapter, Sender, Carried
<1>4. /\ b = OutputEjection(InputInjection(a, c, NoVC), e)
      /\ m.inject = (IF CanInject(a) THEN NextFlit(a) ELSE n.inject) /\ m.rbuf = n.rbuf
      /\ m.eject = n.eject /\ n.inject = NoFlit /\ master' = master /\ NocKeeps
  <2>1. ~CreditSeen("SlaveNoc")
    BY AdapterTurn, Distinct DEF SlaveNoc, IInv
  <2>2. n.inject = NoFlit
    BY <1>2, <2>1 DEF IInv, RequestsOk, ReqN
  <2>3. NocKeeps
    BY DEF SlaveNoc, moduleVars, NocKeeps
  <2>4. QED
    BY <1>2, <2>2, <2>3 DEF SlaveNoc, ReqN
<1>5. b.iReg = a.iReg /\ Stream(b) = (IF CanInject(a) THEN Tail(Stream(a)) ELSE Stream(a))
  BY <1>3, <1>4, NocThreadSends DEF SameRegisters
<1>6. SenderFrom(b, P) /\ NocFrom(m, P)
  BY <1>3, <1>4, <1>5, FromInjects
<1>7. ReceiverFrom(master', P, Requests)
  BY <1>1, <1>4 DEF Carried
<1>8. QED
  BY <1>1, <1>2, <1>4, <1>6, <1>7, PairsKept

LEMMA MasterNocPairs ==
  ASSUME FifosSuffice, IInv, OInv, PairInv, MasterNoc
  PROVE  PairInv'
<1>1. PICK P \in SUBSET TxOf(Requests) : Paired(accepted, requester, P) /\ Carried(P)
  BY DEF PairInv
<1>2. PICK a, b, f, c : a = master /\ b = master' /\ f = rqEject /\ c = rpCredit
  OBVIOUS
<1>3. /\ DOMAIN a = Fields /\ Receiver(a, Requests) /\ a.ejectReg = NoFlit
      /\ f \in FlitsOf(Requests) \cup {NoFlit} /\ ReceiverFrom(a, P, Requests)
      /\ f # NoFlit => f.tx \in P
  BY <1>1, <1>2, TypesHere
     DEF AdaptersOk, Adapter, OInv, RegistersEmpty, NocTypes, ReqN, Carried, NocFrom
<1>4. b = OutputEjection(InputInjection(a, c, NoVC), f) /\ b.ejectReg = NoFlit
  <2>1. RegistersEmpty'
    BY RegistersStep DEF OInv, Next
  <2>2. QED
    BY <1>2, <2>1 DEF MasterNoc, RegistersEmpty
<1>5. ReceiverFrom(b, P, Requests)
  BY <1>3, <1>4, FromEjects
<1>6. NocKeeps /\ slave' = slave /\ ReqN' = ReqN
  BY DEF MasterNoc, moduleVars, rqVars, NocKeeps, ReqN
<1>7. SenderFrom(slave', P) /\ NocFrom(ReqN', P)
  BY <1>1, <1>6 DEF Carried
<1>8. QED
  BY <1>1, <1>2, <1>5, <1>6, <1>7, PairsKept

LEMMA TickPairs ==
  ASSUME IInv, PairInv, Tick
  PROVE  PairInv'
<1>1. PICK P \in SUBSET TxOf(Requests) : Paired(accepted, requester, P) /\ Carried(P)
  BY DEF PairInv
<1>2. PICK n, m : n = ReqN /\ m = ReqN'
  OBVIOUS
<1>3. NocStep(n, m) /\ NocTypes(n, Requests) /\ NocFrom(n, P)
  BY <1>1, <1>2, ReqNocStep, TypesHere DEF Tick, Carried
<1>4. NocFrom(m, P)
  BY <1>3, FromTicks
<1>5. slave' = slave /\ master' = master /\ NocKeeps
  BY DEF Tick, moduleVars, NocKeeps
<1>6. SenderFrom(slave', P) /\ ReceiverFrom(master', P, Requests)
  BY <1>1, <1>5 DEF Carried
<1>7. QED
  BY <1>1, <1>2, <1>4, <1>5, <1>6, PairsKept

LEMMA IdlePairs ==
  ASSUME PairInv, NocEdge \/ UNCHANGED vars
  PROVE  PairInv'
<1>1. PICK P \in SUBSET TxOf(Requests) : Paired(accepted, requester, P) /\ Carried(P)
  BY DEF PairInv
<1>2. NocKeeps /\ slave' = slave /\ master' = master /\ ReqN' = ReqN
  BY DEF NocEdge, vars, timeVars, moduleVars, rqVars, NocKeeps, ReqN
<1>3. SenderFrom(slave', P) /\ NocFrom(ReqN', P) /\ ReceiverFrom(master', P, Requests)
  BY <1>1, <1>2 DEF Carried
<1>4. QED
  BY <1>1, <1>2, <1>3, PairsKept

LEMMA InitPairs ==
  ASSUME Init
  PROVE  PairInv
<1>1. PICK P \in SUBSET TxOf(Requests) : P = {}
  OBVIOUS
<1>2. Fresh(slave) /\ Fresh(master) /\ \A t \in Requests : master.ejFifo[t] = <<>>
  BY FreshAdapters
<1>3. requester.awAccepted = FALSE
  BY DEF Init, Modules!RequesterInit
<1>4. Paired(accepted, requester, P)
  BY <1>1, <1>3 DEF Paired, Alike
<1>5. From(<<>>, P)
  BY DEF From
<1>6. SenderFrom(slave, P)
  <2>1. Stream(slave) = <<>> /\ slave.iReg = NoTx
    BY <1>2 DEF Stream, Fresh
  <2>2. QED
    BY <1>5, <2>1 DEF SenderFrom
<1>7. NocFrom(ReqN, P)
  <2>1. /\ ReqN.inject = NoFlit /\ ReqN.rbuf = [v \in VCs |-> <<>>] /\ ReqN.eject = NoFlit
    BY DEF Init, ReqNoc!NocInit, ReqNoc!VCs, VCs, ReqN
  <2>2. \A v \in VCs : Line(ReqN, v) = <<>>
    BY <2>1 DEF Line, On
  <2>3. QED
    BY <1>5, <2>1, <2>2 DEF NocFrom
<1>8. ReceiverFrom(master, P, Requests)
  <2>1. Marks(Packed(master)) = <<>>
    <3>1. Packed(master) = <<>>
      BY <1>2 DEF Packed, Fresh
    <3>2. QED
      BY <3>1 DEF Marks
  <2>2. QED
    BY <1>2, <1>5, <2>1 DEF ReceiverFrom, Fresh
<1>9. Stored(responder, delivered, P)
  <2>1. responder.waddrs = <<>> /\ responder.wdata = <<>> /\ responder.storage = {}
    BY DEF Init, Modules!ResponderInit
  <2>2. delivered["AW"] = 0 /\ delivered["W"] = 0
    BY DEF Init, Types, Requests
  <2>3. QED
    BY <2>1, <2>2 DEF Stored, Lined
<1>10. request = NoTx
  BY DEF Init
<1>11. QED
  BY <1>4, <1>6, <1>7, <1>8, <1>9, <1>10 DEF PairInv, Carried

\* The inductive invariant: at every node edge an adapter has made the packet of
\* the transaction it captured at the last one, and the flits of a type, from the
\* sender to what is presented, carry the numbers from the next one to be delivered
\* up to the last one accepted, none missing and none twice.
THEOREM OrderInvariant ==
  ASSUME WholePeriods, FifosSuffice PROVE Spec => []OInv
<1>1. Init => OInv
  BY InitOrder
<1>2. IInv /\ OInv /\ [Next]_vars => OInv'
  BY NextOrder
<1>3. QED
  BY <1>1, <1>2, Invariant, PTL DEF Spec

\* AcceptedOnce: with node clocks of a whole number of adapter cycles, two or more,
\* every handshake makes one packet, and no more requests or responses are accepted
\* than the testbench gave commands.
THEOREM EveryHandshakeIsOnePacket ==
  ASSUME WholePeriods, FifosSuffice PROVE Spec => []AcceptedOnce
<1>1. IInv /\ OInv => AcceptedOnce
  BY OrderOnce
<1>2. QED
  BY <1>1, OrderInvariant, Invariant, PTL

\* With room at the responder besides, every step of the path is a step of the five
\* channels: each delivers what it accepted once and in order.  That it delivers all
\* of it, Channel!Fairness, is left to the model checker; together they are
\* ChannelSpec.
THEOREM PathIsChannels ==
  ASSUME WholePeriods, FifosSuffice, RoomEnough
  PROVE  Spec => Channel!Init /\ [][Channel!Next]_(Channel!vars)
                 /\ (Channel!Fairness => ChannelSpec)
<1>1. IInv /\ OInv /\ [Next]_vars => [Channel!Next]_(Channel!vars)
  BY ChannelStep
<1>2. Spec => Channel!Init /\ [][Channel!Next]_(Channel!vars)
  BY <1>1, ChannelInit, OrderInvariant, Invariant, PTL DEF Spec
<1>3. QED
  BY <1>2, PTL DEF ChannelSpec, Channel!Spec

\* WritesMeetTheirData, with room at the responder: whatever is under way or kept is
\* of the requests accepted, in which an address and the data with the same number
\* are of the same command; the responder uses both in the order of their numbers,
\* one of each at a time, so it writes to each address the data of its command.
THEOREM AddressesMeetTheirData ==
  ASSUME WholePeriods, FifosSuffice, RoomEnough
  PROVE  Spec => []WritesMeetTheirData
<1>1. Init => PairInv
  BY InitPairs
<1>2. IInv /\ OInv /\ PairInv /\ [Next]_vars => PairInv'
  BY FabricPairs, SlaveNocPairs, MasterNocPairs, TickPairs, IdlePairs DEF Next
<1>3. PairInv => WritesMeetTheirData
  BY DEF PairInv, Carried, Stored, WritesMeetTheirData
<1>4. QED
  BY <1>1, <1>2, <1>3, OrderInvariant, Invariant, PTL DEF Spec
=============================================================================
