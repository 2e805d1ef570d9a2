-------------------------- MODULE AximmPathProofs --------------------------
(***************************************************************************)
(* Theorems about AximmPath, for any number of VCs, sizes of buffers and   *)
(* FIFOs, flits per transaction, clock periods, orders of the threads of   *)
(* the NoC clock and commands of the testbench.                            *)
(*                                                                         *)
(* The two directions are the same but for the names: the lemmas speak of  *)
(* one adapter, one NoC or one buffer state, as records, and are used      *)
(* twice.                                                                  *)
(***************************************************************************)
EXTENDS AximmPath, FiniteSetTheorems, SequenceTheorems, TLAPS

Count(b) == IF b THEN 1 ELSE 0

(***************************************************************************)
(* A buffer state: a packet is under way on a VC between its head and its  *)
(* tail.                                                                   *)
(***************************************************************************)
Mid(b, v) == b.inUse[v] /\ ~b.tailSent[v]

BufferOk(b) ==
  /\ b.occupancy \in [VCs -> 0 .. VcBufSize]
  /\ b.inUse \in [VCs -> BOOLEAN] /\ b.tailSent \in [VCs -> BOOLEAN]
  /\ ~b.error
  /\ \A v \in VCs : IF WaitForTailCredit THEN b.occupancy[v] > 0 => b.inUse[v]
                                         ELSE b.inUse[v] => ~b.tailSent[v]

\* c is b with n flits more on VC v, in the middle of a packet or not.
Becomes(b, c, v, n, mid) ==
  /\ BufferOk(c)
  /\ c.occupancy[v] = b.occupancy[v] + n /\ Mid(c, v) = mid
  /\ \A w \in VCs \ {v} : c.occupancy[w] = b.occupancy[w] /\ Mid(c, w) = Mid(b, w)

LEMMA BufferSize == VcBufSize \in Nat \ {0} /\ WaitForTailCredit \in BOOLEAN
BY BufferAssumption

LEMMA EmptyBufferOk == BufferOk(EmptyBuffer) /\ \A v \in VCs : ~Mid(EmptyBuffer, v) /\ EmptyBuffer.occupancy[v] = 0
BY BufferSize DEF EmptyBuffer, BufferOk, Mid

\* Whether it starts or continues a packet, a flit that the guards let pass.
MaySend(b, f) ==
  /\ f.vc \in VCs /\ f.head \in BOOLEAN /\ f.tail \in BOOLEAN
  /\ f.head = ~Mid(b, f.vc)
  /\ b.occupancy[f.vc] < VcBufSize
  /\ f.head /\ WaitForTailCredit => ~b.inUse[f.vc]

LEMMA BufferSends ==
  ASSUME NEW b, BufferOk(b), NEW f, MaySend(b, f)
  PROVE  Becomes(b, Sent(b, f), f.vc, 1, ~f.tail)
<1>1. /\ f.vc \in VCs /\ f.head \in BOOLEAN /\ f.tail \in BOOLEAN
      /\ b.inUse \in [VCs -> BOOLEAN] /\ b.tailSent \in [VCs -> BOOLEAN]
      /\ b.occupancy \in [VCs -> 0 .. VcBufSize] /\ b.occupancy[f.vc] < VcBufSize
      /\ ~b.error
  BY DEF MaySend, BufferOk
<1>2. PICK o \in [VCs -> 0 .. VcBufSize], u \in [VCs -> BOOLEAN], s \in [VCs -> BOOLEAN] :
        o = b.occupancy /\ u = b.inUse /\ s = b.tailSent
  BY <1>1
<1>3. IF f.head THEN ~u[f.vc] ELSE u[f.vc] /\ ~s[f.vc]
  BY <1>1, <1>2, BufferSize DEF MaySend, BufferOk, Mid
<1>4. /\ ~Sent(b, f).error
      /\ Sent(b, f).occupancy = [o EXCEPT ![f.vc] = @ + 1]
      /\ Sent(b, f).inUse = [u EXCEPT ![f.vc] = ~Frees(f)]
      /\ Sent(b, f).tailSent = [s EXCEPT ![f.vc] = f.tail]
  <2>1. CASE f.head
    <3> DEFINE t == TakeBuffer(b, f.vc)
    <3>1. /\ t.occupancy = o
          /\ t.inUse = [u EXCEPT ![f.vc] = TRUE]
          /\ t.tailSent = [s EXCEPT ![f.vc] = FALSE]
          /\ ~t.error
      BY <1>1, <1>2, <1>3, <2>1 DEF TakeBuffer
    <3> HIDE DEF t
    <3>2. Sent(b, f) = SendingFlit(t, f) /\ t.inUse[f.vc] /\ ~t.tailSent[f.vc]
      BY <1>1, <1>2, <2>1, <3>1 DEF Sent, t
    <3>3. ~SendingFlit(t, f).error
      BY <1>1, <1>2, <3>1, <3>2, BufferSize DEF SendingFlit
    <3>4. SendingFlit(t, f).inUse = [u EXCEPT ![f.vc] = ~Frees(f)]
      BY <1>1, <1>2, <3>1 DEF SendingFlit, Frees
    <3>5. SendingFlit(t, f).tailSent = [s EXCEPT ![f.vc] = f.tail]
      BY <1>1, <1>2, <3>1 DEF SendingFlit
    <3>6. SendingFlit(t, f).occupancy = [o EXCEPT ![f.vc] = @ + 1]
      BY <3>1 DEF SendingFlit
    <3>7. QED
      BY <3>2, <3>3, <3>4, <3>5, <3>6
  <2>2. CASE ~f.head
    <3>1. Sent(b, f) = SendingFlit(b, f)
      BY <2>2 DEF Sent
    <3>2. ~SendingFlit(b, f).error
      BY <1>1, <1>2, <1>3, <2>2, BufferSize DEF SendingFlit
    <3>3. SendingFlit(b, f).inUse = [u EXCEPT ![f.vc] = ~Frees(f)]
      BY <1>1, <1>2, <1>3, <2>2 DEF SendingFlit, Frees
    <3>4. SendingFlit(b, f).tailSent = [s EXCEPT ![f.vc] = f.tail]
      BY <1>1, <1>2, <1>3, <2>2 DEF SendingFlit
    <3>5. SendingFlit(b, f).occupancy = [o EXCEPT ![f.vc] = @ + 1]
      BY <1>2 DEF SendingFlit
    <3>6. QED
      BY <3>1, <3>2, <3>3, <3>4, <3>5
  <2>3. QED
    BY <1>1, <2>1, <2>2
<1>5. PICK c : c = Sent(b, f)
  OBVIOUS
<1>6. c.occupancy \in [VCs -> 0 .. VcBufSize]
  BY <1>1, <1>2, <1>4, <1>5, BufferSize
<1>7. c.inUse \in [VCs -> BOOLEAN] /\ c.tailSent \in [VCs -> BOOLEAN]
  BY <1>1, <1>2, <1>4, <1>5 DEF Frees
<1>8. Mid(c, f.vc) = ~f.tail
  BY <1>1, <1>2, <1>4, <1>5, BufferSize DEF Mid, Frees
<1>9. ASSUME NEW w \in VCs \ {f.vc}
      PROVE  c.occupancy[w] = b.occupancy[w] /\ c.inUse[w] = b.inUse[w]
             /\ c.tailSent[w] = b.tailSent[w]
  BY <1>1, <1>2, <1>4, <1>5
<1>10. ASSUME NEW w \in VCs
       PROVE  IF WaitForTailCredit THEN c.occupancy[w] > 0 => c.inUse[w]
                                   ELSE c.inUse[w] => ~c.tailSent[w]
  <2>1. CASE w = f.vc
    BY <1>1, <1>2, <1>4, <1>5, <2>1, BufferSize DEF Frees
  <2>2. CASE w # f.vc
    BY <1>9, <2>2 DEF BufferOk
  <2>3. QED
    BY <2>1, <2>2
<1>11. c.occupancy[f.vc] = b.occupancy[f.vc] + 1 /\ ~c.error
  BY <1>1, <1>2, <1>4, <1>5
<1>12. BufferOk(c)
  BY <1>6, <1>7, <1>10, <1>11 DEF BufferOk
<1>13. QED
  BY <1>5, <1>8, <1>9, <1>11, <1>12 DEF Becomes, Mid

LEMMA BufferCredited ==
  ASSUME NEW b, BufferOk(b), NEW v \in VCs, b.occupancy[v] > 0
  PROVE  Becomes(b, ProcessCredit(b, v), v, -1, Mid(b, v))
<1>1. PICK o \in [VCs -> 0 .. VcBufSize], u \in [VCs -> BOOLEAN], s \in [VCs -> BOOLEAN] :
        o = b.occupancy /\ u = b.inUse /\ s = b.tailSent
  BY DEF BufferOk
<1>2. PICK c : c = ProcessCredit(b, v)
  OBVIOUS
<1>3. /\ c.occupancy = [o EXCEPT ![v] = @ - 1] /\ c.tailSent = s
      /\ c.inUse = [u EXCEPT ![v] = @ /\ ~Drained(b, v)]
  BY <1>1, <1>2 DEF ProcessCredit
<1>4. ~c.error
  BY <1>1, <1>2, BufferSize DEF ProcessCredit, BufferOk
<1>5. c.occupancy \in [VCs -> 0 .. VcBufSize]
  BY <1>1, <1>3, BufferSize
<1>6. c.inUse \in [VCs -> BOOLEAN] /\ c.tailSent \in [VCs -> BOOLEAN]
  BY <1>1, <1>3
<1>7. Mid(c, v) = Mid(b, v)
  BY <1>1, <1>3, BufferSize DEF Mid, Drained
<1>8. ASSUME NEW w \in VCs \ {v}
      PROVE  c.occupancy[w] = b.occupancy[w] /\ c.inUse[w] = b.inUse[w]
             /\ c.tailSent[w] = b.tailSent[w]
  BY <1>1, <1>3
<1>9. ASSUME NEW w \in VCs
      PROVE  IF WaitForTailCredit THEN c.occupancy[w] > 0 => c.inUse[w]
                                  ELSE c.inUse[w] => ~c.tailSent[w]
  <2>1. CASE w = v
    <3>1. c.occupancy[v] = o[v] - 1 /\ o[v] \in Nat
      BY <1>1, <1>3, BufferSize
    <3>2. c.inUse[v] = (u[v] /\ ~(WaitForTailCredit /\ o[v] = 1 /\ s[v]))
      BY <1>1, <1>3 DEF Drained
    <3>3. IF WaitForTailCredit THEN o[v] > 0 => u[v] ELSE u[v] => ~s[v]
      BY <1>1 DEF BufferOk
    <3>4. QED
      BY <1>3, <2>1, <3>1, <3>2, <3>3, BufferSize
  <2>2. CASE w # v
    BY <1>8, <2>2 DEF BufferOk
  <2>3. QED
    BY <2>1, <2>2
<1>10. c.occupancy[v] = b.occupancy[v] + -1
  BY <1>1, <1>3, BufferSize
<1>11. BufferOk(c)
  BY <1>4, <1>5, <1>6, <1>9 DEF BufferOk
<1>12. QED
  BY <1>2, <1>7, <1>8, <1>10, <1>11 DEF Becomes, Mid

(***************************************************************************)
(* Flits of the types S, and flits that follow one another: on one VC, and *)
(* in the one queue that an adapter injects from.                          *)
(***************************************************************************)
FlitsOf(S) == {f \in Flits : f.tx.type \in S /\ f.vc = VcOf[f.tx.type]}
FlitsOn(S, v) == {f \in FlitsOf(S) : f.vc = v}

LEMMA FlitFields ==
  ASSUME NEW S, NEW f \in FlitsOf(S)
  PROVE  /\ f \in Flits /\ f # NoFlit /\ f.head \in BOOLEAN /\ f.tail \in BOOLEAN
         /\ f.tx \in Transactions /\ f.tx.type \in S /\ f.tx.type \in Types
         /\ f.vc \in VCs /\ f.vc = VcOf[f.tx.type] /\ f \in FlitsOn(S, f.vc)
BY AximmAssumption DEF FlitsOf, FlitsOn, Flits, Transactions

LEMMA HeadTail ==
  ASSUME NEW S, NEW q \in Seq(S), q # <<>>
  PROVE  /\ Head(q) \in S /\ Tail(q) \in Seq(S) /\ Len(q) \in Nat \ {0}
         /\ q[1] = Head(q) /\ Len(Tail(q)) = Len(q) - 1
         /\ \A k \in 1 .. Len(q) - 1 : Tail(q)[k] = q[k + 1]
OBVIOUS

LEMMA Appended ==
  ASSUME NEW S, NEW q \in Seq(S), NEW f \in S
  PROVE  /\ Append(q, f) \in Seq(S) /\ Append(q, f) # <<>> /\ Len(Append(q, f)) = Len(q) + 1
         /\ \A k \in 1 .. Len(q) : Append(q, f)[k] = q[k]
         /\ Append(q, f)[Len(q) + 1] = f
OBVIOUS

\* The flits q of one VC lead from one end, which is in the middle of a packet or
\* not (m0), to the other end (m1).
Linked(m0, q, m1) ==
  IF q = <<>> THEN m0 = m1
  ELSE /\ q[1].head = ~m0 /\ q[Len(q)].tail = ~m1
       /\ \A k \in 1 .. Len(q) - 1 : q[k + 1].head = q[k].tail

LEMMA LinkedAppend ==
  ASSUME NEW S, NEW q \in Seq(FlitsOf(S)), NEW f \in FlitsOf(S),
         NEW m0 \in BOOLEAN, NEW m \in BOOLEAN, Linked(m0, q, m), f.head = ~m
  PROVE  Linked(m0, Append(q, f), ~f.tail)
<1>1. f.tail \in BOOLEAN /\ f.head \in BOOLEAN
  BY FlitFields
<1>2. PICK p \in Seq(FlitsOf(S)) : p = Append(q, f)
  <2>1. Append(q, f) \in Seq(FlitsOf(S))
    BY Appended
  <2>2. QED
    BY <2>1
<1>3. /\ p # <<>> /\ Len(p) = Len(q) + 1 /\ Len(q) \in Nat
      /\ \A k \in 1 .. Len(q) : p[k] = q[k]
      /\ p[Len(q) + 1] = f
  BY <1>2, Appended
<1>4. p[Len(p)].tail = ~(~f.tail)
  BY <1>1, <1>3
<1>5. CASE q = <<>>
  <2>1. Len(p) = 1 /\ p[1] = f /\ m0 = m
    BY <1>3, <1>5 DEF Linked
  <2>2. QED
    BY <1>2, <1>3, <1>4, <2>1 DEF Linked
<1>6. CASE q # <<>>
  <2>1. Len(q) \in Nat \ {0} /\ p[1] = q[1] /\ p[Len(q)] = q[Len(q)]
    BY <1>3, <1>6
  <2>2. /\ q[1].head = ~m0 /\ q[Len(q)].tail = ~m
        /\ \A k \in 1 .. Len(q) - 1 : q[k + 1].head = q[k].tail
    BY <1>6 DEF Linked
  <2>3. ASSUME NEW k \in 1 .. Len(p) - 1 PROVE p[k + 1].head = p[k].tail
    <3>1. CASE k = Len(q)
      BY <1>3, <2>1, <2>2, <3>1
    <3>2. CASE k # Len(q)
      <4>1. k \in 1 .. Len(q) - 1 /\ k \in 1 .. Len(q) /\ k + 1 \in 1 .. Len(q)
        BY <1>3, <3>2
      <4>2. p[k + 1] = q[k + 1] /\ p[k] = q[k]
        BY <1>3, <4>1
      <4>3. QED
        BY <2>2, <4>1, <4>2
    <3>3. QED
      BY <3>1, <3>2
  <2>4. QED
    BY <1>2, <1>3, <1>4, <2>1, <2>2, <2>3 DEF Linked
<1>7. QED
  BY <1>5, <1>6

LEMMA LinkedTail ==
  ASSUME NEW S, NEW q \in Seq(FlitsOf(S)), q # <<>>,
         NEW m0 \in BOOLEAN, NEW m1 \in BOOLEAN, Linked(m0, q, m1)
  PROVE  Head(q).head = ~m0 /\ Linked(~Head(q).tail, Tail(q), m1)
<1>1. /\ Head(q) \in FlitsOf(S) /\ Len(q) \in Nat \ {0} /\ q[1] = Head(q)
      /\ Tail(q) \in Seq(FlitsOf(S)) /\ Len(Tail(q)) = Len(q) - 1
      /\ \A k \in 1 .. Len(q) - 1 : Tail(q)[k] = q[k + 1]
  BY HeadTail
<1>2. PICK p \in Seq(FlitsOf(S)) : p = Tail(q)
  BY <1>1
<1>3. Head(q).tail \in BOOLEAN
  BY <1>1, FlitFields
<1>4. /\ q[1].head = ~m0 /\ q[Len(q)].tail = ~m1
      /\ \A k \in 1 .. Len(q) - 1 : q[k + 1].head = q[k].tail
  BY DEF Linked
<1>5. CASE p = <<>>
  <2>1. Len(q) = 1
    <3>1. Len(p) = 0 /\ Len(p) = Len(q) - 1 /\ Len(q) \in Nat
      BY <1>1, <1>2, <1>5
    <3>2. QED
      BY <3>1
  <2>2. (~Head(q).tail) = m1
    BY <1>1, <1>3, <1>4, <2>1
  <2>3. QED
    BY <1>1, <1>2, <1>4, <1>5, <2>2 DEF Linked
<1>6. CASE p # <<>>
  <2>1. Len(p) \in Nat \ {0} /\ Len(p) = Len(q) - 1
    BY <1>1, <1>2, <1>6
  <2>2. p[1] = q[2] /\ p[Len(p)] = q[Len(q)]
    BY <1>1, <1>2, <2>1
  <2>3. q[2].head = q[1].tail
    BY <1>4, <2>1
  <2>4. ASSUME NEW k \in 1 .. Len(p) - 1 PROVE p[k + 1].head = p[k].tail
    <3>1. k \in 1 .. Len(q) - 1 /\ k + 1 \in 1 .. Len(q) - 1
      BY <1>1, <2>1
    <3>2. p[k] = q[k + 1] /\ p[k + 1] = q[(k + 1) + 1]
      BY <1>1, <1>2, <3>1
    <3>3. QED
      BY <1>4, <3>1, <3>2
  <2>5. p[1].head = ~(~Head(q).tail)
    BY <1>1, <1>3, <2>2, <2>3
  <2>6. QED
    BY <1>1, <1>2, <1>4, <1>6, <2>2, <2>4, <2>5 DEF Linked
<1>7. QED
  BY <1>5, <1>6

\* g may come after f where the types share a queue.
Joins(f, g) == IF f.tail THEN g.head ELSE ~g.head /\ g.vc = f.vc

Packets(q) ==
  /\ \A k \in 1 .. Len(q) - 1 : Joins(q[k], q[k + 1])
  /\ q # <<>> => q[Len(q)].tail

\* The first flit of q continues a packet on VC v.
MidOf(q, v) == q # <<>> /\ ~q[1].head /\ q[1].vc = v

LEMMA PacketsTail ==
  ASSUME NEW S, NEW q \in Seq(FlitsOf(S)), q # <<>>, Packets(q)
  PROVE  /\ Packets(Tail(q))
         /\ \A v : MidOf(Tail(q), v) <=> ~Head(q).tail /\ Head(q).vc = v
<1>1. /\ Head(q) \in FlitsOf(S) /\ Len(q) \in Nat \ {0} /\ q[1] = Head(q)
      /\ Tail(q) \in Seq(FlitsOf(S)) /\ Len(Tail(q)) = Len(q) - 1
      /\ \A k \in 1 .. Len(q) - 1 : Tail(q)[k] = q[k + 1]
  BY HeadTail
<1>2. PICK p \in Seq(FlitsOf(S)) : p = Tail(q)
  BY <1>1
<1>3. /\ \A k \in 1 .. Len(q) - 1 : Joins(q[k], q[k + 1])
      /\ q[Len(q)].tail
  BY DEF Packets
<1>4. CASE p = <<>>
  <2>1. Len(q) = 1
    <3>1. Len(p) = 0 /\ Len(p) = Len(q) - 1 /\ Len(q) \in Nat
      BY <1>1, <1>2, <1>4
    <3>2. QED
      BY <3>1
  <2>2. Head(q).tail
    BY <1>1, <1>3, <2>1
  <2>3. Packets(<<>>) /\ \A v : ~MidOf(<<>>, v)
    BY DEF Packets, MidOf
  <2>4. QED
    BY <1>2, <1>4, <2>2, <2>3
<1>5. CASE p # <<>>
  <2>1. Len(p) \in Nat \ {0} /\ Len(p) = Len(q) - 1 /\ p[1] = q[2] /\ p[Len(p)] = q[Len(q)]
    BY <1>1, <1>2, <1>5
  <2>2. ASSUME NEW k \in 1 .. Len(p) - 1 PROVE Joins(p[k], p[k + 1])
    <3>1. k \in 1 .. Len(q) - 1 /\ k + 1 \in 1 .. Len(q) - 1
      BY <1>1, <2>1
    <3>2. p[k] = q[k + 1] /\ p[k + 1] = q[(k + 1) + 1]
      BY <1>1, <1>2, <3>1
    <3>3. QED
      BY <1>3, <3>1, <3>2
  <2>3. Joins(q[1], p[1])
    BY <1>1, <1>3, <2>1
  <2>4. QED
    BY <1>1, <1>2, <1>3, <1>5, <2>1, <2>2, <2>3 DEF Packets, MidOf, Joins
<1>6. QED
  BY <1>4, <1>5

LEMMA PacketsConcat ==
  ASSUME NEW S, NEW q \in Seq(FlitsOf(S)), NEW p \in Seq(FlitsOf(S)),
         Packets(q), Packets(p), p # <<>> => p[1].head
  PROVE  /\ Packets(q \o p)
         /\ \A v : MidOf(q \o p, v) <=> MidOf(q, v)
<1>1. PICK r \in Seq(FlitsOf(S)) : r = q \o p
  <2>1. q \o p \in Seq(FlitsOf(S))
    OBVIOUS
  <2>2. QED
    BY <2>1
<1>2. /\ Len(r) = Len(q) + Len(p) /\ Len(q) \in Nat /\ Len(p) \in Nat
      /\ \A k \in 1 .. Len(q) : r[k] = q[k]
      /\ \A k \in 1 .. Len(p) : r[Len(q) + k] = p[k]
  BY <1>1
<1>3. CASE p = <<>>
  <2>1. r = q
    BY <1>1, <1>3
  <2>2. QED
    BY <1>1, <2>1
<1>4. CASE q = <<>>
  <2>1. r = p
    BY <1>1, <1>4
  <2>2. QED
    BY <1>1, <1>4, <2>1 DEF MidOf
<1>5. CASE p # <<>> /\ q # <<>>
  <2>1. Len(q) > 0 /\ Len(p) > 0 /\ r # <<>>
    BY <1>2, <1>5
  <2>2. ASSUME NEW k \in 1 .. Len(r) - 1 PROVE Joins(r[k], r[k + 1])
    <3>1. CASE k < Len(q)
      <4>1. k \in 1 .. Len(q) - 1 /\ k \in 1 .. Len(q) /\ k + 1 \in 1 .. Len(q)
        BY <1>2, <3>1
      <4>2. r[k] = q[k] /\ r[k + 1] = q[k + 1]
        BY <1>2, <4>1
      <4>3. QED
        BY <4>1, <4>2 DEF Packets
    <3>2. CASE k = Len(q)
      <4>1. r[k] = q[Len(q)] /\ r[k + 1] = p[1]
        BY <1>2, <2>1, <3>2
      <4>2. QED
        BY <1>5, <4>1 DEF Packets, Joins
    <3>3. CASE k > Len(q)
      <4>1. PICK j \in 1 .. Len(p) - 1 : k = Len(q) + j
        <5>1. k - Len(q) \in 1 .. Len(p) - 1 /\ k = Len(q) + (k - Len(q))
          BY <1>2, <3>3
        <5>2. QED
          BY <5>1
      <4>2. k + 1 = Len(q) + (j + 1) /\ j \in 1 .. Len(p) /\ j + 1 \in 1 .. Len(p)
        BY <1>2, <4>1
      <4>3. r[k] = p[j] /\ r[k + 1] = p[j + 1]
        BY <1>2, <4>1, <4>2
      <4>4. QED
        BY <4>1, <4>3 DEF Packets
    <3>4. QED
      BY <1>2, <3>1, <3>2, <3>3
  <2>3. r[Len(r)] = p[Len(p)] /\ r[1] = q[1]
    BY <1>2, <2>1
  <2>4. QED
    BY <1>1, <1>5, <2>1, <2>2, <2>3 DEF Packets, MidOf
<1>6. QED
  BY <1>3, <1>4, <1>5

(***************************************************************************)
(* The sending half of an adapter.  The flits it has made and not injected *)
(* are one stream of whole packets, of which the first may have lost its   *)
(* first flits; the buffer state knows on which VC.                        *)
(***************************************************************************)
Fields ==
  {"iReg", "setting", "gotAw", "lastDest", "cycle", "numFlits", "injFifo", "full", "injReg",
   "bufState", "ejectReg", "ejFifo", "pushCount", "popCount", "priority", "depacketizing",
   "constructed", "outFifo", "outPacket"}

TxOf(S) == {x \in Transactions : x.type \in S}

Stream(a) == (IF a.injReg = NoFlit THEN <<>> ELSE <<a.injReg>>) \o a.injFifo

Input(a, S) == a.iReg \in TxOf(S) \cup {NoTx} /\ a.lastDest \in Nat /\ a.setting \in 0 .. 2

Queued(a, S) == a.injFifo \in Seq(FlitsOf(S)) /\ a.injReg \in FlitsOf(S) \cup {NoFlit}

Sender(a, S) ==
  /\ Queued(a, S) /\ BufferOk(a.bufState) /\ Packets(Stream(a))
  /\ \A v \in VCs : Mid(a.bufState, v) = MidOf(Stream(a), v)

LEMMA StreamType ==
  ASSUME NEW S, NEW a, Queued(a, S)
  PROVE  /\ Stream(a) \in Seq(FlitsOf(S))
         /\ NextFlit(a) = IF Stream(a) = <<>> THEN NoFlit ELSE Head(Stream(a))
<1>1. PICK q \in Seq(FlitsOf(S)) : q = a.injFifo
  BY DEF Queued
<1>2. CASE a.injReg = NoFlit
  <2>1. Stream(a) = q
    BY <1>1, <1>2 DEF Stream
  <2>2. QED
    BY <1>1, <1>2, <2>1 DEF NextFlit
<1>3. CASE a.injReg # NoFlit
  <2>1. PICK f \in FlitsOf(S) : f = a.injReg
    BY <1>3 DEF Queued
  <2>2. Stream(a) = <<f>> \o q
    BY <1>1, <1>3, <2>1 DEF Stream
  <2>3. <<f>> \o q \in Seq(FlitsOf(S)) /\ <<f>> \o q # <<>> /\ Head(<<f>> \o q) = f
    OBVIOUS
  <2>4. QED
    BY <1>3, <2>1, <2>2, <2>3 DEF NextFlit
<1>4. QED
  BY <1>2, <1>3

\* Injection takes the first flit of the stream, or none.
LEMMA InjectionStream ==
  ASSUME NEW S, NEW a, DOMAIN a = Fields, Queued(a, S), NEW credit, NEW none,
         NEW b, b = InputInjection(a, credit, none)
  PROVE  /\ Queued(b, S)
         /\ Stream(b) = IF CanInject(a) THEN Tail(Stream(a)) ELSE Stream(a)
         /\ b.bufState = BufferAfter(a, credit, none)
<1>1. PICK q \in Seq(FlitsOf(S)) : q = a.injFifo
  BY DEF Queued
<1>2. /\ b.injFifo = IF a.injReg = NoFlit /\ q # <<>> THEN Tail(q) ELSE q
      /\ b.injReg = IF CanInject(a) THEN NoFlit ELSE NextFlit(a)
      /\ b.bufState = BufferAfter(a, credit, none)
  BY <1>1 DEF InputInjection, Fields
<1>3. CASE a.injReg # NoFlit
  <2>1. PICK f \in FlitsOf(S) : f = a.injReg
    BY <1>3 DEF Queued
  <2>2. Stream(a) = <<f>> \o q /\ NextFlit(a) = f /\ b.injFifo = q
    BY <1>1, <1>2, <1>3, <2>1 DEF Stream, NextFlit
  <2>3. Tail(<<f>> \o q) = q
    OBVIOUS
  <2>4. Stream(b) = IF CanInject(a) THEN q ELSE <<f>> \o q
    BY <1>2, <1>3, <2>1, <2>2 DEF Stream
  <2>5. QED
    BY <1>2, <2>2, <2>3, <2>4 DEF Queued
<1>4. CASE a.injReg = NoFlit /\ q # <<>>
  <2>1. Head(q) \in FlitsOf(S) /\ Tail(q) \in Seq(FlitsOf(S))
    BY <1>4
  <2>2. <<Head(q)>> \o Tail(q) = q
    BY <1>4
  <2>3. Stream(a) = q /\ NextFlit(a) = Head(q) /\ b.injFifo = Tail(q) /\ Head(q) # NoFlit
    BY <1>1, <1>2, <1>4, <2>1, FlitFields DEF Stream, NextFlit
  <2>4. Stream(b) = IF CanInject(a) THEN Tail(q) ELSE q
    <3>1. CASE CanInject(a)
      <4>1. Stream(b) = <<>> \o Tail(q)
        BY <1>2, <2>3, <3>1 DEF Stream
      <4>2. QED
        BY <2>1, <3>1, <4>1
    <3>2. CASE ~CanInject(a)
      <4>1. b.injReg = Head(q)
        BY <1>2, <2>3, <3>2
      <4>2. Stream(b) = <<Head(q)>> \o Tail(q)
        BY <2>3, <4>1 DEF Stream
      <4>3. QED
        BY <2>2, <3>2, <4>2
    <3>3. QED
      BY <3>1, <3>2
  <2>5. QED
    BY <1>2, <2>1, <2>3, <2>4 DEF Queued
<1>5. CASE a.injReg = NoFlit /\ q = <<>>
  <2>1. NextFlit(a) = NoFlit /\ ~CanInject(a)
    BY <1>1, <1>5 DEF NextFlit, CanInject
  <2>2. b.injFifo = <<>> /\ b.injReg = NoFlit
    BY <1>2, <1>5, <2>1
  <2>3. Stream(a) = <<>> \o q /\ Stream(b) = <<>> \o <<>>
    BY <1>1, <1>5, <2>2 DEF Stream
  <2>4. QED
    BY <1>2, <1>5, <2>1, <2>2, <2>3 DEF Queued
<1>6. QED
  BY <1>3, <1>4, <1>5

\* The flit f has been injected.
Injects(a, b, f, S) ==
  /\ f \in FlitsOf(S) /\ f.head = ~Mid(a.bufState, f.vc)
  /\ Mid(b.bufState, f.vc) = ~f.tail
  /\ \A v \in VCs \ {f.vc} : Mid(b.bufState, v) = Mid(a.bufState, v)

SendStep(a, b, credit, S) ==
  /\ \A v \in VCs : b.bufState.occupancy[v] =
       (a.bufState.occupancy[v] + Count(CanInject(a) /\ NextFlit(a).vc = v)) - Count(credit = v)
  /\ IF CanInject(a) THEN Injects(a, b, NextFlit(a), S)
                     ELSE \A v \in VCs : Mid(b.bufState, v) = Mid(a.bufState, v)

\* The buffer state when the flit has been counted, before the credit.
LEMMA InjectionCounts ==
  ASSUME NEW S, NEW a, DOMAIN a = Fields, Sender(a, S), NEW c,
         c = IF CanInject(a) THEN Sent(a.bufState, NextFlit(a)) ELSE a.bufState
  PROVE  /\ BufferOk(c)
         /\ \A v \in VCs : c.occupancy[v] =
              a.bufState.occupancy[v] + Count(CanInject(a) /\ NextFlit(a).vc = v)
         /\ CanInject(a) =>
              LET f == NextFlit(a)
              IN  /\ f \in FlitsOf(S) /\ Stream(a) # <<>> /\ Head(Stream(a)) = f
                  /\ f.head = ~Mid(a.bufState, f.vc)
                  /\ Mid(c, f.vc) = ~f.tail
                  /\ \A v \in VCs \ {f.vc} : Mid(c, v) = Mid(a.bufState, v)
<1>1. CASE ~CanInject(a)
  BY <1>1, BufferSize DEF Sender, BufferOk, Count
<1>2. CASE CanInject(a)
  <2>1. PICK q \in Seq(FlitsOf(S)) : q = Stream(a)
    BY StreamType DEF Sender
  <2>2. NextFlit(a) = (IF q = <<>> THEN NoFlit ELSE Head(q)) /\ NextFlit(a) # NoFlit
    BY <1>2, <2>1, StreamType DEF Sender, CanInject
  <2>3. PICK f \in FlitsOf(S) : f = NextFlit(a) /\ f = Head(q) /\ f = q[1] /\ q # <<>>
    BY <2>2, HeadTail
  <2>4. f.vc \in VCs /\ f.head \in BOOLEAN /\ f.tail \in BOOLEAN
    BY FlitFields
  <2>5. f.head = ~Mid(a.bufState, f.vc)
    BY <2>1, <2>3, <2>4 DEF Sender, MidOf
  <2>6. a.bufState.occupancy[f.vc] < VcBufSize /\ a.bufState.occupancy[f.vc] \in Nat
    <3>1. ~IsFullFor(a.bufState, f.vc) /\ a.bufState.occupancy[f.vc] \in 0 .. VcBufSize
      BY <1>2, <2>3, <2>4 DEF CanInject, Sender, BufferOk
    <3>2. QED
      BY <3>1, BufferSize DEF IsFullFor
  <2>7. f.head /\ WaitForTailCredit => ~a.bufState.inUse[f.vc]
    BY <1>2, <2>3 DEF CanInject, IsAvailableFor
  <2>8. Becomes(a.bufState, c, f.vc, 1, ~f.tail)
    <3>1. MaySend(a.bufState, f)
      BY <2>4, <2>5, <2>6, <2>7 DEF MaySend
    <3>2. QED
      BY <1>2, <2>3, <3>1, BufferSends DEF Sender
  <2>9. \A v \in VCs : c.occupancy[v] = a.bufState.occupancy[v] + Count(f.vc = v)
    <3>1. \A v \in VCs : a.bufState.occupancy[v] \in Nat
      BY BufferSize DEF Sender, BufferOk
    <3>2. QED
      BY <2>8, <3>1 DEF Becomes, Count
  <2>10. QED
    BY <1>2, <2>1, <2>3, <2>5, <2>8, <2>9 DEF Becomes
<1>3. QED
  BY <1>1, <1>2

LEMMA InjectionStep ==
  ASSUME NEW S, NEW a, DOMAIN a = Fields, Sender(a, S),
         NEW credit \in VCs \cup {NoVC}, credit # NoVC => a.bufState.occupancy[credit] > 0,
         NEW b, b = InputInjection(a, credit, NoVC)
  PROVE  Sender(b, S) /\ SendStep(a, b, credit, S)
<1>1. PICK c : c = IF CanInject(a) THEN Sent(a.bufState, NextFlit(a)) ELSE a.bufState
  OBVIOUS
<1>2. /\ Queued(b, S)
      /\ Stream(b) = IF CanInject(a) THEN Tail(Stream(a)) ELSE Stream(a)
      /\ b.bufState = IF credit = NoVC THEN c ELSE ProcessCredit(c, credit)
  BY <1>1, InjectionStream DEF Sender, BufferAfter
<1>3. /\ BufferOk(c)
      /\ \A v \in VCs : c.occupancy[v] =
           a.bufState.occupancy[v] + Count(CanInject(a) /\ NextFlit(a).vc = v)
      /\ CanInject(a) =>
           LET f == NextFlit(a)
           IN  /\ f \in FlitsOf(S) /\ Stream(a) # <<>> /\ Head(Stream(a)) = f
               /\ f.head = ~Mid(a.bufState, f.vc)
               /\ Mid(c, f.vc) = ~f.tail
               /\ \A v \in VCs \ {f.vc} : Mid(c, v) = Mid(a.bufState, v)
  BY <1>1, InjectionCounts
<1>4. /\ BufferOk(b.bufState)
      /\ \A v \in VCs : /\ b.bufState.occupancy[v] = c.occupancy[v] - Count(credit = v)
                        /\ Mid(b.bufState, v) = Mid(c, v)
  <2>1. CASE credit = NoVC
    <3>1. b.bufState = c /\ \A v \in VCs : credit # v /\ c.occupancy[v] \in Nat
      BY <1>2, <1>3, <2>1, PathAssumption, BufferSize DEF BufferOk
    <3>2. QED
      BY <1>3, <3>1 DEF Count
  <2>2. CASE credit # NoVC
    <3>1. credit \in VCs /\ b.bufState = ProcessCredit(c, credit)
      BY <1>2, <2>2
    <3>2. c.occupancy[credit] > 0 /\ \A v \in VCs : c.occupancy[v] \in Nat
      <4>1. \A v \in VCs : c.occupancy[v] \in Nat /\ a.bufState.occupancy[v] \in Nat
        BY <1>3, BufferSize DEF Sender, BufferOk
      <4>2. c.occupancy[credit] =
              a.bufState.occupancy[credit] + Count(CanInject(a) /\ NextFlit(a).vc = credit)
        BY <1>3, <3>1
      <4>3. QED
        BY <2>2, <3>1, <4>1, <4>2 DEF Count
    <3>3. Becomes(c, b.bufState, credit, -1, Mid(c, credit))
      BY <1>3, <3>1, <3>2, BufferCredited
    <3>4. QED
      BY <3>1, <3>2, <3>3 DEF Becomes, Count
  <2>3. QED
    BY <2>1, <2>2
<1>5. SendStep(a, b, credit, S)
  <2>1. ASSUME NEW v \in VCs
        PROVE  b.bufState.occupancy[v] =
          (a.bufState.occupancy[v] + Count(CanInject(a) /\ NextFlit(a).vc = v)) - Count(credit = v)
    BY <1>3, <1>4
  <2>2. CanInject(a) => Injects(a, b, NextFlit(a), S)
    BY <1>3, <1>4, FlitFields DEF Injects
  <2>3. ~CanInject(a) => \A v \in VCs : Mid(b.bufState, v) = Mid(a.bufState, v)
    BY <1>1, <1>4
  <2>4. QED
    BY <2>1, <2>2, <2>3 DEF SendStep
<1>6. Packets(Stream(b)) /\ \A v \in VCs : Mid(b.bufState, v) = MidOf(Stream(b), v)
  <2>1. CASE ~CanInject(a)
    BY <1>1, <1>2, <1>4, <2>1 DEF Sender
  <2>2. CASE CanInject(a)
    <3>1. PICK q \in Seq(FlitsOf(S)) : q = Stream(a)
      BY StreamType DEF Sender
    <3>2. PICK f \in FlitsOf(S) : f = NextFlit(a) /\ f = Head(q) /\ q # <<>>
      BY <1>3, <2>2, <3>1
    <3>3. f.vc \in VCs /\ f.tail \in BOOLEAN /\ f.head \in BOOLEAN /\ f = q[1]
      BY <3>2, FlitFields, HeadTail
    <3>4. /\ Packets(Tail(q))
          /\ \A v : MidOf(Tail(q), v) <=> ~f.tail /\ f.vc = v
      BY <3>1, <3>2, PacketsTail DEF Sender
    <3>5. Stream(b) = Tail(q)
      BY <1>2, <2>2, <3>1
    <3>6. ASSUME NEW v \in VCs PROVE Mid(b.bufState, v) = MidOf(Tail(q), v)
      <4>1. CASE v = f.vc
        <5>1. Mid(b.bufState, v) = ~f.tail
          BY <1>3, <1>4, <2>2, <3>2, <3>3, <4>1
        <5>2. QED
          BY <3>4, <4>1, <5>1 DEF MidOf
      <4>2. CASE v # f.vc
        <5>1. Mid(b.bufState, v) = Mid(a.bufState, v)
          BY <1>3, <1>4, <2>2, <3>2, <4>2
        <5>2. ~MidOf(q, v) /\ Mid(a.bufState, v) = MidOf(q, v)
          BY <3>1, <3>3, <4>2 DEF MidOf, Sender
        <5>3. QED
          BY <3>4, <4>2, <5>1, <5>2 DEF MidOf
      <4>3. QED
        BY <4>1, <4>2
    <3>7. QED
      BY <3>4, <3>5, <3>6
  <2>3. QED
    BY <2>1, <2>2
<1>7. QED
  BY <1>2, <1>4, <1>5, <1>6 DEF Sender

(***************************************************************************)
(* What each thread of the adapter leaves alone.                           *)
(***************************************************************************)
SameSender(a, b) ==
  /\ b.injFifo = a.injFifo /\ b.injReg = a.injReg /\ b.bufState = a.bufState

SameInput(a, b) ==
  b.iReg = a.iReg /\ b.lastDest = a.lastDest /\ b.setting = a.setting

SameReceiver(a, b) ==
  /\ b.ejectReg = a.ejectReg /\ b.ejFifo = a.ejFifo
  /\ b.pushCount = a.pushCount /\ b.popCount = a.popCount
  /\ b.priority = a.priority /\ b.constructed = a.constructed

SameOutput(a, b) == b.outFifo = a.outFifo /\ b.outPacket = a.outPacket

LEMMA SenderKept ==
  ASSUME NEW S, NEW a, NEW b, Sender(a, S), SameSender(a, b)
  PROVE  Sender(b, S)
BY DEF Sender, SameSender, Queued, Stream

LEMMA InjectionKeeps ==
  ASSUME NEW a, DOMAIN a = Fields, NEW credit, NEW none,
         NEW b, b = InputInjection(a, credit, none)
  PROVE  DOMAIN b = Fields /\ SameInput(a, b) /\ SameReceiver(a, b) /\ SameOutput(a, b)
BY DEF InputInjection, Fields, SameInput, SameReceiver, SameOutput

LEMMA EjectionKeeps ==
  ASSUME NEW a, DOMAIN a = Fields, NEW eject, NEW b, b = OutputEjection(a, eject)
  PROVE  DOMAIN b = Fields /\ SameInput(a, b) /\ SameSender(a, b) /\ SameOutput(a, b)
BY DEF OutputEjection, Fields, SameInput, SameSender, SameOutput

LEMMA DepacketizationKeeps ==
  ASSUME NEW a, DOMAIN a = Fields, NEW b, b = OutputDepacketization(a)
  PROVE  DOMAIN b = Fields /\ SameInput(a, b) /\ SameSender(a, b) /\ b.ejectReg = a.ejectReg
BY DEF OutputDepacketization, WithFlitTaken, Fields, SameInput, SameSender

LEMMA OutputKeeps ==
  ASSUME NEW a, DOMAIN a = Fields, NEW ready, NEW b, b = OutputInterface(a, ready)
  PROVE  DOMAIN b = Fields /\ SameInput(a, b) /\ SameSender(a, b) /\ SameReceiver(a, b)
BY DEF OutputInterface, Fields, SameInput, SameSender, SameReceiver

(***************************************************************************)
(* InputPacketization makes whole packets.                                 *)
(***************************************************************************)
LEMMA TxFields ==
  ASSUME NEW S, NEW x \in TxOf(S)
  PROVE  /\ x \in Transactions /\ x # NoTx /\ x.type \in S /\ x.type \in Types
         /\ x.id \in Nat /\ x.dest \in Nat /\ x.user \in Nat /\ x.n \in Nat
BY AximmAssumption DEF TxOf, Transactions

LEMMA FlitOfType ==
  ASSUME NEW S, NEW x \in TxOf(S), NEW k \in Nat
  PROVE  FlitOf(x, k) \in FlitsOf(S)
<1>1. x \in Transactions /\ x.type \in S /\ x.type \in Types /\ x.id \in Nat
  BY TxFields
<1>2. VcOf[x.type] \in VCs /\ NumFlits[x.type] \in 1 .. 255
  BY <1>1, AximmAssumption
<1>3. PICK f : f = FlitOf(x, k)
  OBVIOUS
<1>4. f = [id |-> x.id, seq |-> k, head |-> k = 0, tail |-> k = NumFlits[x.type] - 1,
           vc |-> VcOf[x.type], tx |-> x]
  BY <1>3 DEF FlitOf
<1>5. f \in Flits
  BY <1>1, <1>2, <1>4 DEF Flits
<1>6. f.tx = x /\ f.vc = VcOf[x.type]
  BY <1>4
<1>7. QED
  BY <1>1, <1>3, <1>5, <1>6 DEF FlitsOf

LEMMA MadeType ==
  ASSUME NEW S, NEW a, NEW old, Input(old, S)
  PROVE  /\ Made(a, old) \in Seq(FlitsOf(S)) /\ Packets(Made(a, old))
         /\ Made(a, old) # <<>> => Made(a, old)[1].head
<1>1. CASE ~Starts(a, old)
  <2>1. Made(a, old) = <<>>
    BY <1>1 DEF Made
  <2>2. Packets(<<>>)
    BY DEF Packets
  <2>3. QED
    BY <2>1, <2>2
<1>2. CASE Starts(a, old)
  <2>1. PICK x \in TxOf(S) : x = old.iReg
    BY <1>2 DEF Starts, Input
  <2>2. PICK n \in 1 .. 255 : n = NumFlits[x.type]
    <3>1. x.type \in Types
      BY TxFields
    <3>2. QED
      BY <3>1, AximmAssumption
  <2>3. PICK p : p = [k \in 1 .. n |-> FlitOf(x, k - 1)]
    OBVIOUS
  <2>4. Made(a, old) = p
    BY <1>2, <2>1, <2>2, <2>3 DEF Made
  <2>5. \A k \in 1 .. n : p[k] = FlitOf(x, k - 1) /\ p[k] \in FlitsOf(S)
    BY <2>3, FlitOfType
  <2>6. p \in Seq(FlitsOf(S)) /\ Len(p) = n
    BY <2>3, <2>5
  <2>7. \A k \in 1 .. n : p[k].head = (k = 1) /\ p[k].tail = (k = n) /\ p[k].vc = VcOf[x.type]
    <3>1. ASSUME NEW k \in 1 .. n
          PROVE  p[k].head = (k = 1) /\ p[k].tail = (k = n) /\ p[k].vc = VcOf[x.type]
      <4>1. p[k] = FlitOf(x, k - 1)
        BY <2>5
      <4>2. /\ FlitOf(x, k - 1).head = (k - 1 = 0)
            /\ FlitOf(x, k - 1).tail = (k - 1 = n - 1)
            /\ FlitOf(x, k - 1).vc = VcOf[x.type]
        BY <2>2, Zenon DEF FlitOf
      <4>3. (k - 1 = 0 <=> k = 1) /\ (k - 1 = n - 1 <=> k = n)
        OBVIOUS
      <4>4. QED
        BY <4>1, <4>2, <4>3
    <3>2. QED
      BY <3>1
  <2>8. \A k \in 1 .. Len(p) - 1 : Joins(p[k], p[k + 1])
    <3>1. ASSUME NEW k \in 1 .. n - 1 PROVE Joins(p[k], p[k + 1])
      <4>1. k \in 1 .. n /\ k + 1 \in 1 .. n /\ k # n /\ k + 1 # 1
        OBVIOUS
      <4>2. ~p[k].tail /\ ~p[k + 1].head /\ p[k + 1].vc = p[k].vc
        BY <2>7, <4>1
      <4>3. QED
        BY <4>2 DEF Joins
    <3>2. QED
      BY <2>6, <3>1
  <2>9. p[Len(p)].tail /\ p[1].head
    <3>1. 1 \in 1 .. n /\ n \in 1 .. n
      OBVIOUS
    <3>2. p[n].tail = (n = n) /\ p[1].head = (1 = 1)
      BY <2>7, <3>1
    <3>3. QED
      BY <2>6, <3>2
  <2>10. QED
    BY <2>4, <2>6, <2>8, <2>9 DEF Packets
<1>3. QED
  BY <1>1, <1>2

LEMMA PacketizationStep ==
  ASSUME NEW S, NEW a, DOMAIN a = Fields, NEW old, Input(old, S), NEW ratio,
         Sender(a, S), Input(a, S),
         NEW b, b = InputPacketization(a, old, ratio)
  PROVE  /\ DOMAIN b = Fields /\ Sender(b, S) /\ Input(b, S) /\ b.bufState = a.bufState
         /\ SameReceiver(a, b) /\ SameOutput(a, b)
<1>1. /\ DOMAIN b = Fields /\ SameReceiver(a, b) /\ SameOutput(a, b)
      /\ b.injFifo = a.injFifo \o Made(a, old) /\ b.injReg = a.injReg
      /\ b.bufState = a.bufState /\ b.iReg = a.iReg /\ b.setting = a.setting
      /\ b.lastDest = (IF Starts(a, old) /\ old.iReg.type = "AW"
                       THEN old.iReg.dest ELSE a.lastDest)
  BY DEF InputPacketization, Fields, SameReceiver, SameOutput
<1>2. Input(b, S)
  <2>1. Starts(a, old) => old.iReg.dest \in Nat
    BY TxFields DEF Starts, Input
  <2>2. QED
    BY <1>1, <2>1 DEF Input
<1>3. PICK q \in Seq(FlitsOf(S)), p \in Seq(FlitsOf(S)) : q = a.injFifo /\ p = Made(a, old)
  BY MadeType DEF Sender, Queued
<1>4. Queued(b, S)
  <2>1. q \o p \in Seq(FlitsOf(S))
    OBVIOUS
  <2>2. QED
    BY <1>1, <1>3, <2>1 DEF Sender, Queued
<1>5. PICK s \in Seq(FlitsOf(S)) : s = Stream(a)
  BY StreamType DEF Sender
<1>6. Stream(b) = s \o p
  <2>1. CASE a.injReg = NoFlit
    <3>1. Stream(b) = <<>> \o (q \o p) /\ s = <<>> \o q
      BY <1>1, <1>3, <1>5, <2>1 DEF Stream
    <3>2. QED
      BY <3>1
  <2>2. CASE a.injReg # NoFlit
    <3>1. PICK f \in FlitsOf(S) : f = a.injReg
      BY <2>2 DEF Sender, Queued
    <3>2. Stream(b) = <<f>> \o (q \o p) /\ s = <<f>> \o q
      BY <1>1, <1>3, <1>5, <2>2, <3>1 DEF Stream
    <3>3. <<f>> \o (q \o p) = (<<f>> \o q) \o p
      <4>1. <<f>> \in Seq(FlitsOf(S))
        OBVIOUS
      <4>2. QED
        BY <4>1, ConcatAssociative
    <3>4. QED
      BY <3>2, <3>3
  <2>3. QED
    BY <2>1, <2>2
<1>7. Packets(s \o p) /\ \A v : MidOf(s \o p, v) <=> MidOf(s, v)
  <2>1. Packets(s) /\ Packets(p) /\ (p # <<>> => p[1].head)
    BY <1>3, <1>5, MadeType DEF Sender
  <2>2. QED
    BY <2>1, PacketsConcat
<1>8. ASSUME NEW v \in VCs PROVE Mid(b.bufState, v) = MidOf(Stream(b), v)
  <2>1. Mid(a.bufState, v) = MidOf(s, v) /\ (MidOf(s \o p, v) <=> MidOf(s, v))
    BY <1>5, <1>7 DEF Sender
  <2>2. QED
    BY <1>1, <1>6, <2>1 DEF MidOf
<1>9. QED
  BY <1>1, <1>2, <1>4, <1>6, <1>7, <1>8 DEF Sender

(***************************************************************************)
(* The NoC in one direction, as a record, and its cycle.                   *)
(***************************************************************************)
On(f, v) == f # NoFlit /\ f.vc = v

Buffered(n) == [v \in VCs |-> IF On(n.inject, v) THEN Append(n.rbuf[v], n.inject) ELSE n.rbuf[v]]

Credited(n) == IF n.ejected = NoVC THEN n.out ELSE ProcessCredit(n.out, n.ejected)

Forwards(n, m, v) ==
  LET f == Head(Buffered(n)[v])
  IN  /\ Buffered(n)[v] # <<>>
      /\ ~IsFullFor(Credited(n), v)
      /\ f.head => IsAvailableFor(Credited(n), v)
      /\ m.eject = f
      /\ m.out = SendingFlit(IF f.head THEN TakeBuffer(Credited(n), v) ELSE Credited(n), f)
      /\ m.rbuf = [Buffered(n) EXCEPT ![v] = Tail(@)]
      /\ m.credit = v

NothingMoves(n, m) ==
  m.rbuf = Buffered(n) /\ m.out = Credited(n) /\ m.eject = NoFlit /\ m.credit = NoVC

NocStep(n, m) ==
  /\ m.inject = NoFlit /\ m.ejected = NoVC
  /\ NothingMoves(n, m) \/ \E v \in VCs : Forwards(n, m, v)

ReqN == [inject |-> rqInject, credit |-> rqCredit, rbuf |-> rqBuf, out |-> rqOut,
         eject |-> rqEject, ejected |-> rqEjected]
RspN == [inject |-> rpInject, credit |-> rpCredit, rbuf |-> rpBuf, out |-> rpOut,
         eject |-> rpEject, ejected |-> rpEjected]

LEMMA ReqNocStep ==
  ASSUME NEW n, n = ReqN, NEW m, m = ReqN', ReqNoc!NocCycle
  PROVE  NocStep(n, m)
<1>1. /\ n.inject = rqInject /\ n.credit = rqCredit /\ n.rbuf = rqBuf /\ n.out = rqOut
      /\ n.eject = rqEject /\ n.ejected = rqEjected
      /\ m.inject = rqInject' /\ m.credit = rqCredit' /\ m.rbuf = rqBuf' /\ m.out = rqOut'
      /\ m.eject = rqEject' /\ m.ejected = rqEjected'
  BY DEF ReqN
<1>2. ReqNoc!VCs = VCs
  BY DEF ReqNoc!VCs, VCs
<1>3. Buffered(n) = ReqNoc!Buffered
  BY <1>1, <1>2 DEF Buffered, ReqNoc!Buffered, On
<1>4. Credited(n) = ReqNoc!Credited
  BY <1>1 DEF Credited, ReqNoc!Credited, ProcessCredit, ReqNoc!ProcessCredit, Drained, ReqNoc!Drained
<1>5. m.inject = NoFlit /\ m.ejected = NoVC
  BY <1>1 DEF ReqNoc!NocCycle
<1>6. ASSUME ReqNoc!NothingMoves PROVE NothingMoves(n, m)
  BY <1>1, <1>3, <1>4, <1>6 DEF NothingMoves, ReqNoc!NothingMoves
<1>7. ASSUME NEW v \in VCs, ReqNoc!Forward(v) PROVE Forwards(n, m, v)
  <2>1. \A b, w : /\ ReqNoc!IsFullFor(b, w) <=> IsFullFor(b, w)
                  /\ ReqNoc!IsAvailableFor(b, w) <=> IsAvailableFor(b, w)
                  /\ ReqNoc!TakeBuffer(b, w) = TakeBuffer(b, w)
    BY DEF ReqNoc!IsFullFor, IsFullFor, ReqNoc!IsAvailableFor, IsAvailableFor,
           ReqNoc!TakeBuffer, TakeBuffer
  <2>2. \A b, f : ReqNoc!SendingFlit(b, f) = SendingFlit(b, f)
    BY DEF ReqNoc!SendingFlit, SendingFlit, ReqNoc!Frees, Frees
  <2>3. QED
    BY <1>1, <1>3, <1>4, <1>7, <2>1, <2>2 DEF Forwards, ReqNoc!Forward, ReqNoc!CanForward
<1>8. QED
  BY <1>2, <1>5, <1>6, <1>7 DEF NocStep, ReqNoc!NocCycle

LEMMA RspNocStep ==
  ASSUME NEW n, n = RspN, NEW m, m = RspN', RspNoc!NocCycle
  PROVE  NocStep(n, m)
<1>1. /\ n.inject = rpInject /\ n.credit = rpCredit /\ n.rbuf = rpBuf /\ n.out = rpOut
      /\ n.eject = rpEject /\ n.ejected = rpEjected
      /\ m.inject = rpInject' /\ m.credit = rpCredit' /\ m.rbuf = rpBuf' /\ m.out = rpOut'
      /\ m.eject = rpEject' /\ m.ejected = rpEjected'
  BY DEF RspN
<1>2. RspNoc!VCs = VCs
  BY DEF RspNoc!VCs, VCs
<1>3. Buffered(n) = RspNoc!Buffered
  BY <1>1, <1>2 DEF Buffered, RspNoc!Buffered, On
<1>4. Credited(n) = RspNoc!Credited
  BY <1>1 DEF Credited, RspNoc!Credited, ProcessCredit, RspNoc!ProcessCredit, Drained, RspNoc!Drained
<1>5. m.inject = NoFlit /\ m.ejected = NoVC
  BY <1>1 DEF RspNoc!NocCycle
<1>6. ASSUME RspNoc!NothingMoves PROVE NothingMoves(n, m)
  BY <1>1, <1>3, <1>4, <1>6 DEF NothingMoves, RspNoc!NothingMoves
<1>7. ASSUME NEW v \in VCs, RspNoc!Forward(v) PROVE Forwards(n, m, v)
  <2>1. \A b, w : /\ RspNoc!IsFullFor(b, w) <=> IsFullFor(b, w)
                  /\ RspNoc!IsAvailableFor(b, w) <=> IsAvailableFor(b, w)
                  /\ RspNoc!TakeBuffer(b, w) = TakeBuffer(b, w)
    BY DEF RspNoc!IsFullFor, IsFullFor, RspNoc!IsAvailableFor, IsAvailableFor,
           RspNoc!TakeBuffer, TakeBuffer
  <2>2. \A b, f : RspNoc!SendingFlit(b, f) = SendingFlit(b, f)
    BY DEF RspNoc!SendingFlit, SendingFlit, RspNoc!Frees, Frees
  <2>3. QED
    BY <1>1, <1>3, <1>4, <1>7, <2>1, <2>2 DEF Forwards, RspNoc!Forward, RspNoc!CanForward
<1>8. QED
  BY <1>2, <1>5, <1>6, <1>7 DEF NocStep, RspNoc!NocCycle

(***************************************************************************)
(* The flits of a VC on their way to the router's port, in order, and the  *)
(* effect of a cycle on them.                                              *)
(***************************************************************************)
Line(n, v) == n.rbuf[v] \o (IF On(n.inject, v) THEN <<n.inject>> ELSE <<>>)

NocTypes(n, S) ==
  /\ n.inject \in FlitsOf(S) \cup {NoFlit} /\ n.eject \in FlitsOf(S) \cup {NoFlit}
  /\ n.credit \in VCs \cup {NoVC} /\ n.ejected \in VCs \cup {NoVC}
  /\ DOMAIN n.rbuf = VCs /\ n.rbuf = [v \in VCs |-> n.rbuf[v]]
  /\ \A v \in VCs : n.rbuf[v] \in Seq(FlitsOf(S)) /\ n.rbuf[v] \in Seq(FlitsOn(S, v))
  /\ BufferOk(n.out)

\* mid: whether the sender is in the middle of a packet on VC v.
AllLinked(n, mid) == \A v \in VCs : Linked(Mid(n.out, v), Line(n, v), mid[v])

LEMMA LineType ==
  ASSUME NEW S, NEW n, NocTypes(n, S), NEW v \in VCs
  PROVE  /\ Line(n, v) \in Seq(FlitsOf(S)) /\ Line(n, v) \in Seq(FlitsOn(S, v))
         /\ Buffered(n)[v] = Line(n, v)
         /\ Len(Line(n, v)) = Len(n.rbuf[v]) + Count(On(n.inject, v))
         /\ n.inject = NoFlit => Line(n, v) = n.rbuf[v]
<1>1. PICK q \in Seq(FlitsOn(S, v)) : q = n.rbuf[v] /\ q \in Seq(FlitsOf(S))
  BY DEF NocTypes
<1>2. CASE On(n.inject, v)
  <2>1. PICK f \in FlitsOn(S, v) : f = n.inject /\ f \in FlitsOf(S)
    BY <1>2 DEF On, NocTypes, FlitsOn
  <2>2. Line(n, v) = q \o <<f>> /\ Buffered(n)[v] = Append(q, f)
    BY <1>1, <1>2, <2>1 DEF Line, Buffered
  <2>3. /\ q \o <<f>> = Append(q, f) /\ Append(q, f) \in Seq(FlitsOn(S, v))
        /\ Len(Append(q, f)) = Len(q) + 1
    OBVIOUS
  <2>4. Append(q, f) \in Seq(FlitsOf(S))
    BY <1>1, <2>1, Appended
  <2>5. QED
    BY <1>1, <1>2, <2>2, <2>3, <2>4 DEF Count, On
<1>3. CASE ~On(n.inject, v)
  <2>1. Line(n, v) = q \o <<>> /\ Buffered(n)[v] = q
    BY <1>1, <1>3 DEF Line, Buffered
  <2>2. q \o <<>> = q /\ Len(q) \in Nat
    OBVIOUS
  <2>3. QED
    BY <1>1, <1>3, <2>1, <2>2 DEF Count
<1>4. QED
  BY <1>2, <1>3

LEMMA CreditedOk ==
  ASSUME NEW S, NEW n, NocTypes(n, S), n.ejected # NoVC => n.out.occupancy[n.ejected] > 0
  PROVE  /\ BufferOk(Credited(n))
         /\ \A v \in VCs : /\ Credited(n).occupancy[v] = n.out.occupancy[v] - Count(n.ejected = v)
                           /\ Mid(Credited(n), v) = Mid(n.out, v)
<1>1. BufferOk(n.out) /\ \A v \in VCs : n.out.occupancy[v] \in Nat
  BY BufferSize DEF NocTypes, BufferOk
<1>2. CASE n.ejected = NoVC
  <2>1. Credited(n) = n.out /\ \A v \in VCs : n.ejected # v
    BY <1>2, PathAssumption DEF Credited
  <2>2. QED
    BY <1>1, <2>1 DEF Count
<1>3. CASE n.ejected # NoVC
  <2>1. n.ejected \in VCs /\ Credited(n) = ProcessCredit(n.out, n.ejected)
    BY <1>3 DEF NocTypes, Credited
  <2>2. Becomes(n.out, Credited(n), n.ejected, -1, Mid(n.out, n.ejected))
    BY <1>1, <1>3, <2>1, BufferCredited
  <2>3. QED
    BY <1>1, <2>1, <2>2 DEF Becomes, Count
<1>4. QED
  BY <1>2, <1>3

\* What a cycle keeps, and what it counts.
Cycled(n, m, mid, S) ==
  /\ NocTypes(m, S) /\ AllLinked(m, mid)
  /\ m.inject = NoFlit /\ m.ejected = NoVC
  /\ \A v \in VCs :
       /\ Len(m.rbuf[v]) + Count(m.credit = v) = Len(n.rbuf[v]) + Count(On(n.inject, v))
       /\ m.out.occupancy[v] =
            (n.out.occupancy[v] - Count(n.ejected = v)) + Count(On(m.eject, v))

LEMMA NothingCycled ==
  ASSUME NEW S, NEW n, NocTypes(n, S), n.ejected # NoVC => n.out.occupancy[n.ejected] > 0,
         NEW mid \in [VCs -> BOOLEAN], AllLinked(n, mid),
         NEW m, m.inject = NoFlit, m.ejected = NoVC, NothingMoves(n, m)
  PROVE  Cycled(n, m, mid, S)
<1>1. /\ m.rbuf = Buffered(n) /\ m.out = Credited(n) /\ m.eject = NoFlit /\ m.credit = NoVC
  BY DEF NothingMoves
<1>2. \A v \in VCs : /\ m.rbuf[v] = Line(n, v) /\ Line(n, v) \in Seq(FlitsOf(S))
                     /\ Line(n, v) \in Seq(FlitsOn(S, v))
  BY <1>1, LineType
<1>3. NocTypes(m, S)
  <2>1. DOMAIN m.rbuf = VCs /\ m.rbuf = [v \in VCs |-> m.rbuf[v]]
    BY <1>1 DEF Buffered
  <2>2. \A v \in VCs : m.rbuf[v] \in Seq(FlitsOf(S)) /\ m.rbuf[v] \in Seq(FlitsOn(S, v))
    BY <1>2
  <2>3. BufferOk(m.out)
    BY <1>1, CreditedOk
  <2>4. QED
    BY <1>1, <2>1, <2>2, <2>3 DEF NocTypes
<1>4. \A v \in VCs : Line(m, v) = Line(n, v)
  BY <1>2, <1>3, LineType
<1>5. ASSUME NEW v \in VCs PROVE Linked(Mid(m.out, v), Line(m, v), mid[v])
  <2>1. Linked(Mid(n.out, v), Line(n, v), mid[v]) /\ Mid(m.out, v) = Mid(n.out, v)
    BY <1>1, CreditedOk DEF AllLinked
  <2>2. QED
    BY <1>4, <2>1
<1>6. ASSUME NEW v \in VCs
      PROVE  /\ Len(m.rbuf[v]) + Count(m.credit = v) = Len(n.rbuf[v]) + Count(On(n.inject, v))
             /\ m.out.occupancy[v] =
                  (n.out.occupancy[v] - Count(n.ejected = v)) + Count(On(m.eject, v))
  <2>1. ~(m.credit = v) /\ ~On(m.eject, v)
    BY <1>1, PathAssumption DEF On
  <2>2. Len(m.rbuf[v]) = Len(n.rbuf[v]) + Count(On(n.inject, v)) /\ Len(m.rbuf[v]) \in Nat
    BY <1>2, LineType
  <2>3. /\ m.out.occupancy[v] = n.out.occupancy[v] - Count(n.ejected = v)
        /\ m.out.occupancy[v] \in Nat
    BY <1>1, CreditedOk, BufferSize DEF BufferOk
  <2>4. QED
    BY <2>1, <2>2, <2>3 DEF Count
<1>7. QED
  BY <1>3, <1>5, <1>6 DEF Cycled, AllLinked

LEMMA ForwardCycled ==
  ASSUME NEW S, NEW n, NocTypes(n, S), n.ejected # NoVC => n.out.occupancy[n.ejected] > 0,
         NEW mid \in [VCs -> BOOLEAN], AllLinked(n, mid),
         NEW m, m.inject = NoFlit, m.ejected = NoVC, NEW x \in VCs, Forwards(n, m, x)
  PROVE  Cycled(n, m, mid, S)
<1>1. PICK q \in Seq(FlitsOn(S, x)) : q = Line(n, x) /\ q = Buffered(n)[x] /\ q \in Seq(FlitsOf(S))
  BY LineType
<1>2. PICK c : c = Credited(n)
  OBVIOUS
<1>3. /\ q # <<>> /\ ~IsFullFor(c, x) /\ (Head(q).head => IsAvailableFor(c, x))
      /\ m.eject = Head(q)
      /\ m.out = SendingFlit(IF Head(q).head THEN TakeBuffer(c, x) ELSE c, Head(q))
      /\ m.rbuf = [Buffered(n) EXCEPT ![x] = Tail(@)]
      /\ m.credit = x
  BY <1>1, <1>2 DEF Forwards
<1>4. PICK f \in FlitsOn(S, x) : f = Head(q)
  BY <1>3
<1>5. f \in FlitsOf(S) /\ f.vc = x /\ f.head \in BOOLEAN /\ f.tail \in BOOLEAN /\ f # NoFlit
  BY <1>4, FlitFields DEF FlitsOn
<1>6. /\ BufferOk(c)
      /\ \A v \in VCs : /\ c.occupancy[v] = n.out.occupancy[v] - Count(n.ejected = v)
                        /\ c.occupancy[v] \in Nat /\ Mid(c, v) = Mid(n.out, v)
  BY <1>2, CreditedOk, BufferSize DEF BufferOk
<1>7. Linked(Mid(n.out, x), q, mid[x]) /\ Mid(n.out, x) \in BOOLEAN
  BY <1>1 DEF AllLinked, NocTypes, BufferOk, Mid
<1>8. f.head = ~Mid(n.out, x) /\ Linked(~f.tail, Tail(q), mid[x]) /\ Tail(q) \in Seq(FlitsOf(S))
      /\ Tail(q) \in Seq(FlitsOn(S, x)) /\ Len(Tail(q)) = Len(q) - 1 /\ Len(q) \in Nat
  <2>1. Tail(q) \in Seq(FlitsOn(S, x)) /\ Len(Tail(q)) = Len(q) - 1 /\ Len(q) \in Nat
    BY <1>3, HeadTail
  <2>2. Tail(q) \in Seq(FlitsOf(S))
    BY <1>1, <1>3, HeadTail
  <2>3. Head(q).head = ~Mid(n.out, x) /\ Linked(~Head(q).tail, Tail(q), mid[x])
    BY <1>1, <1>3, <1>7, LinkedTail
  <2>4. QED
    BY <1>4, <2>1, <2>2, <2>3
<1>9. Becomes(c, m.out, x, 1, ~f.tail)
  <2>1. MaySend(c, f)
    <3>1. c.occupancy[x] < VcBufSize
      BY <1>3, <1>6, BufferSize DEF IsFullFor
    <3>2. f.head => ~c.inUse[x]
      BY <1>3, <1>4 DEF IsAvailableFor
    <3>3. QED
      BY <1>5, <1>6, <1>8, <3>1, <3>2 DEF MaySend
  <2>2. m.out = Sent(c, f)
    BY <1>3, <1>4, <1>5 DEF Sent
  <2>3. QED
    BY <1>5, <1>6, <2>1, <2>2, BufferSends
<1>10. /\ DOMAIN m.rbuf = VCs /\ m.rbuf = [v \in VCs |-> m.rbuf[v]]
       /\ m.rbuf[x] = Tail(q)
       /\ \A v \in VCs \ {x} : m.rbuf[v] = Line(n, v)
  <2>1. Buffered(n) = [v \in VCs |-> Line(n, v)]
    BY LineType DEF Buffered
  <2>2. m.rbuf = [[v \in VCs |-> Line(n, v)] EXCEPT ![x] = Tail(q)]
    BY <1>1, <1>3, <2>1
  <2>3. QED
    BY <2>2
<1>11. NocTypes(m, S)
  <2>1. ASSUME NEW v \in VCs
        PROVE  m.rbuf[v] \in Seq(FlitsOf(S)) /\ m.rbuf[v] \in Seq(FlitsOn(S, v))
    <3>1. CASE v = x
      BY <1>8, <1>10, <3>1
    <3>2. CASE v # x
      BY <1>10, <3>2, LineType
    <3>3. QED
      BY <3>1, <3>2
  <2>2. BufferOk(m.out)
    BY <1>9 DEF Becomes
  <2>3. m.eject \in FlitsOf(S) /\ m.credit \in VCs
    BY <1>3, <1>4, <1>5
  <2>4. QED
    BY <1>10, <2>1, <2>2, <2>3 DEF NocTypes
<1>12. ASSUME NEW v \in VCs PROVE Linked(Mid(m.out, v), Line(m, v), mid[v])
  <2>1. Line(m, v) = m.rbuf[v]
    BY <1>11, LineType
  <2>2. CASE v = x
    <3>1. Mid(m.out, x) = ~f.tail
      BY <1>9 DEF Becomes
    <3>2. QED
      BY <1>8, <1>10, <2>1, <2>2, <3>1
  <2>3. CASE v # x
    <3>1. Mid(m.out, v) = Mid(n.out, v)
      BY <1>6, <1>9, <2>3 DEF Becomes
    <3>2. Linked(Mid(n.out, v), Line(n, v), mid[v])
      BY DEF AllLinked
    <3>3. m.rbuf[v] = Line(n, v)
      BY <1>10, <2>3
    <3>4. QED
      BY <2>1, <3>1, <3>2, <3>3
  <2>4. QED
    BY <2>2, <2>3
<1>13. ASSUME NEW v \in VCs
       PROVE  /\ Len(m.rbuf[v]) + Count(m.credit = v) = Len(n.rbuf[v]) + Count(On(n.inject, v))
              /\ m.out.occupancy[v] =
                   (n.out.occupancy[v] - Count(n.ejected = v)) + Count(On(m.eject, v))
  <2>1. Len(Line(n, v)) = Len(n.rbuf[v]) + Count(On(n.inject, v)) /\ Len(Line(n, v)) \in Nat
    BY LineType
  <2>2. CASE v = x
    <3>1. Count(m.credit = v) = 1 /\ Count(On(m.eject, v)) = 1
      BY <1>3, <1>4, <1>5, <2>2 DEF Count, On
    <3>2. Len(m.rbuf[v]) = Len(Line(n, v)) - 1
      BY <1>1, <1>8, <1>10, <2>2
    <3>3. m.out.occupancy[v] = c.occupancy[v] + 1
      BY <1>9, <2>2 DEF Becomes
    <3>4. c.occupancy[v] = n.out.occupancy[v] - Count(n.ejected = v)
      BY <1>6
    <3>5. Len(m.rbuf[v]) + Count(m.credit = v) = Len(Line(n, v))
      BY <2>1, <3>1, <3>2
    <3>6. QED
      BY <2>1, <3>1, <3>3, <3>4, <3>5
  <2>3. CASE v # x
    <3>1. Count(m.credit = v) = 0 /\ Count(On(m.eject, v)) = 0
      BY <1>3, <1>4, <1>5, <2>3 DEF Count, On
    <3>2. Len(m.rbuf[v]) = Len(Line(n, v))
      BY <1>10, <2>3
    <3>3. m.out.occupancy[v] = c.occupancy[v] /\ c.occupancy[v] \in Nat
      BY <1>6, <1>9, <2>3 DEF Becomes
    <3>4. c.occupancy[v] = n.out.occupancy[v] - Count(n.ejected = v)
      BY <1>6
    <3>5. QED
      BY <2>1, <3>1, <3>2, <3>3, <3>4
  <2>4. QED
    BY <2>2, <2>3
<1>14. QED
  BY <1>11, <1>12, <1>13 DEF Cycled, AllLinked

LEMMA NocCycled ==
  ASSUME NEW S, NEW n, NocTypes(n, S), n.ejected # NoVC => n.out.occupancy[n.ejected] > 0,
         NEW mid \in [VCs -> BOOLEAN], AllLinked(n, mid), NEW m, NocStep(n, m)
  PROVE  Cycled(n, m, mid, S)
BY NothingCycled, ForwardCycled DEF NocStep

(***************************************************************************)
(* The tails in a sequence of flits.                                       *)
(***************************************************************************)
TailsAt(q) == {k \in 1 .. Len(q) : q[k].tail}
Tails(q) == Cardinality(TailsAt(q))

LEMMA TailsType ==
  ASSUME NEW S, NEW q \in Seq(S)
  PROVE  IsFiniteSet(TailsAt(q)) /\ Tails(q) \in Nat
<1>1. IsFiniteSet(1 .. Len(q))
  BY FS_Interval
<1>2. TailsAt(q) \in SUBSET (1 .. Len(q))
  BY DEF TailsAt
<1>3. IsFiniteSet(TailsAt(q))
  BY <1>1, <1>2, FS_Subset
<1>4. QED
  BY <1>3, FS_CardinalityType DEF Tails

LEMMA TailsEmpty == Tails(<<>>) = 0
<1>1. TailsAt(<<>>) = {}
  BY DEF TailsAt
<1>2. QED
  BY <1>1, FS_EmptySet, Zenon DEF Tails

LEMMA TailsAppend ==
  ASSUME NEW S, NEW q \in Seq(S), NEW f \in S, f.tail \in BOOLEAN
  PROVE  Tails(Append(q, f)) = Tails(q) + Count(f.tail)
<1>1. /\ Len(q) \in Nat /\ Len(Append(q, f)) = Len(q) + 1
      /\ \A k \in 1 .. Len(q) : Append(q, f)[k] = q[k]
      /\ Append(q, f)[Len(q) + 1] = f
  BY Appended
<1>2. \A k \in 1 .. Len(q) + 1 : k \in 1 .. Len(q) \/ k = Len(q) + 1
  BY <1>1
<1>3. CASE f.tail
  <2>1. TailsAt(Append(q, f)) = TailsAt(q) \cup {Len(q) + 1} /\ Len(q) + 1 \notin TailsAt(q)
    BY <1>1, <1>3 DEF TailsAt
  <2>2. Cardinality(TailsAt(q) \cup {Len(q) + 1}) = Cardinality(TailsAt(q)) + 1
    BY <2>1, TailsType, FS_AddElement
  <2>3. QED
    BY <1>3, <2>1, <2>2 DEF Tails, Count
<1>4. CASE ~f.tail
  <2>1. TailsAt(Append(q, f)) = TailsAt(q)
    BY <1>1, <1>2, <1>4 DEF TailsAt
  <2>2. QED
    BY <1>4, <2>1, TailsType DEF Tails, Count
<1>5. QED
  BY <1>3, <1>4

LEMMA TailsTail ==
  ASSUME NEW S, NEW q \in Seq(S), q # <<>>, Head(q).tail \in BOOLEAN
  PROVE  Tails(q) = Count(Head(q).tail) + Tails(Tail(q))
<1> DEFINE P == TailsAt(Tail(q))
           R == {k \in 2 .. Len(q) : q[k].tail}
           g == [k \in P |-> k + 1]
<1>1. /\ Len(q) \in Nat \ {0} /\ q[1] = Head(q)
      /\ Tail(q) \in Seq(S) /\ Len(Tail(q)) = Len(q) - 1
      /\ \A k \in 1 .. Len(q) - 1 : Tail(q)[k] = q[k + 1]
  BY HeadTail
<1>2. g \in Bijection(P, R)
  <2>1. P = {k \in 1 .. Len(q) - 1 : q[k + 1].tail}
    BY <1>1 DEF TailsAt
  <2>2. ASSUME NEW k \in P PROVE k + 1 \in R
    BY <1>1, <2>1
  <2>3. ASSUME NEW r \in R PROVE \E k \in P : k + 1 = r
    <3>1. r - 1 \in 1 .. Len(q) - 1 /\ (r - 1) + 1 = r
      BY <1>1
    <3>2. QED
      BY <2>1, <3>1
  <2>4. \A j, k \in P : j + 1 = k + 1 => j = k
    BY <2>1
  <2> HIDE DEF P, R
  <2>5. g \in [P -> R]
    BY <2>2
  <2>6. g \in Injection(P, R)
    BY <2>4, <2>5 DEF Injection, IsInjective
  <2>7. g \in Surjection(P, R)
    BY <2>3, <2>5 DEF Surjection
  <2>8. QED
    BY <2>6, <2>7 DEF Bijection
<1>3. IsFiniteSet(P)
  BY <1>1, TailsType
<1>4. IsFiniteSet(R) /\ Cardinality(R) = Cardinality(P) /\ Cardinality(P) \in Nat
  <2>1. ExistsBijection(P, R)
    BY <1>2 DEF ExistsBijection
  <2> HIDE DEF P, R
  <2>2. QED
    BY <1>2, <1>3, <2>1, FS_Bijection, FS_CardinalityType
<1>5. CASE Head(q).tail
  <2>1. TailsAt(q) = R \cup {1} /\ 1 \notin R
    BY <1>1, <1>5 DEF TailsAt
  <2> HIDE DEF P, R
  <2>2. Cardinality(R \cup {1}) = Cardinality(R) + 1
    BY <1>4, <2>1, FS_AddElement
  <2>3. QED
    BY <1>4, <1>5, <2>1, <2>2 DEF Tails, Count, P
<1>6. CASE ~Head(q).tail
  <2>1. TailsAt(q) = R
    BY <1>1, <1>6 DEF TailsAt
  <2> HIDE DEF P, R
  <2>2. QED
    BY <1>4, <1>6, <2>1 DEF Tails, Count, P
<1>7. QED
  BY <1>5, <1>6

(***************************************************************************)
(* The priority queue of the types.                                        *)
(***************************************************************************)
\* Every type of S is in it.
Order(q, S) ==
  /\ Len(q) \in Nat \ {0} /\ q \in [1 .. Len(q) -> S]
  /\ \A t \in S : \E k \in 1 .. Len(q) : q[k] = t

LEMMA Modulo ==
  ASSUME NEW n \in Nat \ {0}, NEW m \in 0 .. n - 1
  PROVE  m % n = m /\ (m + n) % n = m
<1>1. m % n = m
  OBVIOUS
<1>2. \A x \in Int : x % n \in 0 .. n - 1
  OBVIOUS
<1>3. (m + n) % n = m
  <2>1. m + n = n * 1 + m
    OBVIOUS
  <2>2. QED
    OBVIOUS
<1>4. QED
  BY <1>1, <1>3

LEMMA RotatedOrder ==
  ASSUME NEW S, NEW q, Order(q, S), NEW k \in 0 .. Len(q) - 1
  PROVE  Order(Rotated(q, k), S) /\ Rotated(q, k)[1] = q[k + 1]
<1>1. PICK n \in Nat \ {0} : n = Len(q) /\ q \in [1 .. n -> S] /\ k \in 0 .. n - 1
  BY DEF Order
<1>2. PICK r : r = Rotated(q, k)
  OBVIOUS
<1>3. DOMAIN q = 1 .. n
  BY <1>1
<1>4. r = [j \in 1 .. n |-> q[((j - 1 + k) % n) + 1]]
  BY <1>1, <1>2, <1>3 DEF Rotated
<1>5. ASSUME NEW j \in 1 .. n PROVE ((j - 1 + k) % n) + 1 \in 1 .. n
  <2>1. j - 1 + k \in Nat
    BY <1>1
  <2>2. \A x \in Nat : x % n \in 0 .. n - 1
    OBVIOUS
  <2>3. PICK m \in 0 .. n - 1 : m = (j - 1 + k) % n
    BY <2>1, <2>2
  <2>4. m + 1 \in 1 .. n
    OBVIOUS
  <2>5. QED
    BY <2>3, <2>4
<1>6. r \in [1 .. n -> S] /\ r \in Seq(S) /\ Len(r) = n
  <2>1. \A j \in 1 .. n : q[((j - 1 + k) % n) + 1] \in S
    BY <1>1, <1>5
  <2>2. r \in [1 .. n -> S]
    BY <1>4, <2>1
  <2>3. QED
    BY <2>2
<1>7. r[1] = q[k + 1]
  <2>1. (1 - 1 + k) % n = k
    BY <1>1, Modulo
  <2>2. QED
    BY <1>4, <2>1
<1>8. ASSUME NEW t \in S PROVE \E j \in 1 .. n : r[j] = t
  <2>1. PICK i \in 1 .. n : q[i] = t
    BY <1>1 DEF Order
  <2>2. k \in Nat /\ i - 1 \in 0 .. n - 1
    BY <1>1
  <2>3. CASE i - 1 >= k
    <3>1. i - k \in 1 .. n /\ (i - k) - 1 + k = i - 1
      BY <1>1, <2>2, <2>3
    <3>2. (i - 1) % n = i - 1
      BY <2>2, Modulo
    <3>3. r[i - k] = q[(i - 1) + 1]
      BY <1>4, <3>1, <3>2
    <3>4. QED
      BY <2>1, <3>1, <3>3
  <2>4. CASE i - 1 < k
    <3>1. (i - k) + n \in 1 .. n /\ ((i - k) + n) - 1 + k = (i - 1) + n
      BY <1>1, <2>2, <2>4
    <3>2. ((i - 1) + n) % n = i - 1
      BY <2>2, Modulo
    <3>3. r[(i - k) + n] = q[(i - 1) + 1]
      BY <1>4, <3>1, <3>2
    <3>4. QED
      BY <2>1, <3>1, <3>3
  <2>5. QED
    BY <2>2, <2>3, <2>4
<1>9. Order(r, S)
  BY <1>6, <1>8 DEF Order
<1>10. QED
  BY <1>2, <1>7, <1>9

LEMMA SmallestElement ==
  ASSUME NEW T \in SUBSET Nat, T # {}
  PROVE  \E n \in T : \A m \in T : n <= m
<1> DEFINE R == {pair \in Nat \X Nat : pair[1] < pair[2]}
<1>1. IsWellFoundedOn(R, Nat)
  BY NatLessThanWellFounded, Zenon DEF OpToRel
<1>2. PICK n \in T : \A m \in T : ~ (<<m, n>> \in R)
  <2> HIDE DEF R
  <2> QED
    BY <1>1, WFMin, Zenon
<1>3. \A m \in T : ~(m < n)
  BY <1>2
<1>4. QED
  BY <1>3

\* Arbitration turns the queue to a type with a packet, if there is one.
LEMMA ArbitratedOrder ==
  ASSUME NEW S, NEW a, Order(a.priority, S), DOMAIN a.ejFifo = S
  PROVE  Order(Arbitrated(a), S) /\ Head(Arbitrated(a)) \in S
<1>1. PICK q : q = a.priority
  OBVIOUS
<1>2. PICK n \in Nat \ {0} : n = Len(q) /\ q \in [1 .. n -> S]
  BY <1>1 DEF Order
<1>3. Order(Arbitrated(a), S)
  <2>1. CASE a.depacketizing \/ \A t \in S : ~HasCompletePacket(a, t)
    BY <2>1 DEF Arbitrated
  <2>2. CASE ~(a.depacketizing \/ \A t \in S : ~HasCompletePacket(a, t))
    <3>1. PICK t \in S : HasCompletePacket(a, t)
      BY <2>2
    <3>2. PICK j \in 1 .. n : q[j] = t
      BY <1>1, <1>2 DEF Order
    <3> DEFINE T == {k \in 0 .. n - 1 : HasCompletePacket(a, q[k + 1])}
    <3>3. j - 1 \in T
      <4>1. j - 1 \in 0 .. n - 1 /\ (j - 1) + 1 = j
        OBVIOUS
      <4>2. QED
        BY <3>1, <3>2, <4>1
    <3>4. PICK m \in T : \A k \in T : m <= k
      <4>1. T \subseteq 0 .. n - 1 /\ T # {}
        BY <3>3
      <4> HIDE DEF T
      <4>2. T \subseteq Nat
        BY <4>1
      <4>3. QED
        BY <4>1, <4>2, SmallestElement
    <3>5. \A i \in 1 .. m : ~HasCompletePacket(a, q[i])
      <4>1. SUFFICES ASSUME NEW i \in 1 .. m, HasCompletePacket(a, q[i]) PROVE FALSE
        OBVIOUS
      <4>2. i - 1 \in 0 .. n - 1 /\ (i - 1) + 1 = i /\ ~(m <= i - 1)
        OBVIOUS
      <4>3. i - 1 \in T
        BY <4>1, <4>2
      <4>4. QED
        BY <3>4, <4>2, <4>3
    <3>6. \E k \in 0 .. n - 1 : /\ HasCompletePacket(a, q[k + 1])
                                /\ \A i \in 1 .. k : ~HasCompletePacket(a, q[i])
      BY <3>4, <3>5
    <3>7. PICK c : c = CHOOSE k \in 0 .. n - 1 :
                         /\ HasCompletePacket(a, q[k + 1])
                         /\ \A i \in 1 .. k : ~HasCompletePacket(a, q[i])
      OBVIOUS
    <3>8. c \in 0 .. n - 1
      BY <3>6, <3>7, Zenon
    <3>9. Arbitrated(a) = Rotated(q, c)
      BY <1>1, <1>2, <2>2, <3>7, Zenon DEF Arbitrated
    <3>10. QED
      BY <1>1, <1>2, <3>8, <3>9, RotatedOrder
  <2>3. QED
    BY <2>1, <2>2
<1>4. ASSUME NEW r, Order(r, S) PROVE Head(r) \in S
  <2>1. r \in Seq(S) /\ r # <<>>
    BY <1>4 DEF Order
  <2>2. QED
    BY <2>1
<1>5. QED
  BY <1>3, <1>4

(***************************************************************************)
(* The receiving half of an adapter: one FIFO per type, whose complete     *)
(* packets the counters count.                                             *)
(***************************************************************************)
Fifos(a, S) ==
  /\ DOMAIN a.ejFifo = S /\ \A t \in S : a.ejFifo[t] \in Seq(FlitsOf({t}))
  /\ a.pushCount \in [S -> Nat] /\ a.popCount \in [S -> Nat]
  /\ \A t \in S : a.pushCount[t] = a.popCount[t] + Tails(a.ejFifo[t])

Receiver(a, S) ==
  /\ a.ejectReg \in FlitsOf(S) \cup {NoFlit} /\ Fifos(a, S)
  /\ Order(a.priority, S)
  /\ a.constructed \in Seq(FlitsOf(S))

Parts(S) == Seq(FlitsOf(S)) \ {<<>>}

Output(a, S) == a.outFifo \in Seq(Parts(S)) /\ a.outPacket \in Seq(FlitsOf(S))

IsOf(f, t) == f # NoFlit /\ f.tx.type = t

\* The flits of type t that the adapter holds.
Held(a, t) == Len(a.ejFifo[t]) + Count(IsOf(a.ejectReg, t))

LEMMA FlitsOfOne ==
  ASSUME NEW S, NEW f \in FlitsOf(S)
  PROVE  f \in FlitsOf({f.tx.type})
BY DEF FlitsOf

LEMMA FlitsOfSome ==
  ASSUME NEW S, NEW t \in S, NEW f \in FlitsOf({t})
  PROVE  f \in FlitsOf(S) /\ f.tx.type = t
BY DEF FlitsOf

LEMMA ReceiverKept ==
  ASSUME NEW S, NEW a, NEW b, Receiver(a, S), SameReceiver(a, b)
  PROVE  Receiver(b, S) /\ \A t \in S : Held(b, t) = Held(a, t)
BY DEF Receiver, Fifos, SameReceiver, Held

\* A flit is put into the FIFO of its type x, or taken out.
Files(a, b, f, x) ==
  /\ x = f.tx.type
  /\ b.ejFifo = [a.ejFifo EXCEPT ![x] = Append(@, f)]
  /\ b.pushCount = [a.pushCount EXCEPT ![x] = IF f.tail THEN @ + 1 ELSE @]
  /\ b.popCount = a.popCount

Unfiles(a, b, f, x, S) ==
  /\ Fifos(a, S) /\ x \in S /\ HasCompletePacket(a, x)
  /\ f = Head(a.ejFifo[x])
  /\ b.ejFifo = [a.ejFifo EXCEPT ![x] = Tail(@)]
  /\ b.popCount = [a.popCount EXCEPT ![x] = IF f.tail THEN @ + 1 ELSE @]
  /\ b.pushCount = a.pushCount

LEMMA Filed ==
  ASSUME NEW S, NEW a, Fifos(a, S), NEW f \in FlitsOf(S), NEW x, NEW b, Files(a, b, f, x)
  PROVE  /\ Fifos(b, S)
         /\ \A t \in S : Len(b.ejFifo[t]) = Len(a.ejFifo[t]) + Count(x = t)
<1>1. x \in S /\ f \in FlitsOf({x}) /\ f.tail \in BOOLEAN
  BY FlitFields, FlitsOfOne DEF Files
<1>2. PICK q \in Seq(FlitsOf({x})) : q = a.ejFifo[x]
  BY <1>1 DEF Fifos
<1>3. /\ b.ejFifo[x] = Append(q, f) /\ DOMAIN b.ejFifo = S
      /\ \A t \in S \ {x} : b.ejFifo[t] = a.ejFifo[t]
  BY <1>1, <1>2 DEF Fifos, Files
<1>4. Append(q, f) \in Seq(FlitsOf({x})) /\ Len(Append(q, f)) = Len(q) + 1
  BY <1>1, Appended
<1>5. Tails(Append(q, f)) = Tails(q) + Count(f.tail) /\ Tails(q) \in Nat
  BY <1>1, TailsAppend, TailsType
<1>6. PICK p \in [S -> Nat], c \in [S -> Nat] : p = a.pushCount /\ c = a.popCount
  BY DEF Fifos
<1>7. b.pushCount = [p EXCEPT ![x] = IF f.tail THEN @ + 1 ELSE @] /\ b.popCount = c
  BY <1>6 DEF Files
<1>8. b.pushCount \in [S -> Nat] /\ b.pushCount[x] = p[x] + Count(f.tail)
      /\ \A t \in S \ {x} : b.pushCount[t] = p[t]
  <2>1. b.pushCount \in [S -> Nat] /\ \A t \in S \ {x} : b.pushCount[t] = p[t]
    BY <1>1, <1>6, <1>7
  <2>2. b.pushCount[x] = IF f.tail THEN p[x] + 1 ELSE p[x]
    BY <1>1, <1>6, <1>7
  <2>3. p[x] \in Nat
    BY <1>1, <1>6
  <2>4. QED
    BY <2>1, <2>2, <2>3 DEF Count
<1>9. ASSUME NEW t \in S
      PROVE  /\ b.ejFifo[t] \in Seq(FlitsOf({t}))
             /\ b.pushCount[t] = b.popCount[t] + Tails(b.ejFifo[t])
             /\ Len(b.ejFifo[t]) = Len(a.ejFifo[t]) + Count(x = t)
  <2>1. CASE t = x
    <3>1. p[x] = c[x] + Tails(q)
      BY <1>1, <1>2, <1>6 DEF Fifos
    <3>2. p[x] + Count(f.tail) = c[x] + (Tails(q) + Count(f.tail))
      <4>1. p[x] \in Nat /\ c[x] \in Nat /\ Count(f.tail) \in Nat
        BY <1>1, <1>6 DEF Count
      <4>2. QED
        BY <1>5, <3>1, <4>1
    <3>3. QED
      BY <1>1, <1>2, <1>3, <1>4, <1>5, <1>7, <1>8, <2>1, <3>2 DEF Count
  <2>2. CASE t # x
    <3>1. b.ejFifo[t] = a.ejFifo[t] /\ b.pushCount[t] = a.pushCount[t] /\ b.popCount[t] = a.popCount[t]
      BY <1>3, <1>6, <1>7, <1>8, <2>2
    <3>2. a.ejFifo[t] \in Seq(FlitsOf({t})) /\ a.pushCount[t] = a.popCount[t] + Tails(a.ejFifo[t])
      BY DEF Fifos
    <3>3. Len(a.ejFifo[t]) = Len(a.ejFifo[t]) + Count(x = t)
      <4>1. Len(a.ejFifo[t]) \in Nat /\ Count(x = t) = 0
        BY <2>2, <3>2 DEF Count
      <4>2. QED
        BY <4>1
    <3>4. QED
      BY <3>1, <3>2, <3>3, Zenon
  <2>3. QED
    BY <2>1, <2>2
<1>10. Fifos(b, S)
  BY <1>3, <1>6, <1>7, <1>8, <1>9 DEF Fifos
<1>11. QED
  BY <1>9, <1>10

LEMMA EjectionStep ==
  ASSUME NEW S, NEW a, DOMAIN a = Fields, Receiver(a, S), NEW eject \in FlitsOf(S) \cup {NoFlit},
         NEW b, b = OutputEjection(a, eject)
  PROVE  /\ Receiver(b, S)
         /\ \A t \in S : Held(b, t) <= Held(a, t) + Count(IsOf(eject, t))
<1>1. PICK f \in FlitsOf(S) \cup {NoFlit} : f = Ejected(a, eject)
  BY DEF Receiver, Ejected
<1>2. \A t \in S : /\ Len(a.ejFifo[t]) \in Nat
                   /\ Count(IsOf(f, t)) <= Count(IsOf(a.ejectReg, t)) + Count(IsOf(eject, t))
                   /\ Count(IsOf(f, t)) \in Nat /\ Count(IsOf(a.ejectReg, t)) \in Nat
                   /\ Count(IsOf(eject, t)) \in Nat
  BY <1>1 DEF Receiver, Fifos, Ejected, IsOf, Count
<1>3. CASE f = NoFlit
  <2>1. b = a
    BY <1>1, <1>3 DEF OutputEjection
  <2>2. QED
    BY <1>2, <2>1 DEF Held
<1>4. CASE f # NoFlit /\ Len(a.ejFifo[f.tx.type]) >= EjectionDepth
  <2>1. b = [a EXCEPT !.ejectReg = f]
    BY <1>1, <1>4 DEF OutputEjection
  <2>2. /\ b.ejectReg = f /\ b.ejFifo = a.ejFifo /\ b.pushCount = a.pushCount
        /\ b.popCount = a.popCount /\ b.priority = a.priority /\ b.constructed = a.constructed
    BY <2>1 DEF Fields
  <2>3. Receiver(b, S)
    BY <2>2 DEF Receiver, Fifos
  <2>4. QED
    BY <1>2, <2>2, <2>3 DEF Held
<1>5. CASE f # NoFlit /\ ~(Len(a.ejFifo[f.tx.type]) >= EjectionDepth)
  <2>1. PICK x : x = f.tx.type
    OBVIOUS
  <2>2. b = [a EXCEPT !.ejectReg = NoFlit,
                      !.ejFifo[x] = Append(@, f),
                      !.pushCount[x] = IF f.tail THEN @ + 1 ELSE @]
    BY <1>1, <1>5, <2>1 DEF OutputEjection
  <2>3. /\ b.ejectReg = NoFlit /\ b.ejFifo = [a.ejFifo EXCEPT ![x] = Append(@, f)]
        /\ b.pushCount = [a.pushCount EXCEPT ![x] = IF f.tail THEN @ + 1 ELSE @]
        /\ b.popCount = a.popCount /\ b.priority = a.priority /\ b.constructed = a.constructed
    BY <2>2 DEF Fields
  <2>4. f \in FlitsOf(S) /\ Fifos(a, S)
    BY <1>5 DEF Receiver
  <2>5. /\ Fifos(b, S)
        /\ \A t \in S : Len(b.ejFifo[t]) = Len(a.ejFifo[t]) + Count(x = t)
    <3>1. Files(a, b, f, x)
      BY <2>1, <2>3 DEF Files
    <3>2. QED
      BY <2>4, <3>1, Filed
  <2>6. Receiver(b, S)
    BY <2>3, <2>5 DEF Receiver
  <2>7. \A t \in S : Count(IsOf(b.ejectReg, t)) = 0 /\ Count(x = t) = Count(IsOf(f, t))
    BY <1>5, <2>1, <2>3 DEF IsOf, Count
  <2>8. QED
    BY <1>2, <2>5, <2>6, <2>7 DEF Held
<1>6. QED
  BY <1>3, <1>4, <1>5

\* The FIFO of type x has one flit less.
OneLess(a, b, x, S) == \A t \in S : Len(b.ejFifo[t]) = Len(a.ejFifo[t]) - Count(x = t)

LEMMA Unfiled ==
  ASSUME NEW S, NEW a, NEW b, NEW f, NEW x, Unfiles(a, b, f, x, S)
  PROVE  Fifos(b, S) /\ f \in FlitsOf(S) /\ f \in FlitsOf({x}) /\ OneLess(a, b, x, S)
<1>0. Fifos(a, S) /\ x \in S /\ HasCompletePacket(a, x)
  BY DEF Unfiles
<1>1. PICK q \in Seq(FlitsOf({x})) : q = a.ejFifo[x]
  BY <1>0 DEF Fifos
<1>2. PICK p \in [S -> Nat], c \in [S -> Nat] : p = a.pushCount /\ c = a.popCount
  BY <1>0 DEF Fifos
<1>3. p[x] = c[x] + Tails(q) /\ p[x] > c[x] /\ Tails(q) \in Nat
  BY <1>0, <1>1, <1>2, TailsType DEF Fifos, HasCompletePacket
<1>4. q # <<>>
  <2>1. Tails(q) # 0
    BY <1>0, <1>2, <1>3
  <2>2. QED
    BY <2>1, TailsEmpty
<1>5. /\ Head(q) \in FlitsOf({x}) /\ Tail(q) \in Seq(FlitsOf({x}))
      /\ Len(Tail(q)) = Len(q) - 1 /\ Len(q) \in Nat
  BY <1>4, HeadTail
<1>6. f = Head(q) /\ f \in FlitsOf({x}) /\ f \in FlitsOf(S) /\ f.tail \in BOOLEAN
  <2>1. f = Head(q) /\ f \in FlitsOf({x})
    BY <1>1, <1>5 DEF Unfiles
  <2>2. f \in FlitsOf(S) /\ f.tail \in BOOLEAN
    BY <1>0, <2>1, FlitsOfSome, FlitFields
  <2>3. QED
    BY <2>1, <2>2
<1>7. Tails(q) = Count(f.tail) + Tails(Tail(q)) /\ Tails(Tail(q)) \in Nat
  BY <1>4, <1>5, <1>6, TailsTail, TailsType
<1>8. /\ b.ejFifo[x] = Tail(q) /\ DOMAIN b.ejFifo = S
      /\ \A t \in S \ {x} : b.ejFifo[t] = a.ejFifo[t]
  BY <1>0, <1>1 DEF Fifos, Unfiles
<1>9. b.popCount \in [S -> Nat] /\ b.popCount[x] = c[x] + Count(f.tail)
      /\ \A t \in S \ {x} : b.popCount[t] = c[t]
  BY <1>0, <1>2, <1>6 DEF Count, Unfiles
<1>10. ASSUME NEW t \in S
       PROVE  /\ b.ejFifo[t] \in Seq(FlitsOf({t}))
              /\ b.pushCount[t] = b.popCount[t] + Tails(b.ejFifo[t])
              /\ Len(b.ejFifo[t]) = Len(a.ejFifo[t]) - Count(x = t)
  <2>1. CASE t = x
    <3>1. p[x] = (c[x] + Count(f.tail)) + Tails(Tail(q))
      <4>1. p[x] \in Nat /\ c[x] \in Nat /\ Count(f.tail) \in Nat
        BY <1>0, <1>2 DEF Count
      <4>2. QED
        BY <1>3, <1>7, <4>1
    <3>2. QED
      BY <1>1, <1>2, <1>5, <1>8, <1>9, <2>1, <3>1 DEF Count, Unfiles
  <2>2. CASE t # x
    <3>1. b.ejFifo[t] = a.ejFifo[t] /\ b.pushCount[t] = a.pushCount[t] /\ b.popCount[t] = a.popCount[t]
      BY <1>2, <1>8, <1>9, <2>2 DEF Unfiles
    <3>2. a.ejFifo[t] \in Seq(FlitsOf({t})) /\ a.pushCount[t] = a.popCount[t] + Tails(a.ejFifo[t])
      BY <1>0 DEF Fifos
    <3>3. Len(a.ejFifo[t]) = Len(a.ejFifo[t]) - Count(x = t)
      <4>1. Len(a.ejFifo[t]) \in Nat /\ Count(x = t) = 0
        BY <2>2, <3>2 DEF Count
      <4>2. QED
        BY <4>1
    <3>4. QED
      BY <3>1, <3>2, <3>3, Zenon
  <2>3. QED
    BY <2>1, <2>2
<1>11. Fifos(b, S)
  BY <1>2, <1>8, <1>9, <1>10 DEF Fifos, Unfiles
<1>12. QED
  BY <1>6, <1>10, <1>11 DEF OneLess

\* A flit is taken of type Head(Arbitrated(a)), or none.
DepacketizationEffect(a, b, S) ==
  IF Takes(a)
  THEN LET x == Head(Arbitrated(a))
       IN  /\ x \in S /\ FlitTaken(a) \in FlitsOf({x})
           /\ \A t \in S : Held(b, t) = Held(a, t) - Count(x = t)
  ELSE \A t \in S : Held(b, t) = Held(a, t)

LEMMA DepacketizationStep ==
  ASSUME NEW S, NEW a, DOMAIN a = Fields, Receiver(a, S), Output(a, S),
         NEW b, b = OutputDepacketization(a)
  PROVE  Receiver(b, S) /\ Output(b, S) /\ DepacketizationEffect(a, b, S)
<1>1. PICK r : r = Arbitrated(a)
  OBVIOUS
<1>2. Order(r, S) /\ Head(r) \in S
  BY <1>1, ArbitratedOrder DEF Receiver, Fifos
<1>3. PICK x \in S : x = Head(r)
  BY <1>2
<1>4. CASE ~HasCompletePacket(a, x)
  <2>1. b = a /\ ~Takes(a)
    BY <1>1, <1>3, <1>4 DEF OutputDepacketization, Takes
  <2>2. QED
    BY <2>1 DEF DepacketizationEffect
<1>5. CASE HasCompletePacket(a, x) /\ ~Takes(a)
  <2>1. b = [a EXCEPT !.priority = r, !.depacketizing = TRUE]
    BY <1>1, <1>3, <1>5 DEF OutputDepacketization
  <2>2. /\ b.ejectReg = a.ejectReg /\ b.ejFifo = a.ejFifo /\ b.pushCount = a.pushCount
        /\ b.popCount = a.popCount /\ b.priority = r /\ b.constructed = a.constructed
        /\ b.outFifo = a.outFifo /\ b.outPacket = a.outPacket
    BY <2>1 DEF Fields
  <2>3. Receiver(b, S) /\ Output(b, S)
    BY <1>2, <2>2 DEF Receiver, Fifos, Output
  <2>4. QED
    BY <1>5, <2>2, <2>3 DEF DepacketizationEffect, Held
<1>6. CASE Takes(a)
  <2>1. HasCompletePacket(a, x)
    BY <1>1, <1>3, <1>6 DEF Takes
  <2>2. PICK f : f = FlitTaken(a)
    OBVIOUS
  <2>3. f = Head(a.ejFifo[x])
    BY <1>1, <1>3, <2>2 DEF FlitTaken
  <2>4. b = WithFlitTaken(a)
    BY <1>1, <1>3, <1>6, <2>1 DEF OutputDepacketization
  <2>5. b = [a EXCEPT !.ejFifo[x]     = Tail(@),
                      !.popCount[x]   = IF f.tail THEN @ + 1 ELSE @,
                      !.constructed   = IF f.tail THEN <<>> ELSE Append(a.constructed, f),
                      !.outFifo       = IF f.tail THEN Append(@, Append(a.constructed, f)) ELSE @,
                      !.depacketizing = ~f.tail,
                      !.priority      = IF f.tail THEN Rotated(r, 1) ELSE r]
    BY <1>1, <1>3, <2>2, <2>4 DEF WithFlitTaken
  <2>6. /\ b.ejectReg = a.ejectReg
        /\ b.ejFifo = [a.ejFifo EXCEPT ![x] = Tail(@)]
        /\ b.popCount = [a.popCount EXCEPT ![x] = IF f.tail THEN @ + 1 ELSE @]
        /\ b.pushCount = a.pushCount
        /\ b.constructed = (IF f.tail THEN <<>> ELSE Append(a.constructed, f))
        /\ b.outFifo = (IF f.tail THEN Append(a.outFifo, Append(a.constructed, f)) ELSE a.outFifo)
        /\ b.outPacket = a.outPacket
        /\ b.priority = (IF f.tail THEN Rotated(r, 1) ELSE r)
    BY <2>5 DEF Fields
  <2>7. /\ Fifos(b, S) /\ f \in FlitsOf(S) /\ f \in FlitsOf({x})
        /\ \A t \in S : Len(b.ejFifo[t]) = Len(a.ejFifo[t]) - Count(x = t)
    <3>1. Fifos(a, S)
      BY DEF Receiver
    <3>2. Unfiles(a, b, f, x, S)
      BY <1>3, <2>1, <2>3, <2>6, <3>1 DEF Unfiles
    <3>3. Fifos(b, S)
      BY <3>2, Unfiled
    <3>4. f \in FlitsOf(S) /\ f \in FlitsOf({x})
      BY <3>2, Unfiled
    <3>5. OneLess(a, b, x, S)
      BY <3>2, Unfiled
    <3>6. QED
      BY <3>3, <3>4, <3>5 DEF OneLess
  <2>8. Append(a.constructed, f) \in Parts(S) /\ Append(a.constructed, f) \in Seq(FlitsOf(S))
    <3>1. PICK c \in Seq(FlitsOf(S)) : c = a.constructed
      BY DEF Receiver
    <3>2. Append(c, f) \in Seq(FlitsOf(S)) /\ Append(c, f) # <<>>
      BY <2>7, Appended
    <3>3. QED
      BY <3>1, <3>2 DEF Parts
  <2>9. Order(b.priority, S)
    <3>1. CASE Len(r) > 1
      <4>1. 1 \in 0 .. Len(r) - 1
        BY <1>2, <3>1 DEF Order
      <4>2. QED
        BY <1>2, <2>6, <4>1, RotatedOrder
    <3>2. CASE ~(Len(r) > 1)
      <4>1. Len(r) = 1 /\ r \in [1 .. 1 -> S]
        BY <1>2, <3>2 DEF Order
      <4>2. Rotated(r, 1) = r
        <5>1. Rotated(r, 1) = [j \in 1 .. 1 |-> r[((j - 1 + 1) % 1) + 1]]
          BY <4>1 DEF Rotated
        <5>2. \A j \in 1 .. 1 : ((j - 1 + 1) % 1) + 1 = 1 /\ j = 1
          OBVIOUS
        <5>3. Rotated(r, 1) = [j \in 1 .. 1 |-> r[j]]
          BY <5>1, <5>2
        <5>4. QED
          BY <4>1, <5>3
      <4>3. QED
        BY <1>2, <2>6, <4>2
    <3>3. QED
      BY <3>1, <3>2
  <2>10. Receiver(b, S)
    BY <2>6, <2>7, <2>8, <2>9 DEF Receiver
  <2>11. Output(b, S)
    <3>1. PICK q \in Seq(Parts(S)) : q = a.outFifo
      BY DEF Output
    <3>2. Append(q, Append(a.constructed, f)) \in Seq(Parts(S))
      BY <2>8, Appended
    <3>3. QED
      BY <2>6, <3>1, <3>2 DEF Output
  <2>12. \A t \in S : Held(b, t) = Held(a, t) - Count(x = t)
    <3>1. ASSUME NEW t \in S PROVE Held(b, t) = Held(a, t) - Count(x = t)
      <4>1. Len(a.ejFifo[t]) \in Nat /\ Count(x = t) \in Nat
        BY DEF Receiver, Fifos, Count
      <4>2. PICK c \in Nat : c = Count(IsOf(a.ejectReg, t)) /\ c = Count(IsOf(b.ejectReg, t))
        BY <2>6 DEF Count
      <4>3. Len(b.ejFifo[t]) = Len(a.ejFifo[t]) - Count(x = t)
        BY <2>7
      <4>4. (Len(a.ejFifo[t]) - Count(x = t)) + c = (Len(a.ejFifo[t]) + c) - Count(x = t)
        BY <4>1
      <4>5. QED
        BY <4>2, <4>3, <4>4 DEF Held
    <3>2. QED
      BY <3>1
  <2>13. QED
    BY <1>1, <1>3, <1>6, <2>2, <2>7, <2>10, <2>11, <2>12 DEF DepacketizationEffect
<1>7. QED
  BY <1>4, <1>5, <1>6

\* OutputInterface, and what it presents.
LEMMA OutputStep ==
  ASSUME NEW S, NEW a, DOMAIN a = Fields, Output(a, S), NEW ready,
         NEW b, b = OutputInterface(a, ready)
  PROVE  Output(b, S)
<1>1. PICK q \in Seq(Parts(S)), p \in Seq(FlitsOf(S)) : q = a.outFifo /\ p = a.outPacket
  BY DEF Output
<1>2. /\ b.outFifo = (IF p = <<>> /\ q # <<>> THEN Tail(q) ELSE q)
      /\ b.outPacket = (IF Presented(a, ready) # NoTx THEN <<>> ELSE PacketAtHand(a))
  BY <1>1 DEF OutputInterface, Fields
<1>3. q # <<>> => Tail(q) \in Seq(Parts(S)) /\ Head(q) \in Seq(FlitsOf(S))
  BY HeadTail DEF Parts
<1>4. PacketAtHand(a) \in Seq(FlitsOf(S))
  BY <1>1, <1>3 DEF PacketAtHand
<1>5. QED
  BY <1>1, <1>2, <1>3, <1>4 DEF Output

LEMMA PresentedType ==
  ASSUME NEW S, NEW a, Output(a, S), NEW ready
  PROVE  Presented(a, ready) \in TxOf(S) \cup {NoTx}
<1>1. PICK q \in Seq(Parts(S)), p \in Seq(FlitsOf(S)) : q = a.outFifo /\ p = a.outPacket
  BY DEF Output
<1>2. q # <<>> => Head(q) \in Seq(FlitsOf(S))
  BY HeadTail DEF Parts
<1>3. PICK r \in Seq(FlitsOf(S)) : r = PacketAtHand(a)
  BY <1>1, <1>2 DEF PacketAtHand
<1>4. ASSUME r # <<>> PROVE r[1].tx \in TxOf(S)
  <2>1. r[1] \in FlitsOf(S)
    BY <1>4
  <2>2. QED
    BY <2>1, FlitFields DEF TxOf
<1>5. QED
  BY <1>3, <1>4 DEF Presented

(***************************************************************************)
(* The modules at both ends, and what the adapters capture from them.      *)
(***************************************************************************)
Cmds == [n : Nat, write : BOOLEAN]

\* A port shows transactions of its own type.
Port(port, S) == \A t \in S : port[t] \in TxOf({t}) \cup {NoTx}

RequesterOk(q) == q.fifo \in Seq(Cmds) /\ Port(q.port, Requests)

ResponderOk(p) ==
  /\ p.reads \in Seq(TxOf(Requests)) /\ p.waddrs \in Seq(TxOf(Requests))
  /\ p.wdata \in Seq(TxOf(Requests)) /\ p.resps \in Seq(TxOf(Responses))
  /\ Port(p.port, Responses)

LEMMA TxType ==
  ASSUME NEW t \in Types, NEW dest \in Nat, NEW user \in Nat, NEW n \in Nat
  PROVE  Modules!Tx(t, dest, user, n) \in TxOf({t})
BY DEF Modules!Tx, TxOf, Transactions

LEMMA TxOfOne ==
  ASSUME NEW S, NEW x \in TxOf(S)
  PROVE  x \in TxOf({x.type}) /\ x.type \in S
BY DEF TxOf

LEMMA TxOfSome ==
  ASSUME NEW S, NEW t \in S, NEW x \in TxOf({t})
  PROVE  x \in TxOf(S) /\ x.type = t
BY DEF TxOf

LEMMA PoppedType ==
  ASSUME NEW S, NEW q \in Seq(S), NEW b
  PROVE  Modules!Popped(q, b) \in Seq(S)
BY DEF Modules!Popped

LEMMA Nodes == RequesterNode \in Nat /\ ResponderNode \in Nat /\ 0 \in Nat
BY PathAssumption

LEMMA PortForType ==
  ASSUME NEW c \in Cmds, NEW awAccepted
  PROVE  Port(Modules!PortFor(c, awAccepted), Requests)
<1>1. c.n \in Nat /\ {"AR", "AW", "W"} \subseteq Types
  BY DEF Cmds, Types, Requests
<1>2. PICK ar, aw, w : /\ ar = Modules!Tx("AR", ResponderNode, RequesterNode, c.n)
                       /\ aw = Modules!Tx("AW", ResponderNode, RequesterNode, c.n)
                       /\ w = Modules!Tx("W", 0, RequesterNode, c.n)
  OBVIOUS
<1>3. ar \in TxOf({"AR"}) /\ aw \in TxOf({"AW"}) /\ w \in TxOf({"W"})
  BY <1>1, <1>2, Nodes, TxType
<1>4. Modules!PortFor(c, awAccepted) =
        IF c.write THEN [Modules!NoRequest EXCEPT !.AW = IF awAccepted THEN NoTx ELSE aw, !.W = w]
        ELSE [Modules!NoRequest EXCEPT !.AR = ar]
  BY <1>2 DEF Modules!PortFor
<1>5. QED
  BY <1>3, <1>4 DEF Modules!NoRequest, Port, Requests

LEMMA RequesterStep ==
  ASSUME NEW q, RequesterOk(q), NEW c \in Cmds \cup {NoTx}, NEW taken, NEW resp
  PROVE  RequesterOk(Modules!RequesterTick(q, c, taken, resp))
<1>1. PICK f \in Seq(Cmds) : f = Modules!Pushed(q, c)
  <2>1. PICK g \in Seq(Cmds) : g = q.fifo
    BY DEF RequesterOk
  <2>2. c # NoTx => Append(g, c) \in Seq(Cmds)
    OBVIOUS
  <2>3. Modules!Pushed(q, c) = g \/ (c # NoTx /\ Modules!Pushed(q, c) = Append(g, c))
    BY <2>1 DEF Modules!Pushed
  <2>4. QED
    BY <2>2, <2>3
<1>2. PICK r : r = Modules!RequesterTick(q, c, taken, resp)
  OBVIOUS
<1>3. /\ r.fifo = Modules!Popped(f, taken \cap {"W", "AR"} # {})
      /\ r.port = IF f = <<>> THEN Modules!NoRequest ELSE Modules!PortFor(Head(f), q.awAccepted)
  BY <1>1, <1>2 DEF Modules!RequesterTick
<1>4. r.fifo \in Seq(Cmds)
  BY <1>3, PoppedType
<1>5. Port(r.port, Requests)
  <2>1. Port(Modules!NoRequest, Requests)
    BY DEF Modules!NoRequest, Port, Requests
  <2>2. f # <<>> => Head(f) \in Cmds
    OBVIOUS
  <2>3. QED
    BY <1>3, <2>1, <2>2, PortForType
<1>6. QED
  BY <1>2, <1>4, <1>5 DEF RequesterOk

LEMMA ResponderStep ==
  ASSUME NEW p, ResponderOk(p), NEW req \in TxOf(Requests) \cup {NoTx}, NEW taken
  PROVE  ResponderOk(Modules!ResponderTick(p, req, taken))
<1> DEFINE T == TxOf(Requests)
           reads == IF Modules!Got(p, req, "AR") THEN Append(p.reads, req) ELSE p.reads
           waddrs == IF Modules!Got(p, req, "AW") THEN Append(p.waddrs, req) ELSE p.waddrs
           wdata == IF Modules!Got(p, req, "W") THEN Append(p.wdata, req) ELSE p.wdata
           read == reads # <<>>
           write == ~read /\ waddrs # <<>> /\ wdata # <<>>
           new == IF read THEN <<Modules!Tx("R", 0, Head(reads).user, Head(reads).n)>>
                  ELSE IF write THEN <<Modules!Tx("B", 0, Head(waddrs).user, Head(waddrs).n)>>
                  ELSE <<>>
           resps == p.resps \o new
<1>1. \A t : Modules!Got(p, req, t) => req \in T
  BY DEF Modules!Got
<1>2. PICK rs \in Seq(T), ws \in Seq(T), ds \in Seq(T) : rs = reads /\ ws = waddrs /\ ds = wdata
  <2>1. p.reads \in Seq(T) /\ p.waddrs \in Seq(T) /\ p.wdata \in Seq(T)
    BY DEF ResponderOk
  <2> HIDE DEF T
  <2>2. reads \in Seq(T) /\ waddrs \in Seq(T) /\ wdata \in Seq(T)
    BY <1>1, <2>1
  <2>3. QED
    BY <2>2
<1>3. new \in Seq(TxOf(Responses))
  <2>1. ASSUME NEW t \in Responses, NEW x \in T
        PROVE  Modules!Tx(t, 0, x.user, x.n) \in TxOf(Responses)
    <3>1. t \in Types /\ x.user \in Nat /\ x.n \in Nat
      BY TxFields DEF Types
    <3>2. QED
      BY <3>1, TxType, TxOfSome, Nodes
  <2>2. (rs # <<>> => Head(rs) \in T) /\ (ws # <<>> => Head(ws) \in T)
    OBVIOUS
  <2>3. "R" \in Responses /\ "B" \in Responses
    BY DEF Responses
  <2> HIDE DEF T, reads, waddrs, wdata
  <2>4. CASE read
    <3>1. new = <<Modules!Tx("R", 0, Head(rs).user, Head(rs).n)>>
      BY <1>2, <2>4
    <3>2. Modules!Tx("R", 0, Head(rs).user, Head(rs).n) \in TxOf(Responses)
      BY <1>2, <2>1, <2>2, <2>3, <2>4
    <3>3. QED
      BY <3>1, <3>2
  <2>5. CASE ~read /\ write
    <3>1. new = <<Modules!Tx("B", 0, Head(ws).user, Head(ws).n)>>
      BY <1>2, <2>5
    <3>2. Modules!Tx("B", 0, Head(ws).user, Head(ws).n) \in TxOf(Responses)
      BY <1>2, <2>1, <2>2, <2>3, <2>5
    <3>3. QED
      BY <3>1, <3>2
  <2>6. CASE ~read /\ ~write
    BY <2>6
  <2>7. QED
    BY <2>4, <2>5, <2>6
<1>4. PICK s \in Seq(TxOf(Responses)) : s = resps
  <2>1. p.resps \in Seq(TxOf(Responses))
    BY DEF ResponderOk
  <2> HIDE DEF new
  <2>2. p.resps \o new \in Seq(TxOf(Responses))
    BY <1>3, <2>1
  <2>3. QED
    BY <2>2
<1>5. PICK r : r = Modules!ResponderTick(p, req, taken)
  OBVIOUS
<1>6. /\ r.reads = Modules!Popped(rs, read) /\ r.waddrs = Modules!Popped(ws, write)
      /\ r.wdata = Modules!Popped(ds, write) /\ r.resps = Modules!Popped(s, taken # {})
      /\ r.port = (IF s = <<>> THEN Modules!NoResponse
                   ELSE [Modules!NoResponse EXCEPT ![Head(s).type] = Head(s)])
  BY <1>2, <1>4, <1>5 DEF Modules!ResponderTick
<1> HIDE DEF T, read, write
<1>7. /\ r.reads \in Seq(T) /\ r.waddrs \in Seq(T) /\ r.wdata \in Seq(T)
      /\ r.resps \in Seq(TxOf(Responses))
  BY <1>6, PoppedType
<1>8. Port(r.port, Responses)
  <2>1. CASE s = <<>>
    BY <1>6, <2>1 DEF Port, Modules!NoResponse, Responses
  <2>2. CASE s # <<>>
    <3>1. PICK h \in TxOf(Responses) : h = Head(s)
      BY <2>2
    <3>2. PICK t \in Responses : t = h.type /\ h \in TxOf({t})
      BY TxOfOne
    <3>3. r.port = [[R |-> NoTx, B |-> NoTx] EXCEPT ![t] = h]
      BY <1>6, <2>2, <3>1, <3>2 DEF Modules!NoResponse
    <3>4. QED
      BY <3>2, <3>3 DEF Port, Responses
  <2>3. QED
    BY <2>1, <2>2
<1>9. QED
  BY <1>5, <1>7, <1>8 DEF ResponderOk, T

LEMMA ModulesInit == RequesterOk(Modules!RequesterInit) /\ ResponderOk(Modules!ResponderInit)
BY DEF RequesterOk, ResponderOk, Modules!RequesterInit, Modules!ResponderInit,
       Modules!NoRequest, Modules!NoResponse, Port, Requests, Responses

(***************************************************************************)
(* The node clock of an adapter.                                           *)
(***************************************************************************)
Captures(a, b, S) == DOMAIN b = Fields /\ Input(b, S) /\ SameSender(a, b) /\ SameReceiver(a, b)

LEMMA Numbered ==
  ASSUME NEW t, NEW x \in TxOf({t}), NEW id \in Nat, NEW dest \in Nat
  PROVE  /\ [x EXCEPT !.id = id] \in TxOf({t})
         /\ [x EXCEPT !.dest = dest] \in TxOf({t})
BY DEF TxOf, Transactions

LEMMA SlaveCaptures ==
  ASSUME NEW a, DOMAIN a = Fields, Input(a, Requests), NEW old, Input(old, Requests),
         NEW port, Port(port, Requests), NEW ids \in [Types -> Nat],
         NEW b, b = SlaveInputInterface(a, old, port, ids)
  PROVE  Captures(a, b, Requests) /\ SameOutput(a, b)
<1>1. CASE SlaveReady(old, port) = {}
  <2>1. b = [a EXCEPT !.iReg = NoTx]
    BY <1>1 DEF SlaveInputInterface
  <2>2. QED
    BY <2>1 DEF Captures, SameOutput, Fields, Input, SameSender, SameReceiver
<1>2. CASE SlaveReady(old, port) # {}
  <2>1. PICK t : t = CHOOSE u \in SlaveReady(old, port) : TRUE
    OBVIOUS
  <2>2. t \in SlaveReady(old, port)
    BY <1>2, <2>1
  <2>3. t \in Requests /\ port[t] # NoTx
    <3>1. PICK k \in 1 .. 3 : t = OrderOf(old.setting)[k] /\ Asks(old, port, t)
      BY <2>2 DEF SlaveReady
    <3>2. old.setting = 0 \/ old.setting = 1 \/ old.setting = 2
      BY DEF Input
    <3>3. \A j \in 1 .. 3 : OrderOf(old.setting)[j] \in {"AR", "AW", "W"}
      BY <3>2 DEF OrderOf
    <3>4. QED
      BY <3>1, <3>3 DEF Asks, Requests
  <2>4. PICK x \in TxOf({t}) : x = [port[t] EXCEPT !.id = ids[t]]
    <3>1. port[t] \in TxOf({t}) /\ ids[t] \in Nat
      BY <2>3 DEF Port, Types
    <3>2. QED
      BY <3>1, Numbered, Nodes
  <2>5. PICK y \in TxOf({t}) : y = Addressed(x, old)
    <3>1. old.lastDest \in Nat
      BY DEF Input
    <3>2. QED
      BY <3>1, Numbered, Nodes DEF Addressed
  <2>6. y \in TxOf(Requests)
    BY <2>3, TxOfSome
  <2>7. b = [a EXCEPT !.iReg    = y,
                      !.setting = Setting(t),
                      !.gotAw   = CASE t = "AW" -> TRUE
                                    [] t = "W"  -> ~port[t].last
                                    [] t = "AR" -> @]
    BY <1>2, <2>1, <2>4, <2>5 DEF SlaveInputInterface
  <2>8. Setting(t) \in 0 .. 2
    BY <2>3 DEF Setting, Requests
  <2>9. QED
    BY <2>6, <2>7, <2>8 DEF Captures, SameOutput, Fields, Input, SameSender, SameReceiver
<1>3. QED
  BY <1>1, <1>2

LEMMA MasterCaptures ==
  ASSUME NEW a, DOMAIN a = Fields, Input(a, Responses), NEW old,
         NEW port, Port(port, Responses), NEW ids \in [Types -> Nat],
         NEW b, b = MasterInputInterface(a, old, port, ids)
  PROVE  Captures(a, b, Responses) /\ SameOutput(a, b)
<1>1. CASE MasterReady(old, port) = {}
  <2>1. b = [a EXCEPT !.iReg = NoTx]
    BY <1>1 DEF MasterInputInterface
  <2>2. QED
    BY <2>1 DEF Captures, SameOutput, Fields, Input, SameSender, SameReceiver
<1>2. CASE MasterReady(old, port) # {}
  <2>1. PICK t : t = CHOOSE u \in MasterReady(old, port) :
                       "R" \in MasterReady(old, port) => u = "R"
    OBVIOUS
  <2>2. t \in MasterReady(old, port)
    <3>1. \E u \in MasterReady(old, port) : "R" \in MasterReady(old, port) => u = "R"
      BY <1>2
    <3>2. QED
      BY <2>1, <3>1, Zenon
  <2>3. t \in Responses /\ port[t] # NoTx
    BY <2>2 DEF MasterReady
  <2>4. PICK p \in TxOf({t}) : p = port[t]
    BY <2>3 DEF Port
  <2>5. ids[t] \in Nat /\ p.user \in Nat
    BY <2>3, TxFields DEF Types
  <2>6. PICK y : y = [p EXCEPT !.id = ids[t], !.dest = p.user]
    OBVIOUS
  <2>7. y \in TxOf({t})
    BY <2>5, <2>6 DEF TxOf, Transactions
  <2>8. y \in TxOf(Responses)
    BY <2>3, <2>7, TxOfSome
  <2>9. b = [a EXCEPT !.iReg = y, !.setting = IF t = "R" THEN 1 ELSE 0]
    BY <1>2, <2>1, <2>4, <2>6 DEF MasterInputInterface
  <2>10. QED
    BY <2>8, <2>9 DEF Captures, SameOutput, Fields, Input, SameSender, SameReceiver
<1>3. QED
  BY <1>1, <1>2

(***************************************************************************)
(* An adapter that sends the types SS and receives the types RR.           *)
(***************************************************************************)
Adapter(a, SS, RR) ==
  DOMAIN a = Fields /\ Input(a, SS) /\ Sender(a, SS) /\ Receiver(a, RR) /\ Output(a, RR)

LEMMA NewAdapterOk ==
  ASSUME NEW SS, NEW RR, NEW received, Order(received, RR), ToSet(received) = RR
  PROVE  Adapter(NewAdapter(received), SS, RR) /\ \A t \in RR : Held(NewAdapter(received), t) = 0
<1>1. PICK a : a = NewAdapter(received)
  OBVIOUS
<1>2. /\ DOMAIN a = Fields /\ a.iReg = NoTx /\ a.lastDest = 0 /\ a.setting = 0
      /\ a.injFifo = <<>> /\ a.injReg = NoFlit /\ a.bufState = EmptyBuffer
      /\ a.ejectReg = NoFlit /\ a.ejFifo = [t \in RR |-> <<>>]
      /\ a.pushCount = [t \in RR |-> 0] /\ a.popCount = [t \in RR |-> 0]
      /\ a.priority = received /\ a.constructed = <<>> /\ a.outFifo = <<>> /\ a.outPacket = <<>>
  BY <1>1 DEF NewAdapter, Fields
<1>3. Sender(a, SS)
  <2>1. Stream(a) = <<>>
    BY <1>2 DEF Stream
  <2>2. Packets(<<>>) /\ \A v \in VCs : ~MidOf(<<>>, v)
    BY DEF Packets, MidOf
  <2>3. \A v \in VCs : Mid(a.bufState, v) = MidOf(Stream(a), v)
    BY <1>2, <2>1, EmptyBufferOk DEF MidOf, Mid, EmptyBuffer
  <2>4. QED
    BY <1>2, <2>1, <2>2, <2>3, EmptyBufferOk DEF Sender, Queued
<1>4. Receiver(a, RR)
  BY <1>2, TailsEmpty DEF Receiver, Fifos
<1>5. Input(a, SS) /\ Output(a, RR)
  BY <1>2 DEF Input, Output
<1>6. \A t \in RR : Held(a, t) = 0
  BY <1>2 DEF Held, IsOf, Count
<1>7. QED
  BY <1>1, <1>2, <1>3, <1>4, <1>5, <1>6 DEF Adapter

VcsOf(S) == {VcOf[t] : t \in S}

\* The flits of type t that the router still counts on this side.
Occupied(a, e, t) == Held(a, t) + Count(e = VcOf[t])

\* An edge takes a to b and the entry e of the map to d: no flit is forgotten.
Edged(a, b, e, d, SS, RR) ==
  /\ Adapter(b, SS, RR) /\ b.bufState = a.bufState /\ b.ejectReg = a.ejectReg
  /\ d \in VcsOf(RR) \cup {NoVC}
  /\ \A t \in RR : Occupied(b, d, t) <= Occupied(a, e, t)

LEMMA HeldType ==
  ASSUME NEW RR, NEW a, Receiver(a, RR), NEW t \in RR
  PROVE  Held(a, t) \in Nat
<1>1. PICK q \in Seq(FlitsOf({t})) : q = a.ejFifo[t]
  BY DEF Receiver, Fifos
<1>2. Len(q) \in Nat /\ Count(IsOf(a.ejectReg, t)) \in Nat
  BY DEF Count
<1>3. QED
  BY <1>1, <1>2 DEF Held

LEMMA AdapterEdge ==
  ASSUME NEW SS, NEW RR \in SUBSET Types, NEW a, Adapter(a, SS, RR),
         NEW old, Input(old, SS), NEW ratio, NEW b, b = AdapterClock(a, old, ratio),
         NEW e \in VcsOf(RR) \cup {NoVC}, NEW d,
         d = IF Takes(a) /\ e = NoVC THEN FlitTaken(a).vc ELSE e
  PROVE  Edged(a, b, e, d, SS, RR)
<1>1. PICK c : c = OutputDepacketization(a)
  OBVIOUS
<1>2. /\ DOMAIN c = Fields /\ SameInput(a, c) /\ SameSender(a, c) /\ c.ejectReg = a.ejectReg
      /\ Receiver(c, RR) /\ Output(c, RR) /\ DepacketizationEffect(a, c, RR)
  BY <1>1, DepacketizationKeeps, DepacketizationStep DEF Adapter
<1>3. Sender(c, SS) /\ Input(c, SS) /\ c.bufState = a.bufState
  BY <1>2, SenderKept DEF Adapter, SameInput, SameSender, Input
<1>4. b = InputPacketization(c, old, ratio)
  BY <1>1 DEF AdapterClock
<1>5. /\ DOMAIN b = Fields /\ Sender(b, SS) /\ Input(b, SS) /\ b.bufState = c.bufState
      /\ SameReceiver(c, b) /\ SameOutput(c, b)
  BY <1>2, <1>3, <1>4, PacketizationStep
<1>6. Receiver(b, RR) /\ Output(b, RR) /\ \A t \in RR : Held(b, t) = Held(c, t)
  BY <1>2, <1>5, ReceiverKept DEF SameOutput, Output
<1>7. Adapter(b, SS, RR) /\ b.bufState = a.bufState /\ b.ejectReg = a.ejectReg
  BY <1>2, <1>3, <1>5, <1>6 DEF Adapter, SameReceiver
<1>8. \A t \in RR : Held(a, t) \in Nat /\ Held(c, t) \in Nat /\ VcOf[t] \in VCs
  BY <1>2, HeldType, AximmAssumption DEF Adapter
<1>9. CASE Takes(a)
  <2>1. PICK x \in RR : /\ FlitTaken(a) \in FlitsOf({x})
                        /\ \A t \in RR : Held(c, t) = Held(a, t) - Count(x = t)
    BY <1>2, <1>9 DEF DepacketizationEffect
  <2>2. FlitTaken(a).vc = VcOf[x]
    BY <2>1, FlitFields
  <2>3. d \in VcsOf(RR) \cup {NoVC}
    BY <1>9, <2>2 DEF VcsOf
  <2>4. ASSUME NEW t \in RR PROVE Occupied(b, d, t) <= Occupied(a, e, t)
    <3>1. Held(b, t) = Held(a, t) - Count(x = t) /\ Held(a, t) \in Nat
      BY <1>6, <1>8, <2>1
    <3>2. Count(d = VcOf[t]) <= Count(e = VcOf[t]) + Count(x = t)
      <4>1. CASE e = NoVC
        <5>1. d = VcOf[x]
          BY <1>9, <2>2, <4>1
        <5>2. VcOf[x] = VcOf[t] => x = t
          BY AximmAssumption
        <5>3. QED
          BY <5>1, <5>2 DEF Count
      <4>2. CASE e # NoVC
        <5>1. d = e
          BY <1>9, <4>2
        <5>2. QED
          BY <5>1 DEF Count
      <4>3. QED
        BY <4>1, <4>2
    <3>3. PICK i \in 0 .. 1, j \in 0 .. 1, k \in 0 .. 1 :
            i = Count(d = VcOf[t]) /\ j = Count(e = VcOf[t]) /\ k = Count(x = t)
      BY DEF Count
    <3>4. i <= j + k /\ Held(b, t) = Held(a, t) - k
      BY <3>1, <3>2, <3>3
    <3>5. Held(b, t) + i <= Held(a, t) + j
      BY <3>1, <3>3, <3>4
    <3>6. QED
      BY <3>3, <3>5 DEF Occupied
  <2>5. QED
    BY <1>7, <2>3, <2>4 DEF Edged
<1>10. CASE ~Takes(a)
  <2>1. d = e /\ \A t \in RR : Held(c, t) = Held(a, t)
    BY <1>2, <1>10 DEF DepacketizationEffect
  <2>2. ASSUME NEW t \in RR PROVE Occupied(b, d, t) <= Occupied(a, e, t)
    <3>1. Held(b, t) = Held(a, t) /\ Held(a, t) \in Nat
      BY <1>6, <1>8, <2>1
    <3>2. Occupied(b, d, t) = Occupied(a, e, t) /\ Occupied(a, e, t) \in Nat
      BY <2>1, <3>1 DEF Occupied, Count
    <3>3. QED
      BY <3>2
  <2>3. QED
    BY <1>7, <2>1, <2>2 DEF Edged
<1>11. QED
  BY <1>9, <1>10

\* Neither the node clock nor no edge at all changes what is counted.
LEMMA NotEdged ==
  ASSUME NEW SS, NEW RR, NEW a, Adapter(a, SS, RR), NEW b, Adapter(b, SS, RR),
         b.bufState = a.bufState, b.ejectReg = a.ejectReg, \A t \in RR : Held(b, t) = Held(a, t),
         NEW e \in VcsOf(RR) \cup {NoVC}
  PROVE  Edged(a, b, e, e, SS, RR)
<1>1. ASSUME NEW t \in RR PROVE Occupied(b, e, t) <= Occupied(a, e, t)
  <2>1. Occupied(b, e, t) = Occupied(a, e, t)
    BY DEF Occupied
  <2>2. Occupied(a, e, t) \in Nat
    BY HeldType DEF Adapter, Occupied, Count
  <2>3. QED
    BY <2>1, <2>2
<1>2. QED
  BY <1>1 DEF Edged

LEMMA Captured ==
  ASSUME NEW SS, NEW RR, NEW a, Adapter(a, SS, RR), NEW c, Captures(a, c, SS), SameOutput(a, c),
         NEW ready, NEW b, b = OutputInterface(c, ready)
  PROVE  /\ Adapter(b, SS, RR) /\ b.bufState = a.bufState /\ b.ejectReg = a.ejectReg
         /\ \A t \in RR : Held(b, t) = Held(a, t)
<1>1. /\ DOMAIN c = Fields /\ Input(c, SS) /\ Sender(c, SS) /\ Receiver(c, RR) /\ Output(c, RR)
      /\ \A t \in RR : Held(c, t) = Held(a, t)
  BY SenderKept, ReceiverKept DEF Captures, Adapter, SameOutput, Output
<1>2. DOMAIN b = Fields /\ SameInput(c, b) /\ SameSender(c, b) /\ SameReceiver(c, b)
  BY <1>1, OutputKeeps
<1>3. Output(b, RR)
  BY <1>1, OutputStep
<1>4. Sender(b, SS) /\ Receiver(b, RR) /\ \A t \in RR : Held(b, t) = Held(c, t)
  BY <1>1, <1>2, SenderKept, ReceiverKept
<1>5. Input(b, SS)
  BY <1>1, <1>2 DEF Input, SameInput
<1>6. b.bufState = a.bufState /\ b.ejectReg = a.ejectReg
  BY <1>2 DEF Captures, SameSender, SameReceiver
<1>7. QED
  BY <1>1, <1>2, <1>3, <1>4, <1>5, <1>6 DEF Adapter

(***************************************************************************)
(* One direction: from the adapter a over the NoC n to the adapter b, for  *)
(* the types S.  c is the credit a has not seen, f the flit b has not      *)
(* looked at.                                                              *)
(***************************************************************************)
Mids(a) == [v \in VCs |-> Mid(a.bufState, v)]

SentCount(a, n, c) ==
  \A v \in VCs : a.bufState.occupancy[v] =
                   (Len(n.rbuf[v]) + Count(On(n.inject, v))) + Count(c = v)

SlotCount(n, b, f, S) ==
  \A t \in S : Occupied(b, n.ejected, t) + Count(IsOf(f, t)) <= n.out.occupancy[VcOf[t]]

Direction(a, n, b, S, c, f) ==
  /\ NocTypes(n, S) /\ n.ejected \in VcsOf(S) \cup {NoVC}
  /\ AllLinked(n, Mids(a)) /\ SentCount(a, n, c) /\ SlotCount(n, b, f, S)

LEMMA LenBuffers ==
  ASSUME NEW S, NEW n, NocTypes(n, S), NEW v \in VCs
  PROVE  Len(n.rbuf[v]) \in Nat /\ n.out.occupancy[v] \in Nat
BY BufferSize DEF NocTypes, BufferOk

\* A credit that the adapter is about to see is for a flit it has counted.
LEMMA CreditDue ==
  ASSUME NEW S, NEW a, NEW n, NEW b, NEW c \in VCs \cup {NoVC}, NEW f, Direction(a, n, b, S, c, f)
  PROVE  c # NoVC => a.bufState.occupancy[c] > 0
<1>1. SUFFICES ASSUME c \in VCs PROVE a.bufState.occupancy[c] > 0
  OBVIOUS
<1>2. a.bufState.occupancy[c] = (Len(n.rbuf[c]) + Count(On(n.inject, c))) + Count(c = c)
  BY <1>1 DEF Direction, SentCount
<1>3. Len(n.rbuf[c]) \in Nat /\ Count(On(n.inject, c)) \in Nat /\ Count(c = c) = 1
  BY <1>1, LenBuffers DEF Direction, Count
<1>4. QED
  BY <1>2, <1>3

LEMMA DirectionInjects ==
  ASSUME NEW S, NEW a, Sender(a, S), NEW n, NEW b, NEW f, n.inject = NoFlit,
         Direction(a, n, b, S, n.credit, f),
         NEW d, Sender(d, S), SendStep(a, d, n.credit, S),
         NEW m, m.inject = (IF CanInject(a) THEN NextFlit(a) ELSE n.inject),
         m.credit = n.credit, m.rbuf = n.rbuf, m.out = n.out, m.eject = n.eject,
         m.ejected = n.ejected
  PROVE  Direction(d, m, b, S, NoVC, f)
<1>1. NocTypes(n, S)
  BY DEF Direction
<1>2. CASE ~CanInject(a)
  <2>1. m.inject = n.inject
    BY <1>2
  <2>2. NocTypes(m, S) /\ m.ejected \in VcsOf(S) \cup {NoVC}
    BY <1>1, <2>1 DEF NocTypes, Direction
  <2>3. ASSUME NEW v \in VCs
        PROVE  /\ Linked(Mid(m.out, v), Line(m, v), Mids(d)[v])
               /\ d.bufState.occupancy[v] = (Len(m.rbuf[v]) + Count(On(m.inject, v))) + Count(NoVC = v)
    <3>1. Line(m, v) = Line(n, v) /\ Mids(d)[v] = Mids(a)[v]
      BY <1>2, <2>1 DEF Line, Mids, SendStep
    <3>2. d.bufState.occupancy[v] = (a.bufState.occupancy[v] + 0) - Count(n.credit = v)
      BY <1>2 DEF SendStep, Count
    <3>3. a.bufState.occupancy[v] = (Len(n.rbuf[v]) + Count(On(n.inject, v))) + Count(n.credit = v)
      BY DEF Direction, SentCount
    <3>4. Len(n.rbuf[v]) \in Nat /\ Count(On(n.inject, v)) \in Nat /\ Count(n.credit = v) \in Nat
      BY <1>1, LenBuffers DEF Count
    <3>5. Count(NoVC = v) = 0 /\ Count(On(m.inject, v)) = Count(On(n.inject, v))
      BY <2>1, PathAssumption DEF Count
    <3>6. Linked(Mid(n.out, v), Line(n, v), Mids(a)[v])
      BY DEF Direction, AllLinked
    <3>7. d.bufState.occupancy[v] = (Len(n.rbuf[v]) + Count(On(n.inject, v))) + 0
      BY <3>2, <3>3, <3>4
    <3>8. QED
      BY <3>1, <3>5, <3>6, <3>7
  <2>4. SlotCount(m, b, f, S)
    BY DEF Direction, SlotCount
  <2>5. QED
    BY <2>2, <2>3, <2>4 DEF Direction, AllLinked, SentCount
<1>3. CASE CanInject(a)
  <2>1. PICK g \in FlitsOf(S) : g = NextFlit(a) /\ Injects(a, d, g, S)
    BY <1>3 DEF SendStep, Injects
  <2>2. m.inject = g /\ g # NoFlit /\ g.vc \in VCs /\ g.tail \in BOOLEAN /\ g.head \in BOOLEAN
    BY <1>3, <2>1, FlitFields
  <2>3. NocTypes(m, S) /\ m.ejected \in VcsOf(S) \cup {NoVC}
    BY <1>1, <2>2 DEF NocTypes, Direction
  <2>4. ASSUME NEW v \in VCs
        PROVE  d.bufState.occupancy[v] = (Len(m.rbuf[v]) + Count(On(m.inject, v))) + Count(NoVC = v)
    <3>1. d.bufState.occupancy[v] =
            (a.bufState.occupancy[v] + Count(CanInject(a) /\ g.vc = v)) - Count(n.credit = v)
      BY <2>1 DEF SendStep
    <3>2. a.bufState.occupancy[v] = (Len(n.rbuf[v]) + Count(On(n.inject, v))) + Count(n.credit = v)
      BY DEF Direction, SentCount
    <3>3. Len(n.rbuf[v]) \in Nat /\ Count(On(n.inject, v)) = 0 /\ Count(n.credit = v) \in Nat
      BY <1>1, LenBuffers DEF Count, On
    <3>4. Count(NoVC = v) = 0 /\ Count(CanInject(a) /\ g.vc = v) = Count(On(m.inject, v))
          /\ Count(On(m.inject, v)) \in Nat
      BY <1>3, <2>2, PathAssumption DEF Count, On
    <3>5. d.bufState.occupancy[v] = Len(n.rbuf[v]) + Count(On(m.inject, v))
      BY <3>1, <3>2, <3>3, <3>4
    <3>6. QED
      BY <3>3, <3>4, <3>5
  <2>5. ASSUME NEW v \in VCs PROVE Linked(Mid(m.out, v), Line(m, v), Mids(d)[v])
    <3>1. Line(n, v) = n.rbuf[v] /\ n.rbuf[v] \in Seq(FlitsOf(S))
      <4>1. n.inject = NoFlit => Line(n, v) = n.rbuf[v]
        BY <1>1, LineType
      <4>2. n.rbuf[v] \in Seq(FlitsOf(S))
        BY <1>1 DEF NocTypes
      <4>3. QED
        BY <4>1, <4>2
    <3>2. Linked(Mid(n.out, v), n.rbuf[v], Mids(a)[v])
      BY <3>1 DEF Direction, AllLinked
    <3>3. CASE v = g.vc
      <4>1. Line(m, v) = n.rbuf[v] \o <<g>>
        BY <2>2, <3>3 DEF Line, On
      <4>2. n.rbuf[v] \o <<g>> = Append(n.rbuf[v], g)
        BY <3>1
      <4>3. g.head = ~Mids(a)[v] /\ Mids(d)[v] = ~g.tail
        BY <2>1, <2>2, <3>3 DEF Injects, Mids
      <4>4. Mid(n.out, v) \in BOOLEAN /\ Mids(a)[v] \in BOOLEAN
        BY DEF Mids, Mid
      <4>5. Linked(Mid(n.out, v), Append(n.rbuf[v], g), ~g.tail)
        BY <3>1, <3>2, <4>3, <4>4, LinkedAppend
      <4>6. QED
        BY <4>1, <4>2, <4>3, <4>5
    <3>4. CASE v # g.vc
      <4>1. Line(m, v) = n.rbuf[v] \o <<>> /\ Mids(d)[v] = Mids(a)[v]
        BY <2>1, <2>2, <3>4 DEF Line, On, Injects, Mids
      <4>2. n.rbuf[v] \o <<>> = n.rbuf[v]
        BY <3>1
      <4>3. QED
        BY <3>2, <4>1, <4>2
    <3>5. QED
      BY <3>3, <3>4
  <2>6. SlotCount(m, b, f, S)
    BY DEF Direction, SlotCount
  <2>7. QED
    BY <2>3, <2>4, <2>5, <2>6 DEF Direction, AllLinked, SentCount
<1>4. QED
  BY <1>2, <1>3

LEMMA DirectionTicks ==
  ASSUME NEW S \in SUBSET Types, NEW a, NEW n, NEW b, Receiver(b, S),
         Direction(a, n, b, S, NoVC, NoFlit), NEW m, NocStep(n, m)
  PROVE  Direction(a, m, b, S, m.credit, m.eject) /\ m.inject = NoFlit
<1>1. NocTypes(n, S)
  BY DEF Direction
<1>2. \A t \in S : /\ Held(b, t) \in Nat /\ VcOf[t] \in VCs
                   /\ n.out.occupancy[VcOf[t]] \in Nat
  BY <1>1, HeldType, LenBuffers, AximmAssumption
<1>3. n.ejected # NoVC => n.out.occupancy[n.ejected] > 0
  <2>1. SUFFICES ASSUME n.ejected # NoVC PROVE n.out.occupancy[n.ejected] > 0
    OBVIOUS
  <2>2. PICK t \in S : n.ejected = VcOf[t]
    BY <2>1 DEF Direction, VcsOf
  <2>3. /\ Occupied(b, n.ejected, t) + Count(IsOf(NoFlit, t)) <= n.out.occupancy[VcOf[t]]
        /\ Occupied(b, n.ejected, t) = Held(b, t) + 1 /\ Count(IsOf(NoFlit, t)) = 0
    BY <2>2 DEF Direction, SlotCount, Occupied, Count, IsOf
  <2>4. QED
    BY <1>2, <2>2, <2>3
<1>4. Mids(a) \in [VCs -> BOOLEAN] /\ AllLinked(n, Mids(a))
  BY DEF Mids, Mid, Direction
<1>5. Cycled(n, m, Mids(a), S)
  BY <1>1, <1>3, <1>4, NocCycled
<1>6. SentCount(a, m, m.credit)
  <2>1. ASSUME NEW v \in VCs
        PROVE  a.bufState.occupancy[v] =
                 (Len(m.rbuf[v]) + Count(On(m.inject, v))) + Count(m.credit = v)
    <3>1. a.bufState.occupancy[v] = (Len(n.rbuf[v]) + Count(On(n.inject, v))) + Count(NoVC = v)
      BY DEF Direction, SentCount
    <3>2. Len(m.rbuf[v]) + Count(m.credit = v) = Len(n.rbuf[v]) + Count(On(n.inject, v))
      BY <1>5 DEF Cycled
    <3>3. Count(NoVC = v) = 0 /\ Count(On(m.inject, v)) = 0
      BY <1>5, PathAssumption DEF Cycled, On, Count
    <3>4. Len(m.rbuf[v]) \in Nat /\ Len(n.rbuf[v]) \in Nat /\ Count(m.credit = v) \in Nat
          /\ Count(On(n.inject, v)) \in Nat
      BY <1>1, <1>5, LenBuffers DEF Cycled, Count
    <3>5. QED
      BY <3>1, <3>2, <3>3, <3>4
  <2>2. QED
    BY <2>1 DEF SentCount
<1>7. SlotCount(m, b, m.eject, S)
  <2>1. ASSUME NEW t \in S
        PROVE  Occupied(b, m.ejected, t) + Count(IsOf(m.eject, t)) <= m.out.occupancy[VcOf[t]]
    <3>1. Occupied(b, n.ejected, t) + Count(IsOf(NoFlit, t)) <= n.out.occupancy[VcOf[t]]
      BY DEF Direction, SlotCount
    <3>2. m.out.occupancy[VcOf[t]] =
            (n.out.occupancy[VcOf[t]] - Count(n.ejected = VcOf[t])) + Count(On(m.eject, VcOf[t]))
      BY <1>2, <1>5 DEF Cycled
    <3>3. On(m.eject, VcOf[t]) <=> IsOf(m.eject, t)
      <4>1. CASE m.eject = NoFlit
        BY <4>1 DEF On, IsOf
      <4>2. CASE m.eject # NoFlit
        <5>1. m.eject \in FlitsOf(S)
          BY <1>5, <4>2 DEF Cycled, NocTypes
        <5>2. m.eject.vc = VcOf[m.eject.tx.type] /\ m.eject.tx.type \in Types
          BY <5>1, FlitFields
        <5>3. VcOf[m.eject.tx.type] = VcOf[t] <=> m.eject.tx.type = t
          BY <5>2, AximmAssumption
        <5>4. QED
          BY <4>2, <5>2, <5>3 DEF On, IsOf
      <4>3. QED
        BY <4>1, <4>2
    <3>4. m.ejected = NoVC /\ NoVC # VcOf[t]
      BY <1>2, <1>5, PathAssumption DEF Cycled
    <3>5. PICK i \in 0 .. 1, j \in 0 .. 1 :
            i = Count(n.ejected = VcOf[t]) /\ j = Count(IsOf(m.eject, t))
            /\ j = Count(On(m.eject, VcOf[t]))
      BY <3>3 DEF Count
    <3>6. Occupied(b, n.ejected, t) = Held(b, t) + i /\ Count(IsOf(NoFlit, t)) = 0
          /\ Occupied(b, m.ejected, t) = Held(b, t)
      <4>1. Count(m.ejected = VcOf[t]) = 0 /\ Count(IsOf(NoFlit, t)) = 0
        BY <3>4 DEF Count, IsOf
      <4>2. Held(b, t) + 0 = Held(b, t)
        BY <1>2
      <4>3. QED
        BY <3>5, <4>1, <4>2 DEF Occupied
    <3>7. Held(b, t) + j <= (n.out.occupancy[VcOf[t]] - i) + j
      <4>1. (Held(b, t) + i) + 0 <= n.out.occupancy[VcOf[t]]
        BY <3>1, <3>6
      <4>2. QED
        BY <1>2, <4>1
    <3>8. QED
      BY <3>2, <3>5, <3>6, <3>7
  <2>2. QED
    BY <2>1 DEF SlotCount
<1>8. QED
  BY <1>5, <1>6, <1>7 DEF Cycled, Direction

LEMMA DirectionEjects ==
  ASSUME NEW S \in SUBSET Types, NEW a, NEW n, NEW b, Receiver(b, S), NEW c, NEW f,
         Direction(a, n, b, S, c, f), NEW d, Receiver(d, S),
         \A t \in S : Held(d, t) <= Held(b, t) + Count(IsOf(f, t))
  PROVE  Direction(a, n, d, S, c, NoFlit)
<1>1. ASSUME NEW t \in S
      PROVE  Occupied(d, n.ejected, t) + Count(IsOf(NoFlit, t)) <= n.out.occupancy[VcOf[t]]
  <2>1. Occupied(b, n.ejected, t) + Count(IsOf(f, t)) <= n.out.occupancy[VcOf[t]]
    BY DEF Direction, SlotCount
  <2>2. PICK i \in 0 .. 1, j \in 0 .. 1 :
          i = Count(n.ejected = VcOf[t]) /\ j = Count(IsOf(f, t))
    BY DEF Count
  <2>3. Held(b, t) \in Nat /\ Held(d, t) \in Nat /\ VcOf[t] \in VCs
    BY HeldType, AximmAssumption
  <2>4. n.out.occupancy[VcOf[t]] \in Nat
    BY <2>3, LenBuffers DEF Direction
  <2>5. Held(d, t) <= Held(b, t) + j /\ (Held(b, t) + i) + j <= n.out.occupancy[VcOf[t]]
    BY <2>1, <2>2 DEF Occupied
  <2>6. (Held(d, t) + i) + 0 <= n.out.occupancy[VcOf[t]]
    BY <2>3, <2>4, <2>5
  <2>7. Count(IsOf(NoFlit, t)) = 0 /\ Occupied(d, n.ejected, t) = Held(d, t) + i
    BY <2>2 DEF Count, IsOf, Occupied
  <2>8. QED
    BY <2>6, <2>7
<1>2. QED
  BY <1>1 DEF Direction, SlotCount

\* An edge of the node and adapter clocks at either end.
LEMMA DirectionEdged ==
  ASSUME NEW S \in SUBSET Types, NEW a, NEW n, NEW b, Receiver(b, S), NEW c, NEW f,
         Direction(a, n, b, S, c, f), NEW d, d.bufState = a.bufState,
         NEW g, NEW SS, NEW m, Edged(b, g, n.ejected, m.ejected, SS, S),
         m.inject = n.inject, m.credit = n.credit, m.rbuf = n.rbuf, m.out = n.out,
         m.eject = n.eject
  PROVE  Direction(d, m, g, S, c, f)
<1>1. ASSUME NEW t \in S
      PROVE  Occupied(g, m.ejected, t) + Count(IsOf(f, t)) <= m.out.occupancy[VcOf[t]]
  <2>1. Occupied(b, n.ejected, t) + Count(IsOf(f, t)) <= n.out.occupancy[VcOf[t]]
    BY DEF Direction, SlotCount
  <2>2. Occupied(g, m.ejected, t) <= Occupied(b, n.ejected, t)
    BY DEF Edged
  <2>3. Occupied(b, n.ejected, t) \in Nat /\ Occupied(g, m.ejected, t) \in Nat
    BY HeldType DEF Occupied, Count, Edged, Adapter
  <2>4. VcOf[t] \in VCs
    BY AximmAssumption
  <2>5. n.out.occupancy[VcOf[t]] \in Nat /\ Count(IsOf(f, t)) \in Nat
    BY <2>4, LenBuffers DEF Direction, Count
  <2>6. QED
    BY <2>1, <2>2, <2>3, <2>5
<1>2. NocTypes(m, S) /\ m.ejected \in VcsOf(S) \cup {NoVC}
  <2>1. m.ejected \in VcsOf(S) \cup {NoVC} /\ VcsOf(S) \subseteq VCs
    BY AximmAssumption DEF Edged, VcsOf
  <2>2. QED
    BY <2>1 DEF Direction, NocTypes
<1>3. AllLinked(m, Mids(d)) /\ SentCount(d, m, c)
  BY DEF Direction, AllLinked, Mids, Line, SentCount
<1>4. QED
  BY <1>1, <1>2, <1>3 DEF Direction, SlotCount

(***************************************************************************)
(* The threads of the NoC clock: whose turn it is, and whether an adapter  *)
(* has seen what the last Tick presented.                                  *)
(***************************************************************************)
Before(s, t) == \E j, k \in 1 .. 3 : j < k /\ NocOrder[j] = s /\ NocOrder[k] = t

PhaseOk == pending \in {NocOrder, Tail(NocOrder), Tail(Tail(NocOrder)), <<>>}

Done(s, P) ==
  IF Before(s, "Tick") THEN s \notin P /\ "Tick" \in P ELSE s \notin P \/ "Tick" \in P

LEMMA CreditSeenDone ==
  ASSUME NEW s
  PROVE  /\ CreditSeen(s) <=> Done(s, ToSet(pending))
         /\ CreditSeen(s)' <=> Done(s, ToSet(pending'))
BY DEF CreditSeen, Done, Before

LEMMA Threads ==
  \E x \in NocThreads, y \in NocThreads, z \in NocThreads :
    /\ NocOrder = <<x, y, z>> /\ x # y /\ x # z /\ y # z /\ NocThreads = {x, y, z}
    /\ \A s, t : Before(s, t) <=> (s = x /\ t \in {y, z}) \/ (s = y /\ t = z)
<1>1. PICK o \in Seq(NocThreads) : o = NocOrder /\ Len(o) = 3 /\ ToSet(o) = NocThreads
  BY PathAssumption
<1>2. PICK x \in NocThreads, y \in NocThreads, z \in NocThreads : x = o[1] /\ y = o[2] /\ z = o[3]
  BY <1>1
<1>3. o = <<x, y, z>>
  BY <1>1, <1>2
<1>4. NocThreads = {x, y, z}
  <2>1. \A t \in NocThreads : \E k \in DOMAIN o : o[k] = t
    BY <1>1 DEF ToSet
  <2>2. DOMAIN o = 1 .. 3
    BY <1>1
  <2>3. \A t \in NocThreads : t \in {x, y, z}
    BY <1>2, <2>1, <2>2
  <2>4. QED
    BY <2>3
<1>5. x # y /\ x # z /\ y # z
  <2>1. /\ x = "Tick" \/ y = "Tick" \/ z = "Tick"
        /\ x = "SlaveNoc" \/ y = "SlaveNoc" \/ z = "SlaveNoc"
        /\ x = "MasterNoc" \/ y = "MasterNoc" \/ z = "MasterNoc"
    BY <1>4 DEF NocThreads
  <2>2. QED
    BY <2>1
<1>6. ASSUME NEW s, NEW t
      PROVE  Before(s, t) <=> (s = x /\ t \in {y, z}) \/ (s = y /\ t = z)
  BY <1>1, <1>2 DEF Before
<1>7. QED
  BY <1>1, <1>3, <1>4, <1>5, <1>6

LEMMA Members ==
  ASSUME NEW x, NEW y, NEW z
  PROVE  /\ ToSet(<<>>) = {} /\ ToSet(<<z>>) = {z} /\ ToSet(<<y, z>>) = {y, z}
         /\ ToSet(<<x, y, z>>) = {x, y, z}
         /\ Tail(<<x, y, z>>) = <<y, z>> /\ Tail(<<y, z>>) = <<z>> /\ Tail(<<z>>) = <<>>
BY DEF ToSet

\* A thread whose turn it is runs after those that are done, and before the rest.
LEMMA Turn ==
  ASSUME PhaseOk, NEW s, Run(s)
  PROVE  /\ PhaseOk' /\ s \in ToSet(pending) /\ s \in NocThreads
         /\ ToSet(pending') = ToSet(pending) \ {s}
         /\ \A t \in NocThreads \ {s} : t \in ToSet(pending) <=> Before(s, t)
<1>1. PICK x \in NocThreads, y \in NocThreads, z \in NocThreads :
        /\ NocOrder = <<x, y, z>> /\ x # y /\ x # z /\ y # z /\ NocThreads = {x, y, z}
        /\ \A q, t : Before(q, t) <=> (q = x /\ t \in {y, z}) \/ (q = y /\ t = z)
  BY Threads
<1> USE <1>1
<1>0. /\ Tail(<<x, y, z>>) = <<y, z>> /\ Tail(<<y, z>>) = <<z>> /\ Tail(<<z>>) = <<>>
      /\ ToSet(<<>>) = {} /\ ToSet(<<z>>) = {z} /\ ToSet(<<y, z>>) = {y, z}
      /\ ToSet(<<x, y, z>>) = {x, y, z}
  BY Members
<1>2. pending \in {<<x, y, z>>, <<y, z>>, <<z>>, <<>>}
  BY <1>0 DEF PhaseOk
<1>3. pending # <<>> /\ Head(pending) = s /\ pending' = Tail(pending)
  BY DEF Run
<1>4. pending' \in {<<y, z>>, <<z>>, <<>>} /\ PhaseOk'
  <2>1. pending' \in {<<y, z>>, <<z>>, <<>>}
    <3>1. CASE pending = <<x, y, z>>
      BY <1>3, <1>0, <3>1
    <3>2. CASE pending = <<y, z>>
      BY <1>3, <1>0, <3>2
    <3>3. CASE pending = <<z>>
      BY <1>3, <1>0, <3>3
    <3>4. QED
      BY <1>2, <1>3, <3>1, <3>2, <3>3
  <2>2. QED
    BY <1>0, <2>1 DEF PhaseOk
<1>5. CASE pending = <<x, y, z>>
  <2>1. s = x /\ pending' = <<y, z>>
    BY <1>3, <1>5, <1>0
  <2>2. ToSet(pending) = {x, y, z} /\ ToSet(pending') = {y, z}
    BY <1>5, <2>1, <1>0
  <2>3. QED
    BY <1>1, <1>4, <2>1, <2>2
<1>6. CASE pending = <<y, z>>
  <2>1. s = y /\ pending' = <<z>>
    BY <1>3, <1>6, <1>0
  <2>2. ToSet(pending) = {y, z} /\ ToSet(pending') = {z}
    BY <1>6, <2>1, <1>0
  <2>3. QED
    BY <1>1, <1>4, <2>1, <2>2
<1>7. CASE pending = <<z>>
  <2>1. s = z /\ pending' = <<>>
    BY <1>3, <1>7, <1>0
  <2>2. ToSet(pending) = {z} /\ ToSet(pending') = {}
    BY <1>7, <2>1, <1>0
  <2>3. QED
    BY <1>1, <1>4, <2>1, <2>2
<1>8. QED
  BY <1>2, <1>3, <1>5, <1>6, <1>7

LEMMA Distinct == /\ "Tick" \in NocThreads /\ "SlaveNoc" \in NocThreads /\ "MasterNoc" \in NocThreads
                  /\ "Tick" # "SlaveNoc" /\ "Tick" # "MasterNoc" /\ "SlaveNoc" # "MasterNoc"
BY DEF NocThreads

LEMMA Total ==
  ASSUME NEW s \in NocThreads, NEW t \in NocThreads, s # t
  PROVE  Before(s, t) <=> ~Before(t, s)
BY Threads

\* An adapter that runs sees the credit and the flit for the first time, and the
\* other adapter's view stays what it was.
LEMMA AdapterTurn ==
  ASSUME PhaseOk, NEW s, s # "Tick", Run(s), NEW t \in NocThreads, t # s, t # "Tick"
  PROVE  PhaseOk' /\ ~CreditSeen(s) /\ CreditSeen(s)' /\ (CreditSeen(t)' <=> CreditSeen(t))
<1>1. PICK P : P = ToSet(pending)
  OBVIOUS
<1>2. /\ PhaseOk' /\ s \in P /\ s \in NocThreads /\ ToSet(pending') = P \ {s}
      /\ "Tick" \in P <=> Before(s, "Tick")
  BY <1>1, Turn, Distinct
<1>3. ~Done(s, P) /\ Done(s, P \ {s}) /\ (Done(t, P \ {s}) <=> Done(t, P))
  BY <1>2 DEF Done
<1>4. QED
  BY <1>1, <1>2, <1>3, CreditSeenDone, Zenon

\* When Tick runs both adapters have seen what the last one presented.
LEMMA TickTurn ==
  ASSUME PhaseOk, Run("Tick"), NEW t \in NocThreads, t # "Tick"
  PROVE  PhaseOk' /\ CreditSeen(t) /\ ~CreditSeen(t)'
<1>1. PICK P : P = ToSet(pending)
  OBVIOUS
<1>2. /\ PhaseOk' /\ "Tick" \in P /\ ToSet(pending') = P \ {"Tick"}
      /\ t \in P <=> Before("Tick", t)
      /\ Before(t, "Tick") <=> ~Before("Tick", t)
  BY <1>1, Turn, Distinct, Total
<1>3. Done(t, P) /\ ~Done(t, P \ {"Tick"})
  BY <1>2 DEF Done
<1>4. QED
  BY <1>1, <1>2, <1>3, CreditSeenDone, Zenon

LEMMA EdgeOfNoc ==
  ASSUME pending = <<>>, pending' = NocOrder, NEW t \in NocThreads, t # "Tick"
  PROVE  PhaseOk' /\ (CreditSeen(t)' <=> CreditSeen(t))
<1>1. ToSet(<<>>) = {} /\ ToSet(NocOrder) = NocThreads
  BY Members, PathAssumption
<1>2. Done(t, NocThreads) <=> Done(t, {})
  BY Distinct DEF Done
<1>3. PhaseOk'
  BY DEF PhaseOk
<1>4. QED
  BY <1>1, <1>2, <1>3, CreditSeenDone
(***************************************************************************)
(* The inductive invariant.                                                *)
(***************************************************************************)
Unlooked(thread, f) == IF CreditSeen(thread) THEN NoFlit ELSE f

ModulesOk ==
  /\ command \in Cmds \cup {NoTx} /\ given \in Nat
  /\ RequesterOk(requester) /\ ResponderOk(responder)
  /\ request \in TxOf(Requests) \cup {NoTx} /\ accepted \in [Types -> Nat]

AdaptersOk == Adapter(slave, Requests, Responses) /\ Adapter(master, Responses, Requests)

RequestsOk ==
  /\ Direction(slave, ReqN, master, Requests,
               Unseen("SlaveNoc", rqCredit), Unlooked("MasterNoc", rqEject))
  /\ ~CreditSeen("SlaveNoc") => rqInject = NoFlit

ResponsesOk ==
  /\ Direction(master, RspN, slave, Responses,
               Unseen("MasterNoc", rpCredit), Unlooked("SlaveNoc", rpEject))
  /\ ~CreditSeen("MasterNoc") => rpInject = NoFlit

IInv == PhaseOk /\ ModulesOk /\ AdaptersOk /\ RequestsOk /\ ResponsesOk

(***************************************************************************)
(* Initially nothing is under way.                                         *)
(***************************************************************************)
LEMMA DirectionInit ==
  ASSUME NEW S, NEW a, a.bufState = EmptyBuffer, NEW b, \A t \in S : Held(b, t) = 0,
         S \subseteq Types,
         NEW n, n.inject = NoFlit, n.credit = NoVC, n.rbuf = [v \in VCs |-> <<>>],
         n.out = EmptyBuffer, n.eject = NoFlit, n.ejected = NoVC
  PROVE  Direction(a, n, b, S, NoVC, NoFlit)
<1>1. /\ BufferOk(n.out)
      /\ \A v \in VCs : /\ ~Mid(n.out, v) /\ ~Mids(a)[v]
                        /\ n.out.occupancy[v] = 0 /\ a.bufState.occupancy[v] = 0
                        /\ NoVC # v
  BY EmptyBufferOk, PathAssumption DEF Mids
<1>2. NocTypes(n, S)
  BY <1>1 DEF NocTypes
<1>3. ASSUME NEW v \in VCs
      PROVE  /\ Linked(Mid(n.out, v), Line(n, v), Mids(a)[v])
             /\ a.bufState.occupancy[v] = (Len(n.rbuf[v]) + Count(On(n.inject, v))) + Count(NoVC = v)
  <2>1. Line(n, v) = <<>> \o <<>> /\ Len(n.rbuf[v]) = 0 /\ Count(On(n.inject, v)) = 0
        /\ Count(NoVC = v) = 0
    BY <1>1 DEF Line, On, Count
  <2>2. Mid(n.out, v) = Mids(a)[v]
    BY <1>1 DEF Mids, Mid
  <2>3. QED
    BY <1>1, <2>1, <2>2 DEF Linked
<1>4. ASSUME NEW t \in S
      PROVE  Occupied(b, n.ejected, t) + Count(IsOf(NoFlit, t)) <= n.out.occupancy[VcOf[t]]
  <2>1. VcOf[t] \in VCs
    BY AximmAssumption
  <2>2. Occupied(b, n.ejected, t) = 0 + 0 /\ Count(IsOf(NoFlit, t)) = 0
    BY <1>1, <2>1 DEF Occupied, IsOf, Count
  <2>3. QED
    BY <1>1, <2>1, <2>2
<1>5. QED
  BY <1>2, <1>3, <1>4 DEF Direction, AllLinked, SentCount, SlotCount

LEMMA SubTypes == Requests \in SUBSET Types /\ Responses \in SUBSET Types
BY DEF Types

LEMMA InitInv == Init => IInv
<1> SUFFICES ASSUME Init PROVE IInv
  OBVIOUS
<1>1. PhaseOk
  BY DEF Init, PhaseOk
<1>2. ModulesOk
  BY ModulesInit DEF Init, ModulesOk
<1>3. /\ Adapter(slave, Requests, Responses) /\ slave.bufState = EmptyBuffer
      /\ \A t \in Responses : Held(slave, t) = 0
  <2>1. PICK q : q = <<"R", "B">>
    OBVIOUS
  <2>2. Order(q, Responses) /\ ToSet(q) = Responses
    BY <2>1 DEF Order, Responses, ToSet
  <2>3. slave = NewAdapter(q)
    BY <2>1 DEF Init, SlaveInit
  <2>4. slave.bufState = EmptyBuffer
    BY <2>3 DEF NewAdapter
  <2>5. QED
    BY <2>2, <2>3, <2>4, NewAdapterOk
<1>4. /\ Adapter(master, Responses, Requests) /\ master.bufState = EmptyBuffer
      /\ \A t \in Requests : Held(master, t) = 0
  <2>1. PICK q : q = <<"AR", "AW", "W">>
    OBVIOUS
  <2>2. Order(q, Requests) /\ ToSet(q) = Requests
    BY <2>1 DEF Order, Requests, ToSet
  <2>3. master = NewAdapter(q)
    BY <2>1 DEF Init, MasterInit
  <2>4. master.bufState = EmptyBuffer
    BY <2>3 DEF NewAdapter
  <2>5. QED
    BY <2>2, <2>3, <2>4, NewAdapterOk
<1>5. RequestsOk
  <2>1. PICK n : n = ReqN
    OBVIOUS
  <2>2. /\ n.inject = NoFlit /\ n.credit = NoVC /\ n.rbuf = [v \in VCs |-> <<>>]
        /\ n.out = EmptyBuffer /\ n.eject = NoFlit /\ n.ejected = NoVC
        /\ rqInject = NoFlit /\ rqCredit = NoVC /\ rqEject = NoFlit
    <3>1. ReqNoc!VCs = VCs /\ ReqNoc!EmptyBuffer = EmptyBuffer
      <4>1. ReqNoc!VCs = VCs
        BY DEF ReqNoc!VCs, VCs
      <4>2. QED
        BY <4>1 DEF ReqNoc!EmptyBuffer, EmptyBuffer, ReqNoc!NoId, NoId
    <3>2. /\ rqInject = NoFlit /\ rqCredit = NoVC /\ rqBuf = [v \in VCs |-> <<>>]
          /\ rqOut = EmptyBuffer /\ rqEject = NoFlit /\ rqEjected = NoVC
      BY <3>1 DEF Init, ReqNoc!NocInit
    <3>3. QED
      BY <2>1, <3>2 DEF ReqN
  <2>3. Direction(slave, n, master, Requests, NoVC, NoFlit)
    BY <1>3, <1>4, <2>2, DirectionInit, SubTypes
  <2>4. Unseen("SlaveNoc", rqCredit) = NoVC /\ Unlooked("MasterNoc", rqEject) = NoFlit
    BY <2>2 DEF Unseen, Unlooked
  <2>5. QED
    BY <2>1, <2>2, <2>3, <2>4 DEF RequestsOk
<1>6. ResponsesOk
  <2>1. PICK n : n = RspN
    OBVIOUS
  <2>2. /\ n.inject = NoFlit /\ n.credit = NoVC /\ n.rbuf = [v \in VCs |-> <<>>]
        /\ n.out = EmptyBuffer /\ n.eject = NoFlit /\ n.ejected = NoVC
        /\ rpInject = NoFlit /\ rpCredit = NoVC /\ rpEject = NoFlit
    <3>1. RspNoc!VCs = VCs /\ RspNoc!EmptyBuffer = EmptyBuffer
      <4>1. RspNoc!VCs = VCs
        BY DEF RspNoc!VCs, VCs
      <4>2. QED
        BY <4>1 DEF RspNoc!EmptyBuffer, EmptyBuffer, RspNoc!NoId, NoId
    <3>2. /\ rpInject = NoFlit /\ rpCredit = NoVC /\ rpBuf = [v \in VCs |-> <<>>]
          /\ rpOut = EmptyBuffer /\ rpEject = NoFlit /\ rpEjected = NoVC
      BY <3>1 DEF Init, RspNoc!NocInit
    <3>3. QED
      BY <2>1, <3>2 DEF RspN
  <2>3. Direction(master, n, slave, Responses, NoVC, NoFlit)
    BY <1>3, <1>4, <2>2, DirectionInit, SubTypes
  <2>4. Unseen("MasterNoc", rpCredit) = NoVC /\ Unlooked("SlaveNoc", rpEject) = NoFlit
    BY <2>2 DEF Unseen, Unlooked
  <2>5. QED
    BY <2>1, <2>2, <2>3, <2>4 DEF ResponsesOk
<1>7. QED
  BY <1>1, <1>2, <1>3, <1>4, <1>5, <1>6 DEF IInv, AdaptersOk

(***************************************************************************)
(* An edge of the node and adapter clocks.                                 *)
(***************************************************************************)
Kept(a, b, SS, RR) ==
  /\ Adapter(b, SS, RR) /\ b.bufState = a.bufState /\ b.ejectReg = a.ejectReg
  /\ \A t \in RR : Held(b, t) = Held(a, t)

LEMMA KeptSelf ==
  ASSUME NEW SS, NEW RR, NEW a, Adapter(a, SS, RR)
  PROVE  Kept(a, a, SS, RR)
BY DEF Kept

LEMMA EdgedKept ==
  ASSUME NEW SS, NEW RR, NEW a, NEW b, NEW c, NEW e, NEW d,
         Edged(a, b, e, d, SS, RR), Kept(b, c, SS, RR)
  PROVE  Edged(a, c, e, d, SS, RR)
<1>1. \A t \in RR : Occupied(c, d, t) = Occupied(b, d, t)
  BY DEF Kept, Occupied
<1>2. QED
  BY <1>1 DEF Edged, Kept

LEMMA KeptEdged ==
  ASSUME NEW SS, NEW RR, NEW a, NEW b, NEW c, NEW e, NEW d,
         Kept(a, b, SS, RR), Edged(b, c, e, d, SS, RR)
  PROVE  Edged(a, c, e, d, SS, RR)
<1>1. \A t \in RR : Occupied(b, e, t) = Occupied(a, e, t)
  BY DEF Kept, Occupied
<1>2. QED
  BY <1>1 DEF Edged, Kept

LEMMA SlaveNodeEdgeOk ==
  ASSUME ModulesOk, AdaptersOk, NEW a, Adapter(a, Requests, Responses),
         NEW b, b = SlaveNodeEdge(a)
  PROVE  Kept(a, b, Requests, Responses)
<1>1. CASE "req" \notin Due
  <2>1. b = a
    BY <1>1 DEF SlaveNodeEdge
  <2>2. QED
    BY <2>1, KeptSelf
<1>2. CASE "req" \in Due
  <2>1. PICK port, ids, old : port = requester.port /\ ids = Ids /\ old = slave
    OBVIOUS
  <2>7. ids \in [Types -> Nat]
    <3>1. \A t \in Types : accepted[t] + 1 \in Nat
      BY DEF ModulesOk
    <3>2. QED
      BY <2>1, <3>1 DEF Ids
  <2>2. Port(port, Requests) /\ Input(old, Requests)
    BY <2>1 DEF ModulesOk, RequesterOk, AdaptersOk, Adapter
  <2>3. PICK c : c = SlaveInputInterface(a, old, port, ids)
    OBVIOUS
  <2>4. Captures(a, c, Requests) /\ SameOutput(a, c)
    BY <2>2, <2>3, <2>7, SlaveCaptures DEF Adapter
  <2>5. b = OutputInterface(c, Responses)
    BY <1>2, <2>1, <2>3 DEF SlaveNodeEdge, SlaveNodeClock
  <2>6. QED
    BY <2>4, <2>5, Captured DEF Kept
<1>3. QED
  BY <1>1, <1>2

LEMMA MasterNodeEdgeOk ==
  ASSUME ModulesOk, AdaptersOk, NEW a, Adapter(a, Responses, Requests),
         NEW b, b = MasterNodeEdge(a)
  PROVE  Kept(a, b, Responses, Requests)
<1>1. CASE "rsp" \notin Due
  <2>1. b = a
    BY <1>1 DEF MasterNodeEdge
  <2>2. QED
    BY <2>1, KeptSelf
<1>2. CASE "rsp" \in Due
  <2>1. PICK port, ids, old : port = responder.port /\ ids = Ids /\ old = master
    OBVIOUS
  <2>7. ids \in [Types -> Nat]
    <3>1. \A t \in Types : accepted[t] + 1 \in Nat
      BY DEF ModulesOk
    <3>2. QED
      BY <2>1, <3>1 DEF Ids
  <2>2. Port(port, Responses)
    BY <2>1 DEF ModulesOk, ResponderOk
  <2>3. PICK c : c = MasterInputInterface(a, old, port, ids)
    OBVIOUS
  <2>4. Captures(a, c, Responses) /\ SameOutput(a, c)
    BY <2>2, <2>3, <2>7, MasterCaptures DEF Adapter
  <2>5. b = OutputInterface(c, responder.ready)
    BY <1>2, <2>1, <2>3 DEF MasterNodeEdge, MasterNodeClock
  <2>6. QED
    BY <2>4, <2>5, Captured DEF Kept
<1>3. QED
  BY <1>1, <1>2

LEMMA SlaveAdapterEdgeOk ==
  ASSUME AdaptersOk, NEW a, Adapter(a, Requests, Responses),
         NEW e \in VcsOf(Responses) \cup {NoVC},
         NEW b, b = SlaveAdapterEdge(a), NEW d, d = Entry(e, a)
  PROVE  Edged(a, b, e, d, Requests, Responses)
<1>1. CASE "adapter" \notin Due
  <2>1. b = a /\ d = e
    BY <1>1 DEF SlaveAdapterEdge, Entry
  <2>2. QED
    BY <2>1, NotEdged
<1>2. CASE "adapter" \in Due
  <2>1. b = AdapterClock(a, slave, FreqRatio("req"))
    BY <1>2 DEF SlaveAdapterEdge
  <2>2. d = IF Takes(a) /\ e = NoVC THEN FlitTaken(a).vc ELSE e
    BY <1>2 DEF Entry
  <2>3. QED
    BY <2>1, <2>2, AdapterEdge, SubTypes DEF AdaptersOk, Adapter
<1>3. QED
  BY <1>1, <1>2

LEMMA MasterAdapterEdgeOk ==
  ASSUME AdaptersOk, NEW a, Adapter(a, Responses, Requests),
         NEW e \in VcsOf(Requests) \cup {NoVC},
         NEW b, b = MasterAdapterEdge(a), NEW d, d = Entry(e, a)
  PROVE  Edged(a, b, e, d, Responses, Requests)
<1>1. CASE "adapter" \notin Due
  <2>1. b = a /\ d = e
    BY <1>1 DEF MasterAdapterEdge, Entry
  <2>2. QED
    BY <2>1, NotEdged
<1>2. CASE "adapter" \in Due
  <2>1. b = AdapterClock(a, master, FreqRatio("rsp"))
    BY <1>2 DEF MasterAdapterEdge
  <2>2. d = IF Takes(a) /\ e = NoVC THEN FlitTaken(a).vc ELSE e
    BY <1>2 DEF Entry
  <2>3. QED
    BY <2>1, <2>2, AdapterEdge, SubTypes DEF AdaptersOk, Adapter
<1>3. QED
  BY <1>1, <1>2

\* In either order of the node and adapter threads.
LEMMA AdaptersEdged ==
  ASSUME ModulesOk, AdaptersOk, NEW adapterFirst \in BOOLEAN, Adapters(adapterFirst),
         rpEjected \in VcsOf(Responses) \cup {NoVC}, rqEjected \in VcsOf(Requests) \cup {NoVC}
  PROVE  /\ Edged(slave, slave', rpEjected, rpEjected', Requests, Responses)
         /\ Edged(master, master', rqEjected, rqEjected', Responses, Requests)
         /\ request' \in TxOf(Requests) \cup {NoTx}
<1>1. Adapter(slave, Requests, Responses) /\ Adapter(master, Responses, Requests)
  BY DEF AdaptersOk
<1>2. CASE adapterFirst
  <2>1. PICK s : s = SlaveAdapterEdge(slave)
    OBVIOUS
  <2>2. PICK m : m = MasterAdapterEdge(master)
    OBVIOUS
  <2>3. /\ slave' = SlaveNodeEdge(s) /\ master' = MasterNodeEdge(m)
        /\ rpEjected' = Entry(rpEjected, slave) /\ rqEjected' = Entry(rqEjected, master)
        /\ request' = IF "rsp" \notin Due THEN request ELSE Presented(m, responder.ready)
    BY <1>2, <2>1, <2>2 DEF Adapters
  <2>4. Edged(slave, s, rpEjected, rpEjected', Requests, Responses)
    BY <1>1, <2>1, <2>3, SlaveAdapterEdgeOk
  <2>5. Edged(master, m, rqEjected, rqEjected', Responses, Requests)
    BY <1>1, <2>2, <2>3, MasterAdapterEdgeOk
  <2>6. Kept(s, slave', Requests, Responses)
    BY <2>3, <2>4, SlaveNodeEdgeOk DEF Edged
  <2>7. Kept(m, master', Responses, Requests)
    BY <2>3, <2>5, MasterNodeEdgeOk DEF Edged
  <2>8. Presented(m, responder.ready) \in TxOf(Requests) \cup {NoTx}
    BY <2>5, PresentedType DEF Edged, Adapter
  <2>9. request' \in TxOf(Requests) \cup {NoTx}
    BY <2>3, <2>8 DEF ModulesOk
  <2>10. QED
    BY <2>4, <2>5, <2>6, <2>7, <2>9, EdgedKept
<1>3. CASE ~adapterFirst
  <2>1. PICK s : s = SlaveNodeEdge(slave)
    OBVIOUS
  <2>2. PICK m : m = MasterNodeEdge(master)
    OBVIOUS
  <2>3. /\ slave' = SlaveAdapterEdge(s) /\ master' = MasterAdapterEdge(m)
        /\ rpEjected' = Entry(rpEjected, s) /\ rqEjected' = Entry(rqEjected, m)
        /\ request' = IF "rsp" \notin Due THEN request ELSE Presented(master, responder.ready)
    BY <1>3, <2>1, <2>2 DEF Adapters
  <2>4. Kept(slave, s, Requests, Responses)
    BY <1>1, <2>1, SlaveNodeEdgeOk
  <2>5. Kept(master, m, Responses, Requests)
    BY <1>1, <2>2, MasterNodeEdgeOk
  <2>6. Edged(s, slave', rpEjected, rpEjected', Requests, Responses)
    BY <2>3, <2>4, SlaveAdapterEdgeOk DEF Kept
  <2>7. Edged(m, master', rqEjected, rqEjected', Responses, Requests)
    BY <2>3, <2>5, MasterAdapterEdgeOk DEF Kept
  <2>8. Presented(master, responder.ready) \in TxOf(Requests) \cup {NoTx}
    BY <1>1, PresentedType DEF Adapter
  <2>9. request' \in TxOf(Requests) \cup {NoTx}
    BY <2>3, <2>8 DEF ModulesOk
  <2>10. QED
    BY <2>4, <2>5, <2>6, <2>7, <2>9, KeptEdged
<1>4. QED
  BY <1>2, <1>3

LEMMA FabricEdgeInv == IInv /\ FabricEdge => IInv'
<1> SUFFICES ASSUME IInv, FabricEdge PROVE IInv'
  OBVIOUS
<1>1. PhaseOk /\ ModulesOk /\ AdaptersOk /\ RequestsOk /\ ResponsesOk
  BY DEF IInv
<1>2. PICK n : n = ReqN
  OBVIOUS
<1>3. PICK m : m = ReqN'
  OBVIOUS
<1>4. PICK p : p = RspN
  OBVIOUS
<1>5. PICK q : q = RspN'
  OBVIOUS
<1>6. /\ n.ejected = rqEjected /\ m.ejected = rqEjected' /\ m.inject = n.inject
      /\ m.credit = n.credit /\ m.rbuf = n.rbuf /\ m.out = n.out /\ m.eject = n.eject
  BY <1>2, <1>3 DEF FabricEdge, ReqN
<1>7. /\ p.ejected = rpEjected /\ q.ejected = rpEjected' /\ q.inject = p.inject
      /\ q.credit = p.credit /\ q.rbuf = p.rbuf /\ q.out = p.out /\ q.eject = p.eject
  BY <1>4, <1>5 DEF FabricEdge, RspN
<1>8. PICK c, f : c = Unseen("SlaveNoc", rqCredit) /\ f = Unlooked("MasterNoc", rqEject)
  OBVIOUS
<1>9. PICK d, g : d = Unseen("MasterNoc", rpCredit) /\ g = Unlooked("SlaveNoc", rpEject)
  OBVIOUS
<1>10. Direction(slave, n, master, Requests, c, f) /\ Direction(master, p, slave, Responses, d, g)
  BY <1>1, <1>2, <1>4, <1>8, <1>9 DEF RequestsOk, ResponsesOk
<1>11. rpEjected \in VcsOf(Responses) \cup {NoVC} /\ rqEjected \in VcsOf(Requests) \cup {NoVC}
  BY <1>6, <1>7, <1>10 DEF Direction
<1>12. PICK adapterFirst \in BOOLEAN : Adapters(adapterFirst)
  BY DEF FabricEdge
<1>13. /\ Edged(slave, slave', rpEjected, rpEjected', Requests, Responses)
       /\ Edged(master, master', rqEjected, rqEjected', Responses, Requests)
       /\ request' \in TxOf(Requests) \cup {NoTx}
  BY <1>1, <1>11, <1>12, AdaptersEdged
<1>14. AdaptersOk' /\ slave'.bufState = slave.bufState /\ master'.bufState = master.bufState
  BY <1>13 DEF AdaptersOk, Edged
<1>15. /\ PhaseOk' /\ (CreditSeen("SlaveNoc")' <=> CreditSeen("SlaveNoc"))
       /\ CreditSeen("MasterNoc")' <=> CreditSeen("MasterNoc")
  <2>1. pending' = pending
    BY DEF FabricEdge
  <2>2. QED
    BY <1>1, <2>1, CreditSeenDone DEF PhaseOk
<1>16. RequestsOk'
  <2>1. Direction(slave', m, master', Requests, c, f)
    BY <1>1, <1>6, <1>10, <1>13, <1>14, DirectionEdged, SubTypes DEF AdaptersOk, Adapter
  <2>2. c = Unseen("SlaveNoc", rqCredit)' /\ f = Unlooked("MasterNoc", rqEject)'
    BY <1>8, <1>15 DEF FabricEdge, Unseen, Unlooked
  <2>3. ~CreditSeen("SlaveNoc")' => rqInject' = NoFlit
    BY <1>1, <1>15 DEF FabricEdge, RequestsOk
  <2>4. QED
    BY <1>3, <2>1, <2>2, <2>3 DEF RequestsOk
<1>17. ResponsesOk'
  <2>1. Direction(master', q, slave', Responses, d, g)
    BY <1>1, <1>7, <1>10, <1>13, <1>14, DirectionEdged, SubTypes DEF AdaptersOk, Adapter
  <2>2. d = Unseen("MasterNoc", rpCredit)' /\ g = Unlooked("SlaveNoc", rpEject)'
    BY <1>9, <1>15 DEF FabricEdge, Unseen, Unlooked
  <2>3. ~CreditSeen("MasterNoc")' => rpInject' = NoFlit
    BY <1>1, <1>15 DEF FabricEdge, ResponsesOk
  <2>4. QED
    BY <1>5, <2>1, <2>2, <2>3 DEF ResponsesOk
<1>18. ModulesOk'
  <2>1. command' \in Cmds \cup {NoTx} /\ given' \in Nat
    <3>1. command \in Cmds \cup {NoTx} /\ given \in Nat
      BY <1>1 DEF ModulesOk
    <3>2. \A k \in Nat : Commands(k + 1) \subseteq Cmds
      BY DEF Commands, Cmds
    <3>3. CASE "req" \in Due
      BY <3>1, <3>2, <3>3 DEF FabricEdge, Testbench
    <3>4. CASE "req" \notin Due
      BY <3>1, <3>4 DEF FabricEdge
    <3>5. QED
      BY <3>3, <3>4
  <2>2. RequesterOk(requester')
    <3>1. RequesterOk(requester) /\ command \in Cmds \cup {NoTx}
      BY <1>1 DEF ModulesOk
    <3>2. \/ requester' = requester
          \/ requester' = Modules!RequesterTick(requester, command, SlaveTaken, response)
      BY DEF FabricEdge
    <3>3. QED
      BY <3>1, <3>2, RequesterStep
  <2>3. ResponderOk(responder')
    <3>1. ResponderOk(responder) /\ request \in TxOf(Requests) \cup {NoTx}
      BY <1>1 DEF ModulesOk
    <3>2. \/ responder' = responder
          \/ responder' = Modules!ResponderTick(responder, request, MasterTaken)
      BY DEF FabricEdge
    <3>3. QED
      BY <3>1, <3>2, ResponderStep
  <2>4. accepted' \in [Types -> Nat]
    <3>1. PICK T : accepted' = Take(accepted, T)
      BY DEF FabricEdge
    <3>2. \A t \in Types : accepted[t] \in Nat
      BY <1>1 DEF ModulesOk
    <3>3. QED
      BY <3>1, <3>2 DEF Take
  <2>5. QED
    BY <1>13, <2>1, <2>2, <2>3, <2>4 DEF ModulesOk
<1>19. QED
  BY <1>14, <1>15, <1>16, <1>17, <1>18 DEF IInv

(***************************************************************************)
(* The threads of the NoC clock.                                           *)
(***************************************************************************)
LEMMA NocEdgeInv == IInv /\ NocEdge => IInv'
<1> SUFFICES ASSUME IInv, NocEdge PROVE IInv'
  OBVIOUS
<1>1. /\ slave' = slave /\ master' = master /\ command' = command /\ given' = given
      /\ requester' = requester /\ responder' = responder /\ request' = request
      /\ accepted' = accepted
      /\ rqInject' = rqInject /\ rqCredit' = rqCredit /\ rqBuf' = rqBuf /\ rqOut' = rqOut
      /\ rqEject' = rqEject /\ rqEjected' = rqEjected
      /\ rpInject' = rpInject /\ rpCredit' = rpCredit /\ rpBuf' = rpBuf /\ rpOut' = rpOut
      /\ rpEject' = rpEject /\ rpEjected' = rpEjected
  BY DEF NocEdge, moduleVars, rqVars, rpVars
<1>2. /\ PhaseOk' /\ (CreditSeen("SlaveNoc")' <=> CreditSeen("SlaveNoc"))
      /\ CreditSeen("MasterNoc")' <=> CreditSeen("MasterNoc")
  BY EdgeOfNoc, Distinct DEF NocEdge
<1>3. ModulesOk' /\ AdaptersOk'
  BY <1>1 DEF IInv, ModulesOk, AdaptersOk
<1>4. RequestsOk'
  <2>1. ReqN' = ReqN
    BY <1>1 DEF ReqN
  <2>2. /\ Unseen("SlaveNoc", rqCredit)' = Unseen("SlaveNoc", rqCredit)
        /\ Unlooked("MasterNoc", rqEject)' = Unlooked("MasterNoc", rqEject)
    BY <1>1, <1>2 DEF Unseen, Unlooked
  <2>3. QED
    BY <1>1, <1>2, <2>1, <2>2 DEF IInv, RequestsOk
<1>5. ResponsesOk'
  <2>1. RspN' = RspN
    BY <1>1 DEF RspN
  <2>2. /\ Unseen("MasterNoc", rpCredit)' = Unseen("MasterNoc", rpCredit)
        /\ Unlooked("SlaveNoc", rpEject)' = Unlooked("SlaveNoc", rpEject)
    BY <1>1, <1>2 DEF Unseen, Unlooked
  <2>3. QED
    BY <1>1, <1>2, <2>1, <2>2 DEF IInv, ResponsesOk
<1>6. QED
  BY <1>2, <1>3, <1>4, <1>5 DEF IInv

LEMMA StutterInv == IInv /\ UNCHANGED vars => IInv'
<1> SUFFICES ASSUME IInv, UNCHANGED vars PROVE IInv'
  OBVIOUS
<1>1. /\ slave' = slave /\ master' = master /\ command' = command /\ given' = given
      /\ requester' = requester /\ responder' = responder /\ request' = request
      /\ accepted' = accepted /\ pending' = pending
      /\ rqInject' = rqInject /\ rqCredit' = rqCredit /\ rqBuf' = rqBuf /\ rqOut' = rqOut
      /\ rqEject' = rqEject /\ rqEjected' = rqEjected
      /\ rpInject' = rpInject /\ rpCredit' = rpCredit /\ rpBuf' = rpBuf /\ rpOut' = rpOut
      /\ rpEject' = rpEject /\ rpEjected' = rpEjected
  BY DEF vars, timeVars, moduleVars, rqVars, rpVars
<1>2. /\ PhaseOk' /\ (CreditSeen("SlaveNoc")' <=> CreditSeen("SlaveNoc"))
      /\ CreditSeen("MasterNoc")' <=> CreditSeen("MasterNoc")
  BY <1>1, CreditSeenDone DEF IInv, PhaseOk
<1>3. ModulesOk' /\ AdaptersOk'
  BY <1>1 DEF IInv, ModulesOk, AdaptersOk
<1>4. ReqN' = ReqN /\ RspN' = RspN
  BY <1>1 DEF ReqN, RspN
<1>5. /\ Unseen("SlaveNoc", rqCredit)' = Unseen("SlaveNoc", rqCredit)
      /\ Unlooked("MasterNoc", rqEject)' = Unlooked("MasterNoc", rqEject)
      /\ Unseen("MasterNoc", rpCredit)' = Unseen("MasterNoc", rpCredit)
      /\ Unlooked("SlaveNoc", rpEject)' = Unlooked("SlaveNoc", rpEject)
  BY <1>1, <1>2 DEF Unseen, Unlooked
<1>6. RequestsOk' /\ ResponsesOk'
  BY <1>1, <1>2, <1>4, <1>5 DEF IInv, RequestsOk, ResponsesOk
<1>7. QED
  BY <1>2, <1>3, <1>6 DEF IInv

\* Both threads of the NoC clock of one adapter.
LEMMA NocThread ==
  ASSUME NEW SS, NEW RR, NEW a, Adapter(a, SS, RR),
         NEW credit \in VCs \cup {NoVC}, credit # NoVC => a.bufState.occupancy[credit] > 0,
         NEW eject \in FlitsOf(RR) \cup {NoFlit},
         NEW b, b = OutputEjection(InputInjection(a, credit, NoVC), eject)
  PROVE  /\ Adapter(b, SS, RR) /\ SendStep(a, b, credit, SS)
         /\ \A t \in RR : Held(b, t) <= Held(a, t) + Count(IsOf(eject, t))
<1>1. PICK c : c = InputInjection(a, credit, NoVC)
  OBVIOUS
<1>2. /\ DOMAIN c = Fields /\ SameInput(a, c) /\ SameReceiver(a, c) /\ SameOutput(a, c)
      /\ Sender(c, SS) /\ SendStep(a, c, credit, SS)
  BY <1>1, InjectionKeeps, InjectionStep DEF Adapter
<1>3. Receiver(c, RR) /\ \A t \in RR : Held(c, t) = Held(a, t)
  BY <1>2, ReceiverKept DEF Adapter
<1>4. b = OutputEjection(c, eject)
  BY <1>1
<1>5. /\ DOMAIN b = Fields /\ SameInput(c, b) /\ SameSender(c, b) /\ SameOutput(c, b)
      /\ Receiver(b, RR) /\ \A t \in RR : Held(b, t) <= Held(c, t) + Count(IsOf(eject, t))
  BY <1>2, <1>3, <1>4, EjectionKeeps, EjectionStep
<1>6. Sender(b, SS) /\ b.bufState = c.bufState
  BY <1>2, <1>5, SenderKept DEF SameSender
<1>7. SendStep(a, b, credit, SS)
  BY <1>2, <1>6 DEF SendStep, Injects
<1>8. Input(b, SS) /\ Output(b, RR)
  BY <1>2, <1>5 DEF Adapter, Input, Output, SameInput, SameOutput
<1>9. QED
  BY <1>3, <1>5, <1>6, <1>7, <1>8 DEF Adapter

LEMMA SlaveNocInv == IInv /\ SlaveNoc => IInv'
<1> SUFFICES ASSUME IInv, SlaveNoc PROVE IInv'
  OBVIOUS
<1>1. PhaseOk /\ ModulesOk /\ AdaptersOk /\ RequestsOk /\ ResponsesOk
  BY DEF IInv
<1>2. /\ PhaseOk' /\ ~CreditSeen("SlaveNoc") /\ CreditSeen("SlaveNoc")'
      /\ CreditSeen("MasterNoc")' <=> CreditSeen("MasterNoc")
  BY <1>1, AdapterTurn, Distinct DEF SlaveNoc
<1>3. PICK n : n = ReqN
  OBVIOUS
<1>4. PICK m : m = ReqN'
  OBVIOUS
<1>5. PICK p : p = RspN
  OBVIOUS
<1>6. PICK f : f = Unlooked("MasterNoc", rqEject)
  OBVIOUS
<1>7. PICK d : d = Unseen("MasterNoc", rpCredit)
  OBVIOUS
<1>8. PICK b : b = slave'
  OBVIOUS
<1>9. /\ Direction(slave, n, master, Requests, n.credit, f) /\ n.inject = NoFlit
      /\ Direction(master, p, slave, Responses, d, p.eject)
      /\ n.credit = rqCredit /\ p.eject = rpEject
  <2>1. /\ n.credit = rqCredit /\ n.inject = rqInject /\ p.eject = rpEject
        /\ rqInject = NoFlit
    BY <1>1, <1>2, <1>3, <1>5 DEF ReqN, RspN, RequestsOk
  <2>2. Unseen("SlaveNoc", rqCredit) = rqCredit /\ Unlooked("SlaveNoc", rpEject) = rpEject
    BY <1>2 DEF Unseen, Unlooked
  <2>3. QED
    BY <1>1, <1>3, <1>5, <1>6, <1>7, <2>1, <2>2 DEF RequestsOk, ResponsesOk
<1>10. /\ n.credit \in VCs \cup {NoVC} /\ p.eject \in FlitsOf(Responses) \cup {NoFlit}
       /\ n.credit # NoVC => slave.bufState.occupancy[n.credit] > 0
  <2>1. n.credit \in VCs \cup {NoVC} /\ p.eject \in FlitsOf(Responses) \cup {NoFlit}
    BY <1>9 DEF Direction, NocTypes
  <2>2. QED
    BY <1>9, <2>1, CreditDue
<1>11. /\ Adapter(b, Requests, Responses) /\ SendStep(slave, b, n.credit, Requests)
       /\ \A t \in Responses : Held(b, t) <= Held(slave, t) + Count(IsOf(p.eject, t))
  <2>1. b = OutputEjection(InputInjection(slave, n.credit, NoVC), p.eject)
    BY <1>8, <1>9 DEF SlaveNoc
  <2>2. Adapter(slave, Requests, Responses)
    BY <1>1 DEF AdaptersOk
  <2>3. QED
    BY <1>10, <2>1, <2>2, NocThread
<1>12. AdaptersOk' /\ ModulesOk'
  BY <1>1, <1>8, <1>11 DEF SlaveNoc, moduleVars, AdaptersOk, ModulesOk
<1>13. RequestsOk'
  <2>1. /\ m.inject = (IF CanInject(slave) THEN NextFlit(slave) ELSE n.inject)
        /\ m.credit = n.credit /\ m.rbuf = n.rbuf /\ m.out = n.out /\ m.eject = n.eject
        /\ m.ejected = n.ejected
    BY <1>3, <1>4 DEF SlaveNoc, ReqN
  <2>2. Sender(slave, Requests) /\ Sender(b, Requests)
    BY <1>1, <1>11 DEF AdaptersOk, Adapter
  <2>3. Direction(b, m, master, Requests, NoVC, f)
    BY <1>9, <1>11, <2>1, <2>2, DirectionInjects
  <2>4. Unseen("SlaveNoc", rqCredit)' = NoVC /\ Unlooked("MasterNoc", rqEject)' = f
    BY <1>2, <1>6 DEF Unseen, Unlooked, SlaveNoc
  <2>5. master' = master
    BY DEF SlaveNoc
  <2>6. QED
    BY <1>2, <1>4, <1>8, <2>3, <2>4, <2>5 DEF RequestsOk
<1>14. ResponsesOk'
  <2>1. RspN' = p
    BY <1>5 DEF SlaveNoc, rpVars, RspN
  <2>2. Receiver(slave, Responses) /\ Receiver(b, Responses)
    BY <1>1, <1>11 DEF AdaptersOk, Adapter
  <2>3. Direction(master, p, b, Responses, d, NoFlit)
    BY <1>9, <1>11, <2>2, DirectionEjects, SubTypes
  <2>4. Unseen("MasterNoc", rpCredit)' = d /\ Unlooked("SlaveNoc", rpEject)' = NoFlit
    BY <1>2, <1>7 DEF Unseen, Unlooked, SlaveNoc, rpVars
  <2>5. master' = master /\ rpInject' = rpInject
    BY DEF SlaveNoc, rpVars
  <2>6. ~CreditSeen("MasterNoc")' => rpInject' = NoFlit
    BY <1>1, <1>2, <2>5 DEF ResponsesOk
  <2>7. QED
    BY <1>8, <2>1, <2>3, <2>4, <2>5, <2>6 DEF ResponsesOk
<1>15. QED
  BY <1>2, <1>12, <1>13, <1>14 DEF IInv
LEMMA MasterNocInv == IInv /\ MasterNoc => IInv'
<1> SUFFICES ASSUME IInv, MasterNoc PROVE IInv'
  OBVIOUS
<1>1. PhaseOk /\ ModulesOk /\ AdaptersOk /\ ResponsesOk /\ RequestsOk
  BY DEF IInv
<1>2. /\ PhaseOk' /\ ~CreditSeen("MasterNoc") /\ CreditSeen("MasterNoc")'
      /\ CreditSeen("SlaveNoc")' <=> CreditSeen("SlaveNoc")
  BY <1>1, AdapterTurn, Distinct DEF MasterNoc
<1>3. PICK n : n = RspN
  OBVIOUS
<1>4. PICK m : m = RspN'
  OBVIOUS
<1>5. PICK p : p = ReqN
  OBVIOUS
<1>6. PICK f : f = Unlooked("SlaveNoc", rpEject)
  OBVIOUS
<1>7. PICK d : d = Unseen("SlaveNoc", rqCredit)
  OBVIOUS
<1>8. PICK b : b = master'
  OBVIOUS
<1>9. /\ Direction(master, n, slave, Responses, n.credit, f) /\ n.inject = NoFlit
      /\ Direction(slave, p, master, Requests, d, p.eject)
      /\ n.credit = rpCredit /\ p.eject = rqEject
  <2>1. /\ n.credit = rpCredit /\ n.inject = rpInject /\ p.eject = rqEject
        /\ rpInject = NoFlit
    BY <1>1, <1>2, <1>3, <1>5 DEF RspN, ReqN, ResponsesOk
  <2>2. Unseen("MasterNoc", rpCredit) = rpCredit /\ Unlooked("MasterNoc", rqEject) = rqEject
    BY <1>2 DEF Unseen, Unlooked
  <2>3. QED
    BY <1>1, <1>3, <1>5, <1>6, <1>7, <2>1, <2>2 DEF ResponsesOk, RequestsOk
<1>10. /\ n.credit \in VCs \cup {NoVC} /\ p.eject \in FlitsOf(Requests) \cup {NoFlit}
       /\ n.credit # NoVC => master.bufState.occupancy[n.credit] > 0
  <2>1. n.credit \in VCs \cup {NoVC} /\ p.eject \in FlitsOf(Requests) \cup {NoFlit}
    BY <1>9 DEF Direction, NocTypes
  <2>2. QED
    BY <1>9, <2>1, CreditDue
<1>11. /\ Adapter(b, Responses, Requests) /\ SendStep(master, b, n.credit, Responses)
       /\ \A t \in Requests : Held(b, t) <= Held(master, t) + Count(IsOf(p.eject, t))
  <2>1. b = OutputEjection(InputInjection(master, n.credit, NoVC), p.eject)
    BY <1>8, <1>9 DEF MasterNoc
  <2>2. Adapter(master, Responses, Requests)
    BY <1>1 DEF AdaptersOk
  <2>3. QED
    BY <1>10, <2>1, <2>2, NocThread
<1>12. AdaptersOk' /\ ModulesOk'
  BY <1>1, <1>8, <1>11 DEF MasterNoc, moduleVars, AdaptersOk, ModulesOk
<1>13. ResponsesOk'
  <2>1. /\ m.inject = (IF CanInject(master) THEN NextFlit(master) ELSE n.inject)
        /\ m.credit = n.credit /\ m.rbuf = n.rbuf /\ m.out = n.out /\ m.eject = n.eject
        /\ m.ejected = n.ejected
    BY <1>3, <1>4 DEF MasterNoc, RspN
  <2>2. Sender(master, Responses) /\ Sender(b, Responses)
    BY <1>1, <1>11 DEF AdaptersOk, Adapter
  <2>3. Direction(b, m, slave, Responses, NoVC, f)
    BY <1>9, <1>11, <2>1, <2>2, DirectionInjects
  <2>4. Unseen("MasterNoc", rpCredit)' = NoVC /\ Unlooked("SlaveNoc", rpEject)' = f
    BY <1>2, <1>6 DEF Unseen, Unlooked, MasterNoc
  <2>5. slave' = slave
    BY DEF MasterNoc
  <2>6. QED
    BY <1>2, <1>4, <1>8, <2>3, <2>4, <2>5 DEF ResponsesOk
<1>14. RequestsOk'
  <2>1. ReqN' = p
    BY <1>5 DEF MasterNoc, rqVars, ReqN
  <2>2. Receiver(master, Requests) /\ Receiver(b, Requests)
    BY <1>1, <1>11 DEF AdaptersOk, Adapter
  <2>3. Direction(slave, p, b, Requests, d, NoFlit)
    BY <1>9, <1>11, <2>2, DirectionEjects, SubTypes
  <2>4. Unseen("SlaveNoc", rqCredit)' = d /\ Unlooked("MasterNoc", rqEject)' = NoFlit
    BY <1>2, <1>7 DEF Unseen, Unlooked, MasterNoc, rqVars
  <2>5. slave' = slave /\ rqInject' = rqInject
    BY DEF MasterNoc, rqVars
  <2>6. ~CreditSeen("SlaveNoc")' => rqInject' = NoFlit
    BY <1>1, <1>2, <2>5 DEF RequestsOk
  <2>7. QED
    BY <1>8, <2>1, <2>3, <2>4, <2>5, <2>6 DEF RequestsOk
<1>15. QED
  BY <1>2, <1>12, <1>13, <1>14 DEF IInv

LEMMA TickInv == IInv /\ Tick => IInv'
<1> SUFFICES ASSUME IInv, Tick PROVE IInv'
  OBVIOUS
<1>1. PhaseOk /\ ModulesOk /\ AdaptersOk /\ RequestsOk /\ ResponsesOk
  BY DEF IInv
<1>2. /\ PhaseOk' /\ CreditSeen("SlaveNoc") /\ ~CreditSeen("SlaveNoc")'
      /\ CreditSeen("MasterNoc") /\ ~CreditSeen("MasterNoc")'
  BY <1>1, TickTurn, Distinct DEF Tick
<1>3. slave' = slave /\ master' = master /\ ModulesOk' /\ AdaptersOk'
  BY <1>1 DEF Tick, moduleVars, ModulesOk, AdaptersOk
<1>4. Receiver(master, Requests) /\ Receiver(slave, Responses)
  BY <1>1 DEF AdaptersOk, Adapter
<1>5. RequestsOk'
  <2>1. PICK n : n = ReqN
    OBVIOUS
  <2>2. PICK m : m = ReqN'
    OBVIOUS
  <2>3. NocStep(n, m)
    BY <2>1, <2>2, ReqNocStep DEF Tick
  <2>4. Direction(slave, n, master, Requests, NoVC, NoFlit)
    BY <1>1, <1>2, <2>1 DEF RequestsOk, Unseen, Unlooked
  <2>5. Direction(slave, m, master, Requests, m.credit, m.eject) /\ m.inject = NoFlit
    BY <1>4, <2>3, <2>4, DirectionTicks, SubTypes
  <2>6. m.credit = rqCredit' /\ m.eject = rqEject' /\ m.inject = rqInject'
    BY <2>2 DEF ReqN
  <2>7. Unseen("SlaveNoc", rqCredit)' = m.credit /\ Unlooked("MasterNoc", rqEject)' = m.eject
    BY <1>2, <2>6 DEF Unseen, Unlooked
  <2>8. QED
    BY <1>3, <2>2, <2>5, <2>6, <2>7 DEF RequestsOk
<1>6. ResponsesOk'
  <2>1. PICK n : n = RspN
    OBVIOUS
  <2>2. PICK m : m = RspN'
    OBVIOUS
  <2>3. NocStep(n, m)
    BY <2>1, <2>2, RspNocStep DEF Tick
  <2>4. Direction(master, n, slave, Responses, NoVC, NoFlit)
    BY <1>1, <1>2, <2>1 DEF ResponsesOk, Unseen, Unlooked
  <2>5. Direction(master, m, slave, Responses, m.credit, m.eject) /\ m.inject = NoFlit
    BY <1>4, <2>3, <2>4, DirectionTicks, SubTypes
  <2>6. m.credit = rpCredit' /\ m.eject = rpEject' /\ m.inject = rpInject'
    BY <2>2 DEF RspN
  <2>7. Unseen("MasterNoc", rpCredit)' = m.credit /\ Unlooked("SlaveNoc", rpEject)' = m.eject
    BY <1>2, <2>6 DEF Unseen, Unlooked
  <2>8. QED
    BY <1>3, <2>2, <2>5, <2>6, <2>7 DEF ResponsesOk
<1>7. QED
  BY <1>2, <1>3, <1>5, <1>6 DEF IInv

LEMMA NextInv == IInv /\ [Next]_vars => IInv'
BY FabricEdgeInv, NocEdgeInv, SlaveNocInv, MasterNocInv, TickInv, StutterInv DEF Next

\* The inductive invariant: per direction, the flits of a VC from the receiver
\* back to the sender are packets in order, the sender counts those whose credit
\* it has not seen, and the router's port those that the receiver still holds.
THEOREM Invariant == Spec => []IInv
BY InitInv, NextInv, PTL DEF Spec

(***************************************************************************)
(* The theorems.                                                           *)
(***************************************************************************)

TypesOk ==
  PhaseOk /\ ModulesOk /\ AdaptersOk /\ NocTypes(ReqN, Requests) /\ NocTypes(RspN, Responses)

\* The state of the adapters, of the NoCs and of the modules is what its
\* declaration promises, and the three threads of the NoC clock take turns.
THEOREM TypeCorrect == Spec => []TypesOk
<1>1. IInv => TypesOk
  BY DEF IInv, TypesOk, RequestsOk, ResponsesOk, Direction
<1>2. QED
  BY <1>1, Invariant, PTL

LEMMA Conserved == IInv => CreditsConserved
<1> SUFFICES ASSUME IInv PROVE CreditsConserved
  OBVIOUS
<1>1. ~slave.bufState.error /\ ~master.bufState.error
  BY DEF IInv, AdaptersOk, Adapter, Sender, BufferOk
<1>2. ~rqOut.error /\ ~rpOut.error
  <2>1. BufferOk(ReqN.out) /\ BufferOk(RspN.out)
    BY DEF IInv, RequestsOk, ResponsesOk, Direction, NocTypes
  <2>2. ReqN.out = rqOut /\ RspN.out = rpOut
    BY DEF ReqN, RspN
  <2>3. QED
    BY <2>1, <2>2 DEF BufferOk
<1>3. ASSUME NEW v \in VCs
      PROVE  slave.bufState.occupancy[v] =
               OnTheWay(v, rqInject, rqBuf, Unseen("SlaveNoc", rqCredit))
  <2>1. PICK n : n = ReqN
    OBVIOUS
  <2>2. PICK c : c = Unseen("SlaveNoc", rqCredit)
    OBVIOUS
  <2>3. SentCount(slave, n, c)
    BY <2>1, <2>2 DEF IInv, RequestsOk, Direction
  <2>4. n.rbuf = rqBuf /\ n.inject = rqInject
    BY <2>1 DEF ReqN
  <2>5. slave.bufState.occupancy[v] = (Len(rqBuf[v]) + Count(On(rqInject, v))) + Count(c = v)
    BY <2>3, <2>4 DEF SentCount
  <2>6. QED
    BY <2>2, <2>5 DEF OnTheWay, Count, On
<1>4. ASSUME NEW v \in VCs
      PROVE  master.bufState.occupancy[v] =
               OnTheWay(v, rpInject, rpBuf, Unseen("MasterNoc", rpCredit))
  <2>1. PICK n : n = RspN
    OBVIOUS
  <2>2. PICK c : c = Unseen("MasterNoc", rpCredit)
    OBVIOUS
  <2>3. SentCount(master, n, c)
    BY <2>1, <2>2 DEF IInv, ResponsesOk, Direction
  <2>4. n.rbuf = rpBuf /\ n.inject = rpInject
    BY <2>1 DEF RspN
  <2>5. master.bufState.occupancy[v] = (Len(rpBuf[v]) + Count(On(rpInject, v))) + Count(c = v)
    BY <2>3, <2>4 DEF SentCount
  <2>6. QED
    BY <2>2, <2>5 DEF OnTheWay, Count, On
<1>5. QED
  BY <1>1, <1>2, <1>3, <1>4 DEF CreditsConserved

\* CreditsConserved: in either direction and for every VC, an adapter counts as
\* occupied exactly the flits it has sent whose credit it has not seen.
THEOREM AdaptersConserveCredits == Spec => []CreditsConserved
BY Invariant, Conserved, PTL

(***************************************************************************)
(* The router's port counts the slots of its VC buffer, the adapter those  *)
(* of a FIFO: the one for the type that has the VC.                        *)
(***************************************************************************)
FifosSuffice == VcBufSize <= EjectionDepth

RegistersEmpty == slave.ejectReg = NoFlit /\ master.ejectReg = NoFlit

LEMMA EjectionFinds ==
  ASSUME FifosSuffice, NEW S \in SUBSET Types, NEW b, DOMAIN b = Fields, Receiver(b, S),
         b.ejectReg = NoFlit, NEW a, NEW n, NEW c, Direction(a, n, b, S, c, n.eject)
  PROVE  OutputEjection(b, n.eject).ejectReg = NoFlit
<1>1. CASE n.eject = NoFlit
  BY <1>1 DEF OutputEjection, Ejected
<1>2. CASE n.eject # NoFlit
  <2>1. PICK f \in FlitsOf(S) : f = n.eject
    BY <1>2 DEF Direction, NocTypes
  <2>2. PICK t \in S : t = f.tx.type /\ VcOf[t] \in VCs
    BY <2>1, FlitFields
  <2>3. Occupied(b, n.ejected, t) + Count(IsOf(f, t)) <= n.out.occupancy[VcOf[t]]
    BY <2>1 DEF Direction, SlotCount
  <2>4. n.out.occupancy[VcOf[t]] \in 0 .. VcBufSize
    BY <2>2 DEF Direction, NocTypes, BufferOk
  <2>5. PICK k \in Nat : k = Len(b.ejFifo[t])
    <3>1. PICK q \in Seq(FlitsOf({t})) : q = b.ejFifo[t]
      BY DEF Receiver, Fifos
    <3>2. QED
      BY <3>1
  <2>6. PICK i \in 0 .. 1 : i = Count(n.ejected = VcOf[t])
    BY DEF Count
  <2>7. Occupied(b, n.ejected, t) = (k + 0) + i /\ Count(IsOf(f, t)) = 1
    BY <1>2, <2>1, <2>2, <2>5, <2>6 DEF Occupied, Held, IsOf, Count
  <2>8. k < EjectionDepth
    <3>1. (k + 0) + i + 1 <= VcBufSize
      BY <2>3, <2>4, <2>7, BufferSize
    <3>2. VcBufSize \in Nat /\ EjectionDepth \in Nat /\ VcBufSize <= EjectionDepth
      BY BufferSize, AximmAssumption DEF FifosSuffice
    <3>3. QED
      BY <3>1, <3>2
  <2>9. Ejected(b, n.eject) = f /\ f # NoFlit /\ ~(Len(b.ejFifo[f.tx.type]) >= EjectionDepth)
    <3>1. EjectionDepth \in Nat
      BY AximmAssumption
    <3>2. QED
      BY <1>2, <2>1, <2>2, <2>5, <2>8, <3>1 DEF Ejected
  <2>10. QED
    BY <2>9 DEF OutputEjection, Fields
<1>3. QED
  BY <1>1, <1>2

LEMMA InjectionLeaves ==
  ASSUME NEW S, NEW a, DOMAIN a = Fields, Receiver(a, S), NEW credit,
         NEW b, b = InputInjection(a, credit, NoVC)
  PROVE  /\ DOMAIN b = Fields /\ Receiver(b, S) /\ b.ejectReg = a.ejectReg
         /\ \A t \in S : Held(b, t) = Held(a, t)
BY InjectionKeeps, ReceiverKept DEF SameReceiver

LEMMA NocThreadFinds ==
  ASSUME FifosSuffice, NEW S \in SUBSET Types, NEW b, DOMAIN b = Fields, Receiver(b, S),
         b.ejectReg = NoFlit, NEW a, NEW n, NEW c, Direction(a, n, b, S, c, n.eject), NEW credit
  PROVE  OutputEjection(InputInjection(b, credit, NoVC), n.eject).ejectReg = NoFlit
<1>1. PICK d : d = InputInjection(b, credit, NoVC)
  OBVIOUS
<1>2. /\ DOMAIN d = Fields /\ Receiver(d, S) /\ d.ejectReg = NoFlit
      /\ \A t \in S : Held(d, t) = Held(b, t)
  BY <1>1, InjectionLeaves
<1>3. Direction(a, n, d, S, c, n.eject)
  BY <1>2 DEF Direction, SlotCount, Occupied
<1>4. QED
  BY <1>1, <1>2, <1>3, EjectionFinds

LEMMA RegistersStep ==
  ASSUME FifosSuffice, IInv, RegistersEmpty, [Next]_vars
  PROVE  RegistersEmpty'
<1>1. /\ Adapter(slave, Requests, Responses) /\ Adapter(master, Responses, Requests)
      /\ PhaseOk /\ RequestsOk /\ ResponsesOk /\ ModulesOk /\ AdaptersOk
  BY DEF IInv, AdaptersOk
<1>2. CASE FabricEdge
  <2>1. rpEjected \in VcsOf(Responses) \cup {NoVC} /\ rqEjected \in VcsOf(Requests) \cup {NoVC}
    <3>1. ReqN.ejected = rqEjected /\ RspN.ejected = rpEjected
      BY DEF ReqN, RspN
    <3>2. QED
      BY <1>1, <3>1 DEF RequestsOk, ResponsesOk, Direction
  <2>2. PICK adapterFirst \in BOOLEAN : Adapters(adapterFirst)
    BY <1>2 DEF FabricEdge
  <2>3. QED
    BY <1>1, <2>1, <2>2, AdaptersEdged DEF Edged, RegistersEmpty
<1>3. CASE SlaveNoc
  <2>1. ~CreditSeen("SlaveNoc")
    BY <1>1, <1>3, AdapterTurn, Distinct DEF SlaveNoc
  <2>2. PICK p : p = RspN
    OBVIOUS
  <2>3. PICK c : c = Unseen("MasterNoc", rpCredit)
    OBVIOUS
  <2>4. p.eject = rpEject /\ Direction(master, p, slave, Responses, c, p.eject)
    BY <1>1, <2>1, <2>2, <2>3 DEF ResponsesOk, Unlooked, RspN
  <2>5. slave' = OutputEjection(InputInjection(slave, rqCredit, NoVC), p.eject) /\ master' = master
    BY <1>3, <2>4 DEF SlaveNoc
  <2>6. slave'.ejectReg = NoFlit
    BY <1>1, <2>4, <2>5, NocThreadFinds, SubTypes DEF Adapter, RegistersEmpty
  <2>7. QED
    BY <2>5, <2>6 DEF RegistersEmpty
<1>4. CASE MasterNoc
  <2>1. ~CreditSeen("MasterNoc")
    BY <1>1, <1>4, AdapterTurn, Distinct DEF MasterNoc
  <2>2. PICK p : p = ReqN
    OBVIOUS
  <2>3. PICK c : c = Unseen("SlaveNoc", rqCredit)
    OBVIOUS
  <2>4. p.eject = rqEject /\ Direction(slave, p, master, Requests, c, p.eject)
    BY <1>1, <2>1, <2>2, <2>3 DEF RequestsOk, Unlooked, ReqN
  <2>5. master' = OutputEjection(InputInjection(master, rpCredit, NoVC), p.eject) /\ slave' = slave
    BY <1>4, <2>4 DEF MasterNoc
  <2>6. master'.ejectReg = NoFlit
    BY <1>1, <2>4, <2>5, NocThreadFinds, SubTypes DEF Adapter, RegistersEmpty
  <2>7. QED
    BY <2>5, <2>6 DEF RegistersEmpty
<1>5. CASE NocEdge
  BY <1>5 DEF NocEdge, RegistersEmpty
<1>6. CASE Tick
  BY <1>6 DEF Tick, RegistersEmpty
<1>7. CASE UNCHANGED vars
  BY <1>7 DEF vars, RegistersEmpty
<1>8. QED
  BY <1>2, <1>3, <1>4, <1>5, <1>6, <1>7 DEF Next

\* If a VC buffer of the NoC is not larger than an ejection FIFO, a flit that is
\* ejected finds room in the FIFO of its type: none waits in _ejected_booksim_flit,
\* and so none that comes after it is overlooked in the eject channel.
THEOREM EjectionIsNeverBlocked ==
  ASSUME FifosSuffice PROVE Spec => []RegistersEmpty
<1>1. Init => RegistersEmpty
  BY DEF Init, SlaveInit, MasterInit, NewAdapter, RegistersEmpty
<1>2. IInv /\ RegistersEmpty /\ [Next]_vars => RegistersEmpty'
  BY RegistersStep
<1>3. QED
  BY <1>1, <1>2, Invariant, PTL DEF Spec
=============================================================================
