-------------------------- MODULE RadClusterProofs --------------------------
(***************************************************************************)
(* Theorems about RadCluster, for every number of RADs, window, latency    *)
(* and depth of the FIFOs, and whatever the modules of the RADs send.      *)
(***************************************************************************)
EXTENDS RadCluster, FiniteSetTheorems, SequenceTheorems, TLAPS

(***************************************************************************)
(* The bandwidth.  tready is a function of the counter one edge ago, so a  *)
(* handshake happens in a cycle whose predecessor was in the window.       *)
(***************************************************************************)
\* A cycle as a position of the window, if x is at most one period away from it.
Wrapped(x) == IF x < 0 THEN x + BwTotal ELSE IF x >= BwTotal THEN x - BwTotal ELSE x

\* The counter one edge before the edge to come, and one before the edge of the
\* k-th of the recorded cycles.
CountBefore   == Wrapped(bwCounter - 1)
CountBeforeOf(k) == Wrapped(bwCounter + k - 2)

WindowInv ==
  /\ bwCounter \in 0 .. BwTotal - 1
  /\ netReady \in [Rads -> BOOLEAN]
  /\ grants \in [Rads -> [1 .. BwTotal -> BOOLEAN]]
  /\ \A r \in Rads : Handshake(toNet, r) => CountBefore < BwAccept
  /\ \A r \in Rads, k \in 1 .. BwTotal : grants[r][k] => CountBeforeOf(k) < BwAccept

LEMMA Window == BwAccept \in Nat \ {0} /\ BwTotal \in Nat \ {0} /\ BwAccept <= BwTotal
BY InterRadAssumption

LEMMA WindowInit == Init => WindowInv
<1> SUFFICES ASSUME Init PROVE WindowInv
  OBVIOUS
<1>1. bwCounter = 0 /\ netReady \in [Rads -> BOOLEAN]
  BY DEF Init, NetInit
<1>2. \A r \in Rads : ~Handshake(toNet, r)
  BY DEF Init, PortalInit, Handshake
<1>3. grants = [r \in Rads |-> [k \in 1 .. BwTotal |-> FALSE]]
  BY DEF Init
<1>4. grants \in [Rads -> [1 .. BwTotal -> BOOLEAN]]
  BY <1>3
<1>5. \A r \in Rads, k \in 1 .. BwTotal : ~grants[r][k]
  BY <1>3
<1>6. QED
  BY <1>1, <1>2, <1>4, <1>5, Window DEF WindowInv

LEMMA WindowNext == WindowInv /\ [Next]_vars => WindowInv'
<1> SUFFICES ASSUME WindowInv, [Next]_vars PROVE WindowInv'
  OBVIOUS
<1>1. /\ bwCounter \in 0 .. BwTotal - 1 /\ netReady \in [Rads -> BOOLEAN]
      /\ grants \in [Rads -> [1 .. BwTotal -> BOOLEAN]]
  BY DEF WindowInv
<1>2. CASE UNCHANGED vars
  BY <1>2 DEF vars, WindowInv, CountBefore, CountBeforeOf, Handshake
<1>3. CASE Next
  <2>1. /\ netReady' = InWindow /\ bwCounter' = NextCount
        /\ grants' = [r \in Rads |-> Append(Tail(grants[r]), Handshake(toNet, r))]
    BY <1>3 DEF Next, ClockEdge, Cycle, Observe
  <2>2. bwCounter' \in 0 .. BwTotal - 1 /\ netReady' \in [Rads -> BOOLEAN]
    BY <1>1, <2>1, Window DEF InWindow, NextCount
  <2>3. \A r \in Rads : Handshake(toNet, r) \in BOOLEAN
    BY <1>1 DEF Handshake
  <2>4. ASSUME NEW r \in Rads
        PROVE  /\ grants'[r] \in [1 .. BwTotal -> BOOLEAN]
               /\ \A k \in 1 .. BwTotal - 1 : grants'[r][k] = grants[r][k + 1]
               /\ grants'[r][BwTotal] = Handshake(toNet, r)
    <3>1. PICK g \in [1 .. BwTotal -> BOOLEAN] : g = grants[r]
      BY <1>1
    <3>2. PICK h \in BOOLEAN : h = Handshake(toNet, r)
      BY <2>3
    <3>3. g \in Seq(BOOLEAN) /\ Len(g) = BwTotal
      BY Window
    <3>4. /\ Append(Tail(g), h) \in Seq(BOOLEAN) /\ Len(Append(Tail(g), h)) = BwTotal
          /\ \A k \in 1 .. BwTotal - 1 : Append(Tail(g), h)[k] = g[k + 1]
          /\ Append(Tail(g), h)[BwTotal] = h
      BY <3>3, Window
    <3>5. PICK n : n = Append(Tail(g), h)
      OBVIOUS
    <3>6. grants'[r] = n
      BY <2>1, <3>1, <3>2, <3>5
    <3>7. n \in [1 .. BwTotal -> BOOLEAN]
      <4>1. n \in Seq(BOOLEAN) /\ Len(n) = BwTotal
        BY <3>4, <3>5
      <4>2. QED
        BY <4>1
    <3>8. QED
      BY <3>1, <3>2, <3>4, <3>5, <3>6, <3>7
  <2>5. ASSUME NEW r \in Rads, (Handshake(toNet, r))' PROVE CountBefore' < BwAccept
    <3>1. netReady'[r]
      BY <2>5 DEF Handshake
    <3>2. bwCounter < BwAccept
      BY <2>1, <3>1 DEF InWindow
    <3>3. CountBefore' = bwCounter
      BY <1>1, <2>1, Window DEF CountBefore, NextCount, Wrapped
    <3>4. QED
      BY <3>2, <3>3
  <2>6. ASSUME NEW r \in Rads, NEW k \in 1 .. BwTotal, grants'[r][k]
        PROVE  (CountBeforeOf(k))' < BwAccept
    <3>1. CASE k = BwTotal
      <4>1. CountBefore < BwAccept
        BY <2>4, <2>6, <3>1 DEF WindowInv
      <4>2. (CountBeforeOf(k))' = CountBefore
        BY <1>1, <2>1, <3>1, Window DEF CountBefore, CountBeforeOf, NextCount, Wrapped
      <4>3. QED
        BY <4>1, <4>2
    <3>2. CASE k \in 1 .. BwTotal - 1
      <4>1. CountBeforeOf(k + 1) < BwAccept
        <5>1. k + 1 \in 1 .. BwTotal /\ grants[r][k + 1]
          BY <2>4, <2>6, <3>2, Window
        <5>2. QED
          BY <5>1 DEF WindowInv
      <4>2. (CountBeforeOf(k))' = CountBeforeOf(k + 1)
        BY <1>1, <2>1, <3>2, Window DEF CountBeforeOf, NextCount, Wrapped
      <4>3. QED
        BY <4>1, <4>2
    <3>3. QED
      BY <3>1, <3>2, Window
  <2>7. grants' \in [Rads -> [1 .. BwTotal -> BOOLEAN]]
    BY <2>1, <2>4
  <2>8. QED
    BY <2>2, <2>5, <2>6, <2>7 DEF WindowInv
<1>4. QED
  BY <1>2, <1>3

\* The network never accepts more than BwAccept packets of a RAD in BwTotal
\* successive cycles, at whatever cycle one starts to count: the ready port lags
\* the window by one edge, and the first cycle, when it is asserted without a
\* window, has nothing to accept.
THEOREM BandwidthIsRespected == Spec => []BandwidthRespected
<1>1. WindowInv => BandwidthRespected
  <2> SUFFICES ASSUME WindowInv, NEW r \in Rads
               PROVE  Cardinality({k \in 1 .. BwTotal : grants[r][k]}) <= BwAccept
    BY DEF BandwidthRespected
  <2> DEFINE K == {k \in 1 .. BwTotal : grants[r][k]}
             f == [k \in K |-> CountBeforeOf(k)]
  <2>1. bwCounter \in 0 .. BwTotal - 1
    BY DEF WindowInv
  <2>2. \A k \in K : CountBeforeOf(k) \in 0 .. BwAccept - 1
    <3>1. \A k \in K : CountBeforeOf(k) < BwAccept
      BY DEF WindowInv
    <3>2. \A k \in 1 .. BwTotal : CountBeforeOf(k) \in 0 .. BwTotal - 1
      BY <2>1, Window DEF CountBeforeOf, Wrapped
    <3>3. QED
      BY <3>1, <3>2, Window
  <2>3. \A j, k \in 1 .. BwTotal : CountBeforeOf(j) = CountBeforeOf(k) => j = k
    BY <2>1, Window DEF CountBeforeOf, Wrapped
  <2>4. f \in Injection(K, 0 .. BwAccept - 1)
    BY <2>2, <2>3 DEF Injection, IsInjective
  <2>5. IsFiniteSet(0 .. BwAccept - 1) /\ Cardinality(0 .. BwAccept - 1) = BwAccept
    BY FS_Interval, Window
  <2>6. Cardinality(K) <= Cardinality(0 .. BwAccept - 1)
    <3> HIDE DEF K, f
    <3>1. QED
      BY <2>4, <2>5, FS_Injection
  <2>7. QED
    BY <2>5, <2>6
<1>2. QED
  BY <1>1, WindowInit, WindowNext, PTL DEF Spec

(***************************************************************************)
(* Sequences of packets.                                                   *)
(***************************************************************************)
MaybePacket == Packets \cup {NoPacket}

LEMMA Assumed ==
  /\ NumRads \in Nat \ {0} /\ FifoSlots \in Nat \ {0} /\ LatencyCycles \in Nat \ {0}
  /\ WriteFirst \in BOOLEAN
  /\ NoPacket \notin Packets /\ NoPacket \notin Destinations
  /\ MaxPackets \in [Rads -> Nat]
BY InterRadAssumption, ClusterAssumption

LEMMA SmallestElement ==
  ASSUME NEW T \in SUBSET Nat, T # {}
  PROVE  \E n \in T : \A m \in T : n <= m
<1> DEFINE R == {ss \in Nat \X Nat : ss[1] < ss[2]}
<1>1. IsWellFoundedOn(R, Nat)
  BY NatLessThanWellFounded, Zenon DEF OpToRel
<1>2. PICK n \in T : \A m \in T : ~ (<<m, n>> \in R)
  <2> HIDE DEF R
  <2> QED
    BY <1>1, WFMin, Zenon
<1>3. \A m \in T : ~(m < n)
  BY <1>2
<1>4. QED
  BY <1>3

LEMMA PushedSeq ==
  ASSUME NEW q \in Seq(Packets), NEW p \in MaybePacket
  PROVE  /\ Pushed(q, p) \in Seq(Packets)
         /\ p = NoPacket => Pushed(q, p) = q
         /\ p # NoPacket => /\ Len(Pushed(q, p)) = Len(q) + 1
                            /\ \A k \in 1 .. Len(q) : Pushed(q, p)[k] = q[k]
                            /\ Pushed(q, p)[Len(q) + 1] = p
BY DEF Pushed, MaybePacket

LEMMA TailSeq ==
  ASSUME NEW q \in Seq(Packets), q # <<>>
  PROVE  /\ Tail(q) \in Seq(Packets) /\ Head(q) \in Packets
         /\ Len(q) \in Nat \ {0} /\ Len(Tail(q)) = Len(q) - 1
         /\ \A k \in 1 .. Len(q) - 1 : Tail(q)[k] = q[k + 1]
         /\ Head(q) = q[1]
OBVIOUS

LEMMA HeadAndTail ==
  ASSUME NEW q \in Seq(Packets), q # <<>>
  PROVE  <<Head(q)>> \o Tail(q) = q
<1>1. /\ <<Head(q)>> \o Tail(q) \in Seq(Packets) /\ Len(<<Head(q)>> \o Tail(q)) = Len(q)
      /\ \A i \in 1 .. Len(q) : (<<Head(q)>> \o Tail(q))[i] = q[i]
  OBVIOUS
<1>2. QED
  BY <1>1, SeqEqual

LEMMA Associative ==
  ASSUME NEW a \in Seq(Packets), NEW b \in Seq(Packets), NEW c \in Seq(Packets)
  PROVE  (a \o b) \o c = a \o (b \o c)
BY ConcatAssociative

LEMMA SwappedPacket ==
  ASSUME NEW p \in Packets
  PROVE  /\ Swapped(p) \in Packets
         /\ Swapped(p).id = p.id /\ Swapped(p).src = p.src
         /\ Swapped(p).dest.rad = p.dest.rad
BY DEF Swapped, Packets, Destinations

(***************************************************************************)
(* The packets accepted at an edge.                                        *)
(***************************************************************************)
\* The step of the loop over the RADs.
NextAccepted(q, d, r) ==
  IF Handshake(toNet, r) /\ toNet[r].dest.rad = d THEN Append(q, Swapped(toNet[r])) ELSE q

\* AcceptedUpTo is the function that its recursive definition says: it exists.
LEMMA AcceptedDef ==
  ASSUME NEW d
  PROVE  /\ AcceptedUpTo(toNet, d)[0] = <<>>
         /\ \A n \in 1 .. NumRads :
              AcceptedUpTo(toNet, d)[n]
                = NextAccepted(AcceptedUpTo(toNet, d)[n - 1], d, n - 1)
<1> DEFINE Good(g, n) ==
             g = [i \in 0 .. n |-> IF i = 0 THEN <<>> ELSE NextAccepted(g[i - 1], d, i - 1)]
           Bad == {n \in Nat : ~ \E g : Good(g, n)}
<1>1. Bad = {}
  <2>1. SUFFICES ASSUME Bad # {} PROVE FALSE
    OBVIOUS
  <2>2. PICK n \in Bad : \A m \in Bad : n <= m
    <3>1. Bad \in SUBSET Nat
      OBVIOUS
    <3> HIDE DEF Bad
    <3>2. QED
      BY <2>1, <3>1, SmallestElement
  <2>3. n # 0
    <3>1. Good([i \in 0 .. 0 |-> <<>>], 0)
      OBVIOUS
    <3>2. QED
      BY <3>1, <2>2
  <2>4. PICK g : Good(g, n - 1)
    <3>1. n - 1 \in Nat /\ n - 1 < n /\ n \in Nat
      BY <2>2, <2>3
    <3>2. n - 1 \notin Bad
      <4> HIDE DEF Bad
      <4>1. QED
        BY <2>2, <3>1
    <3> HIDE DEF Good
    <3>3. QED
      BY <3>1, <3>2
  <2>5. Good([i \in 0 .. n |-> IF i = n THEN NextAccepted(g[n - 1], d, n - 1) ELSE g[i]], n)
    BY <2>3, <2>4
  <2>6. QED
    BY <2>2, <2>5
<1>2. PICK g : Good(g, NumRads)
  <2> HIDE DEF Good
  <2>1. QED
    BY <1>1, Assumed
<1>3. AcceptedUpTo(toNet, d)
        = [i \in 0 .. NumRads |->
             IF i = 0 THEN <<>>
             ELSE NextAccepted(AcceptedUpTo(toNet, d)[i - 1], d, i - 1)]
  BY <1>2, Zenon DEF AcceptedUpTo, NextAccepted
<1>4. NumRads \in Nat
  BY Assumed
<1>5. QED
  BY <1>3, <1>4

\* The packets in q are those that the network accepts from RADs below n for RAD
\* d, each once, in the order of the RADs.
ComesFrom(q, n, d) ==
  /\ q \in Seq(Packets)
  /\ \A k \in 1 .. Len(q) :
       LET r == q[k].src
       IN  r < n /\ Handshake(toNet, r) /\ toNet[r].dest.rad = d /\ q[k] = Swapped(toNet[r])
  /\ \A j, k \in 1 .. Len(q) : j < k => q[j].src < q[k].src
  /\ \A r \in Rads :
       r < n /\ Handshake(toNet, r) /\ toNet[r].dest.rad = d
         => \E k \in 1 .. Len(q) : q[k].src = r

\* A packet on the port of RAD r comes from there.
PortsInv ==
  toNet \in [Rads -> MaybePacket] /\ \A r \in Rads : toNet[r] # NoPacket => toNet[r].src = r

LEMMA AcceptedStep ==
  ASSUME PortsInv, NEW d \in Rads, NEW n \in Rads, NEW q, ComesFrom(q, n, d)
  PROVE  ComesFrom(NextAccepted(q, d, n), n + 1, d)
<1>1. /\ q \in Seq(Packets) /\ Len(q) \in Nat
      /\ \A k \in 1 .. Len(q) : q[k] \in Packets /\ q[k].src \in Nat
  <2>1. q \in Seq(Packets)
    BY DEF ComesFrom
  <2>2. \A p \in Packets : p.src \in Nat
    BY DEF Packets, Rads
  <2>3. QED
    BY <2>1, <2>2
<1>2. Rads \subseteq Nat /\ n \in Nat
  BY DEF Rads
<1>3. CASE Handshake(toNet, n) /\ toNet[n].dest.rad = d
  <2>1. toNet[n] \in Packets /\ toNet[n].src = n
    BY <1>3 DEF PortsInv, MaybePacket, Handshake
  <2>2. PICK p : p = Swapped(toNet[n])
    OBVIOUS
  <2>3. p \in Packets /\ p.src = n
    BY <2>1, <2>2, SwappedPacket
  <2>4. PICK a : a = Append(q, p)
    OBVIOUS
  <2>5. /\ a \in Seq(Packets) /\ Len(a) = Len(q) + 1 /\ a[Len(q) + 1] = p
        /\ \A k \in 1 .. Len(q) : a[k] = q[k]
    BY <1>1, <2>3, <2>4
  <2>6. NextAccepted(q, d, n) = a
    BY <1>3, <2>2, <2>4 DEF NextAccepted
  <2>7. Len(q) \in Nat /\ \A k \in 1 .. Len(a) : k \in 1 .. Len(q) \/ k = Len(q) + 1
    BY <1>1, <2>5
  <2>8. ASSUME NEW k \in 1 .. Len(a)
        PROVE  LET r == a[k].src
               IN  r < n + 1 /\ Handshake(toNet, r) /\ toNet[r].dest.rad = d
                   /\ a[k] = Swapped(toNet[r])
    <3>1. CASE k \in 1 .. Len(q)
      <4>1. q[k].src < n
        BY <3>1 DEF ComesFrom
      <4>3. q[k].src < n + 1
        BY <1>1, <1>2, <3>1, <4>1
      <4>2. QED
        BY <2>5, <3>1, <4>3 DEF ComesFrom
    <3>2. CASE k = Len(q) + 1
      BY <1>2, <1>3, <2>2, <2>3, <2>5, <3>2
    <3>3. QED
      BY <2>7, <3>1, <3>2
  <2>9. ASSUME NEW j \in 1 .. Len(a), NEW k \in 1 .. Len(a), j < k
        PROVE  a[j].src < a[k].src
    <3>1. CASE k \in 1 .. Len(q)
      <4>1. j \in 1 .. Len(q)
        BY <2>7, <2>9, <3>1
      <4>2. QED
        BY <2>5, <2>9, <3>1, <4>1 DEF ComesFrom
    <3>2. CASE k = Len(q) + 1
      <4>1. j \in 1 .. Len(q)
        BY <2>7, <2>9, <3>2
      <4>2. QED
        BY <2>3, <2>5, <3>2, <4>1 DEF ComesFrom
    <3>3. QED
      BY <2>7, <3>1, <3>2
  <2>10. ASSUME NEW r \in Rads, r < n + 1, Handshake(toNet, r), toNet[r].dest.rad = d
         PROVE  \E k \in 1 .. Len(a) : a[k].src = r
    <3>1. CASE r = n
      <4>1. Len(q) + 1 \in 1 .. Len(a)
        BY <2>5, <2>7
      <4>2. QED
        BY <2>3, <2>5, <3>1, <4>1
    <3>2. CASE r < n
      <4>1. PICK k \in 1 .. Len(q) : q[k].src = r
        BY <2>10, <3>2 DEF ComesFrom
      <4>2. k \in 1 .. Len(a) /\ a[k].src = r
        BY <2>5, <2>7, <4>1
      <4>3. QED
        BY <4>2
    <3>3. QED
      BY <1>2, <2>10, <3>1, <3>2
  <2>11. QED
    BY <2>5, <2>6, <2>8, <2>9, <2>10 DEF ComesFrom
<1>4. CASE ~(Handshake(toNet, n) /\ toNet[n].dest.rad = d)
  <2>1. NextAccepted(q, d, n) = q
    BY <1>4 DEF NextAccepted
  <2>2. \A k \in 1 .. Len(q) : q[k].src < n => q[k].src < n + 1
    BY <1>1, <1>2
  <2>3. \A r \in Rads : r < n + 1 => r < n \/ r = n
    BY <1>2
  <2>4. QED
    BY <1>4, <2>1, <2>2, <2>3 DEF ComesFrom
<1>5. QED
  BY <1>3, <1>4

LEMMA ArrivingProps ==
  ASSUME PortsInv, NEW d \in Rads
  PROVE  ComesFrom(Arriving(toNet, d), NumRads, d)
<1> DEFINE Good(n) == ComesFrom(AcceptedUpTo(toNet, d)[n], n, d)
           Bad == {n \in 0 .. NumRads : ~Good(n)}
<1>1. NumRads \in Nat
  BY Assumed
<1>2. SUFFICES ASSUME Bad # {} PROVE FALSE
  BY <1>1 DEF Arriving
<1>3. PICK n \in Bad : \A m \in Bad : n <= m
  <2>1. Bad \in SUBSET Nat
    BY <1>1
  <2> HIDE DEF Bad
  <2>2. QED
    BY <1>2, <2>1, SmallestElement
<1>4. n # 0
  <2>1. ComesFrom(<<>>, 0, d)
    BY DEF ComesFrom, Rads
  <2>2. AcceptedUpTo(toNet, d)[0] = <<>>
    BY AcceptedDef
  <2>3. QED
    BY <1>3, <2>1, <2>2
<1>5. PICK m \in Rads : n = m + 1 /\ m \in 0 .. NumRads /\ m \notin Bad
  BY <1>1, <1>3, <1>4 DEF Rads
<1>6. ComesFrom(AcceptedUpTo(toNet, d)[m], m, d)
  BY <1>5
<1>7. AcceptedUpTo(toNet, d)[n] = NextAccepted(AcceptedUpTo(toNet, d)[m], d, m)
  <2>1. n \in 1 .. NumRads /\ n - 1 = m
    BY <1>1, <1>3, <1>5
  <2>2. QED
    BY <2>1, AcceptedDef
<1>8. ComesFrom(AcceptedUpTo(toNet, d)[n], m + 1, d)
  BY <1>6, <1>7, AcceptedStep
<1>9. QED
  BY <1>3, <1>5, <1>8

(***************************************************************************)
(* What was sent, and where it is.                                         *)
(***************************************************************************)
FlowTypes ==
  /\ sent \in [Rads -> Seq(Packets)] /\ incoming \in [Rads -> Seq(Packets)]
  /\ outgoing \in [Rads -> Seq(Packets)] /\ delivered \in [Rads -> Seq(Packets)]
  /\ fifo \in [Rads -> Seq(Packets)]
  /\ toNet \in [Rads -> MaybePacket] /\ toNoc \in [Rads -> MaybePacket]
  /\ toRad \in [Rads -> MaybePacket]
  /\ netReady \in [Rads -> BOOLEAN]
  /\ \A d \in Rads : Len(fifo[d]) <= FifoSlots

\* The queue of a portal holds the last of the packets sent, and both portals show
\* the packet in front.
SourceInv ==
  \A s \in Rads :
    /\ Len(sent[s]) <= MaxPackets[s]
    /\ \A n \in 1 .. Len(sent[s]) : sent[s][n].id = n /\ sent[s][n].src = s
    /\ Len(incoming[s]) <= Len(sent[s])
    /\ \A k \in 1 .. Len(incoming[s]) : incoming[s][k] = sent[s][Taken(s) + k]
    /\ toNet[s] = FrontOf(incoming[s])
    /\ toNoc[s] = FrontOf(outgoing[s])

\* A packet of a line to RAD d: taken from its portal, and not lost.
InLine(p, d) ==
  /\ p.id \in 1 .. Taken(p.src)
  /\ sent[p.src][p.id].dest.rad = d
  /\ p = Swapped(sent[p.src][p.id])
  /\ <<p.src, p.id>> \notin lost

LineInv ==
  /\ \A d \in Rads : \A k \in 1 .. Len(Line(d)) : InLine(Line(d)[k], d)
  /\ \A d \in Rads : \A k \in 1 .. Len(Line(d)) : \A j \in 1 .. k - 1 :
       Line(d)[j].src = Line(d)[k].src => Line(d)[j].id < Line(d)[k].id
  /\ \A s \in Rads : \A n \in 1 .. Taken(s) :
       \/ <<s, n>> \in lost
       \/ \E k \in 1 .. Len(Line(sent[s][n].dest.rad)) :
            Line(sent[s][n].dest.rad)[k] = Swapped(sent[s][n])
  /\ \A i \in lost : \E s \in Rads : \E n \in 1 .. Taken(s) : i = <<s, n>>

\* What writeFifo adds to a counter before the edge at which it stores a packet is
\* over: the counter is ahead of the age by it.
HeadStart == IF WriteFirst THEN 1 ELSE 0

\* A counter belongs to each packet of a FIFO, and says how long it has been there.
AgeInv ==
  /\ age \in [Ids -> 0 .. LatencyCycles]
  /\ latency \in [Rads -> Seq(Nat)]
  /\ \A d \in Rads : Len(latency[d]) = Len(fifo[d])
  /\ \A d \in Rads : \A k \in 1 .. Len(fifo[d]) :
       /\ latency[d][k] >= HeadStart
       /\ age[IdOf(fifo[d][k])] = IF latency[d][k] - HeadStart < LatencyCycles
                                  THEN latency[d][k] - HeadStart ELSE LatencyCycles
  /\ \A s \in Rads : \A n \in Taken(s) + 1 .. MaxPackets[s] : age[<<s, n>>] = 0

SendsTo(s, d) == \E n \in 1 .. Len(sent[s]) : sent[s][n].dest.rad = d

TwoSenders(d) == \E s, t \in Rads : s # t /\ SendsTo(s, d) /\ SendsTo(t, d)

\* The counters c of a FIFO to which at most one packet a cycle is added, and whose
\* first one leaves on time: the FIFO never holds more than the latency.
OnPace(c) ==
  /\ \A k \in 1 .. Len(c) : /\ c[k] - HeadStart >= Len(c) - k
                            /\ \A j \in 1 .. k - 1 : c[j] - c[k] >= k - j
  /\ c # <<>> => c[1] - HeadStart < LatencyCycles

PaceInv == \A d \in Rads : TwoSenders(d) \/ OnPace(latency[d])

LossInv ==
  \A i \in lost : FifoSlots > LatencyCycles =>
    \E t \in Rads \ {i[1]} : SendsTo(t, sent[i[1]][i[2]].dest.rad)

FlowInv == FlowTypes /\ SourceInv /\ LineInv

\* An edge: what the NoCs offer, and which of them take the packet shown.
Edge(offered, takes) ==
  /\ offered \in [Rads -> MaybePacket] /\ takes \in [Rads -> BOOLEAN]
  /\ \A r \in Rads : offered[r] # NoPacket =>
       /\ Len(sent[r]) < MaxPackets[r]
       /\ offered[r].id = Len(sent[r]) + 1 /\ offered[r].src = r
  /\ Tick(offered, netReady, toRad, takes)
  /\ Cycle(toNet)
  /\ Observe(offered, takes)

LEMMA NextIsEdge ==
  ASSUME FlowTypes, Next
  PROVE  \E offered, takes : Edge(offered, takes)
<1>1. PICK dests \in [Rads -> UNION Range(Dests) \cup {NoPacket}],
           taking \in SUBSET {r \in Rads : toNoc[r] # NoPacket} :
             ClockEdge(dests, [r \in Rads |-> r \in taking])
  BY DEF Next
<1> DEFINE offered == [r \in Rads |->
                         IF dests[r] = NoPacket THEN NoPacket
                         ELSE [id |-> Len(sent[r]) + 1, src |-> r, dest |-> dests[r]]]
           takes == [r \in Rads |-> r \in taking]
<1>2. ASSUME NEW r \in Rads, dests[r] # NoPacket
      PROVE  /\ Len(sent[r]) < MaxPackets[r]
             /\ offered[r] \in Packets
             /\ offered[r].id = Len(sent[r]) + 1 /\ offered[r].src = r
  <2>1. Len(sent[r]) < MaxPackets[r] /\ dests[r] \in Dests[r]
    BY <1>1, <1>2 DEF ClockEdge
  <2>2. dests[r] \in Destinations
    BY <2>1, ClusterAssumption
  <2>3. Len(sent[r]) + 1 \in Nat
    BY DEF FlowTypes
  <2>4. QED
    BY <1>2, <2>1, <2>2, <2>3 DEF Packets
<1>3. offered \in [Rads -> MaybePacket] /\ takes \in [Rads -> BOOLEAN]
  BY <1>2 DEF MaybePacket
<1>4. \A r \in Rads : offered[r] # NoPacket => dests[r] # NoPacket
  OBVIOUS
<1>5. Tick(offered, netReady, toRad, takes) /\ Cycle(toNet) /\ Observe(offered, takes)
  BY <1>1 DEF ClockEdge
<1> HIDE DEF offered, takes
<1>6. QED
  BY <1>2, <1>3, <1>4, <1>5 DEF Edge

(***************************************************************************)
(* The portal of the RAD that sends.                                       *)
(***************************************************************************)
\* What an edge does to the packets of RAD s.
SourceStep(s) ==
  /\ sent'[s] \in Seq(Packets) /\ Len(sent[s]) <= Len(sent'[s])
  /\ \A n \in 1 .. Len(sent[s]) : sent'[s][n] = sent[s][n]
  /\ Taken(s)' = Taken(s) + IF Handshake(toNet, s) THEN 1 ELSE 0
  /\ Handshake(toNet, s) => /\ Taken(s) + 1 \in 1 .. Len(sent[s])
                            /\ toNet[s] = sent[s][Taken(s) + 1]

LEMMA PortsCorrect == FlowTypes /\ SourceInv => PortsInv
<1> SUFFICES ASSUME FlowTypes, SourceInv, NEW s \in Rads, toNet[s] # NoPacket
             PROVE  toNet[s].src = s
  BY DEF FlowTypes, PortsInv
<1>1. incoming[s] \in Seq(Packets) /\ sent[s] \in Seq(Packets)
  BY DEF FlowTypes
<1>2. incoming[s] # <<>> /\ toNet[s] = Head(incoming[s])
  BY DEF SourceInv, FrontOf
<1>3. 1 \in 1 .. Len(incoming[s]) /\ toNet[s] = incoming[s][1]
  BY <1>1, <1>2
<1>4. incoming[s][1] = sent[s][Taken(s) + 1] /\ Taken(s) + 1 \in 1 .. Len(sent[s])
  <2>1. /\ Len(incoming[s]) \in Nat /\ Len(sent[s]) \in Nat
        /\ 1 <= Len(incoming[s])
    BY <1>1, <1>3
  <2>2. Len(incoming[s]) <= Len(sent[s])
    BY DEF SourceInv
  <2>3. Taken(s) + 1 \in 1 .. Len(sent[s])
    <3>1. PICK m \in Nat, n \in Nat : m = Len(incoming[s]) /\ n = Len(sent[s])
      BY <2>1
    <3>2. 1 <= m /\ m <= n
      BY <2>1, <2>2, <3>1
    <3>3. n - m + 1 \in 1 .. n
      BY <3>2
    <3>4. Taken(s) = n - m
      BY <3>1 DEF Taken
    <3>5. QED
      BY <3>1, <3>3, <3>4
  <2>4. QED
    BY <1>3, <2>3 DEF SourceInv
<1>5. QED
  BY <1>3, <1>4 DEF SourceInv

LEMMA SourceNext ==
  ASSUME FlowTypes, SourceInv, NEW offered, NEW takes, Edge(offered, takes), NEW s \in Rads
  PROVE  /\ SourceStep(s)
         /\ incoming'[s] \in Seq(Packets) /\ toNet'[s] \in MaybePacket
         /\ Len(sent'[s]) <= MaxPackets[s]
         /\ \A n \in 1 .. Len(sent'[s]) : sent'[s][n].id = n /\ sent'[s][n].src = s
         /\ Len(incoming'[s]) <= Len(sent'[s])
         /\ \A k \in 1 .. Len(incoming'[s]) : incoming'[s][k] = sent'[s][Taken(s)' + k]
         /\ toNet'[s] = FrontOf(incoming'[s])
<1>1. PICK S, Q, o : S = sent[s] /\ Q = incoming[s] /\ o = offered[s]
  OBVIOUS
<1>2. S \in Seq(Packets) /\ Q \in Seq(Packets) /\ o \in MaybePacket
  BY <1>1 DEF FlowTypes, Edge
<1>3. PICK S1, Q1 : S1 = Pushed(S, o) /\ Q1 = Pushed(Q, o)
  OBVIOUS
<1>4. S1 \in Seq(Packets) /\ Q1 \in Seq(Packets)
  BY <1>2, <1>3, PushedSeq
<1>5. /\ Len(Q) <= Len(S)
      /\ \A k \in 1 .. Len(Q) : Q[k] = S[Len(S) - Len(Q) + k]
      /\ toNet[s] = FrontOf(Q)
      /\ Len(S) <= MaxPackets[s]
      /\ \A n \in 1 .. Len(S) : S[n].id = n /\ S[n].src = s
  BY <1>1 DEF SourceInv, Taken
<1>6. /\ Len(S) \in Nat /\ Len(Q) \in Nat /\ Len(S1) \in Nat /\ Len(Q1) \in Nat
      /\ MaxPackets[s] \in Nat
  BY <1>2, <1>4, Assumed
<1>7. /\ Len(S) <= Len(S1) /\ Len(S1) <= MaxPackets[s]
      /\ Len(S1) - Len(Q1) = Len(S) - Len(Q)
      /\ \A n \in 1 .. Len(S) : S1[n] = S[n]
      /\ \A n \in 1 .. Len(S1) : S1[n].id = n /\ S1[n].src = s
      /\ \A k \in 1 .. Len(Q1) : Q1[k] = S1[Len(S1) - Len(Q1) + k]
      /\ \A k \in 1 .. Len(Q) : Q1[k] = Q[k]
      /\ Len(Q) <= Len(Q1)
  <2>1. CASE o = NoPacket
    <3>1. S1 = S /\ Q1 = Q
      BY <1>2, <1>3, <2>1, PushedSeq
    <3>2. QED
      BY <1>5, <1>6, <3>1
  <2>2. CASE o # NoPacket
    <3>1. /\ Len(S1) = Len(S) + 1 /\ S1[Len(S) + 1] = o
          /\ \A n \in 1 .. Len(S) : S1[n] = S[n]
          /\ Len(Q1) = Len(Q) + 1 /\ Q1[Len(Q) + 1] = o
          /\ \A k \in 1 .. Len(Q) : Q1[k] = Q[k]
      BY <1>2, <1>3, <2>2, PushedSeq
    <3>2. Len(S) < MaxPackets[s] /\ o.id = Len(S) + 1 /\ o.src = s
      BY <1>1, <2>2 DEF Edge
    <3>3. ASSUME NEW n \in 1 .. Len(S1) PROVE S1[n].id = n /\ S1[n].src = s
      <4>1. n \in 1 .. Len(S) \/ n = Len(S) + 1
        BY <1>6, <3>1
      <4>2. QED
        BY <1>5, <3>1, <3>2, <4>1
    <3>4. ASSUME NEW k \in 1 .. Len(Q1) PROVE Q1[k] = S1[Len(S1) - Len(Q1) + k]
      <4>1. CASE k \in 1 .. Len(Q)
        <5>1. /\ Len(S1) - Len(Q1) + k = Len(S) - Len(Q) + k
              /\ Len(S) - Len(Q) + k \in 1 .. Len(S)
          BY <1>5, <1>6, <3>1, <4>1
        <5>2. QED
          BY <1>5, <3>1, <4>1, <5>1
      <4>2. CASE k = Len(Q) + 1
        <5>1. Len(S1) - Len(Q1) + k = Len(S) + 1
          BY <1>6, <3>1, <4>2
        <5>2. QED
          BY <3>1, <4>2, <5>1
      <4>3. QED
        BY <1>6, <3>1, <4>1, <4>2
    <3>5. QED
      BY <1>6, <3>1, <3>2, <3>3, <3>4
  <2>3. QED
    BY <2>1, <2>2
<1>8. /\ sent'[s] = S1 /\ incoming'[s] = Popped(Q1, toNet[s], netReady[s])
      /\ toNet'[s] = FrontOf(incoming'[s])
  BY <1>1, <1>3 DEF Edge, Observe, Tick, Out, Forwarded
<1>9. netReady[s] \in BOOLEAN
  BY DEF FlowTypes
<1>10. CASE Handshake(toNet, s)
  <2>1. Q # <<>> /\ toNet[s] = Head(Q)
    BY <1>5, <1>10 DEF Handshake, FrontOf
  <2>2. Len(Q) >= 1 /\ toNet[s] = Q[1]
    BY <1>2, <2>1
  <2>3. Q1 # <<>>
    BY <1>6, <1>7, <2>2
  <2>4. incoming'[s] = Tail(Q1)
    BY <1>8, <1>10, <2>3 DEF Popped, Handshake
  <2>5. PICK T : T = Tail(Q1)
    OBVIOUS
  <2>6. /\ T \in Seq(Packets) /\ Len(T) = Len(Q1) - 1
        /\ \A k \in 1 .. Len(Q1) - 1 : T[k] = Q1[k + 1]
    BY <1>4, <2>3, <2>5
  <2>7. Taken(s) = Len(S) - Len(Q) /\ Taken(s)' = Len(S1) - Len(T)
    BY <1>1, <1>8, <2>4, <2>5 DEF Taken
  <2>8. Taken(s) + 1 \in 1 .. Len(S) /\ Taken(s)' = Taken(s) + 1
    <3>1. /\ Len(S1) - Len(Q1) = Len(S) - Len(Q) /\ Len(Q) <= Len(S)
          /\ Len(T) = Len(Q1) - 1
      BY <1>5, <1>7, <2>6
    <3>2. QED
      BY <1>6, <2>2, <2>7, <3>1
  <2>9. toNet[s] = S[Taken(s) + 1]
    <3>1. 1 \in 1 .. Len(Q)
      BY <1>6, <2>2
    <3>2. QED
      BY <1>5, <2>2, <2>7, <3>1
  <2>10. ASSUME NEW k \in 1 .. Len(T) PROVE T[k] = S1[Taken(s)' + k]
    <3>1. k \in 1 .. Len(Q1) - 1 /\ k + 1 \in 1 .. Len(Q1)
      BY <1>6, <2>6
    <3>2. Q1[k + 1] = S1[Len(S1) - Len(Q1) + (k + 1)]
      BY <1>7, <3>1
    <3>3. Len(S1) - Len(Q1) + (k + 1) = Taken(s)' + k
      BY <1>6, <2>6, <2>7
    <3>4. QED
      BY <2>6, <3>1, <3>2, <3>3
  <2>11. SourceStep(s)
    BY <1>1, <1>4, <1>7, <1>8, <1>10, <2>8, <2>9 DEF SourceStep
  <2>12. FrontOf(T) \in MaybePacket
    BY <2>6 DEF FrontOf, MaybePacket
  <2>13. Len(T) <= Len(S1)
    BY <1>5, <1>6, <1>7, <2>6
  <2>14. QED
    BY <1>7, <1>8, <2>4, <2>5, <2>6, <2>10, <2>11, <2>12, <2>13
<1>11. CASE ~Handshake(toNet, s)
  <2>1. incoming'[s] = Q1
    BY <1>8, <1>9, <1>11 DEF Popped, Handshake
  <2>2. Taken(s) = Len(S) - Len(Q) /\ Taken(s)' = Len(S1) - Len(Q1)
    BY <1>1, <1>8, <2>1 DEF Taken
  <2>3. Taken(s)' = Taken(s) + 0 /\ Len(Q1) <= Len(S1)
    BY <1>5, <1>6, <1>7, <2>2
  <2>4. SourceStep(s)
    BY <1>1, <1>4, <1>7, <1>8, <1>11, <2>3 DEF SourceStep
  <2>5. FrontOf(Q1) \in MaybePacket
    BY <1>4 DEF FrontOf, MaybePacket
  <2>6. QED
    BY <1>4, <1>7, <1>8, <2>1, <2>2, <2>3, <2>4, <2>5
<1>12. QED
  BY <1>10, <1>11

(***************************************************************************)
(* The network and the portal of the RAD that receives.                    *)
(***************************************************************************)
LEMMA StoredProps ==
  ASSUME FlowTypes, PortsInv, NEW d \in Rads
  PROVE  /\ Arriving(toNet, d) \in Seq(Packets)
         /\ NumStored(toNet, d) \in 0 .. Len(Arriving(toNet, d))
         /\ Len(fifo[d]) + NumStored(toNet, d) <= FifoSlots
         /\ NumStored(toNet, d) < Len(Arriving(toNet, d))
              => NumStored(toNet, d) = FifoSlots - Len(fifo[d])
         /\ Stored(toNet, d) \in Seq(Packets)
         /\ Len(Stored(toNet, d)) = NumStored(toNet, d)
         /\ \A k \in 1 .. NumStored(toNet, d) :
              Stored(toNet, d)[k] = Arriving(toNet, d)[k]
         /\ DOMAIN Dropped(toNet, d)
              = 1 .. Len(Arriving(toNet, d)) - NumStored(toNet, d)
         /\ \A k \in 1 .. Len(Arriving(toNet, d)) - NumStored(toNet, d) :
              Dropped(toNet, d)[k] = Arriving(toNet, d)[NumStored(toNet, d) + k]
<1>1. PICK a : a = Arriving(toNet, d)
  OBVIOUS
<1>2. PICK m : m = NumStored(toNet, d)
  OBVIOUS
<1>3. a \in Seq(Packets) /\ Len(a) \in Nat
  BY <1>1, ArrivingProps DEF ComesFrom
<1>4. Len(fifo[d]) \in Nat /\ Len(fifo[d]) <= FifoSlots /\ FifoSlots \in Nat
  BY Assumed DEF FlowTypes
<1>5. /\ m \in 0 .. Len(a) /\ Len(fifo[d]) + m <= FifoSlots
      /\ m < Len(a) => m = FifoSlots - Len(fifo[d])
  <2>1. PICK f \in Nat, n \in Nat : f = Len(fifo[d]) /\ n = Len(a)
    BY <1>3, <1>4
  <2>2. m = IF n < FifoSlots - f THEN n ELSE FifoSlots - f
    BY <1>1, <1>2, <2>1 DEF NumStored
  <2>3. f <= FifoSlots
    BY <1>4, <2>1
  <2>4. m \in 0 .. n /\ f + m <= FifoSlots /\ (m < n => m = FifoSlots - f)
    BY <1>4, <2>2, <2>3
  <2>5. QED
    BY <2>1, <2>4
<1>6. /\ SubSeq(a, 1, m) \in Seq(Packets) /\ Len(SubSeq(a, 1, m)) = m
      /\ \A k \in 1 .. m : SubSeq(a, 1, m)[k] = a[k]
  BY <1>3, <1>5
<1>7. /\ SubSeq(a, m + 1, Len(a)) \in Seq(Packets)
      /\ Len(SubSeq(a, m + 1, Len(a))) = Len(a) - m
      /\ \A k \in 1 .. Len(a) - m : SubSeq(a, m + 1, Len(a))[k] = a[m + k]
  <2>1. m + 1 \in 1 .. Len(a) + 1 /\ m \in Nat /\ Len(a) - m \in Nat
    BY <1>3, <1>5
  <2>2. \A i \in m + 1 .. Len(a) : a[i] \in Packets
    BY <1>3, <2>1
  <2>3. /\ SubSeq(a, m + 1, Len(a)) \in Seq(Packets)
        /\ Len(SubSeq(a, m + 1, Len(a)))
             = IF m + 1 <= Len(a) THEN Len(a) - (m + 1) + 1 ELSE 0
        /\ \A i \in 1 .. Len(a) - (m + 1) + 1 :
             SubSeq(a, m + 1, Len(a))[i] = a[m + 1 + i - 1]
    BY <1>3, <2>1, <2>2, SubSeqProperties
  <2>4. \A k \in 1 .. Len(a) - m : m + 1 + k - 1 = m + k /\ k \in 1 .. Len(a) - (m + 1) + 1
    BY <1>3, <2>1
  <2>5. QED
    BY <1>3, <2>1, <2>3, <2>4
<1>8. DOMAIN SubSeq(a, m + 1, Len(a)) = 1 .. Len(a) - m
  BY <1>7
<1>9. Stored(toNet, d) = SubSeq(a, 1, m) /\ Dropped(toNet, d) = SubSeq(a, m + 1, Len(a))
  BY <1>1, <1>2 DEF Stored, Dropped
<1>10. QED
  BY <1>1, <1>2, <1>3, <1>5, <1>6, <1>7, <1>8, <1>9

\* The packets that an edge leaves in the FIFO of RAD d.
Staying(d) == IF Leaves(toNet, d) THEN Tail(fifo[d]) ELSE fifo[d]

LEMMA LineStep ==
  ASSUME FlowTypes, SourceInv, NEW offered, NEW takes, Edge(offered, takes), NEW d \in Rads
  PROVE  /\ outgoing'[d] \in Seq(Packets) /\ delivered'[d] \in Seq(Packets)
         /\ fifo'[d] \in Seq(Packets) /\ Len(fifo'[d]) <= FifoSlots
         /\ toNoc'[d] \in MaybePacket /\ toRad'[d] \in MaybePacket
         /\ toNoc'[d] = FrontOf(outgoing'[d])
         /\ fifo'[d] = Staying(d) \o Stored(toNet, d)
         /\ Line(d) \in Seq(Packets)
         /\ Line(d)' = Line(d) \o Stored(toNet, d)
<1>1. PortsInv
  BY PortsCorrect
<1>2. PICK D, O, F, S, p, R, P :
        /\ D = delivered[d] /\ O = outgoing[d] /\ F = fifo[d] /\ S = Stored(toNet, d)
        /\ p = toRad[d] /\ R = Pushed(<<>>, p) /\ P = Pushed(O, p)
  OBVIOUS
<1>3. /\ D \in Seq(Packets) /\ O \in Seq(Packets) /\ F \in Seq(Packets) /\ S \in Seq(Packets)
      /\ p \in MaybePacket
  BY <1>1, <1>2, StoredProps DEF FlowTypes
<1>4. R \in Seq(Packets) /\ P \in Seq(Packets)
  <2>1. <<>> \in Seq(Packets)
    OBVIOUS
  <2>2. QED
    BY <1>2, <1>3, <2>1, PushedSeq
<1>5. P = O \o R
  <2>1. CASE p = NoPacket
    BY <1>2, <1>3, <2>1 DEF Pushed
  <2>2. CASE p # NoPacket
    <3>1. R = <<p>> /\ P = Append(O, p) /\ p \in Packets
      BY <1>2, <1>3, <2>2 DEF Pushed, MaybePacket
    <3>2. QED
      BY <1>3, <3>1, AppendIsConcat
  <2>3. QED
    BY <2>1, <2>2
<1>6. /\ outgoing'[d] = Popped(P, toNoc[d], takes[d])
      /\ toNoc'[d] = FrontOf(outgoing'[d])
      /\ delivered'[d] = IF takes[d] THEN Pushed(D, toNoc[d]) ELSE D
      /\ fifo'[d] = FifoAfter(toNet, d)
      /\ toRad'[d] = IF Leaves(toNet, d) THEN Head(F) ELSE NoPacket
  BY <1>2 DEF Edge, Tick, In, Forwarded, Observe, Cycle
<1>7. /\ outgoing'[d] \in Seq(Packets) /\ delivered'[d] \in Seq(Packets)
      /\ delivered'[d] \o outgoing'[d] = D \o P
  <2>1. CASE takes[d] /\ toNoc[d] # NoPacket
    <3>1. O # <<>> /\ toNoc[d] = Head(O)
      BY <1>2, <2>1 DEF SourceInv, FrontOf
    <3>2. P # <<>> /\ Head(P) = Head(O)
      BY <1>3, <1>4, <1>5, <3>1
    <3>3. PICK h, T : h = Head(P) /\ T = Tail(P)
      OBVIOUS
    <3>4. h \in Packets /\ T \in Seq(Packets) /\ <<h>> \o T = P
      BY <1>4, <3>2, <3>3, HeadAndTail, TailSeq
    <3>5. outgoing'[d] = T
      BY <1>6, <2>1, <3>2, <3>3 DEF Popped
    <3>6. delivered'[d] = D \o <<h>> /\ D \o <<h>> \in Seq(Packets)
      <4>1. delivered'[d] = Append(D, h)
        BY <1>6, <2>1, <3>1, <3>2, <3>3 DEF Pushed
      <4>2. QED
        BY <1>3, <3>4, <4>1, AppendIsConcat
    <3>7. <<h>> \in Seq(Packets)
      BY <3>4
    <3>8. (D \o <<h>>) \o T = D \o (<<h>> \o T)
      BY <1>3, <3>4, <3>7, ConcatAssociative
    <3>9. QED
      BY <3>4, <3>5, <3>6, <3>8
  <2>2. CASE ~(takes[d] /\ toNoc[d] # NoPacket)
    <3>1. takes[d] \in BOOLEAN
      BY DEF Edge
    <3>2. outgoing'[d] = P /\ delivered'[d] = D
      BY <1>6, <2>2, <3>1 DEF Popped, Pushed
    <3>3. QED
      BY <1>3, <1>4, <3>2
  <2>3. QED
    BY <2>1, <2>2
<1>8. PICK F1 : F1 = Staying(d)
  OBVIOUS
<1>9. fifo'[d] = F1 \o S
  BY <1>2, <1>6, <1>8 DEF FifoAfter, Staying
<1>10. PICK R1 : R1 = Pushed(<<>>, toRad'[d])
  OBVIOUS
<1>11. /\ F1 \in Seq(Packets) /\ R1 \in Seq(Packets) /\ R1 \o F1 = F
       /\ toRad'[d] \in MaybePacket /\ Len(F1) <= Len(F)
  <2>1. CASE Leaves(toNet, d)
    <3>1. F # <<>> /\ F1 = Tail(F) /\ toRad'[d] = Head(F)
      BY <1>2, <1>6, <1>8, <2>1 DEF Leaves, Staying
    <3>2. /\ Head(F) \in Packets /\ Tail(F) \in Seq(Packets) /\ <<Head(F)>> \o Tail(F) = F
          /\ Len(F) \in Nat /\ Len(Tail(F)) = Len(F) - 1
      BY <1>3, <3>1, TailSeq, HeadAndTail
    <3>3. Head(F) # NoPacket
      BY <3>2, Assumed
    <3>4. R1 = <<Head(F)>>
      BY <1>10, <3>1, <3>3 DEF Pushed
    <3>5. R1 \in Seq(Packets)
      BY <3>2, <3>4
    <3>6. QED
      BY <3>1, <3>2, <3>4, <3>5 DEF MaybePacket
  <2>2. CASE ~Leaves(toNet, d)
    <3>1. F1 = F /\ toRad'[d] = NoPacket /\ R1 = <<>>
      BY <1>2, <1>6, <1>8, <1>10, <2>2 DEF Staying, Pushed
    <3>2. QED
      BY <1>3, <3>1 DEF MaybePacket
  <2>3. QED
    BY <2>1, <2>2
<1>12. F1 \o S \in Seq(Packets) /\ Len(F1 \o S) = Len(F1) + Len(S)
  BY <1>3, <1>11
<1>13. Len(fifo'[d]) <= FifoSlots
  <2>1. Len(F) + Len(S) <= FifoSlots
    BY <1>1, <1>2, StoredProps
  <2>2. Len(F) \in Nat /\ Len(S) \in Nat /\ Len(F1) \in Nat /\ FifoSlots \in Nat
    BY <1>3, <1>11, Assumed
  <2>3. QED
    BY <1>9, <1>11, <1>12, <2>1, <2>2
<1>14. Line(d) = (D \o O) \o R \o F
  BY <1>2 DEF Line
<1>15. Line(d)' = (delivered'[d] \o outgoing'[d]) \o R1 \o (F1 \o S)
  BY <1>9, <1>10 DEF Line
<1>16. (delivered'[d] \o outgoing'[d]) = (D \o O) \o R
  <2>1. (D \o O) \o R = D \o (O \o R)
    <3>1. D \in Seq(Packets) /\ O \in Seq(Packets) /\ R \in Seq(Packets)
      BY <1>3, <1>4
    <3>2. QED
      BY <3>1, Associative, Zenon
  <2>2. QED
    BY <1>5, <1>7, <2>1, Zenon
<1>17. PICK X : X = (D \o O) \o R
  OBVIOUS
<1>18. X \in Seq(Packets)
  BY <1>3, <1>4, <1>17
<1>19. X \o R1 \o (F1 \o S) = X \o F \o S
  <2>1. X \o R1 \o (F1 \o S) = X \o (R1 \o (F1 \o S))
    BY <1>11, <1>12, <1>18, Associative, Zenon
  <2>2. (R1 \o F1) \o S = R1 \o (F1 \o S)
    <3>1. R1 \in Seq(Packets) /\ F1 \in Seq(Packets) /\ S \in Seq(Packets)
      BY <1>3, <1>11
    <3>2. QED
      BY <3>1, Associative, Zenon
  <2>3. X \o F \o S = X \o (F \o S)
    BY <1>3, <1>18, Associative, Zenon
  <2>4. QED
    BY <1>11, <2>1, <2>2, <2>3, Zenon
<1>20. toNoc'[d] \in MaybePacket
  BY <1>6, <1>7 DEF FrontOf, MaybePacket
<1>21. X \o F \in Seq(Packets)
  BY <1>3, <1>18
<1>22. QED
  BY <1>2, <1>6, <1>7, <1>8, <1>9, <1>11, <1>12, <1>13, <1>14, <1>15, <1>16, <1>17, <1>19,
     <1>20, <1>21

LEMMA FlowTypesNext ==
  ASSUME FlowTypes, SourceInv, NEW offered, NEW takes, Edge(offered, takes)
  PROVE  FlowTypes' /\ SourceInv'
<1>1. /\ sent' = [r \in Rads |-> Pushed(sent[r], offered[r])]
      /\ incoming' = [r \in Rads |-> Out(r, offered, netReady).queue]
      /\ toNet' = [r \in Rads |-> Out(r, offered, netReady).port]
      /\ outgoing' = [r \in Rads |-> In(r, toRad, takes).queue]
      /\ toNoc' = [r \in Rads |-> In(r, toRad, takes).port]
      /\ delivered' = [r \in Rads |-> IF takes[r] THEN Pushed(delivered[r], toNoc[r])
                                      ELSE delivered[r]]
      /\ fifo' = [d \in Rads |-> FifoAfter(toNet, d)]
      /\ toRad' = [d \in Rads |-> IF Leaves(toNet, d) THEN Head(fifo[d]) ELSE NoPacket]
      /\ netReady' = InWindow
  BY DEF Edge, Tick, Cycle, Observe
<1>2. \A r \in Rads : /\ sent'[r] \in Seq(Packets) /\ incoming'[r] \in Seq(Packets)
                      /\ toNet'[r] \in MaybePacket
  BY SourceNext DEF SourceStep
<1>3. \A r \in Rads : /\ outgoing'[r] \in Seq(Packets) /\ delivered'[r] \in Seq(Packets)
                      /\ fifo'[r] \in Seq(Packets) /\ Len(fifo'[r]) <= FifoSlots
                      /\ toNoc'[r] \in MaybePacket /\ toRad'[r] \in MaybePacket
  BY LineStep
<1>4. netReady' \in [Rads -> BOOLEAN]
  BY <1>1 DEF InWindow
<1>5. /\ sent' \in [Rads -> Seq(Packets)] /\ incoming' \in [Rads -> Seq(Packets)]
      /\ toNet' \in [Rads -> MaybePacket]
  BY <1>1, <1>2
<1>6. /\ outgoing' \in [Rads -> Seq(Packets)] /\ delivered' \in [Rads -> Seq(Packets)]
      /\ fifo' \in [Rads -> Seq(Packets)]
      /\ toNoc' \in [Rads -> MaybePacket] /\ toRad' \in [Rads -> MaybePacket]
  BY <1>1, <1>3
<1>7. FlowTypes'
  BY <1>3, <1>4, <1>5, <1>6 DEF FlowTypes
<1>8. SourceInv'
  <2>1. SUFFICES ASSUME NEW s \in Rads
                 PROVE  /\ Len(sent'[s]) <= MaxPackets[s]
                        /\ \A n \in 1 .. Len(sent'[s]) :
                             sent'[s][n].id = n /\ sent'[s][n].src = s
                        /\ Len(incoming'[s]) <= Len(sent'[s])
                        /\ \A k \in 1 .. Len(incoming'[s]) :
                             incoming'[s][k] = sent'[s][Taken(s)' + k]
                        /\ toNet'[s] = FrontOf(incoming'[s])
                        /\ toNoc'[s] = FrontOf(outgoing'[s])
    BY DEF SourceInv
  <2>2. toNoc'[s] = FrontOf(outgoing'[s])
    BY LineStep
  <2>3. QED
    BY <2>2, SourceNext
<1>9. QED
  BY <1>7, <1>8

(***************************************************************************)
(* Stored or dropped.                                                      *)
(***************************************************************************)
LEMMA Counts ==
  ASSUME FlowTypes, SourceInv, NEW s \in Rads
  PROVE  Taken(s) \in Nat /\ Taken(s) <= Len(sent[s]) /\ Len(sent[s]) \in Nat
<1>1. Len(sent[s]) \in Nat /\ Len(incoming[s]) \in Nat
  BY DEF FlowTypes
<1>2. PICK m \in Nat, n \in Nat : m = Len(incoming[s]) /\ n = Len(sent[s])
  BY <1>1
<1>3. m <= n
  BY <1>2 DEF SourceInv
<1>4. n - m \in Nat /\ n - m <= n
  BY <1>3
<1>5. QED
  BY <1>2, <1>4 DEF Taken

\* A packet that arrives at the FIFO of RAD d is the first of its source that the
\* network has not taken yet.
LEMMA Arrived ==
  ASSUME FlowTypes, SourceInv, NEW offered, NEW takes, Edge(offered, takes),
         NEW d \in Rads, NEW j \in 1 .. Len(Arriving(toNet, d)),
         NEW p, p = Arriving(toNet, d)[j]
  PROVE  /\ p \in Packets /\ p.src \in Rads
         /\ Handshake(toNet, p.src) /\ toNet[p.src].dest.rad = d
         /\ p.id = Taken(p.src) + 1
         /\ Taken(p.src) + 1 \in 1 .. Len(sent[p.src])
         /\ sent[p.src][p.id].dest.rad = d
         /\ p = Swapped(sent[p.src][p.id])
         /\ sent'[p.src][p.id] = sent[p.src][p.id]
         /\ Taken(p.src)' = Taken(p.src) + 1
<1>1. ComesFrom(Arriving(toNet, d), NumRads, d)
  BY PortsCorrect, ArrivingProps
<1>2. p \in Packets /\ p.src \in Rads
  <2>1. Arriving(toNet, d) \in Seq(Packets)
    BY <1>1 DEF ComesFrom
  <2>2. p \in Packets
    BY <2>1
  <2>3. QED
    BY <2>2 DEF Packets
<1>3. PICK s \in Rads : s = p.src
  BY <1>2
<1>4. Handshake(toNet, s) /\ toNet[s].dest.rad = d /\ p = Swapped(toNet[s])
  BY <1>1, <1>3 DEF ComesFrom
<1>5. SourceStep(s)
  BY SourceNext
<1>6. /\ Taken(s) + 1 \in 1 .. Len(sent[s]) /\ toNet[s] = sent[s][Taken(s) + 1]
      /\ Taken(s)' = Taken(s) + 1
      /\ sent'[s][Taken(s) + 1] = sent[s][Taken(s) + 1]
  BY <1>4, <1>5 DEF SourceStep
<1>7. toNet[s].id = Taken(s) + 1
  BY <1>6 DEF SourceInv
<1>8. toNet[s] \in Packets
  BY <1>4 DEF Handshake, FlowTypes, MaybePacket
<1>9. p.id = Taken(s) + 1
  BY <1>4, <1>7, <1>8, SwappedPacket
<1>10. QED
  BY <1>2, <1>3, <1>4, <1>6, <1>9

\* The packets of RAD s that an edge leaves alone.
LEMMA SentStays ==
  ASSUME FlowTypes, SourceInv, NEW offered, NEW takes, Edge(offered, takes), NEW s \in Rads
  PROVE  /\ Taken(s) \in Nat /\ Taken(s)' \in Nat
         /\ Taken(s)' = Taken(s) \/ (Taken(s)' = Taken(s) + 1 /\ Handshake(toNet, s))
         /\ \A n \in 1 .. Taken(s) : sent'[s][n] = sent[s][n]
<1>1. Taken(s) \in Nat /\ Taken(s) <= Len(sent[s]) /\ Len(sent[s]) \in Nat
  BY Counts
<1>2. SourceStep(s)
  BY SourceNext
<1>3. Taken(s)' = Taken(s) + IF Handshake(toNet, s) THEN 1 ELSE 0
  BY <1>2 DEF SourceStep
<1>4. /\ Taken(s)' \in Nat
      /\ Taken(s)' = Taken(s) \/ (Taken(s)' = Taken(s) + 1 /\ Handshake(toNet, s))
  <2>1. PICK t, u : t \in Nat /\ t = Taken(s) /\ u = Taken(s)'
    BY <1>1
  <2>2. CASE Handshake(toNet, s)
    <3>1. u = t + 1
      BY <1>3, <2>1, <2>2
    <3>2. QED
      BY <2>1, <2>2, <3>1
  <2>3. CASE ~Handshake(toNet, s)
    <3>1. u = t + 0
      BY <1>3, <2>1, <2>3
    <3>2. QED
      BY <2>1, <3>1
  <2>4. QED
    BY <2>2, <2>3
<1>5. ASSUME NEW n \in 1 .. Taken(s) PROVE sent'[s][n] = sent[s][n]
  <2>1. PICK t \in Nat, l \in Nat : t = Taken(s) /\ l = Len(sent[s])
    BY <1>1
  <2>2. n \in 1 .. l
    BY <1>1, <2>1
  <2>3. QED
    BY <1>2, <2>1, <2>2 DEF SourceStep
<1>6. QED
  BY <1>1, <1>4, <1>5

LEMMA LineElements ==
  ASSUME FlowTypes, SourceInv, NEW offered, NEW takes, Edge(offered, takes), NEW d \in Rads
  PROVE  /\ Len(Line(d)) \in Nat
         /\ \A k \in 1 .. Len(Line(d)) : Line(d)[k] \in Packets
         /\ Len(Line(d)') = Len(Line(d)) + NumStored(toNet, d)
         /\ \A k \in 1 .. Len(Line(d)) : Line(d)'[k] = Line(d)[k]
         /\ \A j \in 1 .. NumStored(toNet, d) :
              Line(d)'[Len(Line(d)) + j] = Arriving(toNet, d)[j]
<1>1. PICK L, S : L = Line(d) /\ S = Stored(toNet, d)
  OBVIOUS
<1>2. L \in Seq(Packets) /\ Line(d)' = L \o S
  BY <1>1, LineStep
<1>3. PortsInv
  BY PortsCorrect
<1>4. /\ S \in Seq(Packets) /\ Len(S) = NumStored(toNet, d)
      /\ \A j \in 1 .. NumStored(toNet, d) : S[j] = Arriving(toNet, d)[j]
  BY <1>1, <1>3, StoredProps
<1>5. /\ Len(L \o S) = Len(L) + Len(S)
      /\ \A k \in 1 .. Len(L) : (L \o S)[k] = L[k]
      /\ \A j \in 1 .. Len(S) : (L \o S)[Len(L) + j] = S[j]
  <2>1. L \in Seq(Packets) /\ S \in Seq(Packets)
    BY <1>2, <1>4
  <2>2. QED
    BY <2>1
<1>6. Len(L) \in Nat /\ \A k \in 1 .. Len(L) : L[k] \in Packets
  BY <1>2
<1>7. QED
  BY <1>1, <1>2, <1>4, <1>5, <1>6

\* What an edge drops.
DroppedNow(i) ==
  \E d \in Rads : \E j \in NumStored(toNet, d) + 1 .. Len(Arriving(toNet, d)) :
    i = <<Arriving(toNet, d)[j].src, Arriving(toNet, d)[j].id>>

LEMMA LostStep ==
  ASSUME FlowTypes, SourceInv, NEW offered, NEW takes, Edge(offered, takes)
  PROVE  \A i : i \in lost' <=> i \in lost \/ DroppedNow(i)
<1>1. lost' = lost \cup InSome([d \in Rads |-> Dropped(toNet, d)])
  BY DEF Edge, Observe
<1>2. SUFFICES ASSUME NEW i
               PROVE  i \in InSome([d \in Rads |-> Dropped(toNet, d)]) <=> DroppedNow(i)
  BY <1>1
<1>3. PortsInv
  BY PortsCorrect
<1>4. ASSUME NEW d \in Rads
      PROVE  (\E k \in DOMAIN Dropped(toNet, d) : i = IdOf(Dropped(toNet, d)[k]))
             <=> \E j \in NumStored(toNet, d) + 1 .. Len(Arriving(toNet, d)) :
                   i = <<Arriving(toNet, d)[j].src, Arriving(toNet, d)[j].id>>
  <2>1. PICK a, m, q : a = Arriving(toNet, d) /\ m = NumStored(toNet, d) /\ q = Dropped(toNet, d)
    OBVIOUS
  <2>2. /\ Len(a) \in Nat /\ m \in 0 .. Len(a)
        /\ DOMAIN q = 1 .. Len(a) - m
        /\ \A k \in 1 .. Len(a) - m : q[k] = a[m + k]
    <3>1. a \in Seq(Packets)
      BY <1>3, <2>1, StoredProps
    <3>2. QED
      BY <1>3, <2>1, <3>1, StoredProps
  <2>3. ASSUME NEW k \in DOMAIN q, i = IdOf(q[k])
        PROVE  \E j \in m + 1 .. Len(a) : i = <<a[j].src, a[j].id>>
    <3>1. m + k \in m + 1 .. Len(a) /\ q[k] = a[m + k]
      BY <2>2
    <3>2. QED
      BY <2>3, <3>1 DEF IdOf
  <2>4. ASSUME NEW j \in m + 1 .. Len(a), i = <<a[j].src, a[j].id>>
        PROVE  \E k \in DOMAIN q : i = IdOf(q[k])
    <3>1. j - m \in 1 .. Len(a) - m /\ m + (j - m) = j
      BY <2>2
    <3>2. q[j - m] = a[j]
      BY <2>2, <3>1
    <3>3. QED
      BY <2>2, <2>4, <3>1, <3>2 DEF IdOf
  <2>5. QED
    BY <2>1, <2>3, <2>4
<1>5. i \in InSome([d \in Rads |-> Dropped(toNet, d)])
        <=> \E d \in Rads : \E k \in DOMAIN Dropped(toNet, d) : i = IdOf(Dropped(toNet, d)[k])
  BY DEF InSome
<1>6. QED
  BY <1>4, <1>5 DEF DroppedNow

LEMMA SourcesDiffer ==
  ASSUME PortsInv, NEW d \in Rads,
         NEW j \in 1 .. Len(Arriving(toNet, d)), NEW k \in 1 .. Len(Arriving(toNet, d)), j < k
  PROVE  Arriving(toNet, d)[j].src # Arriving(toNet, d)[k].src
<1>1. PICK a : a = Arriving(toNet, d)
  OBVIOUS
<1>2. ComesFrom(a, NumRads, d)
  BY <1>1, ArrivingProps
<1>3. a[j].src < a[k].src /\ a[j] \in Packets /\ a[k] \in Packets
  <2>1. a \in Seq(Packets)
    BY <1>2 DEF ComesFrom
  <2>2. QED
    BY <1>1, <1>2, <2>1 DEF ComesFrom
<1>4. \A p \in Packets : p.src \in Nat
  BY DEF Packets, Rads
<1>5. QED
  BY <1>1, <1>3, <1>4

LEMMA OldLineStays ==
  ASSUME FlowInv, NEW offered, NEW takes, Edge(offered, takes), NEW d \in Rads,
         NEW p \in Packets, InLine(p, d)
  PROVE  InLine(p, d)'
<1> USE DEF FlowInv
<1>1. PICK s \in Rads : s = p.src
  BY DEF Packets
<1>2. PICK n : n = p.id
  OBVIOUS
<1>3. /\ n \in 1 .. Taken(s) /\ sent[s][n].dest.rad = d /\ p = Swapped(sent[s][n])
      /\ <<s, n>> \notin lost
  BY <1>1, <1>2 DEF InLine
<1>4. /\ Taken(s) \in Nat /\ Taken(s)' \in Nat
      /\ Taken(s)' = Taken(s) \/ Taken(s)' = Taken(s) + 1
      /\ sent'[s][n] = sent[s][n]
  BY <1>3, SentStays
<1>5. n \in 1 .. Taken(s)'
  BY <1>3, <1>4
<1>6. ~DroppedNow(<<s, n>>)
  <2>1. SUFFICES ASSUME NEW c \in Rads,
                        NEW j \in NumStored(toNet, c) + 1 .. Len(Arriving(toNet, c)),
                        <<s, n>> = <<Arriving(toNet, c)[j].src, Arriving(toNet, c)[j].id>>
                 PROVE  FALSE
    BY DEF DroppedNow
  <2>2. j \in 1 .. Len(Arriving(toNet, c))
    <3>1. /\ NumStored(toNet, c) \in 0 .. Len(Arriving(toNet, c))
          /\ Arriving(toNet, c) \in Seq(Packets)
      BY PortsCorrect, StoredProps
    <3>2. QED
      BY <3>1
  <2>3. PICK q : q = Arriving(toNet, c)[j]
    OBVIOUS
  <2>4. q.id = Taken(q.src) + 1
    BY <2>2, <2>3, Arrived
  <2>5. q.src = s /\ q.id = n
    BY <2>1, <2>3
  <2>6. QED
    BY <1>3, <1>4, <2>4, <2>5
<1>7. <<s, n>> \notin lost'
  BY <1>3, <1>6, LostStep
<1>8. QED
  BY <1>1, <1>2, <1>3, <1>4, <1>5, <1>7 DEF InLine

LEMMA NewInLine ==
  ASSUME FlowInv, NEW offered, NEW takes, Edge(offered, takes), NEW d \in Rads,
         NEW j \in 1 .. NumStored(toNet, d), NEW p, p = Arriving(toNet, d)[j]
  PROVE  InLine(p, d)' /\ p \in Packets /\ p.id = Taken(p.src) + 1
<1> USE DEF FlowInv
<1>1. PICK m, a : m = NumStored(toNet, d) /\ a = Arriving(toNet, d)
  OBVIOUS
<1>2. PortsInv
  BY PortsCorrect
<1>3. m \in 0 .. Len(a) /\ Len(a) \in Nat /\ j \in 1 .. Len(a)
  <2>1. m \in 0 .. Len(a) /\ a \in Seq(Packets)
    BY <1>1, <1>2, StoredProps
  <2>2. QED
    BY <1>1, <2>1
<1>4. /\ p \in Packets /\ p.src \in Rads
      /\ toNet[p.src].dest.rad = d
      /\ p.id = Taken(p.src) + 1
      /\ sent[p.src][p.id].dest.rad = d
      /\ p = Swapped(sent[p.src][p.id])
      /\ sent'[p.src][p.id] = sent[p.src][p.id]
      /\ Taken(p.src)' = Taken(p.src) + 1
  <2>1. j \in 1 .. Len(Arriving(toNet, d)) /\ p = Arriving(toNet, d)[j]
    BY <1>1, <1>3
  <2>2. QED
    BY <2>1, Arrived
<1>5. PICK s \in Rads : s = p.src
  BY <1>4
<1>6. Taken(s) \in Nat
  BY Counts
<1>7. p.id \in 1 .. Taken(s)'
  BY <1>4, <1>5, <1>6
<1>8. <<s, p.id>> \notin lost
  <2>1. SUFFICES ASSUME <<s, p.id>> \in lost PROVE FALSE
    OBVIOUS
  <2>2. PICK t \in Rads : \E n \in 1 .. Taken(t) : <<s, p.id>> = <<t, n>>
    BY <2>1 DEF LineInv
  <2>3. p.id \in 1 .. Taken(s)
    BY <2>2
  <2>4. QED
    BY <1>4, <1>5, <1>6, <2>3
<1>9. ~DroppedNow(<<s, p.id>>)
  <2>1. SUFFICES ASSUME NEW c \in Rads,
                        NEW k \in NumStored(toNet, c) + 1 .. Len(Arriving(toNet, c)),
                        <<s, p.id>> = <<Arriving(toNet, c)[k].src, Arriving(toNet, c)[k].id>>
                 PROVE  FALSE
    BY DEF DroppedNow
  <2>2. k \in 1 .. Len(Arriving(toNet, c))
    <3>1. /\ NumStored(toNet, c) \in 0 .. Len(Arriving(toNet, c))
          /\ Arriving(toNet, c) \in Seq(Packets)
      BY <1>2, StoredProps
    <3>2. QED
      BY <3>1
  <2>3. PICK q : q = Arriving(toNet, c)[k]
    OBVIOUS
  <2>4. toNet[q.src].dest.rad = c
    BY <2>2, <2>3, Arrived
  <2>5. c = d
    BY <1>4, <1>5, <2>1, <2>3, <2>4
  <2>6. j < k /\ k \in 1 .. Len(a)
    BY <1>1, <1>3, <2>1, <2>2, <2>5
  <2>7. a[j].src # a[k].src
    BY <1>1, <1>2, <1>3, <2>6, SourcesDiffer
  <2>8. QED
    BY <1>1, <1>5, <2>1, <2>5, <2>7
<1>10. <<s, p.id>> \notin lost'
  BY <1>8, <1>9, LostStep
<1>11. QED
  BY <1>4, <1>5, <1>7, <1>10 DEF InLine

LEMMA LineNext ==
  ASSUME FlowInv, NEW offered, NEW takes, Edge(offered, takes)
  PROVE  LineInv'
<1> USE DEF FlowInv
<1>1. ASSUME NEW d \in Rads, NEW k \in 1 .. Len(Line(d)')
      PROVE  \/ k \in 1 .. Len(Line(d)) /\ Line(d)'[k] = Line(d)[k] /\ Line(d)[k] \in Packets
             \/ \E j \in 1 .. NumStored(toNet, d) :
                  k = Len(Line(d)) + j /\ Line(d)'[k] = Arriving(toNet, d)[j]
  <2>1. PICK l \in Nat : l = Len(Line(d))
    BY LineElements
  <2>2. PICK m : m = NumStored(toNet, d)
    OBVIOUS
  <2>3. Len(Line(d)') = l + m /\ m \in Nat
    <3>1. m \in 0 .. Len(Arriving(toNet, d))
      BY <2>2, PortsCorrect, StoredProps
    <3>2. QED
      BY <2>1, <2>2, <3>1, LineElements
  <2>4. CASE k <= l
    BY <2>1, <2>3, <2>4, LineElements
  <2>5. CASE k > l
    <3>1. k - l \in 1 .. m /\ k = l + (k - l)
      BY <2>3, <2>5
    <3>2. Line(d)'[l + (k - l)] = Arriving(toNet, d)[k - l]
      BY <2>1, <2>2, <3>1, LineElements
    <3>3. QED
      BY <2>1, <2>2, <3>1, <3>2
  <2>6. QED
    BY <2>3, <2>4, <2>5
<1>2. ASSUME NEW d \in Rads, NEW k \in 1 .. Len(Line(d)')
      PROVE  InLine(Line(d)[k], d)'
  <2>1. PICK p : p = Line(d)'[k]
    OBVIOUS
  <2>2. InLine(p, d)'
    <3>1. CASE k \in 1 .. Len(Line(d)) /\ Line(d)'[k] = Line(d)[k] /\ Line(d)[k] \in Packets
      <4>1. InLine(p, d) /\ p \in Packets
        BY <2>1, <3>1 DEF LineInv
      <4>2. QED
        BY <4>1, OldLineStays
    <3>2. CASE \E j \in 1 .. NumStored(toNet, d) :
                 k = Len(Line(d)) + j /\ Line(d)'[k] = Arriving(toNet, d)[j]
      BY <2>1, <3>2, NewInLine
    <3>3. QED
      BY <1>1, <3>1, <3>2
  <2>3. QED
    BY <2>1, <2>2 DEF InLine
<1>3. ASSUME NEW d \in Rads, NEW k \in 1 .. Len(Line(d)'), NEW j \in 1 .. k - 1,
             Line(d)'[j].src = Line(d)'[k].src
      PROVE  Line(d)'[j].id < Line(d)'[k].id
  <2>1. PICK l \in Nat : l = Len(Line(d))
    BY LineElements
  <2>2. Len(Line(d)') \in Nat /\ j \in 1 .. Len(Line(d)')
    <3>1. NumStored(toNet, d) \in 0 .. Len(Arriving(toNet, d))
      BY PortsCorrect, StoredProps
    <3>2. Len(Line(d)') = l + NumStored(toNet, d)
      BY <2>1, LineElements
    <3>3. QED
      BY <3>1, <3>2
  <2>3. CASE k \in 1 .. l /\ Line(d)'[k] = Line(d)[k]
    <3>1. j \in 1 .. l
      BY <2>1, <2>3
    <3>2. Line(d)'[j] = Line(d)[j]
      BY <2>1, <3>1, LineElements
    <3>3. QED
      BY <1>3, <2>1, <2>3, <3>2 DEF LineInv
  <2>4. ASSUME NEW i \in 1 .. NumStored(toNet, d), k = l + i,
               Line(d)'[k] = Arriving(toNet, d)[i]
        PROVE  Line(d)'[j].id < Line(d)'[k].id
    <3>1. PICK p : p = Line(d)'[k]
      OBVIOUS
    <3>2. p \in Packets /\ p.id = Taken(p.src) + 1
      BY <2>4, <3>1, NewInLine
    <3>3. p.src \in Rads /\ Taken(p.src) \in Nat
      BY <3>2, Counts DEF Packets
    <3>4. CASE j \in 1 .. l /\ Line(d)'[j] = Line(d)[j]
      <4>1. InLine(Line(d)[j], d)
        BY <2>1, <3>4 DEF LineInv
      <4>2. Line(d)[j].id \in 1 .. Taken(p.src)
        BY <1>3, <3>1, <3>4, <4>1 DEF InLine
      <4>3. QED
        BY <3>1, <3>2, <3>3, <3>4, <4>2
    <3>5. ASSUME NEW h \in 1 .. NumStored(toNet, d), j = l + h,
                 Line(d)'[j] = Arriving(toNet, d)[h]
          PROVE  FALSE
      <4>1. /\ NumStored(toNet, d) \in 0 .. Len(Arriving(toNet, d))
            /\ Arriving(toNet, d) \in Seq(Packets)
        BY PortsCorrect, StoredProps
      <4>2. h < i /\ h \in 1 .. Len(Arriving(toNet, d)) /\ i \in 1 .. Len(Arriving(toNet, d))
        BY <2>4, <3>5, <4>1
      <4>3. Arriving(toNet, d)[h].src # Arriving(toNet, d)[i].src
        BY <4>2, PortsCorrect, SourcesDiffer
      <4>4. QED
        BY <1>3, <2>4, <3>5, <4>3
    <3>6. QED
      BY <1>1, <2>1, <2>2, <3>4, <3>5
  <2>5. QED
    BY <1>1, <2>1, <2>3, <2>4
<1>4. ASSUME NEW s \in Rads, NEW n \in 1 .. Taken(s)'
      PROVE  \/ <<s, n>> \in lost'
             \/ \E k \in 1 .. Len((Line(sent[s][n].dest.rad))') :
                  (Line(sent[s][n].dest.rad))'[k] = Swapped(sent'[s][n])
  <2>1. /\ Taken(s) \in Nat /\ Taken(s)' \in Nat
        /\ Taken(s)' = Taken(s) \/ (Taken(s)' = Taken(s) + 1 /\ Handshake(toNet, s))
        /\ \A i \in 1 .. Taken(s) : sent'[s][i] = sent[s][i]
    BY SentStays
  <2>2. CASE n \in 1 .. Taken(s)
    <3>1. sent'[s][n] = sent[s][n]
      BY <2>1, <2>2
    <3>2. CASE <<s, n>> \in lost
      BY <3>2, LostStep
    <3>3. ASSUME NEW d, d = sent[s][n].dest.rad,
                 NEW k \in 1 .. Len(Line(d)), Line(d)[k] = Swapped(sent[s][n])
          PROVE  \E i \in 1 .. Len(Line(d)') : Line(d)'[i] = Swapped(sent[s][n])
      <4>1. d \in Rads
        <5>1. n \in 1 .. Len(sent[s])
          BY <2>1, <2>2, Counts
        <5>2. sent[s] \in Seq(Packets)
          BY DEF FlowTypes
        <5>3. sent[s][n] \in Packets
          BY <5>1, <5>2
        <5>4. QED
          BY <3>3, <5>3 DEF Packets, Destinations
      <4>2. k \in 1 .. Len(Line(d)') /\ Line(d)'[k] = Line(d)[k]
        <5>1. /\ Len(Line(d)) \in Nat /\ Len(Line(d)') = Len(Line(d)) + NumStored(toNet, d)
              /\ Line(d)'[k] = Line(d)[k]
          BY <4>1, LineElements
        <5>2. NumStored(toNet, d) \in Nat
          <6>1. NumStored(toNet, d) \in 0 .. Len(Arriving(toNet, d))
            BY <4>1, PortsCorrect, StoredProps
          <6>2. QED
            BY <6>1
        <5>3. QED
          BY <5>1, <5>2
      <4>3. QED
        BY <3>3, <4>2
    <3>4. CASE <<s, n>> \notin lost
      <4>1. PICK d : d = sent[s][n].dest.rad
        OBVIOUS
      <4>2. PICK k \in 1 .. Len(Line(d)) : Line(d)[k] = Swapped(sent[s][n])
        BY <2>2, <3>4, <4>1 DEF LineInv
      <4>3. \E i \in 1 .. Len(Line(d)') : Line(d)'[i] = Swapped(sent[s][n])
        BY <3>3, <4>1, <4>2
      <4>4. QED
        BY <3>1, <4>1, <4>3
    <3>5. QED
      BY <3>2, <3>4
  <2>3. CASE n = Taken(s) + 1 /\ Handshake(toNet, s)
    <3>1. PICK d \in Rads : d = toNet[s].dest.rad
      <4>1. toNet[s] \in Packets
        BY <2>3 DEF Handshake, FlowTypes, MaybePacket
      <4>2. QED
        BY <4>1 DEF Packets, Destinations
    <3>2. s < NumRads
      BY Assumed DEF Rads
    <3>3. PICK j \in 1 .. Len(Arriving(toNet, d)) : Arriving(toNet, d)[j].src = s
      BY <2>3, <3>1, <3>2, PortsCorrect, ArrivingProps DEF ComesFrom
    <3>4. PICK p : p = Arriving(toNet, d)[j]
      OBVIOUS
    <3>5. /\ p.src = s /\ p.id = n
          /\ sent[s][n].dest.rad = d /\ p = Swapped(sent[s][n])
          /\ sent'[s][n] = sent[s][n]
      BY <2>3, <3>3, <3>4, Arrived
    <3>6. CASE j \in 1 .. NumStored(toNet, d)
      <4>1. Line(d)'[Len(Line(d)) + j] = p
        BY <3>4, <3>6, LineElements
      <4>2. Len(Line(d)) + j \in 1 .. Len(Line(d)')
        <5>1. /\ Len(Line(d)) \in Nat /\ Len(Line(d)') = Len(Line(d)) + NumStored(toNet, d)
          BY LineElements
        <5>2. NumStored(toNet, d) \in Nat
          <6>1. NumStored(toNet, d) \in 0 .. Len(Arriving(toNet, d))
            BY PortsCorrect, StoredProps
          <6>2. QED
            BY <6>1
        <5>3. QED
          BY <3>6, <5>1, <5>2
      <4>3. PICK i : i = Len(Line(d)) + j
        OBVIOUS
      <4>4. i \in 1 .. Len(Line(d)') /\ Line(d)'[i] = Swapped(sent'[s][n])
        BY <3>5, <4>1, <4>2, <4>3
      <4>5. sent'[s][n].dest.rad = d
        BY <3>5
      <4>6. QED
        BY <4>4, <4>5
    <3>7. CASE ~(j \in 1 .. NumStored(toNet, d))
      <4>1. /\ NumStored(toNet, d) \in 0 .. Len(Arriving(toNet, d))
            /\ Arriving(toNet, d) \in Seq(Packets)
        BY PortsCorrect, StoredProps
      <4>2. j \in NumStored(toNet, d) + 1 .. Len(Arriving(toNet, d))
        BY <3>7, <4>1
      <4>3. DroppedNow(<<s, n>>)
        BY <3>4, <3>5, <4>2 DEF DroppedNow
      <4>4. QED
        BY <4>3, LostStep
    <3>8. QED
      BY <3>6, <3>7
  <2>4. QED
    BY <2>1, <2>2, <2>3
<1>5. ASSUME NEW i \in lost'
      PROVE  \E s \in Rads : \E n \in 1 .. Taken(s)' : i = <<s, n>>
  <2>1. CASE i \in lost
    <3>1. PICK s \in Rads : \E n \in 1 .. Taken(s) : i = <<s, n>>
      BY <2>1 DEF LineInv
    <3>2. PICK n \in 1 .. Taken(s) : i = <<s, n>>
      BY <3>1
    <3>3. n \in 1 .. Taken(s)'
      <4>1. /\ Taken(s) \in Nat /\ Taken(s)' \in Nat
            /\ Taken(s)' = Taken(s) \/ Taken(s)' = Taken(s) + 1
        BY SentStays
      <4>2. QED
        BY <4>1
    <3>4. QED
      BY <3>2, <3>3
  <2>2. CASE DroppedNow(i)
    <3>0. PICK d \in Rads : \E j \in NumStored(toNet, d) + 1 .. Len(Arriving(toNet, d)) :
            i = <<Arriving(toNet, d)[j].src, Arriving(toNet, d)[j].id>>
      BY <2>2 DEF DroppedNow
    <3>1. PICK j \in NumStored(toNet, d) + 1 .. Len(Arriving(toNet, d)) :
            i = <<Arriving(toNet, d)[j].src, Arriving(toNet, d)[j].id>>
      BY <3>0
    <3>2. j \in 1 .. Len(Arriving(toNet, d))
      <4>1. /\ NumStored(toNet, d) \in 0 .. Len(Arriving(toNet, d))
            /\ Arriving(toNet, d) \in Seq(Packets)
        BY PortsCorrect, StoredProps
      <4>2. QED
        BY <4>1
    <3>3. PICK p : p = Arriving(toNet, d)[j]
      OBVIOUS
    <3>4. p.src \in Rads /\ p.id = Taken(p.src) + 1 /\ Taken(p.src)' = Taken(p.src) + 1
      BY <3>2, <3>3, Arrived
    <3>5. p.id \in 1 .. Taken(p.src)'
      <4>1. Taken(p.src) \in Nat
        BY <3>4, Counts
      <4>2. QED
        BY <3>4, <4>1
    <3>6. QED
      BY <3>1, <3>3, <3>4, <3>5
  <2>3. QED
    BY <2>1, <2>2, LostStep
<1>6. \A d \in Rads : \A k \in 1 .. Len(Line(d)') : InLine(Line(d)[k], d)'
  BY <1>2
<1>7. \A d \in Rads : \A k \in 1 .. Len(Line(d)') : \A j \in 1 .. k - 1 :
        Line(d)'[j].src = Line(d)'[k].src => Line(d)'[j].id < Line(d)'[k].id
  BY <1>3
<1>8. \A s \in Rads : \A n \in 1 .. Taken(s)' :
        \/ <<s, n>> \in lost'
        \/ \E k \in 1 .. Len((Line(sent[s][n].dest.rad))') :
             (Line(sent[s][n].dest.rad))'[k] = Swapped(sent'[s][n])
  BY <1>4
<1>9. \A i \in lost' : \E s \in Rads : \E n \in 1 .. Taken(s)' : i = <<s, n>>
  BY <1>5
<1>10. QED
  BY <1>6, <1>7, <1>8, <1>9 DEF LineInv

LEMMA FlowInit == Init => FlowInv
<1> SUFFICES ASSUME Init PROVE FlowInv
  OBVIOUS
<1>1. /\ sent = [r \in Rads |-> <<>>] /\ delivered = [r \in Rads |-> <<>>] /\ lost = {}
      /\ incoming = [r \in Rads |-> <<>>] /\ toNet = [r \in Rads |-> NoPacket]
      /\ outgoing = [r \in Rads |-> <<>>] /\ toNoc = [r \in Rads |-> NoPacket]
      /\ netReady = [r \in Rads |-> TRUE] /\ fifo = [r \in Rads |-> <<>>]
      /\ toRad = [r \in Rads |-> NoPacket]
  BY DEF Init, NetInit, PortalInit
<1>2. FlowTypes
  BY <1>1, Assumed DEF FlowTypes, MaybePacket
<1>3. SourceInv
  BY <1>1, Assumed DEF SourceInv, FrontOf
<1>4. \A d \in Rads : Line(d) = <<>>
  BY <1>1 DEF Line, Pushed
<1>5. \A s \in Rads : Taken(s) = 0
  BY <1>1 DEF Taken
<1>6. LineInv
  BY <1>1, <1>4, <1>5 DEF LineInv
<1>7. QED
  BY <1>2, <1>3, <1>6 DEF FlowInv

LEMMA FlowNext == FlowInv /\ [Next]_vars => FlowInv'
<1> SUFFICES ASSUME FlowInv, [Next]_vars PROVE FlowInv'
  OBVIOUS
<1>1. CASE UNCHANGED vars
  <2>1. FlowTypes' /\ SourceInv'
    BY <1>1 DEF vars, FlowInv, FlowTypes, SourceInv, Taken
  <2>2. LineInv'
    <3>1. sent' = sent /\ incoming' = incoming /\ lost' = lost
      BY <1>1 DEF vars
    <3>2. delivered' = delivered /\ outgoing' = outgoing /\ toRad' = toRad /\ fifo' = fifo
      BY <1>1 DEF vars
    <3>3. LineInv
      BY DEF FlowInv
    <3>4. \A d : Line(d)' = Line(d)
      BY <3>2 DEF Line
    <3>5. \A s : Taken(s)' = Taken(s)
      BY <3>1 DEF Taken
    <3>6. \A p, d : InLine(p, d)' <=> InLine(p, d)
      BY <3>1, <3>5 DEF InLine
    <3>7. \A d \in Rads : \A k \in 1 .. Len(Line(d)') : InLine(Line(d)[k], d)'
      <4>1. SUFFICES ASSUME NEW d \in Rads, NEW k \in 1 .. Len(Line(d)')
                     PROVE  InLine(Line(d)[k], d)'
        OBVIOUS
      <4>2. PICK p : p = Line(d)'[k]
        OBVIOUS
      <4>3. InLine(p, d)
        BY <3>3, <3>4, <4>2 DEF LineInv
      <4>4. InLine(p, d)'
        BY <3>6, <4>3
      <4>5. QED
        BY <4>2, <4>4 DEF InLine
    <3>8. \A s \in Rads : \A n \in 1 .. Taken(s)' :
            \/ <<s, n>> \in lost'
            \/ \E k \in 1 .. Len((Line(sent[s][n].dest.rad))') :
                 (Line(sent[s][n].dest.rad))'[k] = Swapped(sent'[s][n])
      BY <3>1, <3>2, <3>3, <3>4, <3>5 DEF LineInv, Line
    <3>9. QED
      BY <3>1, <3>3, <3>4, <3>5, <3>7, <3>8 DEF LineInv
  <2>3. QED
    BY <2>1, <2>2 DEF FlowInv
<1>2. CASE Next
  <2>1. PICK offered, takes : Edge(offered, takes)
    BY <1>2, NextIsEdge DEF FlowInv
  <2>2. FlowTypes' /\ SourceInv'
    BY <2>1, FlowTypesNext DEF FlowInv
  <2>3. LineInv'
    BY <2>1, LineNext
  <2>4. QED
    BY <2>2, <2>3 DEF FlowInv
<1>3. QED
  BY <1>1, <1>2

\* A packet sent waits in its portal, or is on its line in its place, or has been
\* dropped; nothing is duplicated, reordered or sent to another RAD, for whatever
\* the NoCs offer and whenever they take.
THEOREM OnlyDropsAreLost == Spec => []NothingElseLost
<1>1. FlowInv => NothingElseLost
  <2> SUFFICES ASSUME FlowInv PROVE NothingElseLost
    OBVIOUS
  <2>1. ASSUME NEW s \in Rads, NEW n \in 1 .. Len(sent[s]), NEW p, p = sent[s][n],
               NEW d, d = p.dest.rad
        PROVE  LET inLine == \E k \in 1 .. Len(Line(d)) : Line(d)[k] = Swapped(p)
               IN  IF n > Taken(s)
                   THEN incoming[s][n - Taken(s)] = p /\ <<s, n>> \notin lost /\ ~inLine
                   ELSE inLine <=> <<s, n>> \notin lost
    <3>1. PICK t \in Nat, l \in Nat : t = Taken(s) /\ l = Len(sent[s]) /\ t <= l
      BY Counts DEF FlowInv
    <3>2. p \in Packets /\ d \in Rads /\ p.id = n /\ p.src = s
      <4>1. sent[s] \in Seq(Packets)
        BY DEF FlowInv, FlowTypes
      <4>2. p \in Packets
        BY <2>1, <4>1
      <4>3. QED
        BY <2>1, <4>2 DEF FlowInv, SourceInv, Packets, Destinations
    <3>3. ASSUME NEW k \in 1 .. Len(Line(d)), Line(d)[k] = Swapped(p)
          PROVE  n \in 1 .. t /\ <<s, n>> \notin lost
      <4>1. InLine(Swapped(p), d)
        BY <3>2, <3>3 DEF FlowInv, LineInv
      <4>2. Swapped(p).id = n /\ Swapped(p).src = s
        BY <3>2, SwappedPacket
      <4>3. QED
        BY <3>1, <4>1, <4>2 DEF InLine
    <3>4. ASSUME <<s, n>> \in lost PROVE n \in 1 .. t
      <4>1. PICK r \in Rads : \E m \in 1 .. Taken(r) : <<s, n>> = <<r, m>>
        BY <3>4 DEF FlowInv, LineInv
      <4>2. QED
        BY <3>1, <4>1
    <3>5. CASE n > t
      <4>1. n - t \in 1 .. Len(incoming[s]) /\ t + (n - t) = n
        <5>1. Len(incoming[s]) \in Nat
          BY DEF FlowInv, FlowTypes
        <5>2. PICK i \in Nat : i = Len(incoming[s])
          BY <5>1
        <5>3. t = l - i
          BY <3>1, <5>2 DEF Taken
        <5>4. n - t \in 1 .. i
          BY <2>1, <3>1, <3>5, <5>3
        <5>5. QED
          BY <2>1, <3>1, <5>2, <5>4
      <4>2. incoming[s][n - t] = p
        BY <2>1, <3>1, <4>1 DEF FlowInv, SourceInv
      <4>3. ~(n \in 1 .. t)
        BY <3>1, <3>5
      <4>4. QED
        BY <3>1, <3>3, <3>4, <3>5, <4>2, <4>3
    <3>6. CASE ~(n > t)
      <4>1. n \in 1 .. t
        BY <2>1, <3>1, <3>6
      <4>2. <<s, n>> \in lost \/ \E k \in 1 .. Len(Line(d)) : Line(d)[k] = Swapped(p)
        BY <2>1, <3>1, <4>1 DEF FlowInv, LineInv
      <4>3. QED
        BY <3>1, <3>3, <3>6, <4>2
    <3>7. QED
      BY <3>5, <3>6
  <2>2. ASSUME NEW d \in Rads, NEW k \in 1 .. Len(Line(d)), NEW p, p = Line(d)[k]
        PROVE  /\ \E n \in 1 .. Len(sent[p.src]) :
                    sent[p.src][n].dest.rad = d /\ p = Swapped(sent[p.src][n])
               /\ \A j \in 1 .. k - 1 : Line(d)[j].src = p.src => Line(d)[j].id < p.id
    <3>1. InLine(p, d)
      BY <2>2 DEF FlowInv, LineInv
    <3>2. p.src \in Rads
      <4>1. Line(d) \in Seq(Packets)
        <5>1. /\ delivered[d] \in Seq(Packets) /\ outgoing[d] \in Seq(Packets)
              /\ fifo[d] \in Seq(Packets) /\ toRad[d] \in MaybePacket
          BY DEF FlowInv, FlowTypes
        <5>2. Pushed(<<>>, toRad[d]) \in Seq(Packets)
          BY <5>1 DEF Pushed, MaybePacket
        <5>3. QED
          BY <5>1, <5>2 DEF Line
      <4>2. p \in Packets
        BY <2>2, <4>1
      <4>3. QED
        BY <4>2 DEF Packets
    <3>3. p.id \in 1 .. Len(sent[p.src])
      <4>1. Taken(p.src) \in Nat /\ Taken(p.src) <= Len(sent[p.src]) /\ Len(sent[p.src]) \in Nat
        BY <3>2, Counts DEF FlowInv
      <4>2. p.id \in 1 .. Taken(p.src)
        BY <3>1 DEF InLine
      <4>3. QED
        BY <4>1, <4>2
    <3>4. QED
      BY <2>2, <3>1, <3>3 DEF FlowInv, LineInv, InLine
  <2>3. QED
    BY <2>1, <2>2 DEF NothingElseLost
<1>2. QED
  BY <1>1, FlowInit, FlowNext, PTL DEF Spec

(***************************************************************************)
(* The latency.                                                            *)
(***************************************************************************)
LEMMA IdsDef == \A s, n : <<s, n>> \in Ids <=> s \in Rads /\ n \in 1 .. MaxPackets[s]
BY DEF Ids

LEMMA FifoElements ==
  ASSUME FlowInv, NEW d \in Rads, NEW k \in 1 .. Len(fifo[d])
  PROVE  /\ fifo[d][k] \in Packets /\ fifo[d][k].src \in Rads
         /\ fifo[d][k].id \in 1 .. Taken(fifo[d][k].src)
         /\ IdOf(fifo[d][k]) \in Ids
<1> USE DEF FlowInv
<1>1. PICK X, F : X = delivered[d] \o outgoing[d] \o Pushed(<<>>, toRad[d]) /\ F = fifo[d]
  OBVIOUS
<1>2. X \in Seq(Packets) /\ F \in Seq(Packets)
  <2>1. /\ delivered[d] \in Seq(Packets) /\ outgoing[d] \in Seq(Packets)
        /\ fifo[d] \in Seq(Packets) /\ toRad[d] \in MaybePacket
    BY DEF FlowTypes
  <2>2. Pushed(<<>>, toRad[d]) \in Seq(Packets)
    BY <2>1 DEF Pushed, MaybePacket
  <2>3. QED
    BY <1>1, <2>1, <2>2
<1>3. Line(d) = X \o F
  BY <1>1 DEF Line
<1>4. /\ Len(X) + k \in 1 .. Len(X \o F) /\ (X \o F)[Len(X) + k] = F[k]
      /\ F[k] \in Packets
  <2>1. k \in 1 .. Len(F) /\ F[k] \in Packets
    BY <1>1, <1>2
  <2>2. /\ Len(X \o F) = Len(X) + Len(F)
        /\ \A i \in 1 .. Len(F) : (X \o F)[Len(X) + i] = F[i]
    BY <1>2
  <2>3. Len(X) \in Nat /\ Len(F) \in Nat
    BY <1>2
  <2>4. QED
    BY <2>1, <2>2, <2>3
<1>5. PICK p : p = F[k]
  OBVIOUS
<1>6. InLine(p, d)
  BY <1>3, <1>4, <1>5 DEF LineInv
<1>7. p \in Packets /\ p.src \in Rads
  BY <1>4, <1>5 DEF Packets
<1>8. p.id \in 1 .. MaxPackets[p.src]
  <2>1. /\ Taken(p.src) \in Nat /\ Taken(p.src) <= Len(sent[p.src])
        /\ Len(sent[p.src]) \in Nat /\ MaxPackets[p.src] \in Nat
    BY <1>7, Counts, Assumed
  <2>2. Len(sent[p.src]) <= MaxPackets[p.src]
    BY <1>7 DEF SourceInv
  <2>3. p.id \in 1 .. Taken(p.src)
    BY <1>6 DEF InLine
  <2>4. QED
    BY <2>1, <2>2, <2>3
<1>9. IdOf(p) \in Ids
  BY <1>7, <1>8, IdsDef DEF IdOf
<1>10. QED
  BY <1>1, <1>5, <1>6, <1>7, <1>9 DEF InLine

LEMMA AgedSeq ==
  ASSUME NEW c \in Seq(Nat)
  PROVE  /\ Aged(c) \in Seq(Nat) /\ Len(Aged(c)) = Len(c)
         /\ \A k \in 1 .. Len(c) : Aged(c)[k] = c[k] + 1
<1>1. Len(c) \in Nat /\ DOMAIN c = 1 .. Len(c) /\ \A k \in 1 .. Len(c) : c[k] \in Nat
  OBVIOUS
<1>2. Aged(c) \in [1 .. Len(c) -> Nat]
  BY <1>1 DEF Aged
<1>3. QED
  BY <1>1, <1>2 DEF Aged

LEMMA HeadStartValue ==
  /\ HeadStart \in 0 .. 1 /\ (WriteFirst => HeadStart = 1) /\ (~WriteFirst => HeadStart = 0)
BY Assumed DEF HeadStart

\* The FIFO of RAD d and its counters, before and after an edge.  Departed is the
\* number of packets that leave.
Departed(d) == IF Leaves(toNet, d) THEN 1 ELSE 0

LEMMA FifoStep ==
  ASSUME FlowInv, AgeInv, NEW offered, NEW takes, Edge(offered, takes), NEW d \in Rads,
         NEW l, l = Len(fifo[d]), NEW m, m = NumStored(toNet, d), NEW z, z = Departed(d)
  PROVE  /\ l \in Nat /\ m \in Nat /\ z \in 0 .. 1 /\ z <= l
         /\ l > 0 => (z = 1 <=> latency[d][1] + 1 >= LatencyCycles)
         /\ Len(fifo'[d]) = l - z + m
         /\ \A k \in 1 .. l - z : fifo'[d][k] = fifo[d][k + z]
         /\ \A k \in 1 .. m : fifo'[d][l - z + k] = Arriving(toNet, d)[k]
         /\ DOMAIN Staying(d) = 1 .. l - z
         /\ \A k \in 1 .. l - z : Staying(d)[k] = fifo[d][k + z]
         /\ latency'[d] \in Seq(Nat) /\ Len(latency'[d]) = l - z + m
         /\ \A k \in 1 .. l - z : latency'[d][k] = latency[d][k + z] + 1
         /\ \A k \in 1 .. m : latency'[d][l - z + k] = HeadStart
<1> USE DEF FlowInv
<1>1. PICK F, S, T, A : /\ F = fifo[d] /\ S = Stored(toNet, d) /\ T = Staying(d)
                        /\ A = Arriving(toNet, d)
  OBVIOUS
<1>2. /\ F \in Seq(Packets) /\ S \in Seq(Packets) /\ Len(S) = m /\ m \in Nat
      /\ \A k \in 1 .. m : S[k] = A[k]
  <2>1. PortsInv
    BY PortsCorrect
  <2>2. S \in Seq(Packets) /\ Len(S) = m /\ \A k \in 1 .. m : S[k] = A[k]
    BY <1>1, <2>1, StoredProps
  <2>3. m \in Nat
    BY <2>2
  <2>4. QED
    BY <1>1, <2>2, <2>3 DEF FlowTypes
<1>3. l \in Nat /\ z \in 0 .. 1
  BY <1>1, <1>2 DEF Departed
<1>4. PICK c : c = latency[d]
  OBVIOUS
<1>5. c \in Seq(Nat) /\ Len(c) = l
  BY <1>4 DEF AgeInv
<1>6. fifo[d] = <<>> <=> l = 0
  BY <1>1, <1>2
<1>7. PICK n : n = NewCounters(toNet, d)
  OBVIOUS
<1>8. n \in Seq(Nat) /\ Len(n) = m /\ \A k \in 1 .. m : n[k] = 0
  <2>1. n = [k \in 1 .. m |-> 0]
    BY <1>7 DEF NewCounters
  <2>2. QED
    BY <1>2, <2>1
<1>9. PICK r : r = CountersAtRead(toNet, d)
  OBVIOUS
<1>10. /\ r \in Seq(Nat) /\ Len(r) = IF WriteFirst THEN l + m ELSE l
       /\ \A k \in 1 .. l : r[k] = c[k] + 1
       /\ WriteFirst => \A k \in 1 .. m : r[l + k] = 1
  <2>1. CASE WriteFirst
    <3>1. PICK q : q = c \o n
      OBVIOUS
    <3>2. /\ q \in Seq(Nat) /\ Len(q) = l + m /\ (\A k \in 1 .. l : q[k] = c[k])
          /\ (\A k \in 1 .. m : q[l + k] = n[k])
      <4>1. c \in Seq(Nat) /\ n \in Seq(Nat)
        BY <1>5, <1>8
      <4>2. /\ c \o n \in Seq(Nat) /\ Len(c \o n) = Len(c) + Len(n)
            /\ \A k \in 1 .. Len(c) : (c \o n)[k] = c[k]
            /\ \A k \in 1 .. Len(n) : (c \o n)[Len(c) + k] = n[k]
        BY <4>1
      <4>3. QED
        BY <1>5, <1>8, <3>1, <4>2
    <3>3. r = Aged(q)
      BY <1>4, <1>7, <1>9, <2>1, <3>1 DEF CountersAtRead
    <3>4. /\ r \in Seq(Nat) /\ Len(r) = l + m
          /\ \A k \in 1 .. l + m : r[k] = q[k] + 1
      BY <3>2, <3>3, AgedSeq
    <3>5. /\ \A k \in 1 .. l : k \in 1 .. l + m
          /\ \A k \in 1 .. m : l + k \in 1 .. l + m
      BY <1>2, <1>3
    <3>6. \A k \in 1 .. l : r[k] = c[k] + 1
      BY <3>2, <3>4, <3>5
    <3>7. \A k \in 1 .. m : r[l + k] = 1
      <4>1. SUFFICES ASSUME NEW k \in 1 .. m PROVE r[l + k] = 1
        OBVIOUS
      <4>2. PICK i : i = l + k
        OBVIOUS
      <4>3. i \in 1 .. l + m /\ q[i] = 0
        BY <1>8, <3>2, <3>5, <4>2
      <4>4. r[i] = 1
        BY <3>4, <4>3
      <4>5. QED
        BY <4>2, <4>4
    <3>8. QED
      BY <2>1, <3>4, <3>6, <3>7
  <2>2. CASE ~WriteFirst
    <3>1. r = Aged(c)
      BY <1>4, <1>9, <2>2 DEF CountersAtRead
    <3>2. QED
      BY <1>5, <2>2, <3>1, AgedSeq
  <2>3. QED
    BY <2>1, <2>2
<1>11. l > 0 => (Leaves(toNet, d) <=> c[1] + 1 >= LatencyCycles)
  <2>1. SUFFICES ASSUME l > 0 PROVE Leaves(toNet, d) <=> c[1] + 1 >= LatencyCycles
    OBVIOUS
  <2>2. r[1] = c[1] + 1
    <3>1. 1 \in 1 .. l
      BY <1>3, <2>1
    <3>2. QED
      BY <1>10, <3>1
  <2>3. QED
    BY <1>6, <1>9, <2>1, <2>2 DEF Leaves
<1>12. l = 0 => ~Leaves(toNet, d)
  BY <1>6 DEF Leaves
<1>13. z <= l /\ (l > 0 => (z = 1 <=> c[1] + 1 >= LatencyCycles))
  BY <1>3, <1>11, <1>12 DEF Departed
<1>14. /\ T \in Seq(Packets) /\ Len(T) = l - z /\ \A k \in 1 .. l - z : T[k] = F[k + z]
  <2>1. CASE Leaves(toNet, d)
    <3>1. F # <<>> /\ T = Tail(F) /\ z = 1
      BY <1>1, <2>1 DEF Leaves, Staying, Departed
    <3>2. QED
      BY <1>1, <1>2, <3>1, TailSeq
  <2>2. CASE ~Leaves(toNet, d)
    <3>1. T = F /\ z = 0
      BY <1>1, <2>2 DEF Staying, Departed
    <3>2. QED
      BY <1>1, <1>2, <1>3, <3>1
  <2>3. QED
    BY <2>1, <2>2
<1>15. /\ Len(fifo'[d]) = l - z + m
       /\ \A k \in 1 .. l - z : fifo'[d][k] = T[k]
       /\ \A k \in 1 .. m : fifo'[d][l - z + k] = S[k]
  <2>1. fifo'[d] = T \o S
    BY <1>1, LineStep
  <2>2. /\ Len(T \o S) = Len(T) + Len(S)
        /\ \A k \in 1 .. Len(T) : (T \o S)[k] = T[k]
        /\ \A k \in 1 .. Len(S) : (T \o S)[Len(T) + k] = S[k]
    <3>1. T \in Seq(Packets) /\ S \in Seq(Packets)
      BY <1>2, <1>14
    <3>2. QED
      BY <3>1
  <2>3. QED
    BY <1>2, <1>14, <2>1, <2>2
<1>16. PICK t : t = IF Leaves(toNet, d) THEN Tail(r) ELSE r
  OBVIOUS
<1>17. /\ t \in Seq(Nat) /\ Len(t) = Len(r) - z
       /\ \A k \in 1 .. Len(r) - z : t[k] = r[k + z]
  <2>1. CASE Leaves(toNet, d)
    <3>1. z = 1 /\ t = Tail(r) /\ l > 0
      BY <1>3, <1>12, <1>16, <2>1 DEF Departed
    <3>2. Len(r) > 0 /\ r # <<>>
      BY <1>2, <1>3, <1>10, <3>1
    <3>3. QED
      BY <1>10, <3>1, <3>2
  <2>2. CASE ~Leaves(toNet, d)
    <3>1. z = 0 /\ t = r
      BY <1>16, <2>2 DEF Departed
    <3>2. QED
      BY <1>10, <3>1
  <2>3. QED
    BY <2>1, <2>2
<1>18. latency'[d] = t \o (IF WriteFirst THEN <<>> ELSE n)
  BY <1>7, <1>9, <1>16 DEF Edge, Cycle, CountersAfter
<1>19. /\ latency'[d] \in Seq(Nat) /\ Len(latency'[d]) = l - z + m
       /\ \A k \in 1 .. l - z : latency'[d][k] = c[k + z] + 1
       /\ \A k \in 1 .. m : latency'[d][l - z + k] = HeadStart
  <2>1. CASE WriteFirst
    <3>1. latency'[d] = t
      BY <1>17, <1>18, <2>1
    <3>2. Len(t) = l - z + m
      BY <1>2, <1>3, <1>10, <1>17, <2>1
    <3>3. ASSUME NEW k \in 1 .. l - z PROVE t[k] = c[k + z] + 1
      <4>0. Len(r) = l + m /\ z <= l
        BY <1>10, <1>13, <2>1
      <4>1. k \in 1 .. Len(r) - z /\ k + z \in 1 .. l
        BY <1>2, <1>3, <4>0
      <4>2. QED
        BY <1>10, <1>17, <4>1
    <3>4. ASSUME NEW k \in 1 .. m PROVE t[l - z + k] = 1
      <4>0. Len(r) = l + m /\ z <= l
        BY <1>10, <1>13, <2>1
      <4>1. l - z + k \in 1 .. Len(r) - z /\ l - z + k + z = l + k
        <5>1. m \in Nat
          BY <1>2
        <5>2. QED
          BY <1>3, <4>0, <5>1
      <4>2. t[l - z + k] = r[l - z + k + z]
        BY <1>17, <4>1
      <4>3. QED
        BY <1>10, <2>1, <4>1, <4>2
    <3>5. HeadStart = 1
      BY <2>1 DEF HeadStart
    <3>6. QED
      BY <1>17, <3>1, <3>2, <3>3, <3>4, <3>5
  <2>2. CASE ~WriteFirst
    <3>1. latency'[d] = t \o n
      BY <1>18, <2>2
    <3>2. /\ t \in Seq(Nat) /\ n \in Seq(Nat) /\ Len(t) = l - z /\ Len(n) = m
      BY <1>8, <1>10, <1>17, <2>2
    <3>3. /\ t \o n \in Seq(Nat) /\ Len(t \o n) = l - z + m
          /\ \A k \in 1 .. l - z : (t \o n)[k] = t[k]
          /\ \A k \in 1 .. m : (t \o n)[l - z + k] = n[k]
      <4>0. t \in Seq(Nat) /\ n \in Seq(Nat)
        BY <3>2
      <4>1. /\ t \o n \in Seq(Nat) /\ Len(t \o n) = Len(t) + Len(n)
            /\ \A k \in 1 .. Len(t) : (t \o n)[k] = t[k]
            /\ \A k \in 1 .. Len(n) : (t \o n)[Len(t) + k] = n[k]
        BY <4>0
      <4>2. QED
        BY <3>2, <4>1
    <3>4. ASSUME NEW k \in 1 .. l - z PROVE t[k] = c[k + z] + 1
      <4>1. k \in 1 .. Len(r) - z /\ k + z \in 1 .. l
        BY <1>3, <1>10, <1>13, <2>2
      <4>2. QED
        BY <1>10, <1>17, <4>1
    <3>5. HeadStart = 0
      BY <2>2 DEF HeadStart
    <3>6. QED
      BY <1>8, <3>1, <3>3, <3>4, <3>5
  <2>3. QED
    BY <2>1, <2>2
<1>20. DOMAIN T = 1 .. l - z
  BY <1>14
<1>21. QED
  BY <1>1, <1>2, <1>3, <1>4, <1>13, <1>14, <1>15, <1>19, <1>20

\* The packets that stay in a FIFO at an edge: they were taken at earlier ones.
Stays(i) == \E d \in Rads : \E k \in DOMAIN Staying(d) : i = IdOf(Staying(d)[k])

LEMMA AgeStep ==
  ASSUME FlowInv, AgeInv, NEW offered, NEW takes, Edge(offered, takes)
  PROVE  /\ age' \in [Ids -> 0 .. LatencyCycles]
         /\ \A i \in Ids : age'[i] = IF Stays(i) /\ age[i] < LatencyCycles
                                     THEN age[i] + 1 ELSE age[i]
         /\ \A s \in Rads : \A n \in Taken(s) + 1 .. MaxPackets[s] : ~Stays(<<s, n>>)
<1>1. PICK q : q = [d \in Rads |-> Staying(d)]
  OBVIOUS
<1>2. \A i : i \in InSome(q) <=> Stays(i)
  BY <1>1 DEF InSome, Stays
<1>3. age' = [i \in Ids |-> IF i \in InSome(q) /\ age[i] < LatencyCycles
                            THEN age[i] + 1 ELSE age[i]]
  BY <1>1 DEF Edge, Observe, Staying
<1>4. \A i \in Ids : age'[i] = IF Stays(i) /\ age[i] < LatencyCycles
                               THEN age[i] + 1 ELSE age[i]
  BY <1>2, <1>3
<1>5. age' \in [Ids -> 0 .. LatencyCycles]
  <2>1. ASSUME NEW i \in Ids
        PROVE  (IF i \in InSome(q) /\ age[i] < LatencyCycles THEN age[i] + 1 ELSE age[i])
                 \in 0 .. LatencyCycles
    <3>1. age[i] \in 0 .. LatencyCycles /\ LatencyCycles \in Nat
      BY Assumed DEF AgeInv
    <3>2. QED
      BY <3>1
  <2>2. QED
    BY <1>3, <2>1
<1>6. ASSUME NEW s \in Rads, NEW n \in Taken(s) + 1 .. MaxPackets[s], Stays(<<s, n>>)
      PROVE  FALSE
  <2>1. PICK d \in Rads : \E k \in DOMAIN Staying(d) : <<s, n>> = IdOf(Staying(d)[k])
    BY <1>6 DEF Stays
  <2>2. PICK k \in DOMAIN Staying(d) : <<s, n>> = IdOf(Staying(d)[k])
    BY <2>1
  <2>3. PICK l, m, z : l = Len(fifo[d]) /\ m = NumStored(toNet, d) /\ z = Departed(d)
    OBVIOUS
  <2>4. /\ l \in Nat /\ z \in 0 .. 1 /\ DOMAIN Staying(d) = 1 .. l - z
        /\ \A j \in 1 .. l - z : Staying(d)[j] = fifo[d][j + z]
    BY <2>3, FifoStep
  <2>5. k + z \in 1 .. l /\ <<s, n>> = IdOf(fifo[d][k + z])
    BY <2>2, <2>4
  <2>6. fifo[d][k + z].id \in 1 .. Taken(fifo[d][k + z].src)
    BY <2>3, <2>5, FifoElements
  <2>7. n \in 1 .. Taken(s)
    BY <2>5, <2>6 DEF IdOf
  <2>8. Taken(s) \in Nat /\ MaxPackets[s] \in Nat
    BY Counts, Assumed DEF FlowInv
  <2>9. QED
    BY <1>6, <2>7, <2>8
<1>7. QED
  BY <1>4, <1>5, <1>6

LEMMA AgeNext ==
  ASSUME FlowInv, AgeInv, NEW offered, NEW takes, Edge(offered, takes)
  PROVE  AgeInv'
<1>1. LatencyCycles \in Nat \ {0} /\ HeadStart \in 0 .. 1
  BY Assumed, HeadStartValue
<1>2. latency' \in [Rads -> Seq(Nat)] /\ \A d \in Rads : Len(latency'[d]) = Len(fifo'[d])
  <2>1. ASSUME NEW d \in Rads
        PROVE  latency'[d] \in Seq(Nat) /\ Len(latency'[d]) = Len(fifo'[d])
    <3>1. PICK l, m, z : l = Len(fifo[d]) /\ m = NumStored(toNet, d) /\ z = Departed(d)
      OBVIOUS
    <3>2. Len(fifo'[d]) = l - z + m
      BY <3>1, FifoStep
    <3>3. latency'[d] \in Seq(Nat) /\ Len(latency'[d]) = l - z + m
      BY <3>1, FifoStep
    <3>4. QED
      BY <3>2, <3>3
  <2>2. latency' = [d \in Rads |-> CountersAfter(toNet, d)]
    BY DEF Edge, Cycle
  <2>3. QED
    BY <2>1, <2>2
<1>3. ASSUME NEW d \in Rads, NEW k \in 1 .. Len(fifo'[d])
      PROVE  /\ latency'[d][k] >= HeadStart
             /\ age'[IdOf(fifo'[d][k])] = IF latency'[d][k] - HeadStart < LatencyCycles
                                          THEN latency'[d][k] - HeadStart ELSE LatencyCycles
  <2>1. PICK l, m, z : l = Len(fifo[d]) /\ m = NumStored(toNet, d) /\ z = Departed(d)
    OBVIOUS
  <2>2. /\ l \in Nat /\ m \in Nat /\ z \in 0 .. 1 /\ z <= l
        /\ Len(fifo'[d]) = l - z + m
    BY <2>1, FifoStep
  <2>2a. /\ \A j \in 1 .. l - z : fifo'[d][j] = fifo[d][j + z]
         /\ \A j \in 1 .. m : fifo'[d][l - z + j] = Arriving(toNet, d)[j]
    BY <2>1, FifoStep
  <2>2b. /\ DOMAIN Staying(d) = 1 .. l - z
         /\ \A j \in 1 .. l - z : Staying(d)[j] = fifo[d][j + z]
    BY <2>1, FifoStep
  <2>2c. /\ \A j \in 1 .. l - z : latency'[d][j] = latency[d][j + z] + 1
         /\ \A j \in 1 .. m : latency'[d][l - z + j] = HeadStart
    BY <2>1, FifoStep
  <2>3. CASE k \in 1 .. l - z
    <3>1. PICK i, c : i = IdOf(fifo[d][k + z]) /\ c = latency[d][k + z]
      OBVIOUS
    <3>2. k + z \in 1 .. l
      BY <2>2, <2>3
    <3>3. i \in Ids /\ Stays(i)
      BY <2>1, <2>2, <2>2b, <2>3, <3>1, <3>2, FifoElements DEF Stays
    <3>4. c \in Nat /\ c >= HeadStart
          /\ age[i] = IF c - HeadStart < LatencyCycles THEN c - HeadStart ELSE LatencyCycles
      <4>1. latency[d] \in Seq(Nat) /\ Len(latency[d]) = l
        BY <2>1 DEF AgeInv
      <4>2. c \in Nat
        BY <3>1, <3>2, <4>1
      <4>3. QED
        BY <2>1, <3>1, <3>2, <4>2 DEF AgeInv
    <3>5. age'[i] = IF age[i] < LatencyCycles THEN age[i] + 1 ELSE age[i]
      BY <3>3, AgeStep
    <3>6. IdOf(fifo'[d][k]) = i /\ latency'[d][k] = c + 1
      BY <2>2a, <2>2c, <2>3, <3>1
    <3>7. PICK b : b = latency'[d][k]
      OBVIOUS
    <3>8. b = c + 1
      BY <3>6, <3>7
    <3>9. /\ b >= HeadStart
          /\ age'[i] = IF b - HeadStart < LatencyCycles THEN b - HeadStart ELSE LatencyCycles
      BY <1>1, <3>4, <3>5, <3>8
    <3>10. QED
      BY <3>6, <3>7, <3>9, Zenon
  <2>4. CASE k > l - z
    <3>1. PICK j \in 1 .. m : k = l - z + j
      <4>1. k - (l - z) \in 1 .. m /\ k = l - z + (k - (l - z))
        BY <2>2, <2>4
      <4>2. QED
        BY <4>1
    <3>2. PICK p : p = Arriving(toNet, d)[j]
      OBVIOUS
    <3>3. fifo'[d][k] = p /\ latency'[d][k] = HeadStart
      BY <2>2a, <2>2c, <3>1, <3>2
    <3>4. j \in 1 .. Len(Arriving(toNet, d))
      <4>1. m \in 0 .. Len(Arriving(toNet, d)) /\ Arriving(toNet, d) \in Seq(Packets)
        BY <2>1, PortsCorrect, StoredProps DEF FlowInv
      <4>2. Len(Arriving(toNet, d)) \in Nat
        BY <4>1
      <4>3. QED
        BY <3>1, <4>1, <4>2
    <3>5. /\ p.src \in Rads /\ p.id = Taken(p.src) + 1
          /\ Taken(p.src) + 1 \in 1 .. Len(sent[p.src])
      BY <3>2, <3>4, Arrived DEF FlowInv
    <3>6. p.id \in Taken(p.src) + 1 .. MaxPackets[p.src] /\ p.id \in 1 .. MaxPackets[p.src]
      <4>1. /\ Taken(p.src) \in Nat /\ Len(sent[p.src]) \in Nat
            /\ MaxPackets[p.src] \in Nat /\ Len(sent[p.src]) <= MaxPackets[p.src]
        BY <3>5, Counts, Assumed DEF FlowInv, SourceInv
      <4>2. QED
        BY <3>5, <4>1
    <3>7. IdOf(p) = <<p.src, p.id>> /\ IdOf(p) \in Ids
      BY <3>5, <3>6, IdsDef DEF IdOf
    <3>8. ~Stays(IdOf(p)) /\ age[IdOf(p)] = 0
      <4>1. ~Stays(<<p.src, p.id>>)
        BY <3>5, <3>6, AgeStep
      <4>2. age[<<p.src, p.id>>] = 0
        BY <3>5, <3>6 DEF AgeInv
      <4>3. QED
        BY <3>7, <4>1, <4>2
    <3>9. age'[IdOf(p)] = 0
      BY <3>7, <3>8, AgeStep
    <3>10. HeadStart - HeadStart = 0 /\ HeadStart >= HeadStart /\ 0 < LatencyCycles
      BY <1>1
    <3>11. QED
      BY <3>3, <3>9, <3>10
  <2>5. k \in 1 .. l - z \/ k > l - z
    BY <2>2
  <2>6. QED
    BY <2>3, <2>4, <2>5
<1>4. ASSUME NEW s \in Rads, NEW n \in Taken(s)' + 1 .. MaxPackets[s]
      PROVE  age'[<<s, n>>] = 0
  <2>1. PICK t, u : t = Taken(s) /\ u = Taken(s)'
    OBVIOUS
  <2>2. t \in Nat /\ u \in Nat /\ u >= t /\ MaxPackets[s] \in Nat
    <3>1. t \in Nat /\ u \in Nat /\ (u = t \/ u = t + 1)
      BY <2>1, SentStays DEF FlowInv
    <3>2. QED
      BY <3>1, Assumed
  <2>3. n \in t + 1 .. MaxPackets[s] /\ n \in 1 .. MaxPackets[s]
    <3>1. n \in u + 1 .. MaxPackets[s]
      BY <2>1
    <3>2. QED
      BY <2>2, <3>1
  <2>4. <<s, n>> \in Ids /\ ~Stays(<<s, n>>) /\ age[<<s, n>>] = 0
    BY <2>1, <2>3, IdsDef, AgeStep DEF AgeInv
  <2>5. QED
    BY <2>4, AgeStep
<1>5. QED
  BY <1>2, <1>3, <1>4, AgeStep DEF AgeInv

LEMMA AgeInit == Init => AgeInv
<1> SUFFICES ASSUME Init PROVE AgeInv
  OBVIOUS
<1>1. /\ age = [i \in Ids |-> 0] /\ latency = [r \in Rads |-> <<>>]
      /\ fifo = [r \in Rads |-> <<>>] /\ sent = [r \in Rads |-> <<>>]
      /\ incoming = [r \in Rads |-> <<>>]
  BY DEF Init, NetInit, PortalInit
<1>2. age \in [Ids -> 0 .. LatencyCycles]
  BY <1>1, Assumed
<1>3. latency \in [Rads -> Seq(Nat)] /\ \A d \in Rads : Len(latency[d]) = 0 /\ Len(fifo[d]) = 0
  BY <1>1
<1>4. ASSUME NEW s \in Rads, NEW n \in Taken(s) + 1 .. MaxPackets[s] PROVE age[<<s, n>>] = 0
  <2>1. Taken(s) = 0
    BY <1>1 DEF Taken
  <2>2. <<s, n>> \in Ids
    BY <1>4, <2>1, IdsDef
  <2>3. QED
    BY <1>1, <2>2
<1>5. QED
  BY <1>2, <1>3, <1>4 DEF AgeInv

LEMMA AgeInvariant == Spec => [](FlowInv /\ AgeInv)
<1>1. FlowInv /\ AgeInv /\ [Next]_vars => AgeInv'
  <2>1. SUFFICES ASSUME FlowInv, AgeInv, [Next]_vars PROVE AgeInv'
    OBVIOUS
  <2>2. CASE Next
    <3>1. PICK offered, takes : Edge(offered, takes)
      BY <2>1, <2>2, NextIsEdge DEF FlowInv
    <3>2. QED
      BY <2>1, <3>1, AgeNext
  <2>3. CASE UNCHANGED vars
    <3>1. /\ age' = age /\ latency' = latency /\ fifo' = fifo
          /\ sent' = sent /\ incoming' = incoming
      BY <2>3 DEF vars
    <3>2. \A s \in Rads : Taken(s)' = Taken(s)
      BY <3>1 DEF Taken
    <3>3. QED
      BY <2>1, <3>1, <3>2 DEF AgeInv
  <2>4. QED
    BY <2>1, <2>2, <2>3
<1>2. QED
  BY <1>1, FlowInit, AgeInit, FlowNext, PTL DEF Spec

\* A packet leaves for its RAD exactly when it is in front and the latency has
\* passed since it was stored, less the one cycle of WriteFirst, at whatever rate
\* the FIFO of its destination is filled and however many packets are in it.
THEOREM LatencyIsExact == Spec => LatencyExact
<1> DEFINE OnTime ==
      \A d \in Rads : fifo[d] # <<>> =>
        LET waited == age[IdOf(Head(fifo[d]))] + 1
        IN  toRad'[d] = Head(fifo[d])
              <=> waited >= LatencyCycles - (IF WriteFirst THEN 1 ELSE 0)
<1>1. FlowInv /\ AgeInv /\ [Next]_vars => [OnTime]_vars
  <2>1. SUFFICES ASSUME FlowInv, AgeInv, Next, NEW d \in Rads, fifo[d] # <<>>,
                        NEW p, p = Head(fifo[d])
                 PROVE  toRad'[d] = p <=> age[IdOf(p)] + 1 >= LatencyCycles - HeadStart
    BY DEF HeadStart
  <2>2. PICK offered, takes : Edge(offered, takes)
    BY <2>1, NextIsEdge DEF FlowInv
  <2>3. PICK l, z, m : l = Len(fifo[d]) /\ z = Departed(d) /\ m = NumStored(toNet, d)
    OBVIOUS
  <2>4. fifo[d] \in Seq(Packets)
    BY <2>1 DEF FlowInv, FlowTypes
  <2>5. l \in Nat /\ l > 0 /\ p = fifo[d][1] /\ p \in Packets
    <3>1. fifo[d] \in Seq(Packets) /\ fifo[d] # <<>>
      BY <2>1, <2>4
    <3>2. Len(fifo[d]) \in Nat \ {0} /\ Head(fifo[d]) \in Packets /\ Head(fifo[d]) = fifo[d][1]
      BY <3>1, TailSeq
    <3>3. QED
      BY <2>1, <2>3, <3>2
  <2>6. PICK c : c = latency[d][1]
    OBVIOUS
  <2>7. Leaves(toNet, d) <=> c + 1 >= LatencyCycles
    <3>1. z = 1 <=> c + 1 >= LatencyCycles
      BY <2>1, <2>2, <2>3, <2>5, <2>6, FifoStep
    <3>2. QED
      BY <2>3, <3>1 DEF Departed
  <2>8. toRad'[d] = IF Leaves(toNet, d) THEN p ELSE NoPacket
    BY <2>1, <2>2 DEF Edge, Cycle
  <2>9. p # NoPacket
    BY <2>5, Assumed
  <2>10. /\ c \in Nat /\ c >= HeadStart
         /\ age[IdOf(p)] = IF c - HeadStart < LatencyCycles THEN c - HeadStart ELSE LatencyCycles
    <3>1. latency[d] \in Seq(Nat) /\ Len(latency[d]) = l /\ 1 \in 1 .. l
      BY <2>1, <2>3, <2>5 DEF AgeInv
    <3>2. c \in Nat
      BY <2>6, <3>1
    <3>3. QED
      BY <2>1, <2>3, <2>5, <2>6, <3>1, <3>2 DEF AgeInv
  <2>11. c + 1 >= LatencyCycles <=> age[IdOf(p)] + 1 >= LatencyCycles - HeadStart
    <3>1. LatencyCycles \in Nat \ {0} /\ HeadStart \in 0 .. 1
      BY Assumed, HeadStartValue
    <3>2. QED
      BY <2>10, <3>1
  <2>12. QED
    BY <2>7, <2>8, <2>9, <2>11
<1>2. QED
  BY <1>1, AgeInvariant, PTL DEF Spec, LatencyExact

(***************************************************************************)
(* A single sender.                                                        *)
(***************************************************************************)
LEMMA SendsToStays ==
  ASSUME FlowTypes, SourceInv, NEW offered, NEW takes, Edge(offered, takes),
         NEW s \in Rads, NEW d, SendsTo(s, d)
  PROVE  SendsTo(s, d)'
<1>1. SourceStep(s) /\ sent[s] \in Seq(Packets) /\ sent'[s] \in Seq(Packets)
  <2>1. FlowTypes'
    BY FlowTypesNext
  <2>2. QED
    BY <2>1, SourceNext DEF FlowTypes
<1>2. PICK l \in Nat, u \in Nat : l = Len(sent[s]) /\ u = Len(sent'[s])
  BY <1>1
<1>3. u >= l /\ \A n \in 1 .. l : sent'[s][n] = sent[s][n]
  BY <1>1, <1>2 DEF SourceStep
<1>4. PICK n \in 1 .. l : sent[s][n].dest.rad = d
  BY <1>2 DEF SendsTo
<1>5. n \in 1 .. u /\ sent'[s][n].dest.rad = d
  BY <1>3, <1>4
<1>6. QED
  BY <1>2, <1>5 DEF SendsTo

\* Two packets that arrive at once for RAD d come from two RADs that send to it.
LEMMA ArriveTogether ==
  ASSUME FlowTypes, SourceInv, NEW offered, NEW takes, Edge(offered, takes), NEW d \in Rads,
         NEW j \in 1 .. Len(Arriving(toNet, d))
  PROVE  /\ Arriving(toNet, d)[j].src \in Rads
         /\ SendsTo(Arriving(toNet, d)[j].src, d)
         /\ j > 1 => /\ Arriving(toNet, d)[1].src \in Rads \ {Arriving(toNet, d)[j].src}
                     /\ SendsTo(Arriving(toNet, d)[1].src, d)
<1>1. ASSUME NEW k \in 1 .. Len(Arriving(toNet, d)), NEW p, p = Arriving(toNet, d)[k]
      PROVE  p.src \in Rads /\ SendsTo(p.src, d)
  <2>1. /\ p.src \in Rads /\ p.id = Taken(p.src) + 1
        /\ Taken(p.src) + 1 \in 1 .. Len(sent[p.src])
        /\ sent[p.src][p.id].dest.rad = d
    BY <1>1, Arrived
  <2>2. QED
    BY <2>1 DEF SendsTo
<1>2. ASSUME j > 1
      PROVE  /\ 1 \in 1 .. Len(Arriving(toNet, d))
             /\ Arriving(toNet, d)[1].src # Arriving(toNet, d)[j].src
  <2>1. Arriving(toNet, d) \in Seq(Packets)
    BY PortsCorrect, StoredProps
  <2>2. PICK l \in Nat : l = Len(Arriving(toNet, d))
    BY <2>1
  <2>3. 1 \in 1 .. l
    BY <1>2, <2>2
  <2>4. QED
    BY <1>2, <2>2, <2>3, PortsCorrect, SourcesDiffer
<1>3. QED
  BY <1>1, <1>2


LEMMA PaceStep ==
  ASSUME FlowInv, AgeInv, NEW offered, NEW takes, Edge(offered, takes), NEW d \in Rads,
         OnPace(latency[d]), NumStored(toNet, d) <= 1
  PROVE  OnPace(latency'[d])
<1>1. PICK l, m, z : l = Len(fifo[d]) /\ m = NumStored(toNet, d) /\ z = Departed(d)
  OBVIOUS
<1>2. /\ l \in Nat /\ m \in 0 .. 1 /\ z \in 0 .. 1 /\ z <= l
      /\ l > 0 => (z = 1 <=> latency[d][1] + 1 >= LatencyCycles)
  BY <1>1, FifoStep
<1>3. PICK c, n : c = latency[d] /\ n = latency'[d]
  OBVIOUS
<1>4. c \in Seq(Nat) /\ Len(c) = l
  BY <1>1, <1>3 DEF AgeInv
<1>5. n \in Seq(Nat) /\ Len(n) = l - z + m
  BY <1>1, <1>3, FifoStep
<1>6. /\ \A k \in 1 .. l - z : n[k] = c[k + z] + 1
      /\ \A k \in 1 .. m : n[l - z + k] = HeadStart
  BY <1>1, <1>3, FifoStep
<1>7. LatencyCycles \in Nat \ {0} /\ HeadStart \in 0 .. 1
  BY Assumed, HeadStartValue
<1>8. /\ \A k \in 1 .. l : c[k] \in Nat /\ c[k] - HeadStart >= l - k
      /\ \A k \in 1 .. l : \A j \in 1 .. k - 1 : c[j] - c[k] >= k - j
      /\ l > 0 => c[1] - HeadStart < LatencyCycles
  BY <1>3, <1>4 DEF OnPace
<1>8a. PICK u \in Nat : u = l - z + m
  BY <1>2
<1>9. ASSUME NEW k \in 1 .. u PROVE n[k] - HeadStart >= u - k
  <2>1. CASE k <= l - z
    <3>1. k + z \in 1 .. l /\ k \in 1 .. l - z
      BY <1>2, <2>1
    <3>2. c[k + z] \in Nat /\ c[k + z] - HeadStart >= l - (k + z) /\ n[k] = c[k + z] + 1
      BY <1>6, <1>8, <3>1
    <3>3. QED
      BY <1>2, <1>7, <1>8a, <3>2
  <2>2. CASE k > l - z
    <3>1. m = 1 /\ k = l - z + 1
      BY <1>2, <1>8a, <2>2
    <3>2. n[k] = HeadStart
      BY <1>6, <3>1
    <3>3. QED
      BY <1>2, <1>7, <1>8a, <3>1, <3>2
  <2>3. QED
    BY <1>2, <2>1, <2>2
<1>10. ASSUME NEW k \in 1 .. u, NEW j \in 1 .. k - 1 PROVE n[j] - n[k] >= k - j
  <2>1. j \in 1 .. l - z /\ j + z \in 1 .. l
    BY <1>2, <1>8a
  <2>2. n[j] = c[j + z] + 1 /\ c[j + z] \in Nat
    BY <1>6, <1>8, <2>1
  <2>3. CASE k <= l - z
    <3>1. k + z \in 1 .. l /\ k \in 1 .. l - z /\ j + z \in 1 .. (k + z) - 1
      BY <1>2, <2>3
    <3>2. /\ c[k + z] \in Nat /\ n[k] = c[k + z] + 1
          /\ c[j + z] - c[k + z] >= (k + z) - (j + z)
      BY <1>6, <1>8, <3>1
    <3>3. QED
      BY <1>2, <2>2, <3>2
  <2>4. CASE k > l - z
    <3>1. m = 1 /\ k = l - z + 1
      BY <1>2, <1>8a, <2>4
    <3>2. n[k] = HeadStart
      BY <1>6, <3>1
    <3>3. c[j + z] - HeadStart >= l - (j + z)
      BY <1>8, <2>1
    <3>4. QED
      BY <1>2, <1>7, <2>2, <3>1, <3>2, <3>3
  <2>5. QED
    BY <1>2, <2>3, <2>4
<1>11. ASSUME n # <<>> PROVE n[1] - HeadStart < LatencyCycles
  <2>1. CASE l - z = 0
    <3>1. l - z + m > 0
      BY <1>2, <1>5, <1>11
    <3>2. m = 1
      BY <1>2, <2>1, <3>1
    <3>3. n[l - z + 1] = HeadStart /\ l - z + 1 = 1
      BY <1>6, <2>1, <3>2
    <3>4. QED
      BY <1>7, <3>3
  <2>2. CASE l - z > 0
    <3>1. n[1] = c[1 + z] + 1 /\ c[1] \in Nat /\ c[1] - HeadStart < LatencyCycles
      <4>1. 1 \in 1 .. l - z /\ 1 \in 1 .. l /\ l > 0
        BY <1>2, <2>2
      <4>2. QED
        BY <1>6, <1>8, <4>1
    <3>2. CASE z = 0
      <4>1. ~(c[1] + 1 >= LatencyCycles) /\ n[1] = c[1] + 1
        BY <1>2, <1>3, <2>2, <3>1, <3>2
      <4>2. QED
        BY <1>7, <3>1, <4>1
    <3>3. CASE z = 1
      <4>1. 2 \in 1 .. l /\ 1 \in 1 .. 2 - 1
        BY <1>2, <2>2, <3>3
      <4>2. c[1] - c[2] >= 1 /\ c[2] \in Nat /\ n[1] = c[2] + 1
        BY <1>8, <3>1, <3>3, <4>1
      <4>3. QED
        BY <1>7, <3>1, <4>2
    <3>4. QED
      BY <1>2, <3>2, <3>3
  <2>3. QED
    BY <1>2, <2>1, <2>2
<1>12. Len(n) = u
  BY <1>5, <1>8a
<1>13. QED
  BY <1>3, <1>9, <1>10, <1>11, <1>12 DEF OnPace

LEMMA PaceNext ==
  ASSUME FlowInv, AgeInv, PaceInv, NEW offered, NEW takes, Edge(offered, takes)
  PROVE  PaceInv'
<1>1. SUFFICES ASSUME NEW d \in Rads, ~(TwoSenders(d))'
               PROVE  OnPace(latency'[d])
  BY DEF PaceInv, OnPace, HeadStart
<1>2. ~TwoSenders(d)
  BY <1>1, SendsToStays DEF TwoSenders, FlowInv
<1>3. OnPace(latency[d])
  BY <1>2 DEF PaceInv
<1>4. PICK a, m : a = Arriving(toNet, d) /\ m = NumStored(toNet, d)
  OBVIOUS
<1>5. a \in Seq(Packets) /\ m \in 0 .. Len(a)
  BY <1>4, PortsCorrect, StoredProps DEF FlowInv
<1>6. m <= 1
  <2>1. SUFFICES ASSUME ~(m <= 1) PROVE FALSE
    OBVIOUS
  <2>2. 2 \in 1 .. Len(a) /\ 2 > 1
    BY <1>5, <2>1
  <2>3. /\ a[2].src \in Rads /\ SendsTo(a[2].src, d)
        /\ a[1].src \in Rads \ {a[2].src} /\ SendsTo(a[1].src, d)
    BY <1>4, <2>2, ArriveTogether DEF FlowInv
  <2>4. QED
    BY <1>2, <2>3 DEF TwoSenders
<1>7. QED
  BY <1>3, <1>4, <1>6, PaceStep

\* A FIFO that keeps the pace holds no more packets than the latency has cycles.
LEMMA PaceBound ==
  ASSUME AgeInv, NEW d \in Rads, OnPace(latency[d])
  PROVE  Len(fifo[d]) <= LatencyCycles
<1>1. PICK c, l : c = latency[d] /\ l = Len(fifo[d])
  OBVIOUS
<1>2. c \in Seq(Nat) /\ Len(c) = l /\ l \in Nat
  BY <1>1 DEF AgeInv
<1>3. LatencyCycles \in Nat \ {0} /\ HeadStart \in 0 .. 1
  BY Assumed, HeadStartValue
<1>4. CASE l = 0
  BY <1>1, <1>3, <1>4
<1>5. CASE l > 0
  <2>1. 1 \in 1 .. l /\ c # <<>> /\ c[1] \in Nat
    BY <1>2, <1>5
  <2>2. c[1] - HeadStart >= l - 1 /\ c[1] - HeadStart < LatencyCycles
    BY <1>1, <1>2, <2>1 DEF OnPace
  <2>3. QED
    BY <1>1, <1>2, <1>3, <2>1, <2>2
<1>6. QED
  BY <1>2, <1>4, <1>5

LEMMA LossNext ==
  ASSUME FlowInv, AgeInv, PaceInv, LossInv, NEW offered, NEW takes, Edge(offered, takes)
  PROVE  LossInv'
<1> USE DEF FlowInv
<1>1. SUFFICES ASSUME FifoSlots > LatencyCycles, NEW i \in lost'
               PROVE  \E t \in Rads \ {i[1]} : (SendsTo(t, sent[i[1]][i[2]].dest.rad))'
  BY DEF LossInv
<1>2. i \in lost \/ DroppedNow(i)
  BY <1>1, LostStep
<1>3. CASE i \in lost
  <2>1. PICK s \in Rads : \E n \in 1 .. Taken(s) : i = <<s, n>>
    BY <1>3 DEF LineInv
  <2>2. PICK n \in 1 .. Taken(s) : i = <<s, n>>
    BY <2>1
  <2>3. sent'[s][n] = sent[s][n] /\ i[1] = s /\ i[2] = n
    BY <2>2, SentStays
  <2>4. PICK e : e = sent[s][n].dest.rad
    OBVIOUS
  <2>5. PICK t \in Rads \ {s} : SendsTo(t, e)
    BY <1>1, <1>3, <2>3, <2>4 DEF LossInv
  <2>6. SendsTo(t, e)'
    BY <2>5, SendsToStays
  <2>7. (SendsTo(t, sent[i[1]][i[2]].dest.rad))'
    BY <2>3, <2>4, <2>6 DEF SendsTo
  <2>8. QED
    BY <2>3, <2>5, <2>7
<1>4. CASE DroppedNow(i)
  <2>1. PICK d \in Rads :
          \E j \in NumStored(toNet, d) + 1 .. Len(Arriving(toNet, d)) :
            i = <<Arriving(toNet, d)[j].src, Arriving(toNet, d)[j].id>>
    BY <1>4 DEF DroppedNow
  <2>2. PICK j \in NumStored(toNet, d) + 1 .. Len(Arriving(toNet, d)) :
          i = <<Arriving(toNet, d)[j].src, Arriving(toNet, d)[j].id>>
    BY <2>1
  <2>3. PICK a, m, p, l :
          a = Arriving(toNet, d) /\ m = NumStored(toNet, d) /\ p = a[j] /\ l = Len(fifo[d])
    OBVIOUS
  <2>4. /\ Len(a) \in Nat /\ m \in 0 .. Len(a) /\ l \in Nat
        /\ m < Len(a) => m = FifoSlots - l
    <3>1. a \in Seq(Packets) /\ fifo[d] \in Seq(Packets)
      BY <2>3, PortsCorrect, StoredProps DEF FlowTypes
    <3>2. m \in 0 .. Len(a) /\ (m < Len(a) => m = FifoSlots - l)
      BY <2>3, PortsCorrect, StoredProps
    <3>3. QED
      BY <2>3, <3>1, <3>2
  <2>5. j \in 1 .. Len(a) /\ m < Len(a) /\ m < j
    BY <2>2, <2>3, <2>4
  <2>6. /\ p.src \in Rads /\ sent[p.src][p.id].dest.rad = d
        /\ sent'[p.src][p.id] = sent[p.src][p.id]
    BY <2>3, <2>5, Arrived
  <2>7. i[1] = p.src /\ sent'[i[1]][i[2]].dest.rad = d
    BY <2>2, <2>3, <2>6
  <2>8. \E t \in Rads \ {p.src} : SendsTo(t, d)
    <3>1. CASE TwoSenders(d)
      BY <3>1 DEF TwoSenders
    <3>2. CASE ~TwoSenders(d)
      <4>1. l <= LatencyCycles
        BY <2>3, <3>2, PaceBound DEF PaceInv
      <4>2. m >= 1
        <5>1. FifoSlots \in Nat /\ LatencyCycles \in Nat /\ FifoSlots > LatencyCycles
          BY <1>1, Assumed
        <5>2. QED
          BY <2>4, <2>5, <4>1, <5>1
      <4>3. j > 1
        BY <2>4, <2>5, <4>2
      <4>4. a[1].src \in Rads \ {p.src} /\ SendsTo(a[1].src, d)
        BY <2>3, <2>5, <4>3, ArriveTogether
      <4>5. QED
        BY <4>4
    <3>3. QED
      BY <3>1, <3>2
  <2>9. PICK t \in Rads \ {p.src} : SendsTo(t, d)
    BY <2>8
  <2>10. SendsTo(t, d)'
    BY <2>9, SendsToStays
  <2>11. (SendsTo(t, sent[i[1]][i[2]].dest.rad))'
    BY <2>7, <2>10 DEF SendsTo
  <2>12. QED
    BY <2>7, <2>9, <2>11
<1>5. QED
  BY <1>2, <1>3, <1>4

LEMMA PaceInit == Init => PaceInv /\ LossInv
BY DEF Init, NetInit, PaceInv, OnPace, LossInv

\* Whatever its rate and whatever the other RADs send elsewhere, a RAD that alone
\* sends to another loses nothing on the way, if its FIFO has a slot more than the
\* latency has cycles.
THEOREM SingleSenderLosesNothing == Spec => []NoDropFromOneSender
<1>1. FlowInv /\ AgeInv /\ PaceInv /\ LossInv /\ [Next]_vars => PaceInv' /\ LossInv'
  <2>1. SUFFICES ASSUME FlowInv, AgeInv, PaceInv, LossInv, [Next]_vars
                 PROVE  PaceInv' /\ LossInv'
    OBVIOUS
  <2>2. CASE Next
    <3>1. PICK offered, takes : Edge(offered, takes)
      BY <2>1, <2>2, NextIsEdge DEF FlowInv
    <3>2. QED
      BY <2>1, <3>1, PaceNext, LossNext
  <2>3. CASE UNCHANGED vars
    <3>1. latency' = latency /\ sent' = sent /\ lost' = lost
      BY <2>3 DEF vars
    <3>2. QED
      BY <2>1, <3>1 DEF PaceInv, OnPace, TwoSenders, SendsTo, LossInv
  <2>4. QED
    BY <2>1, <2>2, <2>3
<1>2. LossInv /\ FlowInv => NoDropFromOneSender
  <2>1. SUFFICES ASSUME LossInv, FlowInv, FifoSlots > LatencyCycles, NEW i \in lost,
                        NEW d, d = sent[i[1]][i[2]].dest.rad
                 PROVE  \E r \in Rads \ {i[1]} : \E p \in ToSet(sent[r]) : p.dest.rad = d
    BY DEF NoDropFromOneSender
  <2>2. PICK r \in Rads \ {i[1]} : SendsTo(r, d)
    BY <2>1 DEF LossInv
  <2>3. PICK n \in 1 .. Len(sent[r]) : sent[r][n].dest.rad = d
    BY <2>2 DEF SendsTo
  <2>4. sent[r] \in Seq(Packets)
    BY <2>1 DEF FlowInv, FlowTypes
  <2>5. sent[r][n] \in ToSet(sent[r])
    BY <2>3, <2>4 DEF ToSet
  <2>6. QED
    BY <2>2, <2>3, <2>5
<1>3. QED
  BY <1>1, <1>2, AgeInvariant, PaceInit, PTL DEF Spec
=============================================================================
