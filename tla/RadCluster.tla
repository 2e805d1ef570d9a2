----------------------------- MODULE RadCluster -----------------------------
(***************************************************************************)
(* Several RADs: a portal each, and the network between them.              *)
(*                                                                         *)
(* The portals and the network are clocked by sc_clocks of one period (the *)
(* period of the design clock of the portals is sim_driver_period in every *)
(* configuration of the repository) and meet at signals only, which change *)
(* after all threads of an edge have run.  One action, ClockEdge, is one   *)
(* edge: every thread reads the unprimed signals.  The order of the        *)
(* threads matters to the network's counters alone (WriteFirst).           *)
(***************************************************************************)
EXTENDS InterRad, FiniteSets

CONSTANTS
  Dests,       \* per RAD, where its modules send: records [local, remote, rad]
  MaxPackets   \* bound, per RAD: packets that its NoC gives to its portal

Destinations == [local : Nat, remote : Nat, rad : Rads]

Packets == [id : Nat, src : Rads, dest : Destinations]

ASSUME ClusterAssumption ==
  /\ Dests \in [Rads -> SUBSET Destinations]
  /\ MaxPackets \in [Rads -> Nat]
  /\ \A r \in Rads : \A d \in Dests[r] : d.rad # r
  /\ NoPacket \notin Packets \cup Destinations

VARIABLES
  incoming, toNet, outgoing, toNoc,  \* see Portal
  sent,       \* history: per RAD, the packets its NoC has given to the portal
  delivered,  \* history: per RAD, the packets its NoC has taken from the portal
  lost,       \* history: the packets dropped by the network
  age,        \* history: edges since a packet was stored in the network
  grants      \* history: per RAD, handshakes of the last BwTotal edges

INSTANCE Portal

history == <<sent, delivered, lost, age, grants>>

vars == <<bwCounter, netReady, fifo, latency, toRad, incoming, toNet, outgoing,
          toNoc, sent, delivered, lost, age, grants>>

Ids == UNION {{r} \X (1 .. MaxPackets[r]) : r \in Rads}

IdOf(p) == <<p.src, p.id>>

Init ==
  /\ NetInit
  /\ PortalInit
  /\ sent = [r \in Rads |-> <<>>]
  /\ delivered = [r \in Rads |-> <<>>]
  /\ lost = {}
  /\ age = [i \in Ids |-> 0]
  /\ grants = [r \in Rads |-> [k \in 1 .. BwTotal |-> FALSE]]

\* The packets of the sequences q[d], for all destinations.
InSome(q) == UNION {{IdOf(q[d][k]) : k \in DOMAIN q[d]} : d \in Rads}

Observe(offered, nocReady) ==
  LET drops == [d \in Rads |-> Dropped(toNet, d)]
      stays == [d \in Rads |-> IF Leaves(toNet, d) THEN Tail(fifo[d]) ELSE fifo[d]]
  IN  /\ sent' = [r \in Rads |-> Pushed(sent[r], offered[r])]
      /\ delivered' = [r \in Rads |-> IF nocReady[r] THEN Pushed(delivered[r], toNoc[r])
                                                     ELSE delivered[r]]
      /\ lost' = lost \cup InSome(drops)
      /\ age' = [i \in Ids |-> IF i \in InSome(stays) /\ age[i] < LatencyCycles
                               THEN age[i] + 1 ELSE age[i]]
      /\ grants' = [r \in Rads |-> Append(Tail(grants[r]), Handshake(toNet, r))]

\* One edge.  The NoC of RAD r presents a packet for dests[r], if it is not
\* NoPacket; a destination on the same RAD would not go through the portal.
ClockEdge(dests, nocReady) ==
  LET offered == [r \in Rads |->
                    IF dests[r] = NoPacket THEN NoPacket
                    ELSE [id |-> Len(sent[r]) + 1, src |-> r, dest |-> dests[r]]]
  IN  /\ \A r \in Rads : dests[r] # NoPacket => /\ Len(sent[r]) < MaxPackets[r]
                                                /\ dests[r] \in Dests[r]
      /\ Tick(offered, netReady, toRad, nocReady)
      /\ Cycle(toNet)
      /\ Observe(offered, nocReady)

Next ==
  \E dests \in [Rads -> UNION Range(Dests) \cup {NoPacket}],
     takes \in SUBSET {r \in Rads : toNoc[r] # NoPacket} :
       ClockEdge(dests, [r \in Rads |-> r \in takes])

Spec == Init /\ [][Next]_vars

\* The clock has edges for ever, and again and again every NoC takes the packet
\* that is presented to it.
TakenBy(r) == toNoc[r] # NoPacket => delivered'[r] # delivered[r]

FairSpec == Spec /\ \A r \in Rads : []<><<TakenBy(r)>>_vars

(***************************************************************************)
(* Properties.                                                             *)
(***************************************************************************)

\* What the NoC of RAD d has taken, and what is on its way from the FIFO of the
\* network to it.
Line(d) == delivered[d] \o outgoing[d] \o Pushed(<<>>, toRad[d]) \o fifo[d]

\* How many of the packets sent by RAD s the network has taken.
Taken(s) == Len(sent[s]) - Len(incoming[s])

\* From the NoC of one RAD to the NoC of another every packet arrives with its
\* remote node as destination, once and in order, except those that the network
\* has dropped: a packet sent waits in its portal, or is in the line to its
\* destination, or is lost; and nothing else is in a line.  Portals, network and
\* signals pop, store and present at the same edges without a handshake on the
\* receiving side.
NothingElseLost ==
  /\ \A s \in Rads : \A n \in 1 .. Len(sent[s]) :
       LET p == sent[s][n]
           inLine == \E k \in 1 .. Len(Line(p.dest.rad)) : Line(p.dest.rad)[k] = Swapped(p)
       IN  IF n > Taken(s)
           THEN incoming[s][n - Taken(s)] = p /\ <<s, n>> \notin lost /\ ~inLine
           ELSE inLine <=> <<s, n>> \notin lost
  /\ \A d \in Rads : \A k \in 1 .. Len(Line(d)) :
       LET p == Line(d)[k]
       IN  /\ \E n \in 1 .. Len(sent[p.src]) :
                sent[p.src][n].dest.rad = d /\ p = Swapped(sent[p.src][n])
           /\ \A j \in 1 .. k - 1 : Line(d)[j].src = p.src => Line(d)[j].id < p.id

\* A FIFO with a slot more than the latency drops nothing of a destination that
\* a single RAD sends to.
NoDropFromOneSender ==
  FifoSlots > LatencyCycles =>
    \A i \in lost :
      LET dest == sent[i[1]][i[2]].dest.rad
      IN  \E r \in Rads \ {i[1]} : \E p \in ToSet(sent[r]) : p.dest.rad = dest

\* A packet leaves the network exactly when it is in front and the latency has
\* passed since it was stored; one cycle earlier if the kernel runs writeFifo
\* first, since its counter is then incremented at the edge that stores it.
LatencyExact ==
  [][\A d \in Rads : fifo[d] # <<>> =>
       LET waited == age[IdOf(Head(fifo[d]))] + 1
       IN  toRad'[d] = Head(fifo[d])
             <=> waited >= LatencyCycles - (IF WriteFirst THEN 1 ELSE 0)]_vars

\* In any BwTotal successive cycles the network accepts at most BwAccept
\* packets of a RAD, although tready follows the window one edge late and is
\* asserted at the start.
BandwidthRespected ==
  \A r \in Rads : Cardinality({k \in 1 .. BwTotal : grants[r][k]}) <= BwAccept

\* Every packet that is not dropped is delivered.
EveryPacketDelivered ==
  \A i \in Ids :
    Len(sent[i[1]]) >= i[2]
      ~> i \in lost \/ \E d \in Rads : i \in {IdOf(p) : p \in ToSet(delivered[d])}
=============================================================================
