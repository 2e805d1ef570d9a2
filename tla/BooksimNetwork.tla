--------------------------- MODULE BooksimNetwork ---------------------------
(***************************************************************************)
(* BookSim's Network: the routers of a mesh or a torus, the channels       *)
(* between them, and at each router a node that sends packets and takes    *)
(* what arrives.  A step is a cycle of all of them (ReadInputs, Evaluate   *)
(* and WriteOutputs of every TimedModule).                                 *)
(*                                                                         *)
(* A node stands for its adapters: it sends the packets of the traffic in  *)
(* order, a flit per cycle as long as its BufferState has room, and it     *)
(* returns the credit of a flit in the cycle it takes the flit.            *)
(***************************************************************************)
EXTENDS IqRouter

CONSTANTS
  Scenarios,  \* what to run: a topology and the packets of every node
  MaxGap,     \* bound of the model: cycles in which no node starts though one could
  NoPacket

VARIABLES
  mesh,      \* topology: mesh, or else torus
  packets,   \* per packet number: src, dest, len, vcs, flow
  routers,
  flits,     \* per router and input port the flits in the channel to it
  credits,   \* per router and output port the credits in the channel to it
  nodes,     \* per node, see NewNode
  arrived,   \* history: flits of each packet taken at its destination
  open,      \* history: per node and VC the packet whose tail is still to come
  gap,
  clk        \* the clock, its lowest bit

vars == <<mesh, packets, routers, flits, credits, nodes, arrived, open, gap, clk>>

Pids == DOMAIN packets

\* Port numbers of the channels from a router to its node.
Terminal == NodePort + 1

\* No flit or credit is in a channel of a latency.
Idle(latency, nothing) == [i \in 1 .. latency |-> nothing]

NewNode(n) ==
  [buffer |-> EmptyBuffer,
   todo   |-> SetToSortSeq({p \in Pids : packets[p].src = n}, <),
   now    |-> NoPacket,         \* the packet being sent
   right  |-> {},               \* RandomInt's decisions about it
   seq    |-> 0,
   sent   |-> NoFlit, credit |-> NoVC]

Init ==
  /\ \E s \in Scenarios : mesh = s.mesh /\ packets = s.packets
  /\ routers = [n \in Nodes |-> NewRouter]
  /\ flits = [n \in Nodes |-> [p \in 0 .. Terminal |->
                IF p = Terminal THEN Idle(1, NoFlit) ELSE Idle(Latency(mesh, p), NoFlit)]]
  /\ credits = [n \in Nodes |-> [p \in 0 .. Terminal |->
                  IF p = Terminal THEN Idle(1, NoVC) ELSE Idle(Latency(mesh, p), NoVC)]]
  /\ nodes = [n \in Nodes |-> NewNode(n)]
  /\ arrived = [p \in Pids |-> 0]
  /\ open = [n \in Nodes |-> [v \in VCs |-> NoPid]]
  /\ gap = 0
  /\ clk = 0

(***************************************************************************)
(* The channels.                                                           *)
(***************************************************************************)
FlitInto(n, p) ==
  CASE p = Terminal -> routers[n].sent[NodePort]
    [] p = NodePort -> nodes[n].sent
    [] p < NodePort -> routers[Neighbour(n, p)[1]].sent[Neighbour(n, p)[2]]

CreditInto(n, p) ==
  CASE p = Terminal -> routers[n].credit[NodePort]
    [] p = NodePort -> nodes[n].credit
    [] p < NodePort -> routers[Neighbour(n, p)[1]].credit[Neighbour(n, p)[2]]

MoveChannels ==
  /\ flits' = [n \in Nodes |-> [p \in 0 .. Terminal |-> Append(Tail(flits[n][p]), FlitInto(n, p))]]
  /\ credits' = [n \in Nodes |->
                   [p \in 0 .. Terminal |-> Append(Tail(credits[n][p]), CreditInto(n, p))]]

(***************************************************************************)
(* The nodes.                                                              *)
(***************************************************************************)
Startable == {n \in Nodes : nodes[n].now = NoPacket /\ nodes[n].todo # <<>>}

\* The dimensions of a torus in which both ways to the destination are equally long.
Ties(p) ==
  IF mesh THEN {}
  ELSE {d \in Dims : 2 * ((Coordinate(packets[p].dest, d) - Coordinate(packets[p].src, d) + K) % K) = K}

Starting(node, right) ==
  [node EXCEPT !.now = Head(node.todo), !.todo = Tail(@), !.seq = 0, !.right = right]

NextFlit(node) ==
  LET p == packets[node.now]
  IN  [pid |-> node.now, id |-> node.seq, head |-> node.seq = 0, tail |-> node.seq = p.len - 1,
       dest |-> p.dest, vc |-> Min(p.vcs), vcs |-> p.vcs, right |-> node.right, ph |-> 0]

CanSend(node, f) ==
  /\ ~IsFullFor(node.buffer, f.vc)
  /\ f.head /\ WaitForTailCredit => IsAvailableFor(node.buffer, f.vc)

Sending(node) ==
  LET f == NextFlit(node)
  IN  IF node.now = NoPacket \/ ~CanSend(node, f) THEN [node EXCEPT !.sent = NoFlit]
      ELSE [node EXCEPT !.sent = f,
                        !.buffer = SendingFlit(IF f.head THEN TakeBuffer(@, f.vc) ELSE @, f),
                        !.seq = @ + 1,
                        !.now = IF f.tail THEN NoPacket ELSE @]

Taking(node, f, credit) ==
  [node EXCEPT !.credit = IF f = NoFlit THEN NoVC ELSE f.vc,
               !.buffer = IF credit = NoVC THEN @ ELSE ProcessCredit(@, credit)]

\* What a node makes of the flit it takes: a flit that is not the next one of its
\* packet, or not for this node, is counted as -1.
Arrivals(f, n) ==
  IF f = NoFlit THEN {} ELSE {[pid |-> f.pid, ok |-> f.id = arrived[f.pid] /\ f.dest = n]}

Record ==
  LET got == UNION {Arrivals(Head(flits[n][Terminal]), n) : n \in Nodes}
  IN  /\ arrived' = [p \in Pids |->
                       IF [pid |-> p, ok |-> FALSE] \in got THEN -1
                       ELSE IF [pid |-> p, ok |-> TRUE] \in got THEN arrived[p] + 1
                       ELSE arrived[p]]
      /\ open' = [n \in Nodes |->
                    LET f == Head(flits[n][Terminal])
                    IN  IF f = NoFlit THEN open[n]
                        ELSE [open[n] EXCEPT ![f.vc] = IF f.tail THEN NoPid ELSE f.pid]]

(***************************************************************************)
(* A cycle, in which the nodes in starting begin their next packet.        *)
(***************************************************************************)
ClockRuns == clk' = 1 - clk

RoutersNext ==
  [n \in Nodes |-> Step(routers[n], [p \in Ports |-> Head(flits[n][p])],
                        [p \in Ports |-> Head(credits[n][p])], mesh, n)]

Cycle(starting, right) ==
  /\ nodes' = [n \in Nodes |->
                 Taking(Sending(IF n \in starting THEN Starting(nodes[n], right[n]) ELSE nodes[n]),
                        Head(flits[n][Terminal]), Head(credits[n][Terminal]))]
  /\ MoveChannels
  /\ Record

Next ==
  /\ ClockRuns
  /\ routers' = RoutersNext
  /\ \E starting \in SUBSET Startable :
       /\ starting = {} /\ Startable # {} => gap < MaxGap
       /\ gap' = IF starting = {} /\ Startable # {} THEN gap + 1 ELSE 0
       /\ \E right \in [starting -> SUBSET Dims] :
            /\ \A n \in starting : right[n] \subseteq Ties(Head(nodes[n].todo))
            /\ Cycle(starting, right)
  /\ UNCHANGED <<mesh, packets>>

Spec == Init /\ [][Next]_vars

\* RadsimNoc's Tick runs at every edge of the NoC clock.
FairSpec == Spec /\ WF_clk(ClockRuns)

(***************************************************************************)
(* Properties.                                                             *)
(***************************************************************************)
\* However the packets meet, no input buffer overflows, no packet is mixed with
\* another in a VC, no VC is taken twice, no credit is missing or left over, and
\* the assertions of the pipeline and of the routing functions hold: BookSim's
\* Error() and assert() (iq_router.cpp, vc.cpp, buffer.cpp, buffer_state.cpp).
NoRouterError ==
  \A n \in Nodes : ~routers[n].error /\ ~nodes[n].buffer.error
                   /\ \A p \in Ports : ~routers[n].next[p].error

\* Flits on VC v on their way from output p of router n to the next buffer, and
\* credits on their way back.
OnVC(q, v) == Cardinality({i \in DOMAIN q : q[i] # NoFlit /\ q[i].vc = v})
CreditsOn(q, v) == Cardinality({i \in DOMAIN q : q[i] = v})

UnderWay(n, p, v) ==
  LET r    == routers[n]
      m    == Neighbour(n, p)
      at   == IF p = NodePort THEN <<n, Terminal>> ELSE m
  IN  OnVC(<<r.sent[p]>> \o r.out[p] \o flits[at[1]][at[2]], v)
      + Cardinality({i \in DOMAIN r.xbar : r.xbar[i].res = p /\ r.xbar[i].f.vc = v})
      + CreditsOn(<<CreditInto(n, p)>> \o credits[n][p], v)
      + Cardinality({i \in DOMAIN r.creditQ : r.creditQ[i].port = p /\ r.creditQ[i].vc = v})
      + IF p = NodePort THEN 0 ELSE Len(routers[m[1]].buf[Slot(m[2], v)].flits)

\* On every link a buffer slot is free, filled, or on its way to be one of these:
\* what the sender believes of the buffer downstream is the flits on their way to
\* it and in it and the credits on their way back (BufferState, _proc_credits,
\* the channels), with two routers updating it independently.
CreditsConserved ==
  \A n \in Nodes, v \in VCs :
    /\ \A p \in Ports : routers[n].next[p].occupancy[v] = UnderWay(n, p, v)
    /\ nodes[n].buffer.occupancy[v] =
         OnVC(<<nodes[n].sent>> \o flits[n][NodePort], v)
         + Len(routers[n].buf[Slot(NodePort, v)].flits)
         + CreditsOn(<<routers[n].credit[NodePort]>> \o credits[n][Terminal], v)

Sent(p) ==
  LET node == nodes[packets[p].src]
  IN  CASE p \in ToSet(node.todo) -> 0
        [] p = node.now           -> node.seq
        [] OTHER                  -> packets[p].len

Network == INSTANCE PacketNetwork WITH sent <- [p \in Pids |-> Sent(p)]

\* Seen from the nodes the routers are a network that delivers whole packets, in
\* the order of their flow, never two of them mixed on a VC.
NetworkSpec == Network!Spec

\* Every packet that is sent arrives: no cycle of packets waiting for each other's
\* VCs, no router asleep with work to do, and no VC starved by the allocators.
EveryPacketArrives ==
  \A p \in UNION {DOMAIN s.packets : s \in Scenarios} :
    (p \in Pids /\ Sent(p) > 0) ~> (p \in Pids /\ arrived[p] = packets[p].len)
=============================================================================
