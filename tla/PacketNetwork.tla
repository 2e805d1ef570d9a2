--------------------------- MODULE PacketNetwork ---------------------------
(***************************************************************************)
(* What the NoC promises the adapters at its nodes.  The flits of a packet *)
(* come out in the order they went in, each once, all on one VC of the     *)
(* node the packet is for and none of another packet between them; a node  *)
(* gets one flit per cycle.  Packets of one flow do not overtake each      *)
(* other.  Nothing else is promised between packets.                       *)
(***************************************************************************)
EXTENDS Integers

CONSTANTS Nodes, VCs, NoPid

VARIABLES
  packets,   \* [dest, len, flow] of every packet; those of a flow are numbered in order
  sent,      \* the number of its flits that went in
  arrived,   \* the number that came out
  open       \* per node and VC, the packet that is coming out

vars == <<packets, sent, arrived, open>>

Init ==
  /\ sent = [p \in DOMAIN packets |-> 0]
  /\ arrived = [p \in DOMAIN packets |-> 0]
  /\ open = [n \in Nodes |-> [v \in VCs |-> NoPid]]

\* The next flit of packet p comes out on VC v.
Arrive(p, v) ==
  LET n == packets[p].dest
  IN  /\ arrived[p] < sent[p]
      /\ arrived'[p] = arrived[p] + 1
      /\ open[n][v] = IF arrived[p] = 0 THEN NoPid ELSE p
      /\ open'[n] = [open[n] EXCEPT ![v] = IF arrived'[p] = packets[p].len THEN NoPid ELSE p]
      /\ \A q \in DOMAIN packets :
           q < p /\ packets[q].flow = packets[p].flow => arrived[q] = packets[q].len

Sends(p) == sent'[p] = sent[p] + 1 /\ sent[p] < packets[p].len

Next ==
  LET out == {p \in DOMAIN packets : arrived'[p] # arrived[p]}
  IN  /\ UNCHANGED packets
      /\ \A p \in DOMAIN packets : sent'[p] # sent[p] => Sends(p)
      /\ \A p \in out : \E v \in VCs : Arrive(p, v)
      /\ \A p, q \in out : packets[p].dest = packets[q].dest => p = q
      /\ \A n \in Nodes : (\A p \in out : packets[p].dest # n) => open'[n] = open[n]

Spec == Init /\ [][Next]_vars
=============================================================================
