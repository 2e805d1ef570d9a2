------------------------------- MODULE KNCube -------------------------------
(***************************************************************************)
(* BookSim's k-ary n-cubes, a mesh or a torus of K^N routers: how KNCube   *)
(* wires the routers and where dim_order sends a head flit.  A router has  *)
(* two ports per dimension, 2*d to the right and 2*d+1 to the left, and a  *)
(* last one for the node.                                                  *)
(***************************************************************************)
EXTENDS Integers, FiniteSetsExt

CONSTANTS K, N

ASSUME CubeAssumption == K \in Nat \ {0, 1} /\ N \in Nat \ {0}

Nodes == 0 .. K^N - 1
Dims  == 0 .. N - 1
NodePort == 2 * N
Ports == 0 .. NodePort

Coordinate(n, d) == (n \div K^d) % K

RightNode(n, d) == IF Coordinate(n, d) = K - 1 THEN n - (K - 1) * K^d ELSE n + K^d
LeftNode(n, d)  == IF Coordinate(n, d) = 0 THEN n + (K - 1) * K^d ELSE n - K^d

\* The router and the port at the other end of the links of port p: what leaves
\* to the right arrives from the left.  The links of a mesh wrap around as well.
Neighbour(n, p) ==
  IF p % 2 = 0 THEN <<RightNode(n, p \div 2), p + 1>> ELSE <<LeftNode(n, p \div 2), p - 1>>

\* use_noc_latency: the links of a torus are twice as long.
Latency(mesh, p) == IF mesh \/ p = NodePort THEN 1 ELSE 2

(***************************************************************************)
(* Routing.  f is a head flit that came in through a port; f.vcs is the VC *)
(* range of its type, f.right the dimensions in which RandomInt sends it   *)
(* to the right when both ways are equally long, and f.ph the partition of *)
(* the ring that it is in.                                                 *)
(***************************************************************************)
FirstDim(cur, dest) == Min({d \in Dims : Coordinate(cur, d) # Coordinate(dest, d)})

dor_next_mesh(cur, dest) ==
  LET d == FirstDim(cur, dest)
  IN  IF cur = dest THEN NodePort
      ELSE IF Coordinate(cur, d) < Coordinate(dest, d) THEN 2 * d ELSE 2 * d + 1

GoesRight(f, d, from, to) ==
  LET dist2 == K - 2 * ((to - from + K) % K)
  IN  dist2 > 0 \/ (dist2 = 0 /\ d \in f.right)

\* The partition of a packet that turns into a ring.
Partition(right, from, to) ==
  IF (right /\ from > to) \/ (~right /\ to < from) THEN 1 ELSE 0

dor_next_torus(cur, f, in) ==
  LET d     == FirstDim(cur, f.dest)
      from  == Coordinate(cur, d)
      to    == Coordinate(f.dest, d)
      right == GoesRight(f, d, from, to)
  IN  CASE cur = f.dest -> [port |-> NodePort, ph |-> f.ph]
        [] cur # f.dest /\ in \div 2 # d ->
             [port |-> IF right THEN 2 * d ELSE 2 * d + 1, ph |-> Partition(right, from, to)]
        [] cur # f.dest /\ in \div 2 = d ->
             [port |-> IF in % 2 = 0 THEN in + 1 ELSE in - 1, ph |-> f.ph]

\* The output port and the VCs a packet may take there.  A failed assertion is
\* an empty range.
dim_order_mesh(cur, f) ==
  [port |-> dor_next_mesh(cur, f.dest), ph |-> f.ph,
   vcs  |-> IF f.vc \in f.vcs THEN f.vcs ELSE {}]

dim_order_torus(cur, f, in) ==
  LET next  == dor_next_torus(cur, f, in)
      half  == Cardinality(f.vcs) \div 2
      first == Min(f.vcs)
      last  == Max(f.vcs)
      range == CASE cur = f.dest                 -> f.vcs
                 [] cur # f.dest /\ next.ph = 0 -> first .. last - half
                 [] cur # f.dest /\ next.ph # 0 -> first + half .. last
  IN  [port |-> next.port, ph |-> next.ph,
       vcs  |-> IF f.vc \in f.vcs /\ (cur # f.dest => half > 0) THEN range ELSE {}]

Route(mesh, cur, f, in) ==
  IF mesh THEN dim_order_mesh(cur, f) ELSE dim_order_torus(cur, f, in)
=============================================================================
