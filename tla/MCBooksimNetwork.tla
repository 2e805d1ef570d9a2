-------------------------- MODULE MCBooksimNetwork --------------------------
(***************************************************************************)
(* Four routers in a ring, with and without the wraparound links.          *)
(***************************************************************************)
EXTENDS BooksimNetwork

P(src, dest, len, vcs, flow) ==
  [src |-> src, dest |-> dest, len |-> len, vcs |-> vcs, flow |-> flow]

\* Every node of the torus sends to the opposite one, on VCs split between the two
\* partitions of the rings.
Opposite ==
  [mesh |-> FALSE,
   packets |-> [i \in 1 .. 4 |-> P(i - 1, (i + 1) % 4, 2, {0, 1}, i)]]

\* The mesh, with two types of packets on a VC each: three packets that want the
\* same link, two of them of one flow, and two against the stream.
HotSpot ==
  [mesh |-> TRUE,
   packets |-> <<P(0, 3, 2, {0}, 1), P(0, 3, 1, {0}, 1), P(2, 3, 2, {0}, 2),
                 P(3, 0, 2, {1}, 3), P(1, 1, 1, {1}, 4)>>]

MCScenarios == {Opposite, HotSpot}

(***************************************************************************)
(* The routing functions alone, in two dimensions and for every pair of    *)
(* nodes.                                                                  *)
(***************************************************************************)
Square == INSTANCE KNCube WITH K <- 4, N <- 2

Heads == {[at |-> src, in |-> Square!NodePort,
           f  |-> [dest |-> dest, vc |-> 0, vcs |-> {0, 1}, right |-> right, ph |-> 0]] :
            <<src, dest, right>> \in Square!Nodes \X Square!Nodes \X SUBSET Square!Dims}

Hop(wrap, h) ==
  LET r  == Square!Route(~wrap, h.at, h.f, h.in)
      to == Square!Neighbour(h.at, r.port)
  IN  IF r.port = Square!NodePort THEN h
      ELSE [at |-> to[1], in |-> to[2], f |-> [h.f EXCEPT !.ph = r.ph]]

AlongTheLine(a, b) == IF a < b THEN b - a ELSE a - b
AroundTheRing(a, b) == Min({(b - a + 4) % 4, (a - b + 4) % 4})

Distance(wrap, a, b) ==
  FoldSet(LAMBDA d, n : n + LET x == Square!Coordinate(a, d)
                                y == Square!Coordinate(b, d)
                            IN  IF wrap THEN AroundTheRing(x, y) ELSE AlongTheLine(x, y),
          0, Square!Dims)

\* Every hop of dim_order_mesh and dim_order_torus brings a packet closer to its
\* destination, and it keeps VCs to choose from.
ASSUME RoutesAreMinimal ==
  \A wrap \in BOOLEAN, h \in Heads :
    \/ h.at = h.f.dest
    \/ /\ Distance(wrap, Hop(wrap, h).at, h.f.dest) = Distance(wrap, h.at, h.f.dest) - 1
       /\ Square!Route(~wrap, h.at, h.f, h.in).vcs # {}

\* The states a head can be in, hop after hop.
OnTheRoad(wrap) ==
  LET After[i \in 0 .. 6] == IF i = 0 THEN Heads ELSE {Hop(wrap, h) : h \in After[i - 1]}
  IN  UNION {After[i] : i \in 0 .. 6}

\* Channel and VC class that a packet takes next, and those it waits for there.
Wants(wrap, h) == LET r == Square!Route(~wrap, h.at, h.f, h.in)
                  IN  {<<h.at, r.port, v>> : v \in r.vcs}

WaitsFor(wrap) ==
  UNION {Wants(wrap, h) \X Wants(wrap, Hop(wrap, h)) :
           h \in {g \in OnTheRoad(wrap) : g.at # g.f.dest}}

\* No cycle of channels whose packets wait for each other: what is left after the
\* channels nobody waits for have been taken away again and again is empty.
ASSUME NoCyclicWait ==
  \A wrap \in BOOLEAN :
    LET Waited(edges) == LET to == {e[2] : e \in edges} IN {e \in edges : e[1] \in to}
        left[i \in 0 .. 8] == IF i = 0 THEN WaitsFor(wrap) ELSE Waited(left[i - 1])
    IN  left[8] = {}
=============================================================================
