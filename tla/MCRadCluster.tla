---------------------------- MODULE MCRadCluster ----------------------------
(***************************************************************************)
(* Instances of RadCluster for TLC: three RADs, two of which send to the   *)
(* third, which sends to one of them.                                      *)
(***************************************************************************)
EXTENDS RadCluster

To(n) == [local |-> 9, remote |-> 4 + n, rad |-> n]

\* RAD 0 is sent to by both others, RAD 1 by RAD 0 alone.
TwoToOne == [r \in 0 .. 2 |-> IF r = 0 THEN {To(1)} ELSE {To(0)}]

\* RAD 0 sends enough to fill its window, the others to overload its FIFO.
ThreeTwoOne == [r \in 0 .. 2 |-> 3 - r]
=============================================================================
