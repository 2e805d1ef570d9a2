---------------------------- MODULE MCAxisEgress ----------------------------
(***************************************************************************)
(* Instances of AxisEgress for TLC.                                        *)
(***************************************************************************)
EXTENDS AxisEgress, TLC

MaxFlits == 2

\* Every flit is addressed to this node.
ThisNode == {1}
LocalDest == {[local |-> 1, remote |-> 0, rad |-> 0]}

OneTransfer == [o \in 0 .. NumOutputs - 1 |-> MaxFlits]

\* Two packets of one or two flits that can interleave, then one of one flit.
TwoThenShort == [n \in 1 .. MaxTx |-> IF n = MaxTx THEN {1} ELSE 1 .. MaxFlits]

SendThenTickThenEjection == {"InputInjection"}
=============================================================================
