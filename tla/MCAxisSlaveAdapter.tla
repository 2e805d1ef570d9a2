------------------------- MODULE MCAxisSlaveAdapter -------------------------
(***************************************************************************)
(* Instances of AxisSlaveAdapter for TLC: two interfaces whose packets     *)
(* differ in length, sharing one VC.                                       *)
(***************************************************************************)
EXTENDS AxisSlaveAdapter, TLC

TwoAndThree  == (0 :> 2) @@ (1 :> 3)
SharedVC    == (0 :> 0) @@ (1 :> 0)

RemoteDest == {[local |-> 0, remote |-> 1, rad |-> 1]}
TidZero    == {0}

TickThenInjection == {}
=============================================================================
