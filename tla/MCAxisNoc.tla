------------------------------ MODULE MCAxisNoc ------------------------------
(***************************************************************************)
(* Instances of AxisNoc for TLC: two interfaces with packets of one and of *)
(* two flits, each on a VC of its own, to one interface of the receiver   *)
(* that takes a flit per transfer.                                         *)
(***************************************************************************)
EXTENDS AxisNoc, TLC

OneAndTwo == (0 :> 1) @@ (1 :> 2)
OwnVC     == (0 :> 0) @@ (1 :> 1)
LocalDest == {[local |-> 1, remote |-> 0, rad |-> 0]}
TidZero   == {0}
Narrow == (0 :> 1)

InjectionAndEjectionFirst == {"InputInjection", "OutputEjection"}

\* The modules and the adapters share a clock.
TwoClocks ==
  [InputInterface        |-> "adapter", OutputInterface       |-> "adapter",
   InputPacketization    |-> "adapter", OutputDepacketization |-> "adapter",
   InputInjection        |-> "noc",     OutputEjection        |-> "noc",
   Tick                  |-> "noc"]
=============================================================================
