---------------------------- MODULE AximmChannel ----------------------------
(***************************************************************************)
(* What the AXI-MM adapters and the NoC between them promise the modules   *)
(* at both ends: five channels, one per transaction type.  Each delivers   *)
(* the transactions it has accepted exactly once and in order.  Nothing is *)
(* promised between types: W may arrive before its AW.                     *)
(***************************************************************************)
EXTENDS Naturals

CONSTANT Types

VARIABLES
  accepted,   \* per type, the number of transactions accepted
  delivered   \* per type, the number of the last transaction delivered

vars == <<accepted, delivered>>

Init ==
  /\ accepted = [t \in Types |-> 0]
  /\ delivered = [t \in Types |-> 0]

\* The modules at both ends may share a clock, so several types may move at once.
Counted(f, g, moving) ==
  /\ g \in [Types -> Nat]
  /\ \A t \in Types : g[t] = f[t] \/ (t \in moving /\ g[t] = f[t] + 1)

Waiting == {t \in Types : delivered[t] < accepted[t]}

Next ==
  /\ Counted(accepted, accepted', Types)
  /\ Counted(delivered, delivered', Waiting)

\* WF of the delivery of each type, written out.
Fairness ==
  \A t \in Types :
    \/ []<>(t \notin Waiting)
    \/ []<><<Next /\ delivered'[t] # delivered[t]>>_vars

Spec == Init /\ [][Next]_vars /\ Fairness
=============================================================================
