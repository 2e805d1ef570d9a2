---------------------------- MODULE AxisChannel ----------------------------
(***************************************************************************)
(* What the two AXI-streaming adapters and the NoC between them promise    *)
(* the modules at both ends: per flow, a reliable FIFO channel.  A flow is *)
(* the traffic of one packet type to one destination interface.  Every     *)
(* transaction that is accepted is delivered at most once, in the order of *)
(* acceptance within its flow, and nothing else is delivered; under        *)
(* Fairness it is delivered.  Nothing is promised between flows.           *)
(* Transactions are numbered when they are accepted, so that the queue of  *)
(* a flow is a set of numbers, the least of which is delivered next.       *)
(***************************************************************************)
EXTENDS Naturals, FiniteSetsExt

CONSTANT Flows

VARIABLES
  accepted,   \* the number of transactions accepted; they are numbered
  queue,      \* per flow, the transactions accepted and not delivered
  received    \* per flow, the last transaction delivered, 0 at first

vars == <<accepted, queue, received>>

Init ==
  /\ accepted = 0
  /\ queue = [f \in Flows |-> {}]
  /\ received = [f \in Flows |-> 0]

Accept(f) ==
  /\ accepted' = accepted + 1
  /\ queue' = [queue EXCEPT ![f] = @ \cup {accepted + 1}]
  /\ UNCHANGED received

\* The interfaces of a node deliver at the same clock edge, each something new.
Deliver(S) ==
  /\ UNCHANGED accepted
  /\ received' # received
  /\ \A f \in S : queue[f] # {}
  /\ received' = [f \in Flows |-> IF f \in S THEN Min(queue[f]) ELSE received[f]]
  /\ queue' = [f \in Flows |-> IF f \in S THEN queue[f] \ {Min(queue[f])} ELSE queue[f]]

Next ==
  \/ \E f \in Flows : Accept(f)
  \/ \E S \in (SUBSET Flows) \ {{}} : Deliver(S)

Spec == Init /\ [][Next]_vars

\* Every flow that has something to deliver is served again and again.
Fairness == \A f \in Flows : WF_vars(\E S \in SUBSET Flows : f \in S /\ Deliver(S))

FairSpec == Spec /\ Fairness
=============================================================================
