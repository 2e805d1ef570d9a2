------------------------------- MODULE Portal -------------------------------
(***************************************************************************)
(* The portals: the module of each RAD that joins its NoC to the inter-RAD *)
(* network.  Two unbounded queues, one per direction, each in front of a   *)
(* registered AXI-streaming output.  A portal is always ready on both of   *)
(* its inputs, so whatever is valid there is taken at the edge.            *)
(*                                                                         *)
(* The two halves of Tick meet only in the clock, so all portals take      *)
(* their step as one action over functions of the RAD.                     *)
(***************************************************************************)
EXTENDS Sequences

CONSTANTS
  Rads,       \* the RAD ids
  NoPacket    \* tvalid = false

VARIABLES
  incoming,   \* per RAD, portal_axis_fifo_noc_incoming
  toNet,      \* per RAD, the output port portal_axis_master
  outgoing,   \* per RAD, portal_axis_fifo_noc_outgoing
  toNoc       \* per RAD, the output port axis_portal_master_interface

portalVars == <<incoming, toNet, outgoing, toNoc>>

PortalInit ==
  /\ incoming = [r \in Rads |-> <<>>] /\ toNet = [r \in Rads |-> NoPacket]
  /\ outgoing = [r \in Rads |-> <<>>] /\ toNoc = [r \in Rads |-> NoPacket]

\* The queue once the packet on the input port has been pushed.
Pushed(queue, input) == IF input = NoPacket THEN queue ELSE Append(queue, input)

\* Mutant: popped although the receiver was not ready.
PoppedUnasked(queue, port, ready) ==
  IF port # NoPacket /\ queue # <<>> THEN Tail(queue) ELSE queue

\* The queue once the packet presented on the output port has been taken.
Popped(queue, port, ready) ==
  IF port # NoPacket /\ ready /\ queue # <<>> THEN Tail(queue) ELSE queue

FrontOf(queue) == IF queue = <<>> THEN NoPacket ELSE Head(queue)

\* Mutant: the front is read before the pop.
FrontBeforePop(queue, port, input, ready) ==
  [queue |-> Popped(Pushed(queue, input), port, ready),
   port  |-> FrontOf(Pushed(queue, input))]

\* One direction of Tick: push, pop, and only then present the front.
Forwarded(queue, port, input, ready) ==
  LET left == Popped(Pushed(queue, input), port, ready)
  IN  [queue |-> left, port |-> FrontOf(left)]

Out(r, fromNoc, netReady) == Forwarded(incoming[r], toNet[r], fromNoc[r], netReady[r])

In(r, fromNet, nocReady) == Forwarded(outgoing[r], toNoc[r], fromNet[r], nocReady[r])

\* fromNoc, fromNet: what the NoC and the inter-RAD network present to the
\* portals; netReady, nocReady: their tready.
Tick(fromNoc, netReady, fromNet, nocReady) ==
  /\ incoming' = [r \in Rads |-> Out(r, fromNoc, netReady).queue]
  /\ toNet'    = [r \in Rads |-> Out(r, fromNoc, netReady).port]
  /\ outgoing' = [r \in Rads |-> In(r, fromNet, nocReady).queue]
  /\ toNoc'    = [r \in Rads |-> In(r, fromNet, nocReady).port]
=============================================================================
