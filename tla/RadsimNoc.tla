----------------------------- MODULE RadsimNoc -----------------------------
(***************************************************************************)
(* The NoC between one source node and one destination node: the wrapper's *)
(* Tick and, below it, BookSim reduced to what the adapters can observe.   *)
(*                                                                         *)
(* Kept from BookSim: the channels' registers at the nodes, per-VC buffers *)
(* in the order of arrival, wormhole allocation of the output VC, credit   *)
(* flow control towards the destination (the router's BufferState), one    *)
(* flit ejected and one credit returned per cycle.  Abstracted: routes,    *)
(* pipelines and latencies.  All routers on the path are one buffer, and   *)
(* whether a flit that may leave does leave in a given cycle is left open. *)
(***************************************************************************)
EXTENDS BufferState, Sequences

CONSTANTS
  NoFlit,    \* a null flit pointer
  NoVC       \* no credit this cycle, no entry in the map

VARIABLES
  inject,    \* _input of the source's inject channel
  credit,    \* _output of the source's inject credit channel
  rbuf,      \* per VC, the flits buffered in the network
  outState,  \* the BufferState of the router's port to the destination
  eject,     \* _output of the destination's eject channel
  ejected    \* the destination's entry in _ejected_flits, a VC, or NoVC

NocInit ==
  /\ inject = NoFlit /\ credit = NoVC
  /\ rbuf = [v \in VCs |-> <<>>]
  /\ outState = EmptyBuffer
  /\ eject = NoFlit /\ ejected = NoVC

\* The buffers after ReadInputs: the injected flit, if any, has arrived.
Buffered ==
  [v \in VCs |-> IF inject # NoFlit /\ inject.vc = v THEN Append(rbuf[v], inject)
                                                     ELSE rbuf[v]]

\* Mutant: the credit is not passed on.
CreditIgnored == outState

\* The router's view of the destination after the credit for the ejected flit.
Credited == IF ejected = NoVC THEN outState ELSE ProcessCredit(outState, ejected)

\* The destination has a slot for the flit at the front of VC v, and the VC is
\* free if the flit is a head.
CanForward(v) ==
  /\ Buffered[v] # <<>>
  /\ ~IsFullFor(Credited, v)
  /\ Head(Buffered[v]).head => IsAvailableFor(Credited, v)

\* The flit leaves for the destination, and the slot it frees is credited to
\* the source.
Forward(v) ==
  /\ CanForward(v)
  /\ LET f == Head(Buffered[v])
     IN  /\ eject' = f
         /\ outState' = SendingFlit(IF f.head THEN TakeBuffer(Credited, v)
                                              ELSE Credited, f)
  /\ rbuf' = [Buffered EXCEPT ![v] = Tail(@)]
  /\ credit' = v

\* Mutant: the last credit is presented once more.
CreditRepeated ==
  /\ rbuf' = Buffered
  /\ outState' = Credited
  /\ eject' = NoFlit
  /\ UNCHANGED credit

NothingMoves ==
  /\ rbuf' = Buffered
  /\ outState' = Credited
  /\ eject' = NoFlit
  /\ credit' = NoVC

\* Mutants: the map is not cleared; the inject channel is not cleared.
MapKept ==
  /\ inject' = NoFlit
  /\ UNCHANGED ejected
  /\ NothingMoves \/ \E v \in VCs : Forward(v)

ChannelKept ==
  /\ UNCHANGED inject
  /\ ejected' = NoVC
  /\ NothingMoves \/ \E v \in VCs : Forward(v)

\* One NoC cycle: read the inputs, send a credit for the entry of the map and
\* clear the map, move flits, present the outputs.
NocCycle ==
  /\ inject' = NoFlit
  /\ ejected' = NoVC
  /\ \/ NothingMoves
     \/ \E v \in VCs : Forward(v)
=============================================================================
