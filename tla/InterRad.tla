------------------------------ MODULE InterRad ------------------------------
(***************************************************************************)
(* The network between the RADs: one bounded FIFO per destination, a list  *)
(* of counters that holds every packet back for the latency, and a window  *)
(* of cycles in which the inputs are ready, for the bandwidth.             *)
(*                                                                         *)
(* writeFifo and readFifo are two threads on one clock.  The FIFOs are     *)
(* sc_fifos: a packet written at an edge can be read at the next edge only,*)
(* and the slot of a packet read at an edge is free at the next edge only. *)
(* The counters are plain vectors: what the thread that runs second sees   *)
(* of them depends on the order, the constant WriteFirst.                  *)
(***************************************************************************)
EXTENDS Integers, Sequences, SequencesExt

CONSTANTS
  NumRads,        \* num_rads
  NoPacket,       \* tvalid = false
  FifoSlots,      \* inter_rad_fifo_num_slots
  LatencyCycles,  \* inter_rad_latency_cycles
  BwAccept,       \* inter_rad_bw_accept_cycles
  BwTotal,        \* inter_rad_bw_total_cycles
  WriteFirst      \* the kernel runs writeFifo before readFifo

Rads == 0 .. NumRads - 1

ASSUME InterRadAssumption ==
  /\ NumRads \in Nat \ {0}
  /\ FifoSlots \in Nat \ {0}
  /\ LatencyCycles \in Nat \ {0}
  /\ BwAccept \in Nat \ {0} /\ BwTotal \in Nat /\ BwAccept <= BwTotal
  /\ WriteFirst \in BOOLEAN

VARIABLES
  bwCounter,  \* bw_counter
  netReady,   \* per source, tready of all_axis_slave_ports
  fifo,       \* per destination, fifos
  latency,    \* per destination, fifos_latency_counters
  toRad       \* per destination, all_axis_master_signals

netVars == <<bwCounter, netReady, fifo, latency, toRad>>

NetInit ==
  /\ bwCounter = 0
  /\ netReady = [r \in Rads |-> TRUE]
  /\ fifo = [r \in Rads |-> <<>>]
  /\ latency = [r \in Rads |-> <<>>]
  /\ toRad = [r \in Rads |-> NoPacket]

(***************************************************************************)
(* writeFifo.                                                              *)
(***************************************************************************)
\* A packet as it is stored: at the destination RAD its remote node is the
\* local one.
Swapped(p) == [p EXCEPT !.dest.local = p.dest.remote, !.dest.remote = 0]

\* Mutant: only tvalid is looked at.
ValidOnly(toNet, r) == toNet[r] # NoPacket

Handshake(toNet, r) == toNet[r] # NoPacket /\ netReady[r]

\* The packets accepted at this edge for RAD d from the first n RADs, for every n.
AcceptedUpTo(toNet, d) ==
  LET accepted[n \in 0 .. NumRads] ==
        IF n = 0 THEN <<>>
        ELSE IF Handshake(toNet, n - 1) /\ toNet[n - 1].dest.rad = d
        THEN Append(accepted[n - 1], Swapped(toNet[n - 1]))
        ELSE accepted[n - 1]
  IN  accepted

Arriving(toNet, d) == AcceptedUpTo(toNet, d)[NumRads]

\* Mutant: the last slot is not used.
OneSlotUnused(toNet, d) ==
  LET room == FifoSlots - 1 - Len(fifo[d])
  IN  IF Len(Arriving(toNet, d)) < room THEN Len(Arriving(toNet, d)) ELSE room

\* nb_write stores the first ones of them; the others are dropped.
NumStored(toNet, d) ==
  LET room == FifoSlots - Len(fifo[d])
  IN  IF Len(Arriving(toNet, d)) < room THEN Len(Arriving(toNet, d)) ELSE room

Stored(toNet, d) == SubSeq(Arriving(toNet, d), 1, NumStored(toNet, d))

Dropped(toNet, d) ==
  SubSeq(Arriving(toNet, d), NumStored(toNet, d) + 1, Len(Arriving(toNet, d)))

NewCounters(toNet, d) == [k \in 1 .. NumStored(toNet, d) |-> 0]

\* Mutant: a window of one cycle too many.
OneMoreAccepted == [r \in Rads |-> bwCounter <= BwAccept]

InWindow == [r \in Rads |-> bwCounter < BwAccept]

NextCount == IF bwCounter >= BwTotal - 1 THEN 0 ELSE bwCounter + 1

(***************************************************************************)
(* readFifo.                                                               *)
(***************************************************************************)
Aged(counters) == [k \in DOMAIN counters |-> counters[k] + 1]

\* The counters of RAD d when readFifo compares the first one.
CountersAtRead(toNet, d) ==
  Aged(IF WriteFirst THEN latency[d] \o NewCounters(toNet, d) ELSE latency[d])

\* Mutant: one cycle later.
LeavesLate(toNet, d) ==
  fifo[d] # <<>> /\ CountersAtRead(toNet, d)[1] > LatencyCycles

Leaves(toNet, d) ==
  fifo[d] # <<>> /\ CountersAtRead(toNet, d)[1] >= LatencyCycles

CountersAfter(toNet, d) ==
  (IF Leaves(toNet, d) THEN Tail(CountersAtRead(toNet, d)) ELSE CountersAtRead(toNet, d))
    \o (IF WriteFirst THEN <<>> ELSE NewCounters(toNet, d))

FifoAfter(toNet, d) ==
  (IF Leaves(toNet, d) THEN Tail(fifo[d]) ELSE fifo[d]) \o Stored(toNet, d)

\* One edge of inter_rad_clk: both threads.
Cycle(toNet) ==
  /\ netReady' = InWindow
  /\ bwCounter' = NextCount
  /\ fifo' = [d \in Rads |-> FifoAfter(toNet, d)]
  /\ latency' = [d \in Rads |-> CountersAfter(toNet, d)]
  /\ toRad' = [d \in Rads |-> IF Leaves(toNet, d) THEN Head(fifo[d]) ELSE NoPacket]
=============================================================================
