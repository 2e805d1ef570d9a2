------------------------- MODULE AxisMasterAdapter -------------------------
(***************************************************************************)
(* The AXI-streaming master NoC adapter: it ejects flits from the NoC into *)
(* one FIFO per VC, rebuilds packets, and presents them on the ports of a  *)
(* module.  Three clocked threads:                                         *)
(*   OutputEjection        NoC clock      eject channel -> ejection FIFOs  *)
(*   OutputDepacketization adapter clock  ejection FIFOs -> output FIFOs   *)
(*   OutputInterface       node clock     output FIFOs -> ports            *)
(*                                                                         *)
(* The module has the adapter's actions only; they are put under clocks    *)
(* and connected to a NoC in AxisEgress and AxisNoc.                       *)
(***************************************************************************)
EXTENDS Integers, Sequences, FiniteSets

CONSTANTS
  NumVCs,         \* _num_vcs
  NumOutputs,     \* _num_axis_interfaces
  OutFlits,       \* _num_flits: flits per transfer of each interface's width
  EjectionDepth,  \* _ejection_afifo_depth (noc_adapters_fifo_size)
  OutputDepth,    \* _output_afifo_depth (noc_adapters_obuff_size)
  BeforeTick,     \* the NoC-clock threads that the kernel runs before Tick
  NoFlit, NoVC

VCs == 0 .. NumVCs - 1

Outputs == 0 .. NumOutputs - 1

\* Assumed by the modules that instantiate this one.
MasterAssumption ==
  /\ NumVCs \in Nat \ {0}
  /\ NumOutputs \in Nat \ {0}
  /\ OutFlits \in [Outputs -> Nat \ {0}]
  /\ EjectionDepth \in Nat \ {0}
  /\ OutputDepth \in Nat \ {0}

VARIABLES
  pending,      \* the threads that still have to run at this clock edge
  eject,        \* _output of the node's eject channel
  ejected,      \* this node's entry in _ejected_flits, or NoVC
  ejectReg,     \* _ejected_booksim_flit
  ejFifo,       \* _ejection_afifos, per VC
  pushCount,    \* _ejection_afifo_push_counter (a signal), per VC
  pushing,      \* the VC whose push counter has a write pending, or NoVC
  popCount,     \* _ejection_afifo_pop_counter, per VC
  priority,     \* _ejection_afifo_priority
  depacketizing,\* _ejection_afifo_is_depacketizing
  constructed,  \* _constructed_packet: the flits added so far
  outFifo,      \* _output_afifos, per interface
  chunk,        \* _output_chunk, per interface
  out,          \* per interface, the packet presented; empty: tvalid = false
  sinkReady,    \* per interface, tready as the module drives it
  received      \* environment: per VC and interface, the last packet taken

MasterInit ==
  /\ ejectReg = NoFlit
  /\ ejFifo = [v \in VCs |-> <<>>]
  /\ pushCount = [v \in VCs |-> 0] /\ pushing = NoVC
  /\ popCount = [v \in VCs |-> 0]
  /\ priority = [k \in 1 .. NumVCs |-> k - 1]
  /\ depacketizing = FALSE
  /\ constructed = <<>>
  /\ outFifo = [o \in Outputs |-> <<>>]
  /\ chunk = [o \in Outputs |-> 0]
  /\ out = [o \in Outputs |-> <<>>]
  /\ sinkReady = [o \in Outputs |-> FALSE]
  /\ received = [v \in VCs |-> [o \in Outputs |-> 0]]

Run(thread) == thread \in pending /\ pending' = pending \ {thread}

TickOrder(thread) ==
  IF thread \in BeforeTick THEN TRUE ELSE "Tick" \notin pending

(***************************************************************************)
(* OutputEjection: read the eject channel unless a flit is still waiting   *)
(* for room, and file the flit under its VC.  The count of whole packets   *)
(* is a signal, so its new value shows after the edge (CommitPush).        *)
(***************************************************************************)
\* Mutant: a slot of the FIFO is never used.
OneSlotUnused(f) == f # NoFlit /\ Len(ejFifo[f.vc]) < EjectionDepth - 1

HasRoom(f) == f # NoFlit /\ Len(ejFifo[f.vc]) < EjectionDepth

Ejected == IF ejectReg # NoFlit THEN ejectReg ELSE eject

OutputEjection ==
  /\ Run("OutputEjection") /\ TickOrder("OutputEjection")
  /\ IF HasRoom(Ejected)
     THEN /\ ejFifo' = [ejFifo EXCEPT ![Ejected.vc] = Append(@, Ejected)]
          /\ pushing' = IF Ejected.tail THEN Ejected.vc ELSE NoVC
          /\ ejectReg' = NoFlit
     ELSE /\ ejectReg' = Ejected
          /\ UNCHANGED <<ejFifo, pushing>>
  /\ UNCHANGED <<eject, ejected, pushCount, popCount, priority, depacketizing,
                 constructed, outFifo, chunk, out, sinkReady, received>>

\* The update phase of the push counters.
CommitPush ==
  /\ pushCount' = IF pushing = NoVC THEN pushCount
                                    ELSE [pushCount EXCEPT ![pushing] = @ + 1]
  /\ pushing' = NoVC

(***************************************************************************)
(* OutputDepacketization.                                                  *)
(***************************************************************************)
\* Mutants: the rest of the packet may be missing; the counters are compared
\* with an off-by-one.
AnyFlitWillDo(v) ==
  ejFifo[v] # <<>> /\ Len(outFifo[Head(ejFifo[v]).tid]) < OutputDepth

OneTooMany(v) ==
  /\ ejFifo[v] # <<>>
  /\ pushCount[v] >= popCount[v]
  /\ Len(outFifo[Head(ejFifo[v]).tid]) < OutputDepth

\* A whole packet is in the FIFO of VC v and the output FIFO of its
\* destination interface has room (fifo_has_complete_packet).
HasCompletePacket(v) ==
  /\ ejFifo[v] # <<>>
  /\ pushCount[v] > popCount[v]
  /\ Len(outFifo[Head(ejFifo[v]).tid]) < OutputDepth

\* Mutant: the queue stays as it is.
NeverRotated(k) == priority

Rotated(k) == [j \in 1 .. NumVCs |-> priority[((j - 1 + k) % NumVCs) + 1]]

\* How far the priority queue is rotated to find a VC: not at all within a
\* packet, and all the way round, which is as good as not at all, if no VC has
\* a packet.
Rotation ==
  IF depacketizing \/ \A k \in 1 .. NumVCs : ~HasCompletePacket(priority[k])
  THEN 0
  ELSE CHOOSE k \in 0 .. NumVCs - 1 :
         /\ HasCompletePacket(priority[k + 1])
         /\ \A j \in 1 .. k : ~HasCompletePacket(priority[j])

\* The front flit of VC v joins the packet under construction, which moves to
\* its output FIFO with the tail.  Its credit goes into the map, where an
\* entry of this node that Tick has not fetched yet stays as it is.
TakeFlit(v) ==
  LET f == Head(ejFifo[v])
  IN  /\ ejFifo' = [ejFifo EXCEPT ![v] = Tail(@)]
      /\ ejected' = IF ejected = NoVC THEN v ELSE ejected
      /\ IF f.tail
         THEN /\ outFifo' = [outFifo EXCEPT ![f.tid] = Append(@, Append(constructed, f))]
              /\ constructed' = <<>>
              /\ depacketizing' = FALSE
              /\ popCount' = [popCount EXCEPT ![v] = @ + 1]
              /\ priority' = Rotated(Rotation + 1)
         ELSE /\ constructed' = Append(constructed, f)
              /\ depacketizing' = TRUE
              /\ priority' = Rotated(Rotation)
              /\ UNCHANGED <<outFifo, popCount>>

OutputDepacketization ==
  /\ Run("OutputDepacketization")
  /\ LET v == priority[Rotation + 1]
     IN  IF HasCompletePacket(v)
         THEN TakeFlit(v)
         ELSE /\ priority' = Rotated(1)
              /\ UNCHANGED <<ejFifo, ejected, popCount, depacketizing,
                             constructed, outFifo>>
  /\ UNCHANGED <<eject, ejectReg, pushCount, pushing, chunk, out, sinkReady, received>>

(***************************************************************************)
(* OutputInterface, and the step of the module behind the ports, which is  *)
(* clocked by the same edge: it takes what is presented when it is ready   *)
(* and decides whether it is ready for the next edge.                      *)
(***************************************************************************)
\* The packet needs this many transfers on a narrower interface.
NumChunks(packet, o) == (Len(packet) + OutFlits[o] - 1) \div OutFlits[o]

Transfer(o) == sinkReady[o] /\ out[o] # <<>>

LastChunk(o) == chunk[o] + 1 = NumChunks(outFifo[o][1], o)

Popped(o) ==
  IF Transfer(o) /\ LastChunk(o) THEN Tail(outFifo[o]) ELSE outFifo[o]

Presented(o) == IF Popped(o) # <<>> THEN Head(Popped(o)) ELSE <<>>

OutputInterface ==
  /\ Run("OutputInterface")
  /\ outFifo' = [o \in Outputs |-> Popped(o)]
  /\ chunk' = [o \in Outputs |-> IF ~Transfer(o) THEN chunk[o]
                                 ELSE IF LastChunk(o) THEN 0 ELSE chunk[o] + 1]
  /\ out' = [o \in Outputs |-> Presented(o)]
  /\ sinkReady' \in [Outputs -> BOOLEAN]
  /\ received' = [v \in VCs |-> [o \in Outputs |->
                    IF Transfer(o) /\ LastChunk(o) /\ out[o][1].vc = v
                    THEN out[o][1].id ELSE received[v][o]]]
  /\ UNCHANGED <<eject, ejected, ejectReg, ejFifo, pushCount, pushing, popCount,
                 priority, depacketizing, constructed>>

(***************************************************************************)
(* What the parts of the adapter promise each other.                       *)
(***************************************************************************)
Tails(s) == Cardinality({k \in 1 .. Len(s) : s[k].tail})

\* The flits of s are those of one packet in order, from its head on.
PacketPrefix(s) ==
  \A k \in 1 .. Len(s) :
    /\ s[k].id = s[1].id /\ s[k].vc = s[1].vc /\ s[k].tid = s[1].tid
    /\ s[k].seq = k - 1 /\ s[k].head = (k = 1)
    /\ k < Len(s) => ~s[k].tail

WholePacket(s) == s # <<>> /\ PacketPrefix(s) /\ s[Len(s)].tail

\* The counters of packets pushed and popped tell exactly how many whole
\* packets an ejection FIFO holds, and the count popped never passes the count
\* pushed (the assertion in OutputDepacketization), although the push counter is
\* a signal written at the NoC clock and read at the adapter clock.
CountersMatchFifos ==
  \A v \in VCs :
    /\ popCount[v] <= pushCount[v]
    /\ pushCount[v] + (IF pushing = v THEN 1 ELSE 0)
         = popCount[v] + Tails(ejFifo[v])

\* Packets are rebuilt whole: the one under construction is a prefix of a
\* single packet, and every packet in an output FIFO is complete and in order,
\* in the FIFO of the interface that it is meant for, which never exceeds its
\* depth.  What a module sees presented is the packet that the adapter is going
\* to pop at the handshake: OutputInterface reads the FIFO, not the port.
PacketsRebuilt ==
  /\ PacketPrefix(constructed)
  /\ depacketizing <=> constructed # <<>>
  /\ constructed # <<>> => ~constructed[Len(constructed)].tail
  /\ \A o \in Outputs : \A k \in 1 .. Len(outFifo[o]) :
       WholePacket(outFifo[o][k]) /\ outFifo[o][k][1].tid = o
  /\ \A o \in Outputs :
       /\ Len(outFifo[o]) <= OutputDepth
       /\ out[o] # <<>> => outFifo[o] # <<>> /\ out[o] = outFifo[o][1]

\* Once a packet has been started it never has to wait: the rest of it is in
\* the FIFO of the VC in front of the priority queue, and its output FIFO
\* still has room.  (If not, the else branch would rotate the priority queue
\* and the next flit could come from another packet.)
PacketNeverStalls ==
  depacketizing =>
    /\ HasCompletePacket(priority[1])
    /\ ejFifo[priority[1]][1].id = constructed[1].id
    /\ ejFifo[priority[1]][1].seq = Len(constructed)
=============================================================================
