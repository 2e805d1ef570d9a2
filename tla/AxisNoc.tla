------------------------------ MODULE AxisNoc ------------------------------
(***************************************************************************)
(* The whole AXI-streaming path: a module sends through an                 *)
(* AxisSlaveAdapter, RadsimNoc and an AxisMasterAdapter to another module. *)
(* The components share the channels' registers, the map of ejected flits  *)
(* and the kernel; each step is a step of one component.                   *)
(***************************************************************************)
EXTENDS Integers, Sequences, Functions

CONSTANTS
  NumVCs, VcBufSize, WaitForTailCredit, NumInterfaces, NumFlits, VcOf, Dests,
  Tids, RadId, PortalId, TxDepth, InjectionDepth, NumOutputs, OutFlits,
  EjectionDepth, OutputDepth, BeforeTick, MaxTx, NoTx, NoFlit, NoVC,
  AllClocks,      \* the clocks of the design
  ClockOf         \* the clock that each thread is sensitive to

VARIABLES
  pending, settled, ticked,
  offer, tready, numTx, txFifo, txFull, pktCycle, injFifo, injFull, injReg,
  bufState,
  inject, credit, rbuf, outState, eject, ejected,
  ejectReg, ejFifo, pushCount, pushing, popCount, priority, depacketizing,
  constructed, outFifo, chunk, out, sinkReady, received

SlaveThreads == {"InputInterface", "InputPacketization", "InputInjection", "Tick"}

EgressThreads ==
  {"InputInjection", "Tick", "OutputEjection", "OutputDepacketization", "OutputInterface"}

Slave  == INSTANCE AxisSlaveAdapter WITH
            pending <- pending \cap SlaveThreads,
            held    <- [v \in 0 .. NumVCs - 1 |-> Len(rbuf[v])]
Noc    == INSTANCE RadsimNoc
Master == INSTANCE AxisMasterAdapter

VCs == Noc!VCs
Outputs == Master!Outputs
Interfaces == Slave!Interfaces

Threads == SlaveThreads \cup EgressThreads

\* The null values are no flit and no packet of the parts (see Egress below).
ASSUME NocAssumption ==
  /\ Slave!BufferAssumption /\ Slave!SlaveAssumption
  /\ Master!MasterAssumption
  /\ ClockOf \in [Threads -> AllClocks]
  /\ ClockOf["InputInjection"] = ClockOf["Tick"]
  /\ ClockOf["OutputEjection"] = ClockOf["Tick"]
  /\ Tids \subseteq Outputs
  /\ NoFlit \notin [id : Nat, seq : Nat, head : BOOLEAN, tail : BOOLEAN, vc : VCs,
                   node : Nat, dest : Dests, tid : Outputs]
  /\ NoTx \notin [id : Nat, node : Nat, dest : Dests, tid : Outputs, next : Nat]

slaveVars  == <<offer, tready, numTx, txFifo, txFull, pktCycle, injFifo,
                injFull, injReg, bufState>>
linkVars   == <<inject, credit>>
routerVars == <<rbuf, outState, eject, ejected>>
masterVars == <<ejectReg, ejFifo, pushCount, pushing, popCount, priority,
                depacketizing, constructed, outFifo, chunk, out, sinkReady,
                received>>
vars == <<pending, settled, ticked, slaveVars, linkVars, routerVars, masterVars>>

Init ==
  /\ pending = {} /\ settled = TRUE /\ ticked = TRUE
  /\ offer = [i \in Interfaces |-> NoTx]
  /\ tready = [i \in Interfaces |-> FALSE]
  /\ numTx = 0
  /\ txFifo = <<>> /\ txFull = FALSE /\ pktCycle = 0
  /\ injFifo = <<>> /\ injFull = FALSE /\ injReg = NoFlit
  /\ bufState = Noc!EmptyBuffer
  /\ Noc!NocInit /\ Master!MasterInit

(***************************************************************************)
(* The kernel.  The adapter clock of the destination is slower than the    *)
(* NoC clock, so two of its edges have a NoC edge between them.            *)
(***************************************************************************)
Woken(S) == {t \in Threads : ClockOf[t] \in S}

ClockEdge(S) ==
  /\ pending = {} /\ settled
  /\ "OutputDepacketization" \in Woken(S) => ticked
  /\ pending' = Woken(S)
  /\ settled' = FALSE
  /\ ticked' = IF "OutputDepacketization" \in Woken(S) THEN FALSE
               ELSE ticked \/ "Tick" \in Woken(S)
  /\ UNCHANGED <<slaveVars, linkVars, routerVars, masterVars>>

\* The update phase: the ready signals and the push counters change.
Settle ==
  /\ pending = {} /\ ~settled
  /\ settled' = TRUE
  /\ tready' = Slave!ReadyValues
  /\ Master!CommitPush
  /\ UNCHANGED <<pending, ticked, offer, numTx, txFifo, txFull, pktCycle,
                 injFifo, injFull, injReg, bufState, linkVars, routerVars,
                 ejectReg, ejFifo, popCount, priority, depacketizing,
                 constructed, outFifo, chunk, out, sinkReady, received>>

InputInterface ==
  /\ Master!Run("InputInterface")
  /\ Slave!TakeTransaction
  /\ UNCHANGED <<settled, ticked, tready, pktCycle, injFifo, injFull, injReg,
                 bufState, linkVars, routerVars, masterVars>>

InputPacketization ==
  /\ Master!Run("InputPacketization")
  /\ Slave!MakeFlit
  /\ UNCHANGED <<settled, ticked, offer, tready, numTx, txFull, injReg,
                 bufState, linkVars, routerVars, masterVars>>

InputInjection ==
  /\ Master!Run("InputInjection") /\ Master!TickOrder("InputInjection")
  /\ Slave!InjectFlit
  /\ UNCHANGED <<settled, ticked, offer, tready, numTx, txFifo, txFull,
                 pktCycle, injFull, credit, routerVars, masterVars>>

Tick ==
  /\ Master!Run("Tick")
  /\ \A t \in BeforeTick : t \notin pending
  /\ Noc!NocCycle
  /\ UNCHANGED <<settled, ticked, slaveVars, masterVars>>

OutputEjection ==
  /\ Master!OutputEjection
  /\ UNCHANGED <<settled, ticked, slaveVars, linkVars, rbuf, outState>>

OutputDepacketization ==
  /\ Master!OutputDepacketization
  /\ UNCHANGED <<settled, ticked, slaveVars, linkVars, rbuf, outState>>

OutputInterface ==
  /\ Master!OutputInterface
  /\ UNCHANGED <<settled, ticked, slaveVars, linkVars, rbuf, outState>>

Next ==
  \/ \E S \in (SUBSET AllClocks) \ {{}} : ClockEdge(S)
  \/ Settle
  \/ InputInterface
  \/ InputPacketization
  \/ InputInjection
  \/ Tick
  \/ OutputEjection
  \/ OutputDepacketization
  \/ OutputInterface

Spec == Init /\ [][Next]_vars

\* Every clock has edges for ever, so every thread they make runnable is run.
\* Again and again the NoC moves a flit of each VC that can move, and the
\* receiving module is ready.
Fairness ==
  /\ \A c \in AllClocks : []<><<\E S \in SUBSET AllClocks : c \in S /\ ClockEdge(S)>>_vars
  /\ \A v \in VCs : []<><<Tick /\ (Noc!CanForward(v) => credit' = v)>>_vars
  /\ \A o \in Outputs : []<><<OutputInterface /\ sinkReady'[o]>>_vars

FairSpec == Spec /\ Fairness

(***************************************************************************)
(* Properties.                                                             *)
(***************************************************************************)
(***************************************************************************)
(* What each end of the path sees of the other.  To the way out of the NoC *)
(* a transaction exists from the injection of its head, and the packet on  *)
(* a VC is what the first flit not injected says of it.                    *)
(***************************************************************************)
PacketOf(f) ==
  [id |-> f.id, node |-> Slave!DestNode(f.dest), dest |-> f.dest, tid |-> f.tid,
   next |-> f.seq]

SendingOn(v) ==
  LET f == Slave!FirstFlit
  IN  IF f # NoFlit /\ ~f.head /\ f.vc = v THEN PacketOf(f) ELSE NoTx

Egress == INSTANCE AxisEgress WITH
            pending       <- pending \cap EgressThreads,
            numTx         <- Slave!Started,
            sending       <- [v \in VCs |-> SendingOn(v)],
            Nodes         <- {Slave!DestNode(d) : d \in Dests},
            Lengths       <- [n \in 1 .. MaxTx |-> 1 .. 255],
            AdapterSlower <- TRUE,
            NoPacket      <- NoTx

\* In its real surroundings each part behaves as its own specification says it
\* does in its environment: what is checked and proved there holds here.
PartsSpec == Slave!Spec /\ Egress!Spec

(***************************************************************************)
(* Each packet type to each destination interface is a reliable FIFO       *)
(* channel.  A transaction waits in the slave adapter until its head is    *)
(* injected, and is then where AxisEgress says.                            *)
(***************************************************************************)
Flows == VCs \X Outputs

Waiting(v, o) ==
  {n \in Slave!Started + 1 .. numTx :
     \E w \in Slave!Contents : w.id = n /\ w.vc = v /\ w.tid = o}

Channel == INSTANCE AxisChannel WITH
             accepted <- numTx,
             queue    <- [f \in Flows |-> Waiting(f[1], f[2]) \cup Egress!Undelivered(f[1], f[2])],
             received <- [f \in Flows |-> received[f[1]][f[2]]]

\* Refinement: whatever the clocks and the order of the threads, transactions
\* arrive whole, in order within their flow and exactly once.
ChannelSpec == Channel!Spec

\* Every transaction accepted at one end is delivered at the other.
EveryTransactionDelivered ==
  \A n \in 1 .. MaxTx :
    (\E k \in 1 .. Len(txFifo) : txFifo[k].id = n)
      ~> \E v \in VCs, o \in Outputs : received[v][o] = n
=============================================================================
