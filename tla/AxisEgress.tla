----------------------------- MODULE AxisEgress -----------------------------
(***************************************************************************)
(* The way out of the NoC: RadsimNoc and an AxisMasterAdapter, fed by an   *)
(* environment that stands for the slave adapters of all nodes that send   *)
(* to this one.  Packets of any length, for any interface, arrive on every *)
(* VC; flits of packets on different VCs are interleaved in every way,     *)
(* those of packets on one VC are not (wormhole routing).                  *)
(***************************************************************************)
EXTENDS Integers, Sequences, Functions

CONSTANTS
  NumVCs, VcBufSize, WaitForTailCredit, NumOutputs, OutFlits, EjectionDepth,
  OutputDepth, BeforeTick, NoFlit, NoVC,
  Nodes, Dests,   \* the addresses in a flit, which the adapter does not look at
  MaxTx,          \* bound: packets sent
  Lengths,        \* bound: the numbers of flits that each of them may have
  AdapterSlower,  \* the adapter clock is slower than the NoC clock
  NoPacket        \* no packet is being sent on a VC

VARIABLES
  pending, settled, inject, credit, rbuf, outState, eject, ejected, ejectReg,
  ejFifo, pushCount, pushing, popCount, priority, depacketizing, constructed,
  outFifo, chunk, out, sinkReady, received,
  ticked,         \* a NoC edge has come after the last adapter edge
  numTx,          \* packets started
  sending         \* per VC, the packet being sent and its next flit

Noc    == INSTANCE RadsimNoc
Master == INSTANCE AxisMasterAdapter

VCs == Noc!VCs
Outputs == Master!Outputs

Flits ==
  [id : Nat, seq : Nat, head : BOOLEAN, tail : BOOLEAN, vc : VCs,
   node : Nodes, dest : Dests, tid : Outputs]

\* A packet being sent, and the number of its next flit.
Packets == [id : 1 .. MaxTx, node : Nodes, dest : Dests, tid : Outputs, next : Nat]

ASSUME EgressAssumption ==
  /\ Master!MasterAssumption
  /\ VcBufSize \in Nat \ {0}
  /\ MaxTx \in Nat
  /\ Lengths \in [1 .. MaxTx -> SUBSET (Nat \ {0})]
  /\ AdapterSlower \in BOOLEAN
  /\ BeforeTick \subseteq {"InputInjection", "OutputEjection"}
  /\ NoFlit \notin Flits /\ NoVC \notin VCs /\ NoPacket \notin Packets

kernelVars == <<pending, settled, ticked>>
nocVars    == <<inject, credit, rbuf, outState, eject, ejected>>
masterVars == <<ejectReg, ejFifo, pushCount, pushing, popCount, priority,
                depacketizing, constructed, outFifo, chunk, out, sinkReady,
                received>>
sourceVars == <<numTx, sending>>
vars == <<kernelVars, nocVars, masterVars, sourceVars>>

Init ==
  /\ pending = {} /\ settled = TRUE /\ ticked = TRUE
  /\ Noc!NocInit /\ Master!MasterInit
  /\ numTx = 0 /\ sending = [v \in VCs |-> NoPacket]

(***************************************************************************)
(* The kernel, as in AxisSlaveAdapter.  If the adapter clock is slower     *)
(* than the NoC clock, two adapter edges have a NoC edge between them.     *)
(* An edge of clocks elsewhere in the design wakes none of these threads.  *)
(***************************************************************************)
Threads ==
  [node    |-> {"OutputInterface"},
   adapter |-> {"OutputDepacketization"},
   noc     |-> {"InputInjection", "OutputEjection", "Tick"}]

Clocks == {"node", "adapter", "noc"}

ClockEdge(S) ==
  /\ pending = {} /\ settled
  /\ AdapterSlower /\ "adapter" \in S => ticked
  /\ pending' = UNION {Threads[c] : c \in S}
  /\ settled' = FALSE
  /\ ticked' = IF "adapter" \in S THEN FALSE ELSE ticked \/ "noc" \in S
  /\ UNCHANGED <<nocVars, masterVars, sourceVars>>

Settle ==
  /\ pending = {} /\ ~settled
  /\ settled' = TRUE
  /\ Master!CommitPush
  /\ UNCHANGED <<pending, ticked, nocVars, sourceVars, ejectReg, ejFifo,
                 popCount, priority, depacketizing, constructed, outFifo,
                 chunk, out, sinkReady, received>>

Tick ==
  /\ Master!Run("Tick")
  /\ \A t \in BeforeTick : t \notin pending
  /\ Noc!NocCycle
  /\ UNCHANGED <<settled, ticked, masterVars, sourceVars>>

(***************************************************************************)
(* The senders: at most one flit per NoC cycle, and only if the network    *)
(* has a slot for it.                                                      *)
(***************************************************************************)
HasSlot(v) ==
  Len(rbuf[v]) + (IF inject # NoFlit /\ inject.vc = v THEN 1 ELSE 0) < VcBufSize

\* The next flit of packet p may or may not be its last one.
MayEnd(p, last) ==
  IF last THEN p.next + 1 \in Lengths[p.id]
          ELSE \E n \in Lengths[p.id] : p.next + 1 < n

SendFlit(v, p) ==
  \E last \in BOOLEAN :
    /\ MayEnd(p, last)
    /\ inject' = [id |-> p.id, seq |-> p.next, head |-> p.next = 0, tail |-> last,
                  vc |-> v, node |-> p.node, dest |-> p.dest, tid |-> p.tid]
    /\ sending' = [sending EXCEPT ![v] = IF last THEN NoPacket
                                         ELSE [p EXCEPT !.next = @ + 1]]

Send ==
  /\ Master!Run("InputInjection") /\ Master!TickOrder("InputInjection")
  /\ \/ \E v \in VCs : /\ HasSlot(v) /\ sending[v] # NoPacket
                       /\ SendFlit(v, sending[v])
                       /\ UNCHANGED numTx
     \/ /\ numTx < MaxTx
        /\ numTx' = numTx + 1
        /\ \E v \in VCs, n \in Nodes, d \in Dests, o \in Outputs :
             /\ HasSlot(v) /\ sending[v] = NoPacket
             /\ SendFlit(v, [id |-> numTx + 1, node |-> n, dest |-> d, tid |-> o, next |-> 0])
     \/ UNCHANGED <<inject, sourceVars>>
  /\ UNCHANGED <<settled, ticked, credit, rbuf, outState, eject, ejected,
                 masterVars>>

OutputEjection ==
  /\ Master!OutputEjection
  /\ UNCHANGED <<settled, ticked, inject, credit, rbuf, outState, sourceVars>>

OutputDepacketization ==
  /\ Master!OutputDepacketization
  /\ UNCHANGED <<settled, ticked, inject, credit, rbuf, outState, sourceVars>>

OutputInterface ==
  /\ Master!OutputInterface
  /\ UNCHANGED <<settled, ticked, inject, credit, rbuf, outState, sourceVars>>

Next ==
  \/ \E S \in SUBSET Clocks : ClockEdge(S)
  \/ Settle
  \/ Send
  \/ Tick
  \/ OutputEjection
  \/ OutputDepacketization
  \/ OutputInterface

Spec == Init /\ [][Next]_vars

(***************************************************************************)
(* Properties.                                                             *)
(***************************************************************************)
\* A flit in the eject channel that OutputEjection has still to read.
Unread ==
  IF "OutputEjection" \in BeforeTick
  THEN "OutputEjection" \in pending \/ "Tick" \notin pending
  ELSE "OutputEjection" \in pending /\ "Tick" \notin pending

Count(b) == IF b THEN 1 ELSE 0

\* Every slot that the router believes is occupied at this node holds a flit,
\* or its credit waits in the map: no flit that is ejected is lost or read
\* twice, and no credit is lost to a second flit of the node depacketized
\* before Tick has fetched the first one's.
FlitsAccounted ==
  \A v \in VCs :
    outState.occupancy[v] = Count(Unread /\ eject # NoFlit /\ eject.vc = v)
                            + Count(ejectReg # NoFlit /\ ejectReg.vc = v)
                            + Len(ejFifo[v]) + Count(ejected = v)

\* The ejection register never holds a flit back, which would make it miss the
\* next one: the eject channel presents a flit for one cycle only.
EjectionNeverBlocks == ejectReg = NoFlit

\* What the ports, the counters and the FIFOs promise (see AxisMasterAdapter).
CountersMatchFifos == Master!CountersMatchFifos
PacketsRebuilt     == Master!PacketsRebuilt
PacketNeverStalls  == Master!PacketNeverStalls

(***************************************************************************)
(* The way out implements a FIFO channel per VC and interface.  A packet   *)
(* in transit is represented by its last flit, or, until that is sent, by  *)
(* the sender's record.                                                    *)
(***************************************************************************)
Flows == VCs \X Outputs

\* The flits on VC v outside output FIFOs.
InTransit(v) ==
  {f \in Range(ejFifo[v]) \cup {ejectReg} \cup (IF Unread THEN {eject} ELSE {})
           \cup Range(rbuf[v]) \cup {inject} : f # NoFlit /\ f.vc = v}

Undelivered(v, o) ==
  {p[1].id : p \in {q \in Range(outFifo[o]) : q[1].vc = v}}
    \cup {f.id : f \in {g \in InTransit(v) : g.tail /\ g.tid = o}}
    \cup {p.id : p \in {q \in {sending[v]} : q # NoPacket /\ q.tid = o}}

Channel == INSTANCE AxisChannel WITH
             accepted <- numTx,
             queue    <- [f \in Flows |-> Undelivered(f[1], f[2])],
             received <- [f \in Flows |-> received[f[1]][f[2]]]

\* Refinement: per VC and destination interface the packets are delivered whole,
\* in order and exactly once.
ChannelSpec == Channel!Spec
=============================================================================
