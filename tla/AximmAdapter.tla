---------------------------- MODULE AximmAdapter ----------------------------
(***************************************************************************)
(* What the two AXI-MM NoC adapters have in common.  The slave adapter     *)
(* takes AR, AW and W transactions from a module and gives it R and B; the *)
(* master adapter does the reverse.  Between the ports and the NoC both    *)
(* have the same threads, written twice in the code:                       *)
(*   InputPacketization     adapter clock  _i_* registers -> injection FIFO*)
(*   InputInjection         NoC clock      injection FIFO -> inject channel*)
(*   OutputEjection         NoC clock      eject channel -> ejection FIFOs *)
(*   OutputDepacketization  adapter clock  ejection FIFOs -> output FIFO   *)
(*                                                                         *)
(* An adapter is a record, a thread an operator from record to record.     *)
(* FIFOs are plain queues, seen at once by the other threads; what is a    *)
(* signal in the code is read from "old", the record before the instant.   *)
(***************************************************************************)
EXTENDS BufferState, Sequences, SequencesExt

CONSTANTS
  NumFlits,        \* flits of a transaction, per type
  VcOf,            \* VCIDFromType, per type
  MaxFlits,        \* _max_flits_per_transaction
  InjectionDepth,  \* _injection_afifo_depth (noc_adapters_fifo_size)
  EjectionDepth,   \* _ejection_afifo_depth (noc_adapters_fifo_size)
  NoFlit,          \* a null flit pointer
  NoTx             \* valid = false

Requests  == {"AR", "AW", "W"}
Responses == {"R", "B"}
Types == Requests \cup Responses

\* What the properties tell apart: id is the number that telemetry gives, n stands
\* for the payload, last is wlast.
Transactions ==
  [type : Types, id : Nat, dest : Nat, user : Nat, n : Nat, last : BOOLEAN]

Flits ==
  [id : Nat, seq : Nat, head : BOOLEAN, tail : BOOLEAN, vc : VCs, tx : Transactions]

\* Every type has VCs of its own: InverseVCMapping tells the type of a flit.
ASSUME AximmAssumption ==
  /\ NumFlits \in [Types -> 1 .. 255]
  /\ VcOf \in [Types -> VCs]
  /\ \A s, t \in Types : VcOf[s] = VcOf[t] => s = t
  /\ MaxFlits \in Nat \ {0}
  /\ InjectionDepth \in Nat \ {0} /\ EjectionDepth \in Nat \ {0}
  /\ NoFlit \notin Flits /\ NoTx \notin Transactions

\* received: the types the adapter receives, in the order of their FIFO numbers.
NewAdapter(received) ==
  [iReg          |-> NoTx,      \* the _i_* registers; NoTx: _i_valid is false
   setting       |-> 0,         \* _injection_priority_setting
   gotAw         |-> FALSE,     \* _got_aw (slave adapter)
   lastDest      |-> 0,         \* _last_awdest (slave adapter)
   cycle         |-> 0,         \* _packetization_cycle, a uint8_t
   numFlits      |-> 0,         \* _num_packetization_flits
   injFifo       |-> <<>>,      \* _injection_afifo
   full          |-> FALSE,     \* _injection_afifo_full
   injReg        |-> NoFlit,    \* _to_be_injected_flit, if _injection_flit_ready
   bufState      |-> EmptyBuffer,  \* _buffer_state
   ejectReg      |-> NoFlit,    \* _ejected_booksim_flit
   ejFifo        |-> [t \in ToSet(received) |-> <<>>],  \* _ejection_afifos
   pushCount     |-> [t \in ToSet(received) |-> 0],
   popCount      |-> [t \in ToSet(received) |-> 0],
   priority      |-> received,  \* _ejection_afifo_priority
   depacketizing |-> FALSE,     \* _ejection_afifo_is_depacketizing
   constructed   |-> <<>>,      \* _constructed_packet
   outFifo       |-> <<>>,      \* _output_afifo
   outPacket     |-> <<>>]      \* _output_packet, if _output_packet_ready

(***************************************************************************)
(* InputPacketization: all flits at once, then idle cycles until the node  *)
(* clock can have presented the next transaction.                          *)
(***************************************************************************)
FlitOf(tx, k) ==
  [id |-> tx.id, seq |-> k, head |-> k = 0, tail |-> k = NumFlits[tx.type] - 1,
   vc |-> VcOf[tx.type], tx |-> tx]

Starts(a, old) == old.iReg # NoTx /\ a.cycle = 0

Made(a, old) ==
  IF Starts(a, old)
  THEN [k \in 1 .. NumFlits[old.iReg.type] |-> FlitOf(old.iReg, k - 1)]
  ELSE <<>>

\* freqRatio: _freq_ratio, the node period in adapter cycles, rounded down.
Limit(a, freqRatio) ==
  (IF a.numFlits >= freqRatio THEN a.numFlits - 1 ELSE freqRatio - 1) % 256

\* Mutant: idle for as many cycles as there are flits only.
OwnFlitsOnly(a, old, freqRatio) ==
  IF a.cycle = 0 THEN IF Starts(a, old) THEN 1 ELSE 0
  ELSE IF a.cycle >= a.numFlits - 1 THEN 0
  ELSE (a.cycle + 1) % 256

NextCycle(a, old, freqRatio) ==
  IF a.cycle = 0 THEN IF Starts(a, old) THEN 1 ELSE 0
  ELSE IF a.cycle = Limit(a, freqRatio) THEN 0
  ELSE (a.cycle + 1) % 256

InputPacketization(a, old, freqRatio) ==
  LET fifo == a.injFifo \o Made(a, old)
  IN  [a EXCEPT !.injFifo  = fifo,
                !.numFlits = IF Starts(a, old) THEN Len(Made(a, old)) ELSE @,
                !.lastDest = IF Starts(a, old) /\ old.iReg.type = "AW"
                             THEN old.iReg.dest ELSE @,
                !.cycle    = NextCycle(a, old, freqRatio),
                !.full     = Len(fifo) + MaxFlits > InjectionDepth]

(***************************************************************************)
(* InputInjection, as in the AXI-streaming adapter: take the next flit,    *)
(* inject it if the NoC can accept it, process the credit of this cycle.   *)
(***************************************************************************)
NextFlit(a) ==
  IF a.injReg # NoFlit THEN a.injReg
  ELSE IF a.injFifo # <<>> THEN Head(a.injFifo) ELSE NoFlit

CanInject(a) ==
  /\ NextFlit(a) # NoFlit
  /\ ~IsFullFor(a.bufState, NextFlit(a).vc)
  /\ NextFlit(a).head /\ WaitForTailCredit => IsAvailableFor(a.bufState, NextFlit(a).vc)

Sent(b, f) == SendingFlit(IF f.head THEN TakeBuffer(b, f.vc) ELSE b, f)

\* Mutant: a credit is not processed in a cycle that spends one.
CreditSkipped(a, credit, none) ==
  IF CanInject(a) THEN Sent(a.bufState, NextFlit(a))
  ELSE IF credit = none THEN a.bufState ELSE ProcessCredit(a.bufState, credit)

\* The buffer state after this cycle; credit is a VC, or none.
BufferAfter(a, credit, none) ==
  LET spent == IF CanInject(a) THEN Sent(a.bufState, NextFlit(a)) ELSE a.bufState
  IN  IF credit = none THEN spent ELSE ProcessCredit(spent, credit)

InputInjection(a, credit, none) ==
  [a EXCEPT !.injFifo  = IF a.injReg = NoFlit /\ @ # <<>> THEN Tail(@) ELSE @,
            !.injReg   = IF CanInject(a) THEN NoFlit ELSE NextFlit(a),
            !.bufState = BufferAfter(a, credit, none)]

(***************************************************************************)
(* OutputEjection: one FIFO per type; a flit that finds its FIFO full      *)
(* stays in the register, and the eject channel is not looked at.          *)
(***************************************************************************)
Ejected(a, eject) == IF a.ejectReg # NoFlit THEN a.ejectReg ELSE eject

\* Mutant: the register keeps a flit that filled its FIFO.
KeepsLastFlit(a, eject) ==
  LET f == Ejected(a, eject)
  IN  IF f = NoFlit THEN a
      ELSE IF Len(a.ejFifo[f.tx.type]) >= EjectionDepth THEN [a EXCEPT !.ejectReg = f]
      ELSE [a EXCEPT !.ejectReg = IF Len(a.ejFifo[f.tx.type]) + 1 < EjectionDepth
                                  THEN NoFlit ELSE f,
                     !.ejFifo[f.tx.type] = Append(@, f),
                     !.pushCount[f.tx.type] = IF f.tail THEN @ + 1 ELSE @]

OutputEjection(a, eject) ==
  LET f == Ejected(a, eject)
  IN  IF f = NoFlit THEN a
      ELSE IF Len(a.ejFifo[f.tx.type]) >= EjectionDepth THEN [a EXCEPT !.ejectReg = f]
      ELSE [a EXCEPT !.ejectReg = NoFlit,
                     !.ejFifo[f.tx.type] = Append(@, f),
                     !.pushCount[f.tx.type] = IF f.tail THEN @ + 1 ELSE @]

(***************************************************************************)
(* OutputDepacketization: one flit per cycle of a packet that is complete, *)
(* if the output FIFO has room for the packet.                             *)
(***************************************************************************)
HasCompletePacket(a, t) == a.pushCount[t] > a.popCount[t]

Rotated(q, k) == [j \in DOMAIN q |-> q[((j - 1 + k) % Len(q)) + 1]]

\* Mutant: the type in front stays there.
NotRotated(a) == a.priority

\* The priority queue once the loop has found a type with a packet; if there is
\* none it has come round to where it was.
Arbitrated(a) ==
  IF a.depacketizing \/ \A t \in DOMAIN a.ejFifo : ~HasCompletePacket(a, t)
  THEN a.priority
  ELSE Rotated(a.priority,
               CHOOSE k \in 0 .. Len(a.priority) - 1 :
                 /\ HasCompletePacket(a, a.priority[k + 1])
                 /\ \A j \in 1 .. k : ~HasCompletePacket(a, a.priority[j]))

OutputFifoDepth == 2

\* The adapter takes a flit out of an ejection FIFO at this edge.
Takes(a) ==
  /\ HasCompletePacket(a, Head(Arbitrated(a)))
  /\ Len(a.outFifo) < OutputFifoDepth

FlitTaken(a) == Head(a.ejFifo[Head(Arbitrated(a))])

WithFlitTaken(a) ==
  LET f == FlitTaken(a)
      t == Head(Arbitrated(a))
      built == Append(a.constructed, f)
  IN  [a EXCEPT !.ejFifo[t]     = Tail(@),
                !.popCount[t]   = IF f.tail THEN @ + 1 ELSE @,
                !.constructed   = IF f.tail THEN <<>> ELSE built,
                !.outFifo       = IF f.tail THEN Append(@, built) ELSE @,
                !.depacketizing = ~f.tail,
                !.priority      = IF f.tail THEN Rotated(Arbitrated(a), 1)
                                            ELSE Arbitrated(a)]

OutputDepacketization(a) ==
  IF ~HasCompletePacket(a, Head(Arbitrated(a))) THEN a
  ELSE IF Takes(a) THEN WithFlitTaken(a)
  ELSE [a EXCEPT !.priority = Arbitrated(a), !.depacketizing = TRUE]

\* Both threads of the adapter clock.
AdapterClock(a, old, freqRatio) ==
  InputPacketization(OutputDepacketization(a), old, freqRatio)

(***************************************************************************)
(* OutputInterface: a packet is taken from the FIFO into a register and    *)
(* presented, for one node cycle, when its own port is ready; packets of   *)
(* other types wait behind it.                                             *)
(***************************************************************************)
PacketAtHand(a) ==
  IF a.outPacket # <<>> THEN a.outPacket
  ELSE IF a.outFifo # <<>> THEN Head(a.outFifo) ELSE <<>>

\* The transaction put on its port; ready: the types whose port is ready.
Presented(a, ready) ==
  LET p == PacketAtHand(a)
  IN  IF p # <<>> /\ p[1].tx.type \in ready THEN p[1].tx ELSE NoTx

\* Mutant: _output_packet_ready stays set.
StaysReady(a, ready) ==
  [a EXCEPT !.outFifo   = IF a.outPacket = <<>> /\ @ # <<>> THEN Tail(@) ELSE @,
            !.outPacket = PacketAtHand(a)]

OutputInterface(a, ready) ==
  [a EXCEPT !.outFifo   = IF a.outPacket = <<>> /\ @ # <<>> THEN Tail(@) ELSE @,
            !.outPacket = IF Presented(a, ready) # NoTx THEN <<>> ELSE PacketAtHand(a)]
=============================================================================
