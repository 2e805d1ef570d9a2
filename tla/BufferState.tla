---------------------------- MODULE BufferState ----------------------------
(***************************************************************************)
(* BookSim's BufferState with the "private" policy: what the sender of     *)
(* flits knows about the per-VC buffers of the receiver.  The slave NoC    *)
(* adapters use one towards the router of their node, a router one per     *)
(* output port.  The class is a data structure, so this module has no      *)
(* behaviour: the operations map a buffer state to a buffer state.         *)
(*                                                                         *)
(* Error() ends the simulation.  Here it sets the field "error", which     *)
(* nothing clears; the specifications that use the structure have to show  *)
(* that it stays FALSE.                                                    *)
(***************************************************************************)
EXTENDS Integers

CONSTANTS
  NumVCs,            \* _vcs (noc_vcs): the number of virtual channels
  VcBufSize,         \* vc_buf_size: flits the receiver buffers per VC
  WaitForTailCredit  \* wait_for_tail_credit

ASSUME BufferAssumption ==
  /\ NumVCs \in Nat \ {0}
  /\ VcBufSize \in Nat \ {0}
  /\ WaitForTailCredit \in BOOLEAN

VCs == 0 .. NumVCs - 1

\* No flit has been sent on a VC yet (_last_id = -1).
NoId == -1

BufferStates ==
  [occupancy : [VCs -> Int],          \* _vc_occupancy
   inUse     : [VCs -> BOOLEAN],      \* _in_use_by >= 0
   tailSent  : [VCs -> BOOLEAN],      \* _tail_sent
   lastId    : [VCs -> Int],          \* _last_id
   error     : BOOLEAN]               \* Error() or a failed assertion

EmptyBuffer ==
  [occupancy |-> [v \in VCs |-> 0],
   inUse     |-> [v \in VCs |-> FALSE],
   tailSent  |-> [v \in VCs |-> FALSE],
   lastId    |-> [v \in VCs |-> NoId],
   error     |-> FALSE]

IsFullFor(b, v) == b.occupancy[v] >= VcBufSize

IsAvailableFor(b, v) == ~b.inUse[v]

\* "Buffer taken while in use" is an error.
TakeBuffer(b, v) ==
  [occupancy |-> b.occupancy,
   inUse     |-> [b.inUse EXCEPT ![v] = TRUE],
   tailSent  |-> [b.tailSent EXCEPT ![v] = FALSE],
   lastId    |-> b.lastId,
   error     |-> b.error \/ b.inUse[v]]

\* A tail frees the VC unless the sender waits for the tail's credit; freeing
\* a VC that nobody holds fails an assertion, and more than VcBufSize flits
\* is a buffer overflow.
Frees(f) == f.tail /\ ~WaitForTailCredit

SendingFlit(b, f) ==
  [occupancy |-> [b.occupancy EXCEPT ![f.vc] = @ + 1],
   inUse     |-> [b.inUse EXCEPT ![f.vc] = @ /\ ~Frees(f)],
   tailSent  |-> [b.tailSent EXCEPT ![f.vc] = @ \/ f.tail],
   lastId    |-> [b.lastId EXCEPT ![f.vc] = f.id],
   error     |-> \/ b.error
                 \/ b.occupancy[f.vc] >= VcBufSize
                 \/ Frees(f) /\ ~b.inUse[f.vc]]

\* A credit for one VC.  An occupancy below zero is an error, and so is a
\* credit for an idle VC when the sender waits for the tail's credit.
Drained(b, v) == WaitForTailCredit /\ b.occupancy[v] = 1 /\ b.tailSent[v]

ProcessCredit(b, v) ==
  [occupancy |-> [b.occupancy EXCEPT ![v] = @ - 1],
   inUse     |-> [b.inUse EXCEPT ![v] = @ /\ ~Drained(b, v)],
   tailSent  |-> b.tailSent,
   lastId    |-> b.lastId,
   error     |-> \/ b.error
                 \/ b.occupancy[v] <= 0
                 \/ WaitForTailCredit /\ ~b.inUse[v]]
=============================================================================
