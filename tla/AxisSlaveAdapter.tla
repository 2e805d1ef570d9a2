-------------------------- MODULE AxisSlaveAdapter --------------------------
(***************************************************************************)
(* The AXI-streaming slave NoC adapter: it accepts transactions from the   *)
(* ports of a module, cuts each into flits, and injects the flits into the *)
(* NoC under BookSim's credit flow control.                                *)
(*                                                                         *)
(* Three clocked SystemC threads work on it, each on a clock of its own:   *)
(*   InputInterface      node clock     ports -> transaction FIFO          *)
(*   InputPacketization  adapter clock  transaction FIFO -> injection FIFO *)
(*   InputInjection      NoC clock      injection FIFO -> inject channel   *)
(* and the method InputReady drives tready combinationally.                *)
(*                                                                         *)
(* An edge of one clock, or a simultaneous edge of several, makes the      *)
(* threads on those clocks runnable.  SystemC then runs them one after     *)
(* another in an order it does not specify.  "pending" holds the threads   *)
(* still to run; the queues are plain C++ objects, so a thread sees what   *)
(* earlier threads of the same edge did to them.  Signals change only      *)
(* after all have run, when InputReady is evaluated ("settled" becomes     *)
(* TRUE), and only then the clocks move on.  The clocks are not related to *)
(* each other: any non-empty set of them may have the next edge.           *)
(***************************************************************************)
EXTENDS BufferState, Sequences, Functions

CONSTANTS
  NumInterfaces,  \* _num_axis_interfaces
  NumFlits,       \* _num_flits_per_packet, per interface
  VcOf,           \* VCIDFromType of the interface's packet type
  Dests,          \* the destinations, as records [local, remote, rad]
  Tids,           \* values of tid: the interface meant at the destination
  RadId,          \* _rad_id
  PortalId,       \* _portal_id
  TxDepth,        \* _input_axis_transactions_afifo_depth
  InjectionDepth, \* _injection_afifo_depth (noc_adapters_fifo_size)
  BeforeTick,     \* the NoC-clock threads that the kernel runs before Tick
  MaxTx,          \* bound: transactions the modules ever send
  NoTx,           \* no transaction on a port (tvalid = false)
  NoFlit,         \* a null flit pointer
  NoVC            \* no credit this cycle

Interfaces == 0 .. NumInterfaces - 1

Transactions ==
  [id : Nat, iface : Interfaces, dest : Dests, tid : Tids]

Offers == [dest : Dests, tid : Tids]

Flits ==
  [id : Nat, seq : Nat, head : BOOLEAN, tail : BOOLEAN,
   vc : VCs, dest : Dests, tid : Tids]

BooksimFlits ==
  [id : Nat, seq : Nat, head : BOOLEAN, tail : BOOLEAN,
   vc : VCs, node : Nat, dest : Dests, tid : Tids]

ASSUME SlaveAssumption ==
  /\ NumInterfaces \in Nat \ {0}
  /\ NumFlits \in [Interfaces -> 1 .. 255]  \* _packetization_cycle is a uint8_t
  /\ VcOf \in [Interfaces -> VCs]
  /\ \A d \in Dests : d.local \in Nat
  /\ PortalId \in Nat
  /\ TxDepth \in Nat \ {0}
  /\ InjectionDepth \in Nat \ {0}
  /\ BeforeTick \subseteq {"InputInjection", "OutputEjection"}
  /\ MaxTx \in Nat
  /\ NoTx \notin Offers
  /\ NoFlit \notin Flits /\ NoFlit \notin BooksimFlits
  /\ NoVC \notin VCs

VARIABLES
  pending,    \* the threads that still have to run at this clock edge
  settled,    \* the signals have been updated since the last edge
  offer,      \* per interface, what the module presents (NoTx: tvalid = false)
  tready,     \* per interface, the tready port
  numTx,      \* global_transaction_id
  txFifo,     \* _input_axis_transactions_afifo
  txFull,     \* _input_axis_transactions_afifo_full
  pktCycle,   \* _packetization_cycle
  injFifo,    \* _injection_afifo
  injFull,    \* _injection_afifo_full
  injReg,     \* _to_be_injected_flit while _injection_flit_ready, else NoFlit
  bufState,   \* _buffer_state of this node
  inject,     \* _input of the node's inject channel
  credit,     \* _output of the node's inject credit channel
  held        \* environment: per VC, the flits that the NoC holds a slot for

vars == <<pending, settled, offer, tready, numTx, txFifo, txFull, pktCycle,
          injFifo, injFull, injReg, bufState, inject, credit, held>>

(***************************************************************************)
(* Initial state: after reset, with nothing offered yet.                   *)
(***************************************************************************)
Init ==
  /\ pending = {} /\ settled = TRUE
  /\ offer = [i \in Interfaces |-> NoTx]
  /\ tready = [i \in Interfaces |-> FALSE]
  /\ numTx = 0
  /\ txFifo = <<>> /\ txFull = FALSE
  /\ pktCycle = 0
  /\ injFifo = <<>> /\ injFull = FALSE
  /\ injReg = NoFlit
  /\ bufState = EmptyBuffer
  /\ inject = NoFlit /\ credit = NoVC
  /\ held = [v \in VCs |-> 0]

(***************************************************************************)
(* The SystemC kernel.                                                     *)
(***************************************************************************)
Threads ==
  [node    |-> {"InputInterface"},
   adapter |-> {"InputPacketization"},
   noc     |-> {"InputInjection", "Tick"}]

Clocks == {"node", "adapter", "noc"}

Run(thread) == thread \in pending /\ pending' = pending \ {thread}

\* Simultaneous edges of the clocks in S; none of S, if the edge is of clocks
\* elsewhere in the design only.
ClockEdge(S) ==
  /\ pending = {} /\ settled
  /\ pending' = UNION {Threads[c] : c \in S}
  /\ settled' = FALSE
  /\ UNCHANGED <<offer, tready, numTx, txFifo, txFull, pktCycle, injFifo,
                 injFull, injReg, bufState, inject, credit, held>>

(***************************************************************************)
(* InputReady: the first interface with valid data is ready, unless a FIFO *)
(* is full.  The loop that rotates the priority queue always ends with     *)
(* interface 0 in front, so "first" is the lowest number.                  *)
(***************************************************************************)
\* Mutant: every valid interface is ready.
EveryValid(i) == offer[i] # NoTx

FirstValid(i) == offer[i] # NoTx /\ \A j \in Interfaces : j < i => offer[j] = NoTx

\* Mutant: the transaction FIFO is not looked at.
FullIgnored == [i \in Interfaces |-> ~injFull /\ FirstValid(i)]

ReadyValues == [i \in Interfaces |-> ~txFull /\ ~injFull /\ FirstValid(i)]

InputReady ==
  /\ pending = {} /\ ~settled
  /\ settled' = TRUE
  /\ tready' = ReadyValues
  /\ UNCHANGED <<pending, offer, numTx, txFifo, txFull, pktCycle, injFifo,
                 injFull, injReg, bufState, inject, credit, held>>

(***************************************************************************)
(* InputInterface, and the step of the module behind the ports, which is   *)
(* clocked by the same edge: it keeps an offer until it sees the handshake *)
(* and may then present the next one.                                      *)
(***************************************************************************)
Handshake(i) == tready[i] /\ offer[i] # NoTx

\* The interface whose transaction the loop takes before its break.
Taken(i) == Handshake(i) /\ \A j \in Interfaces : j < i => ~Handshake(j)

\* external: the module that drives the ports.  New offers stop when they
\* could take the number of transactions beyond MaxTx.
ModuleStep ==
  \E o \in [Interfaces -> Offers \cup {NoTx}] :
     /\ \A i \in Interfaces :
           IF offer[i] # NoTx /\ ~tready[i]
           THEN o[i] = offer[i]
           ELSE o[i] # NoTx => numTx' + NumInterfaces <= MaxTx
     /\ offer' = o

TakeTransaction ==
  /\ \/ \E i \in Interfaces :
           /\ Taken(i)
           /\ numTx' = numTx + 1
           /\ txFifo' = Append(txFifo, [id    |-> numTx + 1, iface |-> i,
                                        dest  |-> offer[i].dest,
                                        tid   |-> offer[i].tid])
     \/ /\ \A i \in Interfaces : ~Handshake(i)
        /\ UNCHANGED <<numTx, txFifo>>
  /\ txFull' = (Len(txFifo') >= TxDepth)
  /\ ModuleStep

InputInterface ==
  /\ Run("InputInterface")
  /\ TakeTransaction
  /\ UNCHANGED <<settled, tready, pktCycle, injFull, injFifo, injReg, bufState,
                 inject, credit, held>>

(***************************************************************************)
(* InputPacketization: one flit of the front transaction per cycle, if the *)
(* injection FIFO has room.                                                *)
(***************************************************************************)
LastFlit(tx) == NumFlits[tx.iface] - 1

FlitOf(tx, k) ==
  [id |-> tx.id, seq |-> k, head |-> k = 0, tail |-> k = LastFlit(tx),
   vc |-> VcOf[tx.iface], dest |-> tx.dest, tid |-> tx.tid]

\* Mutant: the cycle counter is not reset.
NoReset(tx) ==
  /\ injFifo' = Append(injFifo, FlitOf(tx, pktCycle))
  /\ pktCycle' = pktCycle + 1
  /\ txFifo' = IF pktCycle = LastFlit(tx) THEN Tail(txFifo) ELSE txFifo

Packetize(tx) ==
  /\ injFifo' = Append(injFifo, FlitOf(tx, pktCycle))
  /\ IF pktCycle = LastFlit(tx)
     THEN pktCycle' = 0 /\ txFifo' = Tail(txFifo)
     ELSE pktCycle' = pktCycle + 1 /\ UNCHANGED txFifo

MakeFlit ==
  /\ IF txFifo # <<>> /\ Len(injFifo) < InjectionDepth
     THEN Packetize(Head(txFifo))
     ELSE UNCHANGED <<injFifo, pktCycle, txFifo>>
  /\ injFull' = (Len(injFifo') >= InjectionDepth)

InputPacketization ==
  /\ Run("InputPacketization")
  /\ MakeFlit
  /\ UNCHANGED <<settled, offer, tready, numTx, txFull, injReg, bufState,
                 inject, credit, held>>

(***************************************************************************)
(* InputInjection: take the next flit, inject it if the NoC can accept it, *)
(* then process this cycle's credit.                                       *)
(***************************************************************************)
\* All NoC-clock threads are woken by one event, so the kernel runs them in
\* the same order at every edge.
TickOrder(thread) ==
  IF thread \in BeforeTick THEN TRUE ELSE "Tick" \notin pending

\* The flit at hand once the register has been refilled.
NextFlit ==
  IF injReg # NoFlit THEN injReg
  ELSE IF injFifo # <<>> THEN Head(injFifo) ELSE NoFlit

\* Mutants: sent into a full buffer; sent before the tail's credit is back.
FullUnchecked(f) ==
  f # NoFlit /\ (f.head /\ WaitForTailCredit => IsAvailableFor(bufState, f.vc))
HolderUnchecked(f) == f # NoFlit /\ ~IsFullFor(bufState, f.vc)

CanInject(f) ==
  /\ f # NoFlit
  /\ ~IsFullFor(bufState, f.vc)
  /\ f.head /\ WaitForTailCredit => IsAvailableFor(bufState, f.vc)

\* A destination on another RAD is reached through the portal of this one.
DestNode(d) == IF d.rad = RadId THEN d.local ELSE PortalId

\* Mutant: the destination is not translated.
NotTranslated(f) == f

BooksimFlit(f) ==
  [id |-> f.id, seq |-> f.seq, head |-> f.head, tail |-> f.tail, vc |-> f.vc,
   node |-> DestNode(f.dest), dest |-> f.dest, tid |-> f.tid]

\* Mutants: the VC is not taken; a credit is processed only if none is spent.
NotTaken(b, f) == SendingFlit(b, f)
CreditSkipped(b) ==
  IF credit = NoVC \/ b # bufState THEN b ELSE ProcessCredit(b, credit)

Sent(b, f) == SendingFlit(IF f.head THEN TakeBuffer(b, f.vc) ELSE b, f)

AfterCredit(b) == IF credit = NoVC THEN b ELSE ProcessCredit(b, credit)

InjectFlit ==
  /\ injFifo' = IF injReg = NoFlit /\ injFifo # <<>> THEN Tail(injFifo) ELSE injFifo
  /\ IF CanInject(NextFlit)
     THEN /\ inject' = BooksimFlit(NextFlit)
          /\ injReg' = NoFlit
          /\ bufState' = AfterCredit(Sent(bufState, NextFlit))
     ELSE /\ injReg' = NextFlit
          /\ bufState' = AfterCredit(bufState)
          /\ UNCHANGED inject

InputInjection ==
  /\ Run("InputInjection") /\ TickOrder("InputInjection")
  /\ InjectFlit
  /\ UNCHANGED <<settled, offer, tready, numTx, txFifo, txFull, pktCycle,
                 injFull, credit, held>>

(***************************************************************************)
(* The NoC as this adapter sees it: Tick takes the flit from the inject    *)
(* channel into the router's buffer and presents at most one credit, for a *)
(* flit that has left the buffer.                                          *)
(***************************************************************************)
Arrived == [v \in VCs |-> IF inject # NoFlit /\ inject.vc = v THEN held[v] + 1
                                                           ELSE held[v]]

Tick ==
  /\ Run("Tick")
  /\ \A t \in BeforeTick : t \notin pending
  /\ inject' = NoFlit
  /\ \/ credit' = NoVC /\ held' = Arrived
     \/ \E v \in VCs : /\ Arrived[v] > 0
                       /\ credit' = v
                       /\ held' = [Arrived EXCEPT ![v] = @ - 1]
  /\ UNCHANGED <<settled, offer, tready, numTx, txFifo, txFull, pktCycle,
                 injFifo, injFull, injReg, bufState>>

Next ==
  \/ \E S \in SUBSET Clocks : ClockEdge(S)
  \/ InputReady
  \/ InputInterface
  \/ InputPacketization
  \/ InputInjection
  \/ Tick

Spec == Init /\ [][Next]_vars

\* Every clock has edges for ever, so every thread they make runnable is run;
\* and again and again the NoC returns a credit of each VC of which it holds
\* flits.
Fairness ==
  /\ \A c \in Clocks : []<><<\E S \in SUBSET Clocks : c \in S /\ ClockEdge(S)>>_vars
  /\ \A v \in VCs : []<><<Tick /\ (Arrived[v] > 0 => credit' = v)>>_vars

FairSpec == Spec /\ Fairness

(***************************************************************************)
(* Properties.                                                             *)
(***************************************************************************)

\* The values the variables range over.
TypeOK ==
  /\ pending \in SUBSET (UNION {Threads[c] : c \in Clocks})
  /\ settled \in BOOLEAN
  /\ offer \in [Interfaces -> Offers \cup {NoTx}]
  /\ tready \in [Interfaces -> BOOLEAN]
  /\ numTx \in Nat
  /\ txFifo \in Seq(Transactions)
  /\ txFull \in BOOLEAN
  /\ pktCycle \in Nat
  /\ injFifo \in Seq(Flits)
  /\ injFull \in BOOLEAN
  /\ injReg \in Flits \cup {NoFlit}
  /\ bufState \in BufferStates
  /\ inject \in BooksimFlits \cup {NoFlit}
  /\ credit \in VCs \cup {NoVC}
  /\ held \in [VCs -> Nat]

\* The two FIFOs between the clock domains never exceed their depths.  For the
\* transaction FIFO this is the assertion at the end of InputInterface: tready
\* is computed from a full flag registered at the node clock while the FIFO is
\* drained at the adapter clock.
FifosBounded == Len(txFifo) <= TxDepth /\ Len(injFifo) <= InjectionDepth

\* At a node-clock edge at most one interface sees its handshake complete:
\* InputInterface takes only one, and a second module would believe that its
\* transaction had been accepted too.
OneHandshake ==
  "InputInterface" \in pending =>
     \A i, j \in Interfaces : Handshake(i) /\ Handshake(j) => i = j

\* Flit g comes directly after flit f: the next one of the packet, or the head
\* of the packet of the next transaction accepted.
Follows(f, g) ==
  IF f.tail THEN g.head /\ g.seq = 0 /\ g.id = f.id + 1
            ELSE ~g.head /\ g.seq = f.seq + 1 /\ g.id = f.id /\ g.vc = f.vc

\* The flit that packetization will make next, or made already if it is in the
\* FIFO, continues the stream: packets stay in the order of acceptance, whole,
\* and none is mixed with another, from the transaction FIFO through the
\* injection FIFO to the injection register.
StreamInOrder ==
  /\ \A k \in 1 .. Len(injFifo) - 1 : Follows(injFifo[k], injFifo[k + 1])
  /\ injReg # NoFlit /\ injFifo # <<>> => Follows(injReg, injFifo[1])
  /\ txFifo # <<>> =>
       LET next == FlitOf(txFifo[1], pktCycle)
       IN  IF injFifo # <<>> THEN Follows(injFifo[Len(injFifo)], next)
           ELSE injReg # NoFlit => Follows(injReg, next)

\* No flit in the inject channel is overwritten before Tick has taken it, and
\* a flit goes out on its VC as BookSim's wormhole routers need it: a head on
\* a VC that no packet holds, another flit on the VC that its own packet holds.
WormholeInjection ==
  [][inject' # inject /\ inject' # NoFlit =>
       /\ inject = NoFlit
       /\ IF inject'.head
          THEN ~bufState.inUse[inject'.vc]
          ELSE /\ bufState.inUse[inject'.vc]
               /\ bufState.lastId[inject'.vc] = inject'.id]_vars

\* The credit of this cycle has been presented but not processed yet.
CreditDue ==
  IF "InputInjection" \in BeforeTick
  THEN "InputInjection" \in pending \/ "Tick" \notin pending
  ELSE "InputInjection" \in pending /\ "Tick" \notin pending

InChannel(v) == inject # NoFlit /\ inject.vc = v

\* Every flit the adapter counts against a VC is on its way to the router, held
\* there, or its credit is on its way back: no credit is lost or processed
\* twice, whichever of InputInjection and Tick the kernel runs first.
CreditsConserved ==
  \A v \in VCs :
    bufState.occupancy[v] = held[v] + (IF InChannel(v) THEN 1 ELSE 0)
                                    + (IF CreditDue /\ credit = v THEN 1 ELSE 0)

\* The adapter never runs into an Error() or a failed assertion of BufferState:
\* no VC taken while in use, no buffer overflow, no credit too many.
NoBufferError == ~bufState.error

(***************************************************************************)
(* What the rest of the path sees of the adapter.                          *)
(***************************************************************************)
NextMade == FlitOf(txFifo[1], pktCycle)

\* The first flit that has not been injected.
FirstFlit ==
  IF injReg # NoFlit THEN injReg
  ELSE IF injFifo # <<>> THEN injFifo[1]
  ELSE IF txFifo # <<>> THEN NextMade ELSE NoFlit

\* The number of transactions of which a flit has been injected.
Started ==
  IF FirstFlit = NoFlit THEN numTx
  ELSE IF FirstFlit.head THEN FirstFlit.id - 1 ELSE FirstFlit.id

\* The flits made and not injected.
MadeFlits == ({injReg} \cup Range(injFifo)) \ {NoFlit}

\* The transactions in the adapter, each known by its record or by a flit.
Tag(f) == [id |-> f.id, vc |-> f.vc, dest |-> f.dest, tid |-> f.tid]

Contents == {Tag(f) : f \in MadeFlits} \cup {Tag(FlitOf(tx, 0)) : tx \in Range(txFifo)}

\* Every transaction accepted at the ports is injected to its last flit.
EveryTransactionInjected ==
  \A n \in 1 .. MaxTx :
    (\E k \in 1 .. Len(txFifo) : txFifo[k].id = n)
      ~> inject # NoFlit /\ inject.id = n /\ inject.tail
=============================================================================
