----------------------- MODULE AxisSlaveAdapterProofs -----------------------
(***************************************************************************)
(* Theorems about AxisSlaveAdapter, for every number of interfaces and     *)
(* VCs, every packet length, depth and buffer size, and every order in     *)
(* which the kernel may run the threads.                                   *)
(***************************************************************************)
EXTENDS AxisSlaveAdapter, FiniteSetTheorems, TLAPS

(***************************************************************************)
(* The operations on a buffer state return a buffer state.                 *)
(***************************************************************************)
LEMMA EmptyBufferType == EmptyBuffer \in BufferStates
BY DEF EmptyBuffer, BufferStates, NoId

LEMMA TakeBufferType ==
  ASSUME NEW b \in BufferStates, NEW v \in VCs
  PROVE  TakeBuffer(b, v) \in BufferStates
BY DEF TakeBuffer, BufferStates

LEMMA SendingFlitType ==
  ASSUME NEW b \in BufferStates, NEW f \in Flits
  PROVE  SendingFlit(b, f) \in BufferStates
<1>1. f.vc \in VCs /\ f.id \in Int
  BY DEF Flits
<1>2. [b.occupancy EXCEPT ![f.vc] = @ + 1] \in [VCs -> Int]
  BY <1>1 DEF BufferStates
<1>3. [b.tailSent EXCEPT ![f.vc] = @ \/ f.tail] \in [VCs -> BOOLEAN]
  BY <1>1 DEF BufferStates
<1>4. [b.inUse EXCEPT ![f.vc] = @ /\ ~Frees(f)] \in [VCs -> BOOLEAN]
  BY <1>1 DEF BufferStates
<1>5. [b.lastId EXCEPT ![f.vc] = f.id] \in [VCs -> Int]
  BY <1>1 DEF BufferStates
<1>6. QED
  BY <1>2, <1>3, <1>4, <1>5 DEF SendingFlit, BufferStates

LEMMA ProcessCreditType ==
  ASSUME NEW b \in BufferStates, NEW v \in VCs
  PROVE  ProcessCredit(b, v) \in BufferStates
<1>1. [b.occupancy EXCEPT ![v] = @ - 1] \in [VCs -> Int]
  BY DEF BufferStates
<1>2. [b.inUse EXCEPT ![v] = @ /\ ~Drained(b, v)] \in [VCs -> BOOLEAN]
  BY DEF BufferStates
<1>3. QED
  BY <1>1, <1>2 DEF ProcessCredit, BufferStates

(***************************************************************************)
(* The flits that the adapter makes and sends.                             *)
(***************************************************************************)
LEMMA FlitOfType ==
  ASSUME NEW tx \in Transactions, NEW k \in Nat
  PROVE  FlitOf(tx, k) \in Flits
<1>1. VcOf[tx.iface] \in VCs /\ tx.id \in Nat /\ tx.dest \in Dests /\ tx.tid \in Tids
  BY SlaveAssumption DEF Transactions
<1>2. QED
  BY <1>1 DEF FlitOf, Flits

LEMMA BooksimFlitType ==
  ASSUME NEW f \in Flits
  PROVE  BooksimFlit(f) \in BooksimFlits /\ BooksimFlit(f) # NoFlit
<1>1. DestNode(f.dest) \in Nat
  BY SlaveAssumption DEF DestNode, Flits
<1>2. BooksimFlit(f) \in BooksimFlits
  BY <1>1 DEF BooksimFlit, Flits, BooksimFlits
<1>3. QED
  BY <1>2, SlaveAssumption

LEMMA NextFlitType ==
  ASSUME TypeOK
  PROVE  NextFlit \in Flits \cup {NoFlit}
BY DEF TypeOK, NextFlit

LEMMA InjectedBufferType ==
  ASSUME TypeOK, NEW f \in Flits
  PROVE  /\ Sent(bufState, f) \in BufferStates
         /\ AfterCredit(Sent(bufState, f)) \in BufferStates
         /\ AfterCredit(bufState) \in BufferStates
<1>1. bufState \in BufferStates /\ credit \in VCs \cup {NoVC} /\ f.vc \in VCs
  BY DEF TypeOK, Flits
<1>2. Sent(bufState, f) \in BufferStates
  BY <1>1, TakeBufferType, SendingFlitType DEF Sent
<1>3. QED
  BY <1>1, <1>2, ProcessCreditType DEF AfterCredit

(***************************************************************************)
(* Type correctness, one step per action.                                  *)
(***************************************************************************)
LEMMA TypeInit == Init => TypeOK
<1>1. SUFFICES ASSUME Init PROVE TypeOK
  OBVIOUS
<1>2. bufState \in BufferStates
  BY <1>1, EmptyBufferType DEF Init
<1>3. pending \in SUBSET (UNION {Threads[c] : c \in Clocks})
  BY <1>1, Zenon DEF Init
<1>4. /\ offer \in [Interfaces -> Offers \cup {NoTx}]
      /\ tready \in [Interfaces -> BOOLEAN]
      /\ held \in [VCs -> Nat]
  BY <1>1 DEF Init
<1>5. txFifo \in Seq(Transactions) /\ injFifo \in Seq(Flits)
  BY <1>1 DEF Init
<1>6. QED
  BY <1>1, <1>2, <1>3, <1>4, <1>5 DEF Init, TypeOK

LEMMA TypeStep == TypeOK /\ [Next]_vars => TypeOK'
<1>1. SUFFICES ASSUME TypeOK, [Next]_vars PROVE TypeOK'
  OBVIOUS
<1>2. ASSUME NEW S \in SUBSET Clocks, ClockEdge(S) PROVE TypeOK'
  <2>1. pending' \in SUBSET (UNION {Threads[c] : c \in Clocks})
    <3>1. SUFFICES ASSUME NEW t \in pending'
                   PROVE  t \in UNION {Threads[c] : c \in Clocks}
      OBVIOUS
    <3>2. PICK c \in S : t \in Threads[c]
      BY <1>2, <3>1 DEF ClockEdge
    <3>3. c \in Clocks
      OBVIOUS
    <3>4. QED
      BY <3>2, <3>3
  <2>2. QED
    BY <1>1, <1>2, <2>1 DEF ClockEdge, TypeOK
<1>3. CASE InputReady
  <2>1. tready' \in [Interfaces -> BOOLEAN]
    BY <1>3, Zenon DEF InputReady, ReadyValues
  <2>2. QED
    BY <1>1, <1>3, <2>1 DEF InputReady, TypeOK
<1>4. CASE InputInterface
  <2>1. offer' \in [Interfaces -> Offers \cup {NoTx}]
    BY <1>4 DEF InputInterface, TakeTransaction, ModuleStep
  <2>2. numTx' \in Nat /\ txFifo' \in Seq(Transactions)
    <3>1. CASE UNCHANGED <<numTx, txFifo>>
      BY <1>1, <3>1 DEF TypeOK
    <3>2. ASSUME NEW i \in Interfaces, Taken(i),
                 numTx' = numTx + 1,
                 txFifo' = Append(txFifo, [id    |-> numTx + 1, iface |-> i,
                                           dest  |-> offer[i].dest,
                                           tid   |-> offer[i].tid])
          PROVE numTx' \in Nat /\ txFifo' \in Seq(Transactions)
      <4>1. offer[i] \in Offers
        BY <1>1, <3>2 DEF Taken, Handshake, TypeOK
      <4>2. [id |-> numTx + 1, iface |-> i, dest |-> offer[i].dest,
             tid |-> offer[i].tid] \in Transactions
        BY <1>1, <4>1 DEF TypeOK, Offers, Transactions
      <4>3. QED
        BY <1>1, <3>2, <4>2 DEF TypeOK
    <3>3. QED
      BY <1>4, <3>1, <3>2 DEF InputInterface, TakeTransaction
  <2>3. txFull' \in BOOLEAN
    BY <1>4 DEF InputInterface, TakeTransaction
  <2>4. QED
    BY <1>1, <1>4, <2>1, <2>2, <2>3 DEF InputInterface, Run, TypeOK
<1>5. CASE InputPacketization
  <2>1. /\ injFifo' \in Seq(Flits) /\ pktCycle' \in Nat
        /\ txFifo' \in Seq(Transactions)
    <3>1. CASE txFifo # <<>> /\ Len(injFifo) < InjectionDepth
      <4>1. Head(txFifo) \in Transactions /\ Tail(txFifo) \in Seq(Transactions)
        BY <1>1, <3>1 DEF TypeOK
      <4>2. FlitOf(Head(txFifo), pktCycle) \in Flits
        BY <1>1, <4>1, FlitOfType DEF TypeOK
      <4>3. Packetize(Head(txFifo))
        BY <1>5, <3>1 DEF InputPacketization, MakeFlit
      <4>4. injFifo' \in Seq(Flits)
        BY <1>1, <4>2, <4>3 DEF Packetize, TypeOK
      <4>5. pktCycle' \in Nat /\ txFifo' \in Seq(Transactions)
        <5>1. CASE pktCycle = LastFlit(Head(txFifo))
          BY <4>1, <4>3, <5>1 DEF Packetize
        <5>2. CASE pktCycle # LastFlit(Head(txFifo))
          BY <1>1, <4>3, <5>2 DEF Packetize, TypeOK
        <5>3. QED
          BY <5>1, <5>2
      <4>6. QED
        BY <4>4, <4>5
    <3>2. CASE ~(txFifo # <<>> /\ Len(injFifo) < InjectionDepth)
      BY <1>1, <1>5, <3>2 DEF InputPacketization, MakeFlit, TypeOK
    <3>3. QED
      BY <3>1, <3>2
  <2>2. injFull' \in BOOLEAN
    BY <1>5 DEF InputPacketization, MakeFlit
  <2>3. QED
    BY <1>1, <1>5, <2>1, <2>2 DEF InputPacketization, Run, TypeOK
<1>6. CASE InputInjection
  <2>1. InjectFlit
    BY <1>6 DEF InputInjection
  <2>2. injFifo' \in Seq(Flits)
    BY <1>1, <2>1 DEF InjectFlit, TypeOK
  <2>3. /\ injReg' \in Flits \cup {NoFlit}
        /\ inject' \in BooksimFlits \cup {NoFlit}
        /\ bufState' \in BufferStates
    <3>1. CASE CanInject(NextFlit)
      <4>1. NextFlit \in Flits
        BY <1>1, <3>1, NextFlitType DEF CanInject
      <4>2. QED
        BY <1>1, <2>1, <3>1, <4>1, BooksimFlitType, InjectedBufferType DEF InjectFlit
    <3>2. CASE ~CanInject(NextFlit)
      <4>1. AfterCredit(bufState) \in BufferStates
        BY <1>1, ProcessCreditType DEF AfterCredit, TypeOK
      <4>2. QED
        BY <1>1, <2>1, <3>2, <4>1, NextFlitType DEF InjectFlit, TypeOK
    <3>3. QED
      BY <3>1, <3>2
  <2>4. QED
    BY <1>1, <1>6, <2>2, <2>3 DEF InputInjection, Run, TypeOK
<1>7. CASE Tick
  <2>1. Arrived \in [VCs -> Nat]
    BY <1>1 DEF Arrived, TypeOK
  <2>2. held' \in [VCs -> Nat] /\ credit' \in VCs \cup {NoVC}
    BY <1>7, <2>1 DEF Tick
  <2>3. QED
    BY <1>1, <1>7, <2>2 DEF Tick, Run, TypeOK
<1>8. CASE UNCHANGED vars
  BY <1>1, <1>8 DEF vars, TypeOK
<1>9. QED
  BY <1>1, <1>2, <1>3, <1>4, <1>5, <1>6, <1>7, <1>8 DEF Next

\* The variables keep their types: in particular the flits on every VC, in
\* every FIFO, register and channel are well formed.
THEOREM TypeCorrect == Spec => []TypeOK
<1>1. Init => TypeOK
  BY TypeInit
<1>2. TypeOK /\ [Next]_vars => TypeOK'
  BY TypeStep
<1>3. QED
  BY <1>1, <1>2, PTL DEF Spec

(***************************************************************************)
(* The bound of the FIFOs and the single handshake.  Neither is inductive: *)
(* what tready promises was computed from txFull after the last edge, and  *)
(* is relied on at the next node-clock edge, until InputInterface has run. *)
(* ReadyHolds says when the promise is in force.                           *)
(***************************************************************************)
ReadyHolds == settled \/ "InputInterface" \in pending

ReadyInv ==
  /\ settled => pending = {}
  /\ FifosBounded
  /\ ~txFull => Len(txFifo) < TxDepth
  /\ ReadyHolds => \A i \in Interfaces : tready[i] => Len(txFifo) < TxDepth
  /\ ReadyHolds => \A i, j \in Interfaces : tready[i] /\ tready[j] => i = j

LEMMA ReadyInit == Init => ReadyInv
BY SlaveAssumption DEF Init, ReadyInv, ReadyHolds, FifosBounded

LEMMA ReadyStep == TypeOK /\ ReadyInv /\ [Next]_vars => ReadyInv'
<1>1. SUFFICES ASSUME TypeOK, ReadyInv, [Next]_vars PROVE ReadyInv'
  OBVIOUS
<1>2. Len(txFifo) \in Nat /\ Len(injFifo) \in Nat /\ TxDepth \in Nat
        /\ InjectionDepth \in Nat
  BY <1>1, SlaveAssumption DEF TypeOK
<1>3. ASSUME NEW S \in SUBSET Clocks, ClockEdge(S) PROVE ReadyInv'
  <2>1. settled /\ ~settled' /\ UNCHANGED <<txFifo, injFifo, txFull, tready>>
    BY <1>3 DEF ClockEdge
  <2>2. QED
    BY <1>1, <2>1 DEF ReadyInv, ReadyHolds, FifosBounded
<1>4. CASE InputReady
  <2>1. /\ pending' = {} /\ UNCHANGED <<txFifo, injFifo, txFull>>
        /\ \A i \in Interfaces : tready'[i] = (~txFull /\ ~injFull /\ FirstValid(i))
    BY <1>4 DEF InputReady, ReadyValues
  <2>2. \A i \in Interfaces : tready'[i] => Len(txFifo') < TxDepth
    BY <1>1, <2>1 DEF ReadyInv
  <2>3. ASSUME NEW i \in Interfaces, NEW j \in Interfaces, tready'[i], tready'[j]
        PROVE  i = j
    <3>1. FirstValid(i) /\ FirstValid(j)
      BY <2>1, <2>3
    <3>2. ~(i < j) /\ ~(j < i)
      BY <3>1 DEF FirstValid
    <3>3. i \in Int /\ j \in Int
      BY DEF Interfaces
    <3>4. QED
      BY <3>2, <3>3
  <2>4. QED
    BY <1>1, <2>1, <2>2, <2>3 DEF ReadyInv, FifosBounded
<1>5. CASE InputInterface
  <2>1. ~ReadyHolds' /\ UNCHANGED injFifo
    <3>1. ~settled
      BY <1>1, <1>5 DEF InputInterface, Run, ReadyInv
    <3>2. QED
      BY <1>5, <3>1 DEF InputInterface, Run, ReadyHolds
  <2>2. Len(txFifo') <= TxDepth /\ Len(txFifo') \in Nat
    <3>1. CASE UNCHANGED txFifo
      BY <1>1, <1>2, <3>1 DEF ReadyInv, FifosBounded
    <3>2. ASSUME NEW i \in Interfaces, Taken(i), NEW tx,
                 txFifo' = Append(txFifo, tx)
          PROVE  Len(txFifo') <= TxDepth /\ Len(txFifo') \in Nat
      <4>1. Len(txFifo) < TxDepth
        BY <1>1, <1>5, <3>2
        DEF ReadyInv, ReadyHolds, InputInterface, Run, Taken, Handshake
      <4>2. Len(txFifo') = Len(txFifo) + 1
        BY <1>1, <3>2 DEF TypeOK
      <4>3. QED
        BY <1>2, <4>1, <4>2
    <3>3. QED
      BY <1>5, <3>1, <3>2 DEF InputInterface, TakeTransaction
  <2>3. ~txFull' => Len(txFifo') < TxDepth
    <3>1. Len(txFifo') >= TxDepth => txFull'
      BY <1>5, Zenon DEF InputInterface, TakeTransaction
    <3>2. QED
      BY <1>2, <2>2, <3>1
  <2>4. QED
    BY <1>1, <2>1, <2>2, <2>3 DEF ReadyInv, ReadyHolds, FifosBounded
<1>6. CASE InputPacketization
  <2>1. /\ Len(txFifo') \in Nat /\ Len(txFifo') <= Len(txFifo)
        /\ Len(injFifo') <= InjectionDepth
    <3>1. CASE txFifo # <<>> /\ Len(injFifo) < InjectionDepth
      <4>1. Packetize(Head(txFifo))
        BY <1>6, <3>1 DEF InputPacketization, MakeFlit
      <4>2. Len(injFifo') = Len(injFifo) + 1
        BY <1>1, <4>1 DEF Packetize, TypeOK
      <4>3. txFifo' = txFifo \/ txFifo' = Tail(txFifo)
        BY <4>1 DEF Packetize
      <4>4. Len(Tail(txFifo)) \in Nat /\ Len(Tail(txFifo)) <= Len(txFifo)
        BY <1>1, <3>1 DEF TypeOK
      <4>5. QED
        BY <1>2, <3>1, <4>2, <4>3, <4>4
    <3>2. CASE ~(txFifo # <<>> /\ Len(injFifo) < InjectionDepth)
      BY <1>1, <1>2, <1>6, <3>2
      DEF InputPacketization, MakeFlit, ReadyInv, FifosBounded
    <3>3. QED
      BY <3>1, <3>2
  <2>2. UNCHANGED <<txFull, tready>> /\ ~settled' /\ (ReadyHolds' => ReadyHolds)
    BY <1>1, <1>6 DEF InputPacketization, Run, ReadyHolds, ReadyInv
  <2>3. QED
    BY <1>1, <1>2, <2>1, <2>2 DEF ReadyInv, FifosBounded
<1>7. CASE InputInjection
  <2>1. Len(injFifo') <= InjectionDepth
    BY <1>1, <1>2, <1>7 DEF InputInjection, InjectFlit, ReadyInv, FifosBounded, TypeOK
  <2>2. UNCHANGED <<txFifo, txFull, tready>> /\ ~settled' /\ (ReadyHolds' => ReadyHolds)
    BY <1>1, <1>7 DEF InputInjection, Run, ReadyHolds, ReadyInv
  <2>3. QED
    BY <1>1, <2>1, <2>2 DEF ReadyInv, FifosBounded
<1>8. CASE Tick
  <2>1. UNCHANGED <<txFifo, injFifo, txFull, tready>> /\ ~settled' /\ (ReadyHolds' => ReadyHolds)
    BY <1>1, <1>8 DEF Tick, Run, ReadyHolds, ReadyInv
  <2>2. QED
    BY <1>1, <2>1 DEF ReadyInv, FifosBounded
<1>9. CASE UNCHANGED vars
  BY <1>1, <1>9 DEF vars, ReadyInv, ReadyHolds, FifosBounded
<1>10. QED
  BY <1>1, <1>3, <1>4, <1>5, <1>6, <1>7, <1>8, <1>9 DEF Next

LEMMA ReadyCorrect == Spec => []ReadyInv
<1>1. TypeOK /\ ReadyInv /\ [Next]_vars => ReadyInv'
  BY ReadyStep
<1>2. QED
  BY <1>1, ReadyInit, TypeCorrect, PTL DEF Spec

\* The assertion at the end of InputInterface never fails, whatever the three
\* clocks do: neither FIFO ever holds more than its depth.
THEOREM FifosNeverOverflow == Spec => []FifosBounded
<1>1. ReadyInv => FifosBounded
  BY DEF ReadyInv
<1>2. QED
  BY <1>1, ReadyCorrect, PTL

\* No two interfaces of a node complete a handshake at the same edge, so none
\* believes that a transaction was accepted which InputInterface did not take.
THEOREM HandshakeIsExclusive == Spec => []OneHandshake
<1>1. ReadyInv => OneHandshake
  BY DEF ReadyInv, ReadyHolds, OneHandshake, Handshake
<1>2. QED
  BY <1>1, ReadyCorrect, PTL

(***************************************************************************)
(* Credits.  CreditsConserved says where each flit counted against a VC is *)
(* at any moment.  It is inductive together with what the two possible     *)
(* orders of InputInjection and Tick imply: which of them can still be     *)
(* pending, and when the inject channel holds a flit.                      *)
(***************************************************************************)
InjectionFirst == "InputInjection" \in BeforeTick

OrderInv ==
  IF InjectionFirst
  THEN /\ "InputInjection" \in pending => "Tick" \in pending
       /\ inject # NoFlit => "Tick" \in pending /\ "InputInjection" \notin pending
  ELSE /\ "Tick" \in pending => "InputInjection" \in pending
       /\ "InputInjection" \in pending /\ "Tick" \notin pending => inject = NoFlit

LEMMA NocThreads ==
  ASSUME NEW S \in SUBSET Clocks, ClockEdge(S)
  PROVE  "InputInjection" \in pending' <=> "Tick" \in pending'
<1>1. pending' = UNION {Threads[c] : c \in S}
  BY DEF ClockEdge
<1>2. "InputInjection" \in UNION {Threads[c] : c \in S} <=> "noc" \in S
  BY DEF Threads, Clocks
<1>3. "Tick" \in UNION {Threads[c] : c \in S} <=> "noc" \in S
  BY DEF Threads, Clocks
<1>4. QED
  BY <1>1, <1>2, <1>3

LEMMA OrderInit == Init => OrderInv
BY DEF Init, OrderInv

LEMMA OrderStep == OrderInv /\ [Next]_vars => OrderInv'
<1>1. SUFFICES ASSUME OrderInv, [Next]_vars PROVE OrderInv'
  OBVIOUS
<1>2. ASSUME NEW S \in SUBSET Clocks, ClockEdge(S) PROVE OrderInv'
  BY <1>1, <1>2, NocThreads DEF OrderInv, ClockEdge, InjectionFirst
<1>3. CASE InputReady
  BY <1>1, <1>3 DEF OrderInv, InputReady, InjectionFirst
<1>4. CASE InputInterface
  BY <1>1, <1>4 DEF OrderInv, InputInterface, Run, InjectionFirst
<1>5. CASE InputPacketization
  BY <1>1, <1>5 DEF OrderInv, InputPacketization, Run, InjectionFirst
<1>6. CASE InputInjection
  BY <1>1, <1>6 DEF OrderInv, InputInjection, Run, InjectionFirst, TickOrder
<1>7. CASE Tick
  BY <1>1, <1>7 DEF OrderInv, Tick, Run, InjectionFirst
<1>8. CASE UNCHANGED vars
  BY <1>1, <1>8 DEF OrderInv, vars, InjectionFirst
<1>9. QED
  BY <1>1, <1>2, <1>3, <1>4, <1>5, <1>6, <1>7, <1>8 DEF Next

\* The effects of sending a flit and of a credit on the occupancy of a VC.
LEMMA SentOccupancy ==
  ASSUME NEW b \in BufferStates, NEW f \in Flits, NEW v \in VCs
  PROVE  Sent(b, f).occupancy[v] = b.occupancy[v] + (IF f.vc = v THEN 1 ELSE 0)
<1>1. f.vc \in VCs /\ b.occupancy \in [VCs -> Int]
  BY DEF Flits, BufferStates
<1>2. Sent(b, f).occupancy = [b.occupancy EXCEPT ![f.vc] = @ + 1]
  BY DEF Sent, SendingFlit, TakeBuffer
<1>3. QED
  BY <1>1, <1>2

LEMMA CreditOccupancy ==
  ASSUME NEW b \in BufferStates, NEW v \in VCs, credit \in VCs \cup {NoVC}
  PROVE  AfterCredit(b).occupancy[v] = b.occupancy[v] - (IF credit = v THEN 1 ELSE 0)
<1>1. b.occupancy \in [VCs -> Int]
  BY DEF BufferStates
<1>2. CASE credit = NoVC
  BY <1>1, <1>2, SlaveAssumption DEF AfterCredit
<1>3. CASE credit \in VCs
  <2>1. AfterCredit(b).occupancy = [b.occupancy EXCEPT ![credit] = @ - 1]
    BY <1>3, SlaveAssumption DEF AfterCredit, ProcessCredit
  <2>2. QED
    BY <1>1, <1>3, <2>1
<1>4. QED
  BY <1>2, <1>3

LEMMA CreditsInit == Init => CreditsConserved
BY SlaveAssumption DEF Init, CreditsConserved, EmptyBuffer, InChannel, CreditDue

LEMMA CreditsStep ==
  TypeOK /\ OrderInv /\ CreditsConserved /\ [Next]_vars => CreditsConserved'
<1>1. SUFFICES ASSUME TypeOK, OrderInv, CreditsConserved, [Next]_vars
               PROVE  CreditsConserved'
  OBVIOUS
<1>types. \A v \in VCs : /\ held[v] \in Nat /\ bufState.occupancy[v] \in Int
                     /\ held'[v] \in Nat /\ bufState'.occupancy[v] \in Int
  <2>1. TypeOK'
    BY <1>1, TypeStep
  <2>2. QED
    BY <1>1, <2>1 DEF TypeOK, BufferStates
<1>2. ASSUME UNCHANGED <<bufState, held, inject, credit>>, CreditDue' = CreditDue
      PROVE  CreditsConserved'
  BY <1>1, <1>2 DEF CreditsConserved, InChannel
<1>3. ASSUME NEW S \in SUBSET Clocks, ClockEdge(S) PROVE CreditsConserved'
  <2>1. CreditDue' = CreditDue
    BY <1>3, NocThreads DEF CreditDue, ClockEdge
  <2>2. QED
    BY <1>2, <1>3, <2>1 DEF ClockEdge
<1>4. CASE InputReady
  BY <1>2, <1>4 DEF InputReady, CreditDue
<1>5. CASE InputInterface
  BY <1>2, <1>5 DEF InputInterface, Run, CreditDue
<1>6. CASE InputPacketization
  BY <1>2, <1>6 DEF InputPacketization, Run, CreditDue
<1>7. CASE InputInjection
  <2>1. inject = NoFlit /\ CreditDue /\ ~CreditDue'
    BY <1>1, <1>7
    DEF OrderInv, InputInjection, Run, TickOrder, CreditDue, InjectionFirst
  <2>2. SUFFICES ASSUME NEW v \in VCs
                 PROVE  bufState'.occupancy[v]
                          = held[v] + (IF InChannel(v)' THEN 1 ELSE 0)
    BY <1>types, <1>7, <2>1 DEF InputInjection, CreditsConserved
  <2>3. bufState.occupancy[v] = held[v] + (IF credit = v THEN 1 ELSE 0)
    BY <1>1, <1>types, <2>1 DEF CreditsConserved, InChannel
  <2>4. /\ bufState \in BufferStates /\ credit \in VCs \cup {NoVC}
        /\ held[v] \in Nat /\ bufState.occupancy[v] \in Int
    BY <1>1, <1>types DEF TypeOK
  <2>5. CASE CanInject(NextFlit)
    <3>1. NextFlit \in Flits
      BY <1>1, <2>5, NextFlitType DEF CanInject
    <3>2. /\ bufState' = AfterCredit(Sent(bufState, NextFlit))
          /\ inject' = BooksimFlit(NextFlit)
      BY <1>7, <2>5 DEF InputInjection, InjectFlit
    <3>3. InChannel(v)' <=> NextFlit.vc = v
      <4>1. inject' # NoFlit
        BY <3>1, <3>2, BooksimFlitType
      <4>2. inject'.vc = NextFlit.vc
        BY <3>2 DEF BooksimFlit
      <4>3. QED
        BY <4>1, <4>2 DEF InChannel
    <3>4. Sent(bufState, NextFlit) \in BufferStates
      BY <1>1, <3>1, InjectedBufferType
    <3>5. Sent(bufState, NextFlit).occupancy[v]
            = bufState.occupancy[v] + (IF NextFlit.vc = v THEN 1 ELSE 0)
      BY <2>4, <3>1, SentOccupancy
    <3>6. bufState'.occupancy[v] = Sent(bufState, NextFlit).occupancy[v]
                                     - (IF credit = v THEN 1 ELSE 0)
      BY <2>4, <3>2, <3>4, CreditOccupancy
    <3>7. QED
      BY <2>3, <2>4, <3>3, <3>5, <3>6
  <2>6. CASE ~CanInject(NextFlit)
    <3>1. bufState' = AfterCredit(bufState) /\ inject' = NoFlit
      BY <1>7, <2>1, <2>6 DEF InputInjection, InjectFlit
    <3>2. bufState'.occupancy[v] = bufState.occupancy[v] - (IF credit = v THEN 1 ELSE 0)
      BY <2>4, <3>1, CreditOccupancy
    <3>3. QED
      BY <2>3, <2>4, <3>1, <3>2 DEF InChannel
  <2>7. QED
    BY <2>5, <2>6
<1>8. CASE Tick
  <2>1. ~CreditDue /\ CreditDue' /\ inject' = NoFlit /\ bufState' = bufState
    BY <1>1, <1>8 DEF OrderInv, Tick, Run, CreditDue, InjectionFirst
  <2>2. SUFFICES ASSUME NEW v \in VCs
                 PROVE  bufState.occupancy[v] = held'[v] + (IF credit' = v THEN 1 ELSE 0)
    BY <1>types, <2>1 DEF CreditsConserved, InChannel
  <2>3. bufState.occupancy[v] = Arrived[v]
    BY <1>1, <2>1 DEF CreditsConserved, Arrived, InChannel, TypeOK
  <2>4. Arrived \in [VCs -> Nat]
    BY <1>1 DEF Arrived, TypeOK
  <2>5. Arrived[v] = held'[v] + (IF credit' = v THEN 1 ELSE 0)
    BY <1>8, <2>4, SlaveAssumption DEF Tick
  <2>6. QED
    BY <2>3, <2>5
<1>9. CASE UNCHANGED vars
  BY <1>2, <1>9 DEF vars, CreditDue
<1>10. QED
  BY <1>1, <1>3, <1>4, <1>5, <1>6, <1>7, <1>8, <1>9 DEF Next

\* No credit is lost and none is processed twice, whichever of InputInjection
\* and Tick the kernel runs first.
THEOREM CreditsAreConserved == Spec => []CreditsConserved
<1>1. TypeOK /\ OrderInv /\ CreditsConserved /\ [Next]_vars
        => OrderInv' /\ CreditsConserved'
  BY OrderStep, CreditsStep
<1>2. Init => OrderInv /\ CreditsConserved
  BY OrderInit, CreditsInit
<1>3. QED
  BY <1>1, <1>2, TypeCorrect, PTL DEF Spec

(***************************************************************************)
(* The stream of flits.  StreamInOrder is about the transaction at the     *)
(* front only; that the stream goes on when the next transaction moves up, *)
(* or when one is accepted after all have been packetized, needs the       *)
(* numbers of the transactions still waiting and of the last one accepted, *)
(* and that packetization stands inside the packet it works on.            *)
(***************************************************************************)
\* Flit f was the last one made: what is made next continues it.
MadeLast(f) ==
  IF txFifo # <<>> THEN Follows(f, NextMade) ELSE f.tail /\ f.id = numTx

QueuesInv ==
  /\ \A k \in 1 .. Len(txFifo) - 1 : txFifo[k + 1].id = txFifo[k].id + 1
  /\ IF txFifo = <<>> THEN pktCycle = 0
     ELSE pktCycle <= LastFlit(txFifo[1]) /\ txFifo[Len(txFifo)].id = numTx

FlitsInv ==
  /\ \A k \in 1 .. Len(injFifo) - 1 : Follows(injFifo[k], injFifo[k + 1])
  /\ injFifo # <<>> => MadeLast(injFifo[Len(injFifo)])
  /\ injReg # NoFlit => IF injFifo # <<>> THEN Follows(injReg, injFifo[1])
                                          ELSE MadeLast(injReg)

StreamInv == QueuesInv /\ FlitsInv

\* The flits of one packet follow each other, and the head of the next packet
\* follows the tail.
LEMMA FollowsInPacket ==
  ASSUME NEW tx \in Transactions, NEW k \in Nat, k # LastFlit(tx)
  PROVE  Follows(FlitOf(tx, k), FlitOf(tx, k + 1))
<1>1. /\ FlitOf(tx, k).tail = (k = LastFlit(tx))
      /\ FlitOf(tx, k + 1).head = (k + 1 = 0)
  BY Zenon DEF FlitOf
<1>2. k + 1 # 0
  OBVIOUS
<1>3. /\ FlitOf(tx, k).seq = k /\ FlitOf(tx, k + 1).seq = k + 1
      /\ FlitOf(tx, k).id = FlitOf(tx, k + 1).id
      /\ FlitOf(tx, k).vc = FlitOf(tx, k + 1).vc
  BY DEF FlitOf
<1>4. QED
  BY <1>1, <1>2, <1>3, Zenon DEF Follows

LEMMA HeadFollows ==
  ASSUME NEW f, NEW tx \in Transactions, f.tail, tx.id = f.id + 1
  PROVE  Follows(f, FlitOf(tx, 0))
BY DEF Follows, FlitOf

LEMMA StreamInit == Init => StreamInv
BY DEF Init, StreamInv, QueuesInv, FlitsInv

\* Accepting a transaction continues the stream.
LEMMA StreamAccept ==
  ASSUME TypeOK, StreamInv, InputInterface
  PROVE  StreamInv'
<1>1. UNCHANGED <<pktCycle, injFifo, injReg>>
  BY DEF InputInterface
<1>2. CASE UNCHANGED <<numTx, txFifo>>
  BY <1>1, <1>2 DEF StreamInv, QueuesInv, FlitsInv, MadeLast, NextMade
<1>3. ASSUME NEW i \in Interfaces, Taken(i),
             numTx' = numTx + 1,
             txFifo' = Append(txFifo, [id    |-> numTx + 1, iface |-> i,
                                       dest  |-> offer[i].dest,
                                       tid   |-> offer[i].tid])
      PROVE  StreamInv'
  <2> DEFINE tx == [id |-> numTx + 1, iface |-> i, dest |-> offer[i].dest,
                    tid |-> offer[i].tid]
  <2>1. tx \in Transactions
    <3>1. offer[i] \in Offers
      BY <1>3 DEF Taken, Handshake, TypeOK
    <3>2. QED
      BY <3>1 DEF TypeOK, Offers, Transactions
  <2>2. txFifo' = Append(txFifo, tx) /\ tx.id = numTx + 1
    BY <1>3
  <2> HIDE DEF tx
  <2>3. /\ Len(txFifo') = Len(txFifo) + 1
        /\ \A k \in 1 .. Len(txFifo) : txFifo'[k] = txFifo[k]
        /\ txFifo'[Len(txFifo) + 1] = tx
    BY <2>1, <2>2 DEF TypeOK
  <2>4. numTx \in Nat /\ Len(txFifo) \in Nat /\ (txFifo = <<>> <=> Len(txFifo) = 0)
    BY DEF TypeOK
  <2>5. QueuesInv'
    <3>1. CASE txFifo = <<>>
      <4>1. pktCycle' = 0 /\ Len(txFifo') = 1 /\ txFifo'[1] = tx /\ txFifo' # <<>>
        BY <1>1, <2>3, <2>4, <3>1 DEF StreamInv, QueuesInv
      <4>2. LastFlit(tx) >= 0
        BY <2>1, SlaveAssumption DEF LastFlit, Transactions
      <4>3. QED
        BY <1>3, <2>2, <2>4, <4>1, <4>2 DEF QueuesInv
    <3>2. CASE txFifo # <<>>
      <4>1. txFifo'[1] = txFifo[1] /\ txFifo' # <<>>
        BY <2>3, <2>4, <3>2
      <4>2. txFifo[Len(txFifo)].id = numTx
        BY <3>2 DEF StreamInv, QueuesInv
      <4>3. \A k \in 1 .. Len(txFifo') - 1 : txFifo'[k + 1].id = txFifo'[k].id + 1
        BY <2>2, <2>3, <2>4, <3>2, <4>2 DEF StreamInv, QueuesInv
      <4>4. QED
        BY <1>1, <1>3, <2>2, <2>3, <3>2, <4>1, <4>3 DEF StreamInv, QueuesInv
    <3>3. QED
      BY <3>1, <3>2
  <2>6. ASSUME NEW f, MadeLast(f) PROVE MadeLast(f)'
    <3>1. CASE txFifo = <<>>
      <4>1. f.tail /\ f.id = numTx
        BY <2>6, <3>1 DEF MadeLast
      <4>2. txFifo' # <<>> /\ NextMade' = FlitOf(tx, 0)
        BY <1>1, <2>2, <2>3, <2>4, <3>1 DEF NextMade, StreamInv, QueuesInv
      <4>3. Follows(f, FlitOf(tx, 0))
        BY <2>1, <2>2, <4>1, HeadFollows
      <4>4. QED
        BY <4>2, <4>3 DEF MadeLast
    <3>2. CASE txFifo # <<>>
      <4>1. txFifo' # <<>> /\ txFifo'[1] = txFifo[1]
        BY <2>3, <2>4, <3>2
      <4>2. NextMade' = NextMade
        BY <1>1, <4>1 DEF NextMade
      <4>3. QED
        BY <2>6, <3>2, <4>1, <4>2 DEF MadeLast
    <3>3. QED
      BY <3>1, <3>2
  <2>7. FlitsInv'
    BY <1>1, <2>6 DEF StreamInv, FlitsInv
  <2>8. QED
    BY <2>5, <2>7 DEF StreamInv
<1>4. QED
  BY <1>2, <1>3 DEF InputInterface, TakeTransaction

\* Making the next flit continues the stream.
LEMMA StreamPacketize ==
  ASSUME TypeOK, StreamInv, InputPacketization
  PROVE  StreamInv'
<1>1. UNCHANGED <<numTx, injReg>>
  BY DEF InputPacketization
<1>2. CASE txFifo # <<>> /\ Len(injFifo) < InjectionDepth
  <2>1. Packetize(Head(txFifo)) /\ Head(txFifo) = txFifo[1]
    BY <1>2 DEF InputPacketization, MakeFlit, TypeOK
  <2>2. txFifo[1] \in Transactions /\ pktCycle \in Nat /\ NumFlits[txFifo[1].iface] \in 1 .. 255
    <3>1. txFifo[1] \in Transactions /\ pktCycle \in Nat
      BY <1>2 DEF TypeOK
    <3>2. txFifo[1].iface \in Interfaces
      BY <3>1 DEF Transactions
    <3>3. QED
      BY <3>1, <3>2, SlaveAssumption
  <2>3. NextMade \in Flits
    BY <2>2, FlitOfType DEF NextMade
  <2>4. injFifo' = Append(injFifo, NextMade)
    BY <2>1 DEF Packetize, NextMade
  <2>5. /\ Len(injFifo') = Len(injFifo) + 1
        /\ \A k \in 1 .. Len(injFifo) : injFifo'[k] = injFifo[k]
        /\ injFifo'[Len(injFifo) + 1] = NextMade
    BY <2>3, <2>4 DEF TypeOK
  <2>6. /\ Len(injFifo) \in Nat /\ (injFifo = <<>> <=> Len(injFifo) = 0)
        /\ Len(txFifo) \in Nat \ {0}
    BY <1>2 DEF TypeOK
  <2>7. PICK g : g = NextMade
    OBVIOUS
  <2>12. g.id = txFifo[1].id /\ (g.tail <=> pktCycle = LastFlit(txFifo[1]))
    BY <2>7 DEF NextMade, FlitOf
  <2>13. injFifo'[Len(injFifo')] = g /\ injFifo' # <<>>
    BY <2>5, <2>6, <2>7
  <2>8. QueuesInv' /\ MadeLast(g)'
    <3>1. CASE pktCycle = LastFlit(txFifo[1])
      <4>1. txFifo' = Tail(txFifo) /\ pktCycle' = 0
        BY <2>1, <3>1 DEF Packetize
      <4>2. /\ txFifo' \in Seq(Transactions)
            /\ Len(txFifo') = Len(txFifo) - 1
            /\ \A k \in 1 .. Len(txFifo') : txFifo'[k] = txFifo[k + 1]
        BY <1>2, <4>1 DEF TypeOK
      <4>3. \A k \in 1 .. Len(txFifo') - 1 : txFifo'[k + 1].id = txFifo'[k].id + 1
        BY <2>6, <4>2 DEF StreamInv, QueuesInv
      <4>4. CASE txFifo' = <<>>
        <5>1. Len(txFifo) = 1
          BY <2>6, <4>2, <4>4
        <5>2. txFifo[1].id = numTx
          BY <1>2, <5>1 DEF StreamInv, QueuesInv
        <5>3. QED
          BY <1>1, <2>12, <3>1, <4>1, <4>3, <4>4, <5>2 DEF QueuesInv, MadeLast
      <4>5. CASE txFifo' # <<>>
        <5>1. Len(txFifo') >= 1
          BY <4>2, <4>5
        <5>2. txFifo'[1] = txFifo[2] /\ txFifo'[Len(txFifo')] = txFifo[Len(txFifo)]
          BY <2>6, <4>2, <5>1
        <5>3. txFifo[2].id = txFifo[1].id + 1 /\ txFifo[Len(txFifo)].id = numTx
          BY <1>2, <2>6, <4>2, <5>1 DEF StreamInv, QueuesInv
        <5>4. txFifo'[1] \in Transactions /\ LastFlit(txFifo'[1]) >= 0
          <6>1. txFifo'[1] \in Transactions
            BY <4>2, <5>1
          <6>2. txFifo'[1].iface \in Interfaces
            BY <6>1 DEF Transactions
          <6>3. QED
            BY <6>1, <6>2, SlaveAssumption DEF LastFlit
        <5>5. QueuesInv'
          BY <1>1, <4>1, <4>3, <4>5, <5>2, <5>3, <5>4 DEF QueuesInv
        <5>6. Follows(g, FlitOf(txFifo'[1], 0))
          BY <2>12, <3>1, <5>2, <5>3, <5>4, HeadFollows
        <5>7. QED
          BY <4>1, <4>5, <5>5, <5>6 DEF MadeLast, NextMade
      <4>6. QED
        BY <4>4, <4>5
    <3>2. CASE pktCycle # LastFlit(txFifo[1])
      <4>1. txFifo' = txFifo /\ pktCycle' = pktCycle + 1
        BY <2>1, <3>2 DEF Packetize
      <4>2. pktCycle <= LastFlit(txFifo[1]) /\ LastFlit(txFifo[1]) \in Int
        <5>1. LastFlit(txFifo[1]) \in Int
          BY <2>2 DEF LastFlit
        <5>2. QED
          BY <1>2, <5>1 DEF StreamInv, QueuesInv
      <4>3. QueuesInv'
        BY <1>1, <1>2, <2>2, <3>2, <4>1, <4>2 DEF StreamInv, QueuesInv
      <4>4. Follows(g, FlitOf(txFifo[1], pktCycle + 1))
        BY <2>2, <2>7, <3>2, <4>2, FollowsInPacket DEF NextMade
      <4>5. QED
        BY <1>2, <4>1, <4>3, <4>4 DEF MadeLast, NextMade
    <3>3. QED
      BY <3>1, <3>2
  <2>9. \A f : MadeLast(f) => Follows(f, g)
    BY <1>2, <2>7 DEF MadeLast
  <2>10. FlitsInv'
    <3>1. \A k \in 1 .. Len(injFifo') - 1 : Follows(injFifo'[k], injFifo'[k + 1])
      <4>1. SUFFICES ASSUME NEW k \in 1 .. Len(injFifo)
                     PROVE  Follows(injFifo'[k], injFifo'[k + 1])
        BY <2>5, <2>6
      <4>2. CASE k < Len(injFifo)
        BY <2>5, <2>6, <4>2 DEF StreamInv, FlitsInv
      <4>3. CASE k = Len(injFifo)
        BY <2>5, <2>6, <2>7, <2>9, <4>3 DEF StreamInv, FlitsInv
      <4>4. QED
        BY <2>6, <4>2, <4>3
    <3>2. injReg # NoFlit => Follows(injReg, injFifo'[1])
      <4>1. CASE injFifo = <<>>
        BY <2>5, <2>6, <2>7, <2>9, <4>1 DEF StreamInv, FlitsInv
      <4>2. CASE injFifo # <<>>
        BY <2>5, <2>6, <4>2 DEF StreamInv, FlitsInv
      <4>3. QED
        BY <4>1, <4>2
    <3>3. QED
      BY <1>1, <2>13, <2>8, <3>1, <3>2 DEF FlitsInv
  <2>11. QED
    BY <2>8, <2>10 DEF StreamInv
<1>3. CASE ~(txFifo # <<>> /\ Len(injFifo) < InjectionDepth)
  BY <1>1, <1>3
  DEF InputPacketization, MakeFlit, StreamInv, QueuesInv, FlitsInv, MadeLast, NextMade
<1>4. QED
  BY <1>2, <1>3

\* Taking the front flit into the register, or injecting it, does not change
\* what follows what.
LEMMA StreamInject ==
  ASSUME TypeOK, StreamInv, InputInjection
  PROVE  StreamInv'
<1>1. InjectFlit /\ UNCHANGED <<txFifo, pktCycle, numTx>>
  BY DEF InputInjection
<1>2. QueuesInv' /\ \A f : MadeLast(f)' <=> MadeLast(f)
  BY <1>1 DEF StreamInv, QueuesInv, MadeLast, NextMade
<1>3. injReg' \in {NoFlit, NextFlit}
  BY <1>1 DEF InjectFlit
<1>4. CASE injReg = NoFlit /\ injFifo # <<>>
  <2>1. injFifo' = Tail(injFifo) /\ NextFlit = injFifo[1]
    BY <1>1, <1>4 DEF InjectFlit, NextFlit, TypeOK
  <2>2. /\ Len(injFifo) \in Nat \ {0} /\ Len(injFifo') = Len(injFifo) - 1
        /\ injFifo' \in Seq(Flits)
        /\ \A k \in 1 .. Len(injFifo') : injFifo'[k] = injFifo[k + 1]
    BY <1>4, <2>1 DEF TypeOK
  <2>3. \A k \in 1 .. Len(injFifo') - 1 : Follows(injFifo'[k], injFifo'[k + 1])
    BY <2>2 DEF StreamInv, FlitsInv
  <2>4. CASE injFifo' = <<>>
    <3>1. Len(injFifo) = 1
      BY <2>2, <2>4
    <3>2. MadeLast(injFifo[1])
      BY <1>4, <3>1 DEF StreamInv, FlitsInv
    <3>3. QED
      BY <1>2, <1>3, <2>1, <2>3, <2>4, <3>2 DEF StreamInv, FlitsInv
  <2>5. CASE injFifo' # <<>>
    <3>1. Len(injFifo') >= 1
      BY <2>2, <2>5
    <3>2. injFifo'[1] = injFifo[2] /\ injFifo'[Len(injFifo')] = injFifo[Len(injFifo)]
      BY <2>2, <3>1
    <3>3. Follows(injFifo[1], injFifo[2]) /\ MadeLast(injFifo[Len(injFifo)])
      BY <1>4, <2>2, <3>1 DEF StreamInv, FlitsInv
    <3>4. QED
      BY <1>2, <1>3, <2>1, <2>3, <2>5, <3>2, <3>3 DEF StreamInv, FlitsInv
  <2>6. QED
    BY <2>4, <2>5
<1>5. CASE ~(injReg = NoFlit /\ injFifo # <<>>)
  <2>1. injFifo' = injFifo /\ NextFlit = injReg
    BY <1>1, <1>5 DEF InjectFlit, NextFlit
  <2>2. QED
    BY <1>2, <1>3, <2>1 DEF StreamInv, FlitsInv
<1>6. QED
  BY <1>4, <1>5

LEMMA StreamStep == TypeOK /\ StreamInv /\ [Next]_vars => StreamInv'
<1>1. SUFFICES ASSUME TypeOK, StreamInv, [Next]_vars PROVE StreamInv'
  OBVIOUS
<1>2. ASSUME UNCHANGED <<txFifo, pktCycle, numTx, injFifo, injReg>> PROVE StreamInv'
  BY <1>1, <1>2 DEF StreamInv, QueuesInv, FlitsInv, MadeLast, NextMade
<1>3. CASE \E S \in SUBSET Clocks : ClockEdge(S)
  BY <1>2, <1>3 DEF ClockEdge
<1>4. CASE InputReady
  BY <1>2, <1>4 DEF InputReady
<1>5. CASE InputInterface
  BY <1>1, <1>5, StreamAccept
<1>6. CASE InputPacketization
  BY <1>1, <1>6, StreamPacketize
<1>7. CASE InputInjection
  BY <1>1, <1>7, StreamInject
<1>8. CASE Tick
  BY <1>2, <1>8 DEF Tick
<1>9. CASE UNCHANGED vars
  BY <1>2, <1>9 DEF vars
<1>10. QED
  BY <1>1, <1>3, <1>4, <1>5, <1>6, <1>7, <1>8, <1>9 DEF Next

LEMMA StreamCorrect == Spec => []StreamInv
<1>1. TypeOK /\ StreamInv /\ [Next]_vars => StreamInv'
  BY StreamStep
<1>2. QED
  BY <1>1, StreamInit, TypeCorrect, PTL DEF Spec

\* Whatever the clocks and the NoC do, packets leave the adapter in the order in
\* which their transactions were accepted, whole and unmixed: no flit is lost,
\* repeated or reordered from the transaction FIFO to the injection register.
THEOREM StreamStaysInOrder == Spec => []StreamInOrder
<1>1. StreamInv => StreamInOrder
  BY DEF StreamInv, FlitsInv, StreamInOrder, MadeLast, NextMade
<1>2. QED
  BY <1>1, StreamCorrect, PTL

(***************************************************************************)
(* The buffer state.  The first flit that has not been injected says which *)
(* packet the wormhole is in the middle of.                                *)
(***************************************************************************)
InPacket(f) == f # NoFlit /\ ~f.head

\* What holds of a buffer state b when f is the next flit to be sent.
Worm(b, f) ==
  /\ InPacket(f) => b.inUse[f.vc] /\ ~b.tailSent[f.vc] /\ b.lastId[f.vc] = f.id
  /\ \A v \in VCs : IF WaitForTailCredit
                    THEN b.occupancy[v] > 0 => b.inUse[v]
                    ELSE b.inUse[v] => InPacket(f) /\ f.vc = v
  /\ ~b.error

WormInv == Worm(bufState, FirstFlit)

\* What sending a flit does to the buffer state when the flit may be sent.
LEMMA SentBuffer ==
  ASSUME NEW b \in BufferStates, NEW f \in Flits, ~b.error,
         b.occupancy[f.vc] < VcBufSize,
         IF f.head THEN ~b.inUse[f.vc] ELSE b.inUse[f.vc] /\ ~b.tailSent[f.vc]
  PROVE  /\ ~Sent(b, f).error
         /\ Sent(b, f).inUse = [b.inUse EXCEPT ![f.vc] = ~Frees(f)]
         /\ Sent(b, f).tailSent = [b.tailSent EXCEPT ![f.vc] = f.tail]
         /\ Sent(b, f).lastId = [b.lastId EXCEPT ![f.vc] = f.id]
<1>1. /\ f.vc \in VCs /\ f.head \in BOOLEAN /\ f.tail \in BOOLEAN
      /\ b.inUse \in [VCs -> BOOLEAN] /\ b.tailSent \in [VCs -> BOOLEAN]
      /\ b.occupancy[f.vc] \in Int /\ VcBufSize \in Int
  BY BufferAssumption DEF Flits, BufferStates
<1>2. CASE f.head
  <2> DEFINE t == TakeBuffer(b, f.vc)
  <2>1. /\ t.occupancy = b.occupancy /\ t.lastId = b.lastId
        /\ t.inUse = [b.inUse EXCEPT ![f.vc] = TRUE]
        /\ t.tailSent = [b.tailSent EXCEPT ![f.vc] = FALSE]
        /\ t.error = (b.error \/ b.inUse[f.vc])
    BY DEF TakeBuffer
  <2> HIDE DEF t
  <2>2. Sent(b, f) = SendingFlit(t, f) /\ ~t.error /\ t.inUse[f.vc] /\ ~t.tailSent[f.vc]
    BY <1>1, <1>2, <2>1 DEF Sent, t
  <2>3. ~SendingFlit(t, f).error
    BY <1>1, <2>1, <2>2 DEF SendingFlit
  <2>4. SendingFlit(t, f).inUse = [b.inUse EXCEPT ![f.vc] = ~Frees(f)]
    BY <1>1, <2>1 DEF SendingFlit, Frees
  <2>5. SendingFlit(t, f).tailSent = [b.tailSent EXCEPT ![f.vc] = f.tail]
    BY <1>1, <2>1 DEF SendingFlit
  <2>6. SendingFlit(t, f).lastId = [b.lastId EXCEPT ![f.vc] = f.id]
    BY <2>1 DEF SendingFlit
  <2>7. QED
    BY <2>2, <2>3, <2>4, <2>5, <2>6
<1>3. CASE ~f.head
  BY <1>1, <1>3 DEF Sent, SendingFlit
<1>4. QED
  BY <1>2, <1>3

\* What a credit does to the buffer state when it is due.
LEMMA CreditBuffer ==
  ASSUME NEW b \in BufferStates, ~b.error, credit \in VCs \cup {NoVC},
         credit # NoVC => /\ b.occupancy[credit] > 0
                          /\ WaitForTailCredit => b.inUse[credit]
  PROVE  LET c == AfterCredit(b)
         IN  /\ ~c.error /\ c.tailSent = b.tailSent /\ c.lastId = b.lastId
             /\ \A v \in VCs :
                  c.inUse[v] = (b.inUse[v] /\ ~(credit = v /\ Drained(b, v)))
<1>1. CASE credit = NoVC
  <2>1. \A v \in VCs : credit # v
    BY <1>1, SlaveAssumption
  <2>2. b.inUse \in [VCs -> BOOLEAN]
    BY DEF BufferStates
  <2>3. QED
    BY <1>1, <2>1, <2>2 DEF AfterCredit
<1>2. CASE credit \in VCs
  <2>1. AfterCredit(b) = ProcessCredit(b, credit) /\ credit # NoVC
    BY <1>2, SlaveAssumption DEF AfterCredit
  <2>2. b.occupancy[credit] \in Int /\ b.inUse \in [VCs -> BOOLEAN]
    BY <1>2 DEF BufferStates
  <2>3. ~ProcessCredit(b, credit).error
    BY <2>1, <2>2 DEF ProcessCredit
  <2>4. \A v \in VCs : ProcessCredit(b, credit).inUse[v]
                         = (b.inUse[v] /\ ~(credit = v /\ Drained(b, v)))
    BY <1>2, <2>2 DEF ProcessCredit
  <2>5. ProcessCredit(b, credit).tailSent = b.tailSent /\ ProcessCredit(b, credit).lastId = b.lastId
    BY DEF ProcessCredit
  <2>6. QED
    BY <2>1, <2>3, <2>4, <2>5
<1>3. QED
  BY <1>1, <1>2

\* Before a flit is injected, the first flit stays the same, except that a head
\* may become the first.
LEMMA FirstFlitStays ==
  ASSUME TypeOK, StreamInv, InputInterface \/ InputPacketization
  PROVE  \/ FirstFlit' = FirstFlit
         \/ /\ InputInterface /\ txFifo = <<>> /\ pktCycle' = 0
            /\ FirstFlit = NoFlit /\ FirstFlit' \in {NoFlit, NextMade'}
            /\ ~InPacket(FirstFlit) /\ ~InPacket(FirstFlit)'
<1>1. injReg' = injReg
  BY DEF InputInterface, InputPacketization
<1>2. CASE injReg # NoFlit \/ injFifo # <<>>
  <2>1. injFifo # <<>> => injFifo' # <<>> /\ injFifo'[1] = injFifo[1]
    <3>1. CASE UNCHANGED injFifo
      BY <3>1
    <3>2. ASSUME NEW f \in Flits, injFifo' = Append(injFifo, f)
          PROVE  injFifo # <<>> => injFifo' # <<>> /\ injFifo'[1] = injFifo[1]
      <4>1. Len(injFifo') = Len(injFifo) + 1 /\ Len(injFifo) \in Nat
        BY <3>2 DEF TypeOK
      <4>2. injFifo # <<>> => injFifo'[1] = injFifo[1]
        BY <3>2 DEF TypeOK
      <4>3. QED
        BY <4>1, <4>2
    <3>3. CASE InputPacketization /\ txFifo # <<>> /\ Len(injFifo) < InjectionDepth
      <4>1. injFifo' = Append(injFifo, FlitOf(Head(txFifo), pktCycle))
        BY <3>3 DEF InputPacketization, MakeFlit, Packetize
      <4>2. FlitOf(Head(txFifo), pktCycle) \in Flits
        BY <3>3, FlitOfType DEF TypeOK
      <4>3. QED
        BY <3>2, <4>1, <4>2
    <3>4. QED
      BY <3>1, <3>3 DEF InputInterface, InputPacketization, MakeFlit
  <2>2. QED
    BY <1>1, <1>2, <2>1 DEF FirstFlit
<1>3. CASE injReg = NoFlit /\ injFifo = <<>> /\ InputInterface
  <2>1. injFifo' = <<>> /\ pktCycle' = pktCycle
    BY <1>3 DEF InputInterface
  <2>2. CASE txFifo = <<>>
    <3>1. pktCycle' = 0 /\ ~InPacket(FirstFlit)
      BY <1>3, <2>1, <2>2 DEF StreamInv, QueuesInv, InPacket, FirstFlit
    <3>2. \A tx : FlitOf(tx, 0).head
      BY DEF FlitOf
    <3>3. ~InPacket(FirstFlit)'
      BY <1>1, <1>3, <2>1, <3>1, <3>2 DEF InPacket, FirstFlit, NextMade
    <3>4. FirstFlit = NoFlit /\ FirstFlit' \in {NoFlit, NextMade'}
      BY <1>1, <1>3, <2>1, <2>2 DEF FirstFlit
    <3>5. QED
      BY <1>3, <2>2, <3>1, <3>3, <3>4
  <2>3. CASE txFifo # <<>>
    <3>1. txFifo' # <<>> /\ txFifo'[1] = txFifo[1]
      <4>1. CASE UNCHANGED txFifo
        BY <2>3, <4>1
      <4>2. ASSUME NEW tx, txFifo' = Append(txFifo, tx)
            PROVE  txFifo' # <<>> /\ txFifo'[1] = txFifo[1]
        <5>1. Len(txFifo') = Len(txFifo) + 1 /\ Len(txFifo) \in Nat
          BY <4>2 DEF TypeOK
        <5>2. txFifo'[1] = txFifo[1]
          BY <2>3, <4>2 DEF TypeOK
        <5>3. QED
          BY <5>1, <5>2
      <4>3. QED
        BY <1>3, <4>1, <4>2 DEF InputInterface, TakeTransaction
    <3>2. QED
      BY <1>1, <1>3, <2>1, <2>3, <3>1 DEF FirstFlit, NextMade
  <2>4. QED
    BY <2>2, <2>3
<1>4. CASE injReg = NoFlit /\ injFifo = <<>> /\ InputPacketization
  <2>1. CASE txFifo = <<>>
    <3>1. UNCHANGED <<injFifo, txFifo, pktCycle>>
      BY <1>4, <2>1 DEF InputPacketization, MakeFlit
    <3>2. QED
      BY <1>1, <3>1 DEF FirstFlit, NextMade
  <2>2. CASE txFifo # <<>>
    <3>1. Len(injFifo) < InjectionDepth /\ Head(txFifo) = txFifo[1]
      BY <1>4, <2>2, SlaveAssumption DEF TypeOK
    <3>2. injFifo' = <<NextMade>>
      BY <1>4, <2>2, <3>1 DEF InputPacketization, MakeFlit, Packetize, NextMade
    <3>3. FirstFlit = NextMade /\ injFifo' # <<>> /\ injFifo'[1] = NextMade
      BY <1>4, <2>2, <3>2 DEF FirstFlit
    <3>4. QED
      BY <1>1, <1>4, <3>3 DEF FirstFlit
  <2>3. QED
    BY <2>1, <2>2
<1>5. QED
  BY <1>2, <1>3, <1>4

LEMMA NextMadeType ==
  ASSUME TypeOK, txFifo # <<>>
  PROVE  NextMade \in Flits /\ NextMade # NoFlit
<1>1. txFifo[1] \in Transactions /\ pktCycle \in Nat
  BY DEF TypeOK
<1>2. QED
  BY <1>1, FlitOfType, SlaveAssumption DEF NextMade

LEMMA FirstFlitType ==
  ASSUME TypeOK
  PROVE  FirstFlit \in Flits \cup {NoFlit}
<1>1. injFifo # <<>> => injFifo[1] \in Flits
  BY DEF TypeOK
<1>2. QED
  BY <1>1, NextMadeType DEF FirstFlit, TypeOK

\* When a flit is injected, the next one becomes the first.
LEMMA FirstFlitInjected ==
  ASSUME TypeOK, StreamInv, InputInjection
  PROVE  IF CanInject(NextFlit)
         THEN /\ FirstFlit = NextFlit /\ NextFlit \in Flits
              /\ IF FirstFlit' = NoFlit THEN NextFlit.tail /\ NextFlit.id = numTx
                                        ELSE Follows(NextFlit, FirstFlit')
         ELSE FirstFlit' = FirstFlit
<1>1. InjectFlit /\ UNCHANGED <<txFifo, pktCycle, numTx>>
  BY DEF InputInjection
<1>2. CASE injReg # NoFlit
  <2>1. NextFlit = injReg /\ injFifo' = injFifo /\ FirstFlit = injReg
    BY <1>1, <1>2 DEF InjectFlit, NextFlit, FirstFlit
  <2>2. CASE CanInject(NextFlit)
    <3>1. injReg' = NoFlit
      BY <1>1, <2>2 DEF InjectFlit
    <3>2. CASE injFifo # <<>>
      <4>1. FirstFlit' = injFifo[1] /\ injFifo[1] \in Flits /\ injReg \in Flits
        BY <1>2, <2>1, <3>1, <3>2 DEF FirstFlit, TypeOK
      <4>2. Follows(injReg, injFifo[1])
        BY <1>2, <3>2 DEF StreamInv, FlitsInv
      <4>3. QED
        BY <2>1, <2>2, <4>1, <4>2, SlaveAssumption
    <3>3. CASE injFifo = <<>>
      <4>1. MadeLast(injReg)
        BY <1>2, <3>3 DEF StreamInv, FlitsInv
      <4>2. FirstFlit' = IF txFifo # <<>> THEN NextMade ELSE NoFlit
        BY <1>1, <2>1, <3>1, <3>3 DEF FirstFlit, NextMade
      <4>3. QED
        BY <1>2, <2>1, <2>2, <4>1, <4>2, NextMadeType, NextFlitType DEF MadeLast
    <3>4. QED
      BY <3>2, <3>3
  <2>3. CASE ~CanInject(NextFlit)
    BY <1>1, <1>2, <2>1, <2>3 DEF InjectFlit, FirstFlit
  <2>4. QED
    BY <2>2, <2>3
<1>3. CASE injReg = NoFlit /\ injFifo # <<>>
  <2>1. /\ NextFlit = injFifo[1] /\ injFifo' = Tail(injFifo)
        /\ FirstFlit = injFifo[1] /\ injFifo[1] \in Flits
    BY <1>1, <1>3 DEF InjectFlit, NextFlit, FirstFlit, TypeOK
  <2>2. CASE CanInject(NextFlit)
    <3>1. injReg' = NoFlit
      BY <1>1, <2>2 DEF InjectFlit
    <3>2. /\ Len(injFifo') = Len(injFifo) - 1 /\ Len(injFifo) \in Nat \ {0}
          /\ \A k \in 1 .. Len(injFifo') : injFifo'[k] = injFifo[k + 1]
      BY <1>3, <2>1 DEF TypeOK
    <3>3. CASE injFifo' # <<>>
      <4>1. injFifo' \in Seq(Flits)
        BY <1>3, <2>1 DEF TypeOK
      <4>2. Len(injFifo') >= 1
        BY <3>3, <4>1
      <4>3. injFifo'[1] = injFifo[2] /\ Follows(injFifo[1], injFifo[2])
        BY <3>2, <4>2 DEF StreamInv, FlitsInv
      <4>4. FirstFlit' = injFifo'[1] /\ injFifo'[1] \in Flits
        BY <3>1, <3>3, <4>1, <4>2 DEF FirstFlit
      <4>5. QED
        BY <2>1, <2>2, <4>3, <4>4, SlaveAssumption
    <3>4. CASE injFifo' = <<>>
      <4>1. Len(injFifo) = 1
        BY <3>2, <3>4
      <4>2. MadeLast(injFifo[1])
        BY <1>3, <4>1 DEF StreamInv, FlitsInv
      <4>3. FirstFlit' = IF txFifo # <<>> THEN NextMade ELSE NoFlit
        BY <1>1, <3>1, <3>4 DEF FirstFlit, NextMade
      <4>4. QED
        BY <2>1, <2>2, <4>2, <4>3, NextMadeType DEF MadeLast
    <3>5. QED
      BY <3>3, <3>4
  <2>3. CASE ~CanInject(NextFlit)
    <3>1. injReg' = injFifo[1] /\ injReg' # NoFlit
      BY <1>1, <2>1, <2>3, SlaveAssumption DEF InjectFlit
    <3>2. QED
      BY <2>1, <2>3, <3>1 DEF FirstFlit
  <2>4. QED
    BY <2>2, <2>3
<1>4. CASE injReg = NoFlit /\ injFifo = <<>>
  <2>1. NextFlit = NoFlit /\ ~CanInject(NextFlit)
    BY <1>4 DEF NextFlit, CanInject
  <2>2. injReg' = injReg /\ injFifo' = injFifo
    BY <1>1, <1>4, <2>1 DEF InjectFlit
  <2>3. QED
    BY <1>1, <2>1, <2>2 DEF FirstFlit, NextMade
<1>5. QED
  BY <1>2, <1>3, <1>4

LEMMA SendKeepsWorm ==
  ASSUME NEW b \in BufferStates, NEW f \in Flits, Worm(b, f),
         b.occupancy[f.vc] < VcBufSize,
         f.head /\ WaitForTailCredit => ~b.inUse[f.vc],
         NEW g, IF g = NoFlit THEN f.tail ELSE Follows(f, g)
  PROVE  Worm(Sent(b, f), g)
<1> DEFINE c == Sent(b, f)
<1>1. f # NoFlit /\ f.vc \in VCs /\ f.tail \in BOOLEAN
  BY SlaveAssumption DEF Flits
<1>2. IF f.head THEN ~b.inUse[f.vc] ELSE b.inUse[f.vc] /\ ~b.tailSent[f.vc]
  BY <1>1 DEF Worm, InPacket
<1>3. /\ ~c.error
      /\ c.inUse = [b.inUse EXCEPT ![f.vc] = ~Frees(f)]
      /\ c.tailSent = [b.tailSent EXCEPT ![f.vc] = f.tail]
      /\ c.lastId = [b.lastId EXCEPT ![f.vc] = f.id]
  BY <1>2, SentBuffer DEF Worm
<1>4. \A v \in VCs : c.occupancy[v] = b.occupancy[v] + (IF f.vc = v THEN 1 ELSE 0)
  BY SentOccupancy
<1>5. /\ b.inUse \in [VCs -> BOOLEAN] /\ b.tailSent \in [VCs -> BOOLEAN]
      /\ b.lastId \in [VCs -> Int] /\ b.occupancy \in [VCs -> Int]
  BY DEF BufferStates
<1> HIDE DEF c
<1>6. ASSUME InPacket(g)
      PROVE  c.inUse[g.vc] /\ ~c.tailSent[g.vc] /\ c.lastId[g.vc] = g.id
  <2>1. ~f.tail /\ g.vc = f.vc /\ g.id = f.id
    BY <1>6 DEF InPacket, Follows
  <2>2. QED
    BY <1>1, <1>3, <1>5, <2>1 DEF Frees
<1>7. ASSUME NEW v \in VCs, WaitForTailCredit, c.occupancy[v] > 0 PROVE c.inUse[v]
  <2>1. CASE v = f.vc
    BY <1>1, <1>3, <1>5, <1>7, <2>1 DEF Frees
  <2>2. CASE v # f.vc
    <3>1. b.occupancy[v] > 0
      BY <1>4, <1>5, <1>7, <2>2
    <3>2. b.inUse[v]
      BY <1>7, <3>1 DEF Worm
    <3>3. QED
      BY <1>1, <1>3, <1>5, <2>2, <3>2
  <2>3. QED
    BY <2>1, <2>2
<1>8. ASSUME NEW v \in VCs, ~WaitForTailCredit, c.inUse[v] PROVE InPacket(g) /\ g.vc = v
  <2>1. v = f.vc /\ ~f.tail
    BY <1>1, <1>3, <1>5, <1>8 DEF Worm, Frees
  <2>2. QED
    BY <2>1 DEF InPacket, Follows
<1>9. QED
  BY <1>3, <1>6, <1>7, <1>8 DEF Worm, c

LEMMA CreditKeepsWorm ==
  ASSUME NEW b \in BufferStates, NEW f \in Flits \cup {NoFlit}, Worm(b, f),
         credit \in VCs \cup {NoVC}, credit # NoVC => b.occupancy[credit] > 0
  PROVE  Worm(AfterCredit(b), f)
<1> DEFINE c == AfterCredit(b)
<1>1. credit # NoVC /\ WaitForTailCredit => b.inUse[credit]
  BY DEF Worm
<1>2. /\ ~c.error /\ c.tailSent = b.tailSent /\ c.lastId = b.lastId
      /\ \A v \in VCs :
           c.inUse[v] = (b.inUse[v] /\ ~(credit = v /\ Drained(b, v)))
  BY <1>1, CreditBuffer DEF Worm
<1>3. \A v \in VCs : c.occupancy[v] = b.occupancy[v] - (IF credit = v THEN 1 ELSE 0)
  BY CreditOccupancy
<1>4. b.occupancy \in [VCs -> Int] /\ (f # NoFlit => f.vc \in VCs)
  BY DEF BufferStates, Flits
<1> HIDE DEF c
<1>5. InPacket(f) => c.inUse[f.vc] /\ ~c.tailSent[f.vc] /\ c.lastId[f.vc] = f.id
  BY <1>2, <1>4 DEF Worm, InPacket, Drained
<1>6. ASSUME NEW v \in VCs, WaitForTailCredit, c.occupancy[v] > 0 PROVE c.inUse[v]
  <2>1. b.occupancy[v] > 0 /\ ~(credit = v /\ b.occupancy[v] = 1)
    BY <1>3, <1>4, <1>6
  <2>2. b.inUse[v]
    BY <1>6, <2>1 DEF Worm
  <2>3. QED
    BY <1>2, <2>1, <2>2 DEF Drained
<1>7. ASSUME NEW v \in VCs, ~WaitForTailCredit, c.inUse[v] PROVE InPacket(f) /\ f.vc = v
  BY <1>2, <1>7 DEF Worm
<1>8. QED
  BY <1>2, <1>5, <1>6, <1>7 DEF Worm, c

LEMMA WormInit == Init => WormInv
BY SlaveAssumption DEF Init, WormInv, Worm, FirstFlit, InPacket, EmptyBuffer

LEMMA WormStep ==
  TypeOK /\ OrderInv /\ StreamInv /\ CreditsConserved /\ WormInv /\ [Next]_vars
    => WormInv'
<1>1. SUFFICES ASSUME TypeOK, OrderInv, StreamInv, CreditsConserved, WormInv, [Next]_vars
               PROVE  WormInv'
  OBVIOUS
<1>2. ASSUME UNCHANGED <<bufState, injReg, injFifo, txFifo, pktCycle>> PROVE WormInv'
  BY <1>1, <1>2 DEF WormInv, Worm, FirstFlit, NextMade, InPacket
<1>3. CASE \E S \in SUBSET Clocks : ClockEdge(S)
  BY <1>2, <1>3 DEF ClockEdge
<1>4. CASE InputReady
  BY <1>2, <1>4 DEF InputReady
<1>5. CASE InputInterface \/ InputPacketization
  <2>1. bufState' = bufState
    BY <1>5 DEF InputInterface, InputPacketization
  <2>2. CASE FirstFlit' = FirstFlit
    BY <1>1, <2>1, <2>2 DEF WormInv, Worm, InPacket
  <2>3. CASE ~InPacket(FirstFlit) /\ ~InPacket(FirstFlit)'
    BY <1>1, <2>1, <2>3 DEF WormInv, Worm, InPacket
  <2>4. QED
    BY <1>1, <1>5, <2>2, <2>3, FirstFlitStays
<1>6. CASE InputInjection
  <2>1. CreditDue /\ inject = NoFlit
    BY <1>1, <1>6
    DEF OrderInv, InputInjection, Run, TickOrder, CreditDue, InjectionFirst
  <2>2. /\ bufState \in BufferStates /\ credit \in VCs \cup {NoVC}
        /\ bufState.occupancy \in [VCs -> Int] /\ VcBufSize \in Int
    BY <1>1, BufferAssumption DEF TypeOK, BufferStates
  <2>3. credit # NoVC => bufState.occupancy[credit] > 0
    BY <1>1, <2>1, <2>2 DEF CreditsConserved, InChannel, TypeOK
  <2>4. CASE CanInject(NextFlit)
    <3>1. PICK f, g, c : f = NextFlit /\ g = FirstFlit' /\ c = Sent(bufState, f)
      OBVIOUS
    <3>2. /\ f = FirstFlit /\ f \in Flits
          /\ IF g = NoFlit THEN f.tail ELSE Follows(f, g)
      BY <1>1, <1>6, <2>4, <3>1, FirstFlitInjected
    <3>3. f.vc \in VCs /\ f # NoFlit
      BY <3>2, SlaveAssumption DEF Flits
    <3>4. /\ bufState.occupancy[f.vc] < VcBufSize
          /\ f.head /\ WaitForTailCredit => ~bufState.inUse[f.vc]
      BY <2>2, <2>4, <3>1, <3>3 DEF CanInject, IsFullFor, IsAvailableFor
    <3>5. Worm(c, g)
      BY <1>1, <2>2, <3>1, <3>2, <3>4, SendKeepsWorm DEF WormInv
    <3>6. c \in BufferStates
      BY <1>1, <3>1, <3>2, InjectedBufferType
    <3>7. credit # NoVC => c.occupancy[credit] > 0
      BY <2>2, <2>3, <3>1, <3>2, SentOccupancy
    <3>8. g \in Flits \cup {NoFlit}
      <4>1. TypeOK'
        BY <1>1, TypeStep
      <4>2. injFifo' # <<>> => injFifo'[1] \in Flits
        BY <4>1 DEF TypeOK
      <4>3. txFifo' # <<>> => NextMade' \in Flits
        <5>1. txFifo' # <<>> => txFifo'[1] \in Transactions
          BY <4>1 DEF TypeOK
        <5>2. pktCycle' \in Nat
          BY <4>1 DEF TypeOK
        <5>3. QED
          BY <5>1, <5>2, FlitOfType DEF NextMade
      <4>4. QED
        BY <3>1, <4>1, <4>2, <4>3 DEF FirstFlit, TypeOK
    <3>9. Worm(AfterCredit(c), g)
      BY <2>2, <3>5, <3>6, <3>7, <3>8, CreditKeepsWorm
    <3>10. bufState' = AfterCredit(c)
      BY <1>6, <2>4, <3>1 DEF InputInjection, InjectFlit
    <3>11. QED
      BY <3>1, <3>9, <3>10 DEF WormInv
  <2>5. CASE ~CanInject(NextFlit)
    <3>1. PICK g : g = FirstFlit
      OBVIOUS
    <3>2. FirstFlit' = g /\ g \in Flits \cup {NoFlit}
      BY <1>1, <1>6, <2>5, <3>1, FirstFlitInjected, FirstFlitType
    <3>3. Worm(AfterCredit(bufState), g)
      BY <1>1, <2>2, <2>3, <3>1, <3>2, CreditKeepsWorm DEF WormInv
    <3>4. bufState' = AfterCredit(bufState)
      BY <1>6, <2>5 DEF InputInjection, InjectFlit
    <3>5. QED
      BY <3>2, <3>3, <3>4 DEF WormInv
  <2>6. QED
    BY <2>4, <2>5
<1>7. CASE Tick
  BY <1>2, <1>7 DEF Tick
<1>8. CASE UNCHANGED vars
  BY <1>2, <1>8 DEF vars
<1>9. QED
  BY <1>1, <1>3, <1>4, <1>5, <1>6, <1>7, <1>8 DEF Next

LEMMA BufferInvariants == Spec => [](OrderInv /\ CreditsConserved /\ StreamInv /\ WormInv)
<1>1. TypeOK /\ OrderInv /\ CreditsConserved /\ StreamInv /\ WormInv /\ [Next]_vars
        => OrderInv' /\ CreditsConserved' /\ StreamInv' /\ WormInv'
  BY OrderStep, CreditsStep, StreamStep, WormStep
<1>2. Init => OrderInv /\ CreditsConserved /\ StreamInv /\ WormInv
  BY OrderInit, CreditsInit, StreamInit, WormInit
<1>3. QED
  BY <1>1, <1>2, TypeCorrect, PTL DEF Spec

\* BookSim's Error() and the assertions of BufferState are never reached from
\* the adapter, with and without wait_for_tail_credit: no VC is taken while in
\* use, no buffer of the router overflows, no credit comes for an idle VC.
THEOREM BufferNeverFails == Spec => []NoBufferError
<1>1. WormInv => NoBufferError
  BY DEF WormInv, Worm, NoBufferError
<1>2. QED
  BY <1>1, BufferInvariants, PTL

\* A flit goes out only into an empty inject channel, a head only on a VC that no
\* packet holds, any other flit only on the VC that its own packet holds.
THEOREM InjectionIsWormhole == Spec => WormholeInjection
<1> DEFINE OnItsVc ==
      inject' # inject /\ inject' # NoFlit =>
         /\ inject = NoFlit
         /\ IF inject'.head
            THEN ~bufState.inUse[inject'.vc]
            ELSE /\ bufState.inUse[inject'.vc]
                 /\ bufState.lastId[inject'.vc] = inject'.id
<1>1. TypeOK /\ OrderInv /\ StreamInv /\ WormInv /\ [Next]_vars => OnItsVc
  <2>1. SUFFICES ASSUME TypeOK, OrderInv, StreamInv, WormInv, [Next]_vars,
                        inject' # inject, inject' # NoFlit
                 PROVE  OnItsVc
    OBVIOUS
  <2>2. InputInjection /\ CanInject(NextFlit)
    BY <2>1 DEF Next, vars, ClockEdge, InputReady, InputInterface,
                InputPacketization, InputInjection, InjectFlit, Tick
  <2>3. inject = NoFlit
    BY <2>1, <2>2 DEF OrderInv, InputInjection, Run, TickOrder, InjectionFirst
  <2>4. PICK f : f = NextFlit
    OBVIOUS
  <2>5. f = FirstFlit /\ f \in Flits
    BY <2>1, <2>2, <2>4, FirstFlitInjected
  <2>6. f # NoFlit /\ f.vc \in VCs
    BY <2>5, SlaveAssumption DEF Flits
  <2>7. inject' = BooksimFlit(f)
    BY <2>2, <2>4 DEF InputInjection, InjectFlit
  <2>8. inject'.head = f.head /\ inject'.vc = f.vc /\ inject'.id = f.id
    BY <2>7 DEF BooksimFlit
  <2>9. CASE f.head
    <3>1. ~bufState.inUse[f.vc]
      BY <2>1, <2>2, <2>4, <2>5, <2>6, <2>9
      DEF WormInv, Worm, InPacket, CanInject, IsAvailableFor
    <3>2. QED
      BY <2>3, <2>8, <2>9, <3>1
  <2>10. CASE ~f.head
    <3>1. bufState.inUse[f.vc] /\ bufState.lastId[f.vc] = f.id
      BY <2>1, <2>5, <2>6, <2>10 DEF WormInv, Worm, InPacket
    <3>2. QED
      BY <2>3, <2>8, <2>10, <3>1
  <2>11. QED
    BY <2>9, <2>10
<1>2. TypeOK /\ OrderInv /\ StreamInv /\ WormInv /\ [Next]_vars => [OnItsVc]_vars
  BY <1>1
<1>3. QED
  BY <1>2, BufferInvariants, TypeCorrect, PTL DEF Spec, WormholeInjection

(***************************************************************************)
(* What the rest of the path sees of the adapter.  A transaction is in it  *)
(* once, by its record, its flits or both, under a number that was given   *)
(* at its acceptance, and its flits are numbered as packets are.           *)
(***************************************************************************)
WellMade(f) == (f.head <=> f.seq = 0) /\ f.seq < 255 /\ (~f.tail => f.seq + 1 < 255)

ContentsInv ==
  /\ \A f \in MadeFlits : WellMade(f)
  /\ \A a \in Contents : a.id \in 1 .. numTx
  /\ \A a, b \in Contents : a.id = b.id => a = b

\* The bound on the transactions is kept because an offer takes one of them.
Offered == {i \in Interfaces : offer[i] # NoTx}
OffersInv == numTx + Cardinality(Offered) <= MaxTx

Tags == [id : Nat, vc : VCs, dest : Dests, tid : Tids]

LEMMA RangeAppend ==
  ASSUME NEW S, NEW s \in Seq(S), NEW x \in S
  PROVE  Range(Append(s, x)) = Range(s) \cup {x}
<1>1. /\ DOMAIN s = 1 .. Len(s) /\ DOMAIN Append(s, x) = 1 .. Len(s) + 1 /\ Len(s) \in Nat
      /\ \A k \in 1 .. Len(s) : Append(s, x)[k] = s[k]
      /\ Append(s, x)[Len(s) + 1] = x
  OBVIOUS
<1>2. ASSUME NEW y \in Range(Append(s, x)) PROVE y \in Range(s) \cup {x}
  <2>1. PICK k \in 1 .. Len(s) + 1 : y = Append(s, x)[k]
    BY <1>1 DEF Range
  <2>2. k \in 1 .. Len(s) \/ k = Len(s) + 1
    BY <1>1
  <2>3. QED
    BY <1>1, <2>1, <2>2 DEF Range
<1>3. ASSUME NEW y \in Range(s) PROVE y \in Range(Append(s, x))
  <2>1. PICK k \in 1 .. Len(s) : y = s[k]
    BY <1>1 DEF Range
  <2>2. k \in 1 .. Len(s) + 1
    BY <1>1
  <2>3. QED
    BY <1>1, <2>1, <2>2 DEF Range
<1>4. x \in Range(Append(s, x))
  <2>1. Len(s) + 1 \in 1 .. Len(s) + 1
    BY <1>1
  <2>2. QED
    BY <1>1, <2>1 DEF Range
<1>5. QED
  BY <1>2, <1>3, <1>4

LEMMA RangeTail ==
  ASSUME NEW S, NEW s \in Seq(S), s # <<>>
  PROVE  Range(s) = {s[1]} \cup Range(Tail(s)) /\ s[1] \in S
<1>1. /\ DOMAIN s = 1 .. Len(s) /\ Len(s) \in Nat \ {0}
      /\ DOMAIN Tail(s) = 1 .. Len(s) - 1
      /\ \A k \in 1 .. Len(s) - 1 : Tail(s)[k] = s[k + 1]
  OBVIOUS
<1>2. ASSUME NEW y \in Range(s) PROVE y \in {s[1]} \cup Range(Tail(s))
  <2>1. PICK k \in 1 .. Len(s) : y = s[k]
    BY <1>1 DEF Range
  <2>2. CASE k = 1
    BY <2>1, <2>2
  <2>3. CASE k # 1
    <3>1. k - 1 \in 1 .. Len(s) - 1 /\ (k - 1) + 1 = k
      BY <1>1, <2>3
    <3>2. Tail(s)[k - 1] = y
      BY <1>1, <2>1, <3>1
    <3>3. QED
      BY <1>1, <3>1, <3>2 DEF Range
  <2>4. QED
    BY <2>2, <2>3
<1>3. ASSUME NEW y \in Range(Tail(s)) PROVE y \in Range(s)
  <2>1. PICK k \in 1 .. Len(s) - 1 : y = Tail(s)[k]
    BY <1>1 DEF Range
  <2>2. y = s[k + 1] /\ k + 1 \in 1 .. Len(s)
    BY <1>1, <2>1
  <2>3. QED
    BY <1>1, <2>2 DEF Range
<1>4. 1 \in 1 .. Len(s)
  BY <1>1
<1>5. s[1] \in Range(s)
  BY <1>1, <1>4 DEF Range
<1>6. QED
  BY <1>2, <1>3, <1>4, <1>5

LEMMA TagOfMade ==
  ASSUME NEW tx \in Transactions, NEW k \in Nat
  PROVE  /\ Tag(FlitOf(tx, k)) = Tag(FlitOf(tx, 0))
         /\ Tag(FlitOf(tx, k)).id = tx.id
BY DEF Tag, FlitOf

LEMMA ContentsType ==
  ASSUME TypeOK
  PROVE  /\ MadeFlits \subseteq Flits
         /\ Range(txFifo) \subseteq Transactions
         /\ Contents \subseteq Tags
<1>1. Range(injFifo) \subseteq Flits /\ Range(txFifo) \subseteq Transactions
  BY DEF TypeOK, Range
<1>2. MadeFlits \subseteq Flits
  BY <1>1 DEF MadeFlits, TypeOK
<1>3. \A f \in Flits : Tag(f) \in Tags
  BY DEF Tag, Flits, Tags
<1>4. \A tx \in Transactions : Tag(FlitOf(tx, 0)) \in Tags
  BY <1>3, FlitOfType
<1>5. QED
  BY <1>1, <1>2, <1>3, <1>4 DEF Contents

\* The first flit is in the adapter, and is numbered as the flits made are.
LEMMA FirstInContents ==
  ASSUME TypeOK, StreamInv, ContentsInv, FirstFlit # NoFlit
  PROVE  FirstFlit \in Flits /\ Tag(FirstFlit) \in Contents /\ WellMade(FirstFlit)
<1>1. CASE injReg # NoFlit \/ injFifo # <<>>
  <2>1. injFifo # <<>> => injFifo[1] \in Range(injFifo) /\ injFifo[1] \in Flits
    BY RangeTail DEF TypeOK
  <2>2. FirstFlit \in MadeFlits
    BY <1>1, <2>1, SlaveAssumption DEF FirstFlit, MadeFlits
  <2>3. QED
    BY <2>2, ContentsType DEF ContentsInv, Contents
<1>2. CASE ~(injReg # NoFlit \/ injFifo # <<>>)
  <2>1. txFifo # <<>> /\ FirstFlit = NextMade
    BY <1>2 DEF FirstFlit
  <2>2. txFifo[1] \in Range(txFifo) /\ txFifo[1] \in Transactions
    BY <2>1, RangeTail DEF TypeOK
  <2>3. Tag(FirstFlit) \in Contents
    BY <2>1, <2>2, TagOfMade DEF NextMade, Contents, TypeOK
  <2>4. pktCycle \in Nat /\ pktCycle <= LastFlit(txFifo[1])
    BY <2>1 DEF TypeOK, StreamInv, QueuesInv
  <2>5. LastFlit(txFifo[1]) \in 0 .. 254
    BY <2>2, SlaveAssumption DEF LastFlit, Transactions
  <2>6. /\ FirstFlit.seq = pktCycle /\ (FirstFlit.head <=> pktCycle = 0)
        /\ (FirstFlit.tail <=> pktCycle = LastFlit(txFifo[1]))
    BY <2>1, Zenon DEF NextMade, FlitOf
  <2>7. WellMade(FirstFlit)
    BY <2>4, <2>5, <2>6 DEF WellMade
  <2>8. QED
    BY <2>1, <2>3, <2>7, NextMadeType
<1>3. QED
  BY <1>1, <1>2

\* Accepting a transaction adds it under the next number.
LEMMA AcceptContents ==
  ASSUME TypeOK, InputInterface
  PROVE  /\ MadeFlits' = MadeFlits
         /\ \/ numTx' = numTx /\ Contents' = Contents
            \/ /\ numTx' = numTx + 1
               /\ \E w \in Tags : w.id = numTx + 1 /\ Contents' = Contents \cup {w}
<1>1. MadeFlits' = MadeFlits
  BY DEF InputInterface, MadeFlits
<1>2. CASE UNCHANGED <<numTx, txFifo>>
  BY <1>1, <1>2 DEF Contents
<1>3. ASSUME NEW i \in Interfaces, Taken(i),
             numTx' = numTx + 1,
             txFifo' = Append(txFifo, [id    |-> numTx + 1, iface |-> i,
                                       dest  |-> offer[i].dest,
                                       tid   |-> offer[i].tid])
      PROVE  \E w \in Tags : w.id = numTx + 1 /\ Contents' = Contents \cup {w}
  <2>1. offer[i] \in Offers
    BY <1>3 DEF Taken, Handshake, TypeOK
  <2>2. PICK tx \in Transactions :
          tx = [id |-> numTx + 1, iface |-> i, dest |-> offer[i].dest, tid |-> offer[i].tid]
    <3>1. [id |-> numTx + 1, iface |-> i, dest |-> offer[i].dest, tid |-> offer[i].tid]
            \in Transactions
      BY <2>1 DEF TypeOK, Offers, Transactions
    <3>2. QED
      BY <3>1
  <2>3. Range(txFifo') = Range(txFifo) \cup {tx}
    BY <1>3, <2>2, RangeAppend DEF TypeOK
  <2>4. Contents' = Contents \cup {Tag(FlitOf(tx, 0))}
    BY <1>1, <2>3 DEF Contents
  <2>5. Tag(FlitOf(tx, 0)) \in Tags
    BY <2>2, FlitOfType DEF Tag, Flits, Tags
  <2>6. Tag(FlitOf(tx, 0)).id = numTx + 1
    <3>1. tx.id = numTx + 1
      BY <2>2
    <3>2. QED
      BY <3>1, TagOfMade
  <2>7. QED
    BY <2>4, <2>5, <2>6
<1>4. QED
  BY <1>1, <1>2, <1>3 DEF InputInterface, TakeTransaction

\* Making a flit moves a transaction, which stays in the adapter.
LEMMA PacketizeContents ==
  ASSUME TypeOK, StreamInv, InputPacketization
  PROVE  /\ numTx' = numTx /\ Contents' = Contents
         /\ \/ MadeFlits' = MadeFlits
            \/ txFifo # <<>> /\ MadeFlits' = MadeFlits \cup {NextMade}
<1>1. numTx' = numTx /\ injReg' = injReg
  BY DEF InputPacketization
<1>2. CASE UNCHANGED <<injFifo, txFifo>>
  BY <1>1, <1>2 DEF MadeFlits, Contents
<1>3. CASE txFifo # <<>> /\ Packetize(txFifo[1])
  <2>1. injFifo' = Append(injFifo, NextMade) /\ NextMade \in Flits /\ NextMade # NoFlit
    BY <1>3, NextMadeType DEF Packetize, NextMade
  <2>2. MadeFlits' = MadeFlits \cup {NextMade}
    BY <1>1, <2>1, RangeAppend DEF MadeFlits, TypeOK
  <2>3. /\ Range(txFifo) = {txFifo[1]} \cup Range(Tail(txFifo))
        /\ txFifo[1] \in Transactions /\ pktCycle \in Nat
    BY <1>3, RangeTail DEF TypeOK
  <2>4. Tag(NextMade) = Tag(FlitOf(txFifo[1], 0))
    BY <2>3, TagOfMade DEF NextMade
  <2>5. Range(txFifo') \in {Range(txFifo), Range(Tail(txFifo))}
    BY <1>3 DEF Packetize
  <2>6. Contents' = {Tag(f) : f \in MadeFlits \cup {NextMade}}
                      \cup {Tag(FlitOf(tx, 0)) : tx \in Range(txFifo')}
    BY <2>2 DEF Contents
  <2>7. Contents' = Contents
    BY <2>3, <2>4, <2>5, <2>6 DEF Contents
  <2>8. QED
    BY <1>1, <1>3, <2>2, <2>7
<1>4. QED
  <2>1. txFifo # <<>> => Head(txFifo) = txFifo[1]
    BY DEF TypeOK
  <2>2. QED
    BY <1>2, <1>3, <2>1 DEF InputPacketization, MakeFlit

\* Injection takes the first flit, if any, and leaves the others.
LEMMA InjectContents ==
  ASSUME TypeOK, InputInjection
  PROVE  /\ numTx' = numTx /\ Range(txFifo') = Range(txFifo)
         /\ IF CanInject(NextFlit)
            THEN /\ NextFlit \in MadeFlits
                 /\ MadeFlits' \subseteq MadeFlits
                 /\ MadeFlits \subseteq MadeFlits' \cup {NextFlit}
            ELSE MadeFlits' = MadeFlits
<1>1. InjectFlit /\ UNCHANGED <<numTx, txFifo>>
  BY DEF InputInjection
<1>2. CASE injReg = NoFlit /\ injFifo # <<>>
  <2>1. /\ injFifo' = Tail(injFifo) /\ NextFlit = injFifo[1] /\ injFifo[1] \in Flits
        /\ Range(injFifo) = {injFifo[1]} \cup Range(Tail(injFifo))
    BY <1>1, <1>2, RangeTail DEF InjectFlit, NextFlit, TypeOK
  <2>2. MadeFlits = Range(injFifo) \ {NoFlit}
    BY <1>2 DEF MadeFlits
  <2>3. MadeFlits' = ({injReg'} \cup Range(Tail(injFifo))) \ {NoFlit}
    BY <2>1 DEF MadeFlits
  <2>4. IF CanInject(NextFlit) THEN injReg' = NoFlit ELSE injReg' = NextFlit
    BY <1>1 DEF InjectFlit
  <2>5. NextFlit # NoFlit
    BY <2>1, SlaveAssumption
  <2>6. QED
    BY <1>1, <2>1, <2>2, <2>3, <2>4, <2>5
<1>3. CASE ~(injReg = NoFlit /\ injFifo # <<>>)
  <2>1. injFifo' = injFifo /\ NextFlit = injReg
    BY <1>1, <1>3 DEF InjectFlit, NextFlit
  <2>2. IF CanInject(NextFlit) THEN injReg' = NoFlit /\ injReg # NoFlit ELSE injReg' = injReg
    BY <1>1, <2>1 DEF InjectFlit, CanInject
  <2>3. QED
    BY <1>1, <2>1, <2>2 DEF MadeFlits
<1>4. QED
  BY <1>2, <1>3

\* So at most the transaction of that flit leaves the adapter.
LEMMA ContentsInjected ==
  ASSUME TypeOK, InputInjection
  PROVE  IF CanInject(NextFlit)
         THEN Contents' \subseteq Contents /\ Contents \subseteq Contents' \cup {Tag(NextFlit)}
         ELSE Contents' = Contents
<1>1. Contents' = {Tag(f) : f \in MadeFlits'} \cup {Tag(FlitOf(tx, 0)) : tx \in Range(txFifo)}
  BY InjectContents DEF Contents
<1>2. QED
  BY <1>1, InjectContents DEF Contents

LEMMA ContentsInit == Init => ContentsInv
<1>1. SUFFICES ASSUME Init PROVE ContentsInv
  OBVIOUS
<1>2. Range(<<>>) = {}
  BY DEF Range
<1>3. MadeFlits = {} /\ Range(txFifo) = {}
  BY <1>1, <1>2 DEF Init, MadeFlits
<1>4. Contents = {}
  BY <1>3 DEF Contents
<1>5. QED
  BY <1>3, <1>4 DEF ContentsInv

LEMMA ContentsStep == TypeOK /\ StreamInv /\ ContentsInv /\ [Next]_vars => ContentsInv'
<1>1. SUFFICES ASSUME TypeOK, StreamInv, ContentsInv, [Next]_vars PROVE ContentsInv'
  OBVIOUS
<1>2. numTx \in Nat /\ Contents \subseteq Tags
  BY <1>1, ContentsType DEF TypeOK
<1>3. ASSUME MadeFlits' = MadeFlits, Contents' = Contents, numTx' = numTx PROVE ContentsInv'
  BY <1>1, <1>3 DEF ContentsInv, WellMade
<1>4. ASSUME UNCHANGED <<injReg, injFifo, txFifo, numTx>> PROVE ContentsInv'
  BY <1>3, <1>4 DEF MadeFlits, Contents
<1>5. CASE \E S \in SUBSET Clocks : ClockEdge(S)
  BY <1>4, <1>5 DEF ClockEdge
<1>6. CASE InputReady
  BY <1>4, <1>6 DEF InputReady
<1>7. CASE InputInterface
  <2>1. ASSUME NEW w \in Tags, w.id = numTx + 1, Contents' = Contents \cup {w},
               MadeFlits' = MadeFlits, numTx' = numTx + 1
        PROVE  ContentsInv'
    <3>1. \A a \in Contents : a.id \in 1 .. numTx /\ a.id # w.id
      BY <1>1, <1>2, <2>1 DEF ContentsInv
    <3>2. \A a \in Contents' : a.id \in 1 .. numTx'
      BY <1>2, <2>1, <3>1
    <3>3. \A a, b \in Contents' : a.id = b.id => a = b
      BY <1>1, <2>1, <3>1 DEF ContentsInv
    <3>4. \A f \in MadeFlits' : WellMade(f)
      BY <1>1, <2>1 DEF ContentsInv
    <3>5. QED
      BY <3>2, <3>3, <3>4 DEF ContentsInv, WellMade
  <2>2. QED
    BY <1>1, <1>3, <1>7, <2>1, AcceptContents
<1>8. CASE InputPacketization
  <2>1. CASE txFifo # <<>> /\ MadeFlits' = MadeFlits \cup {NextMade}
    <3>1. WellMade(NextMade)
      <4>1. txFifo[1] \in Transactions
        BY <1>1, <2>1 DEF TypeOK
      <4>2. LastFlit(txFifo[1]) \in 0 .. 254
        BY <4>1, SlaveAssumption DEF LastFlit, Transactions
      <4>3. pktCycle \in Nat /\ pktCycle <= LastFlit(txFifo[1])
        BY <1>1, <2>1 DEF TypeOK, StreamInv, QueuesInv
      <4>4. /\ NextMade.seq = pktCycle /\ (NextMade.head <=> pktCycle = 0)
            /\ (NextMade.tail <=> pktCycle = LastFlit(txFifo[1]))
        BY Zenon DEF NextMade, FlitOf
      <4>5. QED
        BY <4>2, <4>3, <4>4 DEF WellMade
    <3>2. \A f \in MadeFlits' : WellMade(f)
      BY <1>1, <2>1, <3>1 DEF ContentsInv
    <3>3. Contents' = Contents /\ numTx' = numTx
      BY <1>1, <1>8, PacketizeContents
    <3>4. QED
      BY <1>1, <3>2, <3>3 DEF ContentsInv, WellMade
  <2>2. QED
    BY <1>1, <1>3, <1>8, <2>1, PacketizeContents
<1>9. CASE InputInjection
  <2>1. MadeFlits' \subseteq MadeFlits /\ Range(txFifo') = Range(txFifo) /\ numTx' = numTx
    BY <1>1, <1>9, InjectContents
  <2>2. Contents' \subseteq Contents
    BY <2>1 DEF Contents
  <2>3. QED
    BY <1>1, <2>1, <2>2 DEF ContentsInv, WellMade
<1>10. CASE Tick
  BY <1>4, <1>10 DEF Tick
<1>11. CASE UNCHANGED vars
  BY <1>4, <1>11 DEF vars
<1>12. QED
  BY <1>1, <1>5, <1>6, <1>7, <1>8, <1>9, <1>10, <1>11 DEF Next

LEMMA OffersInit == Init => OffersInv
<1>1. SUFFICES ASSUME Init PROVE OffersInv
  OBVIOUS
<1>2. Offered = {} /\ numTx = 0
  BY <1>1 DEF Init, Offered
<1>3. QED
  BY <1>2, FS_EmptySet, SlaveAssumption DEF OffersInv

LEMMA OffersStep == TypeOK /\ OffersInv /\ [Next]_vars => OffersInv'
<1>1. SUFFICES ASSUME TypeOK, OffersInv, [Next]_vars PROVE OffersInv'
  OBVIOUS
<1>2. ASSUME UNCHANGED <<offer, numTx>> PROVE OffersInv'
  BY <1>1, <1>2 DEF OffersInv, Offered
<1>3. CASE InputInterface
  <2>1. /\ Interfaces = 0 .. NumInterfaces - 1 /\ NumInterfaces \in Nat \ {0}
        /\ MaxTx \in Nat /\ numTx \in Nat
    BY <1>1, SlaveAssumption DEF Interfaces, TypeOK
  <2>2. IsFiniteSet(Interfaces) /\ Cardinality(Interfaces) = NumInterfaces
    BY <2>1, FS_Interval
  <2>3. /\ Offered \subseteq Interfaces /\ IsFiniteSet(Offered)
        /\ Cardinality(Offered) \in Nat
        /\ Offered' \subseteq Interfaces /\ IsFiniteSet(Offered')
        /\ Cardinality(Offered') <= NumInterfaces /\ Cardinality(Offered') \in Nat
    BY <2>2, FS_Subset, FS_CardinalityType DEF Offered
  <2>4. \A i \in Interfaces :
          IF offer[i] # NoTx /\ ~tready[i] THEN offer'[i] = offer[i]
          ELSE offer'[i] # NoTx => numTx' + NumInterfaces <= MaxTx
    BY <1>3 DEF InputInterface, TakeTransaction, ModuleStep
  <2>5. CASE numTx' + NumInterfaces <= MaxTx
    <3>1. numTx' \in Nat
      BY <1>1, TypeStep DEF TypeOK
    <3>2. numTx' + Cardinality(Offered') <= numTx' + NumInterfaces
      BY <2>1, <2>3, <3>1
    <3>3. numTx' + Cardinality(Offered') \in Int /\ numTx' + NumInterfaces \in Int
      BY <2>1, <2>3, <3>1
    <3>4. numTx' + Cardinality(Offered') <= MaxTx
      BY <2>1, <2>5, <3>2, <3>3
    <3>5. QED
      BY <3>4 DEF OffersInv
  <2>6. CASE ~(numTx' + NumInterfaces <= MaxTx)
    <3>1. \A i \in Offered' : i \in Offered /\ ~tready[i]
      BY <2>4, <2>6 DEF Offered
    <3>2. Offered' \subseteq Offered
      BY <3>1
    <3>3. CASE numTx' = numTx
      <4>1. Cardinality(Offered') <= Cardinality(Offered)
        BY <2>3, <3>2, FS_Subset
      <4>2. QED
        BY <1>1, <2>1, <2>3, <3>3, <4>1 DEF OffersInv
    <3>4. CASE numTx' = numTx + 1 /\ \E i \in Interfaces : Taken(i)
      <4>1. PICK i \in Interfaces : tready[i] /\ i \in Offered
        BY <3>4 DEF Taken, Handshake, Offered
      <4>2. Offered' \subseteq Offered \ {i}
        BY <3>1, <4>1
      <4>3. IsFiniteSet(Offered \ {i}) /\ Cardinality(Offered \ {i}) = Cardinality(Offered) - 1
        BY <2>3, <4>1, FS_RemoveElement
      <4>4. Cardinality(Offered') <= Cardinality(Offered) - 1
        BY <4>2, <4>3, FS_Subset
      <4>5. QED
        BY <1>1, <2>1, <2>3, <3>4, <4>4 DEF OffersInv
    <3>5. QED
      BY <1>3, <3>3, <3>4 DEF InputInterface, TakeTransaction
  <2>7. QED
    BY <2>5, <2>6
<1>4. QED
  BY <1>1, <1>2, <1>3
  DEF Next, vars, ClockEdge, InputReady, InputPacketization, InputInjection, Tick

LEMMA NumbersBounded == TypeOK /\ OffersInv => numTx <= MaxTx
<1>1. SUFFICES ASSUME TypeOK, OffersInv PROVE numTx <= MaxTx
  OBVIOUS
<1>2. Interfaces = 0 .. NumInterfaces - 1 /\ NumInterfaces \in Nat \ {0}
  BY SlaveAssumption DEF Interfaces
<1>3. IsFiniteSet(Interfaces)
  BY <1>2, FS_Interval
<1>4. Cardinality(Offered) \in Nat
  BY <1>3, FS_Subset, FS_CardinalityType DEF Offered
<1>5. numTx \in Nat /\ MaxTx \in Nat
  BY <1>1, SlaveAssumption DEF TypeOK
<1>6. QED
  BY <1>1, <1>4, <1>5 DEF OffersInv

\* What AxisNoc needs of this adapter: all its invariants.
AdapterInv ==
  TypeOK /\ OrderInv /\ CreditsConserved /\ StreamInv /\ ContentsInv /\ OffersInv

LEMMA AdapterCorrect == Spec => []AdapterInv
<1>1. TypeOK /\ StreamInv /\ ContentsInv /\ OffersInv /\ [Next]_vars => ContentsInv' /\ OffersInv'
  BY ContentsStep, OffersStep
<1>2. Init => ContentsInv /\ OffersInv
  BY ContentsInit, OffersInit
<1>3. QED
  BY <1>1, <1>2, TypeCorrect, BufferInvariants, PTL DEF Spec, AdapterInv

LEMMA FirstInContentsNext ==
  (TypeOK /\ StreamInv /\ ContentsInv /\ FirstFlit # NoFlit => Tag(FirstFlit) \in Contents)'
<1>1. TypeOK /\ StreamInv /\ ContentsInv /\ FirstFlit # NoFlit => Tag(FirstFlit) \in Contents
  BY FirstInContents
<1>2. QED
  BY <1>1, PTL

LEMMA StartedBounded ==
  ASSUME TypeOK, StreamInv, ContentsInv
  PROVE  Started \in 0 .. numTx
<1>1. numTx \in Nat
  BY DEF TypeOK
<1>2. CASE FirstFlit = NoFlit
  BY <1>1, <1>2 DEF Started
<1>3. CASE FirstFlit # NoFlit
  <2>1. FirstFlit.id \in 1 .. numTx
    BY <1>3, FirstInContents DEF ContentsInv, Tag
  <2>2. QED
    BY <1>1, <1>3, <2>1 DEF Started
<1>4. QED
  BY <1>2, <1>3

\* Until its head is injected, a transaction is not started.
LEMMA StartedKept ==
  ASSUME TypeOK, StreamInv, InputInterface \/ InputPacketization
  PROVE  /\ Started' = Started
         /\ \/ FirstFlit' = FirstFlit
            \/ ~InPacket(FirstFlit) /\ ~InPacket(FirstFlit)'
<1>1. CASE FirstFlit' = FirstFlit /\ FirstFlit # NoFlit
  BY <1>1 DEF Started
<1>2. CASE FirstFlit' = FirstFlit /\ FirstFlit = NoFlit
  <2>1. txFifo' = <<>>
    <3>1. CASE txFifo' # <<>>
      <4>1. TypeOK'
        BY TypeStep DEF Next
      <4>2. injFifo' # <<>> => injFifo'[1] \in Flits
        BY <4>1 DEF TypeOK
      <4>3. NextMade' = NoFlit
        BY <1>2, <3>1, <4>2, SlaveAssumption DEF FirstFlit
      <4>4. txFifo'[1] \in Transactions /\ pktCycle' \in Nat
        BY <3>1, <4>1 DEF TypeOK
      <4>5. NextMade' \in Flits
        BY <4>4, FlitOfType DEF NextMade
      <4>6. QED
        BY <4>3, <4>5, SlaveAssumption
    <3>2. QED
      BY <3>1
  <2>2. numTx' = numTx
    <3>1. \A tx : txFifo' # Append(txFifo, tx)
      <4>1. \A tx : Len(Append(txFifo, tx)) = Len(txFifo) + 1 /\ Len(txFifo) \in Nat
        BY DEF TypeOK
      <4>2. QED
        BY <2>1, <4>1
    <3>2. QED
      BY <3>1 DEF InputInterface, TakeTransaction, InputPacketization
  <2>3. QED
    BY <1>2, <2>2 DEF Started
<1>3. ASSUME InputInterface, txFifo = <<>>, pktCycle' = 0, FirstFlit = NoFlit,
             FirstFlit' = NextMade', FirstFlit' # NoFlit
      PROVE  Started' = Started
  <2>1. PICK f : f = FirstFlit'
    OBVIOUS
  <2>2. f.head
    <3>1. \A tx : FlitOf(tx, 0).head
      BY DEF FlitOf
    <3>2. QED
      BY <1>3, <2>1, <3>1 DEF NextMade
  <2>3. f.id = numTx + 1 /\ numTx \in Nat
    <3>1. CASE txFifo' = <<>>
      <4>1. FirstFlit' = NoFlit
        BY <1>3, <3>1 DEF FirstFlit, InputInterface
      <4>2. QED
        BY <1>3, <4>1
    <3>2. ASSUME NEW tx, txFifo' = Append(txFifo, tx), tx.id = numTx + 1
          PROVE  f.id = numTx + 1
      <4>1. txFifo'[1] = tx
        BY <1>3, <3>2
      <4>2. QED
        BY <1>3, <2>1, <3>2, <4>1 DEF NextMade, FlitOf
    <3>3. CASE txFifo' = txFifo
      BY <1>3, <3>1, <3>3
    <3>4. QED
      BY <1>3, <3>1, <3>2, <3>3 DEF InputInterface, TakeTransaction, TypeOK
  <2>4. Started' = f.id - 1 /\ Started = numTx
    BY <1>3, <2>1, <2>2 DEF Started
  <2>5. QED
    BY <2>3, <2>4
<1>4. QED
  BY <1>1, <1>2, <1>3, FirstFlitStays

\* An injection starts the transaction of the flit, if it is a head, and
\* leaves its packet open, if it is no tail.
LEMMA InjectStarted ==
  ASSUME TypeOK, StreamInv, ContentsInv, ContentsInv', InputInjection
  PROVE  IF CanInject(NextFlit)
         THEN /\ FirstFlit = NextFlit /\ FirstFlit # NoFlit /\ Started' = FirstFlit.id
              /\ IF FirstFlit.tail THEN ~InPacket(FirstFlit)'
                 ELSE /\ InPacket(FirstFlit)'
                      /\ FirstFlit'.seq = FirstFlit.seq + 1
                      /\ Tag(FirstFlit)' = Tag(FirstFlit)
         ELSE FirstFlit' = FirstFlit /\ Started' = Started
<1>1. CASE CanInject(NextFlit)
  <2>1. PICK f, g : f = FirstFlit /\ g = FirstFlit'
    OBVIOUS
  <2>2. /\ f = NextFlit /\ f \in Flits
        /\ IF g = NoFlit THEN f.tail /\ f.id = numTx ELSE Follows(f, g)
    BY <1>1, <2>1, FirstFlitInjected
  <2>3. f # NoFlit /\ f.id \in Nat
    BY <2>2, SlaveAssumption DEF Flits
  <2>4. Started' = IF g = NoFlit THEN numTx ELSE IF g.head THEN g.id - 1 ELSE g.id
    BY <2>1 DEF Started, InputInjection
  <2>5. Started' = f.id
    <3>1. CASE g = NoFlit
      BY <2>2, <2>4, <3>1
    <3>2. CASE g # NoFlit /\ f.tail
      BY <2>2, <2>3, <2>4, <3>2 DEF Follows
    <3>3. CASE g # NoFlit /\ ~f.tail
      BY <2>2, <2>4, <3>3 DEF Follows
    <3>4. QED
      BY <3>1, <3>2, <3>3
  <2>6. CASE f.tail
    BY <1>1, <2>1, <2>2, <2>3, <2>5, <2>6 DEF InPacket, Follows
  <2>7. CASE ~f.tail
    <3>1. g # NoFlit /\ ~g.head /\ g.seq = f.seq + 1 /\ g.id = f.id
      BY <2>2, <2>7 DEF Follows
    <3>2. TypeOK' /\ StreamInv'
      BY TypeStep, StreamStep DEF Next
    <3>3. Tag(g) \in Contents'
      BY <2>1, <3>1, <3>2, FirstInContentsNext
    <3>4. Tag(f) \in Contents
      BY <2>1, <2>3, FirstInContents
    <3>5. Contents' \subseteq Contents
      BY InjectContents DEF Contents
    <3>6. Tag(g).id = Tag(f).id
      BY <3>1 DEF Tag
    <3>7. Tag(g) = Tag(f)
      BY <3>3, <3>4, <3>5, <3>6 DEF ContentsInv
    <3>8. InPacket(FirstFlit)' /\ Tag(FirstFlit)' = Tag(FirstFlit)
      BY <2>1, <3>1, <3>7 DEF InPacket, Tag
    <3>9. QED
      BY <1>1, <2>1, <2>2, <2>3, <2>5, <2>7, <3>1, <3>8
  <2>8. QED
    BY <2>6, <2>7
<1>2. CASE ~CanInject(NextFlit)
  BY <1>2, FirstFlitInjected DEF Started, InputInjection
<1>3. QED
  BY <1>1, <1>2

=============================================================================
