---------------------------- MODULE AxisNocProofs ----------------------------
(***************************************************************************)
(* Theorems about AxisNoc: its parts behave as their own specifications    *)
(* say, and together they are a reliable FIFO channel per flow.  What is   *)
(* proved about the parts is used as it stands: SP is the slave adapter    *)
(* with its theorems, EP the way out of the NoC with its own.              *)
(***************************************************************************)
EXTENDS AxisNoc, WellFoundedInduction, TLAPS

SP == INSTANCE AxisSlaveAdapterProofs WITH
        pending <- pending \cap SlaveThreads,
        held    <- [v \in 0 .. NumVCs - 1 |-> Len(rbuf[v])]

EP == INSTANCE AxisEgressProofs WITH
        pending       <- pending \cap EgressThreads,
        numTx         <- Slave!Started,
        sending       <- [v \in VCs |-> SendingOn(v)],
        Nodes         <- {Slave!DestNode(d) : d \in Dests},
        Lengths       <- [n \in 1 .. MaxTx |-> 1 .. 255],
        AdapterSlower <- TRUE,
        NoPacket      <- NoTx

(***************************************************************************)
(* The assumptions of the parts.                                           *)
(***************************************************************************)
LEMMA SlaveConstants == SP!SlaveAssumption /\ SP!BufferAssumption
<1>1. SP!SlaveAssumption
  BY NocAssumption
  DEF Slave!VCs, Slave!Flits, Slave!BooksimFlits, Slave!Interfaces, Slave!Offers,
      SP!VCs, SP!Flits, SP!BooksimFlits, SP!Interfaces, SP!Offers
<1>2. SP!BufferAssumption
  BY NocAssumption
<1>3. QED
  BY <1>1, <1>2

(***************************************************************************)
(* The slave adapter.                                                      *)
(***************************************************************************)
BuffersTyped == rbuf \in [VCs -> Seq(SP!BooksimFlits)]

LEMMA SameBodies ==
  /\ Slave!ReadyValues = SP!ReadyValues
  /\ Slave!TakeTransaction <=> SP!TakeTransaction
  /\ Slave!MakeFlit <=> SP!MakeFlit
  /\ Slave!InjectFlit <=> SP!InjectFlit
<1>1. Slave!ReadyValues = SP!ReadyValues
  BY DEF Slave!ReadyValues, SP!ReadyValues, Slave!FirstValid, SP!FirstValid,
         Slave!Interfaces, SP!Interfaces
<1>2. Slave!TakeTransaction <=> SP!TakeTransaction
  BY DEF Slave!TakeTransaction, SP!TakeTransaction, Slave!Taken, SP!Taken,
         Slave!Handshake, SP!Handshake, Slave!ModuleStep, SP!ModuleStep,
         Slave!Interfaces, SP!Interfaces, Slave!Offers, SP!Offers
<1>3. Slave!MakeFlit <=> SP!MakeFlit
  BY DEF Slave!MakeFlit, SP!MakeFlit, Slave!Packetize, SP!Packetize,
         Slave!FlitOf, SP!FlitOf, Slave!LastFlit, SP!LastFlit
<1>4. Slave!InjectFlit <=> SP!InjectFlit
  BY DEF Slave!InjectFlit, SP!InjectFlit, Slave!NextFlit, SP!NextFlit,
         Slave!CanInject, SP!CanInject, Slave!IsFullFor, SP!IsFullFor,
         Slave!IsAvailableFor, SP!IsAvailableFor, Slave!BooksimFlit, SP!BooksimFlit,
         Slave!DestNode, SP!DestNode, Slave!AfterCredit, SP!AfterCredit,
         Slave!Sent, SP!Sent, Slave!ProcessCredit, SP!ProcessCredit,
         Slave!SendingFlit, SP!SendingFlit, Slave!TakeBuffer, SP!TakeBuffer,
         Slave!Drained, SP!Drained, Slave!Frees, SP!Frees
<1>5. QED
  BY <1>1, <1>2, <1>3, <1>4

LEMMA SlaveInit == Init => SP!Init /\ BuffersTyped
<1>1. SUFFICES ASSUME Init PROVE SP!Init /\ BuffersTyped
  OBVIOUS
<1>2. [v \in 0 .. NumVCs - 1 |-> Len(rbuf[v])] = [v \in SP!VCs |-> 0]
  BY <1>1 DEF Init, Noc!NocInit, Noc!VCs, SP!VCs
<1>3. BuffersTyped
  BY <1>1 DEF Init, Noc!NocInit, VCs, BuffersTyped
<1>4. SP!EmptyBuffer = Noc!EmptyBuffer
  BY DEF SP!EmptyBuffer, Noc!EmptyBuffer, SP!VCs, Noc!VCs, SP!NoId, Noc!NoId
<1>5. QED
  BY <1>1, <1>2, <1>3, <1>4 DEF Init, SP!Init, Noc!NocInit, Interfaces, Slave!Interfaces, SP!Interfaces

\* A thread of the adapter runs as it would alone.
LEMMA SlaveRun ==
  ASSUME NEW t \in SlaveThreads, Master!Run(t)
  PROVE  SP!Run(t)
BY DEF Master!Run, SP!Run

LEMMA SlaveThread ==
  /\ InputInterface => SP!InputInterface
  /\ InputPacketization => SP!InputPacketization
  /\ InputInjection => SP!InputInjection
<1>1. ASSUME InputInterface PROVE SP!InputInterface
  <2>1. SP!Run("InputInterface")
    BY <1>1, SlaveRun DEF InputInterface, SlaveThreads
  <2>2. QED
    BY <1>1, <2>1, SameBodies DEF InputInterface, SP!InputInterface, linkVars, routerVars
<1>2. ASSUME InputPacketization PROVE SP!InputPacketization
  <2>1. SP!Run("InputPacketization")
    BY <1>2, SlaveRun DEF InputPacketization, SlaveThreads
  <2>2. QED
    BY <1>2, <2>1, SameBodies
    DEF InputPacketization, SP!InputPacketization, linkVars, routerVars
<1>3. ASSUME InputInjection PROVE SP!InputInjection
  <2>1. SP!Run("InputInjection")
    BY <1>3, SlaveRun DEF InputInjection, SlaveThreads
  <2>2. SP!TickOrder("InputInjection")
    BY <1>3 DEF InputInjection, Master!TickOrder, SP!TickOrder
  <2>3. QED
    BY <1>3, <2>1, <2>2, SameBodies DEF InputInjection, SP!InputInjection, routerVars
<1>4. QED
  BY <1>1, <1>2, <1>3

\* The other threads leave those of the adapter alone.
LEMMA OthersRun ==
  ASSUME NEW t, t \notin SlaveThreads, Master!Run(t)
  PROVE  (pending \cap SlaveThreads)' = pending \cap SlaveThreads
BY DEF Master!Run

\* An edge of clocks of the design wakes the threads of the clocks that the
\* adapter has among them.
LEMMA SlaveEdge ==
  ASSUME NEW S \in SUBSET AllClocks, ClockEdge(S)
  PROVE  \E T \in SUBSET SP!Clocks : SP!ClockEdge(T)
<1> DEFINE T == {c \in SP!Clocks : SP!Threads[c] \subseteq Woken(S)}
<1>1. UNION {SP!Threads[c] : c \in T} = Woken(S) \cap SlaveThreads
  <2>1. ClockOf["InputInjection"] = ClockOf["Tick"]
    BY NocAssumption
  <2>2. \A t \in SlaveThreads : t \in Woken(S) <=> ClockOf[t] \in S
    BY DEF Woken, Threads
  <2>3. {"InputInjection", "Tick"} \subseteq SlaveThreads
    BY DEF SlaveThreads
  <2>4. "InputInjection" \in Woken(S) <=> "Tick" \in Woken(S)
    BY <2>1, <2>2, <2>3
  <2>5. /\ SP!Clocks = {"node", "adapter", "noc"}
        /\ SP!Threads["node"] = {"InputInterface"}
        /\ SP!Threads["adapter"] = {"InputPacketization"}
        /\ SP!Threads["noc"] = {"InputInjection", "Tick"}
    BY DEF SP!Clocks, SP!Threads
  <2>6. ASSUME NEW t \in Woken(S) \cap SlaveThreads
        PROVE  \E c \in T : t \in SP!Threads[c]
    <3>1. CASE t = "InputInterface"
      <4>1. "node" \in T
        BY <2>5, <3>1
      <4>2. QED
        BY <2>5, <3>1, <4>1
    <3>2. CASE t = "InputPacketization"
      <4>1. "adapter" \in T
        BY <2>5, <3>2
      <4>2. QED
        BY <2>5, <3>2, <4>1
    <3>3. CASE t \in {"InputInjection", "Tick"}
      <4>1. "noc" \in T
        BY <2>4, <2>5, <3>3
      <4>2. QED
        BY <2>5, <3>3, <4>1
    <3>4. QED
      BY <3>1, <3>2, <3>3 DEF SlaveThreads
  <2>7. \A c \in T : SP!Threads[c] \subseteq Woken(S) \cap SlaveThreads
    BY <2>5 DEF SlaveThreads
  <2>8. QED
    BY <2>6, <2>7
<1>2. (pending \cap SlaveThreads)' = UNION {SP!Threads[c] : c \in T}
  BY <1>1 DEF ClockEdge
<1>3. pending \cap SlaveThreads = {}
  BY DEF ClockEdge
<1>4. T \in SUBSET SP!Clocks
  OBVIOUS
<1> HIDE DEF T
<1>5. SP!ClockEdge(T)
  BY <1>2, <1>3 DEF ClockEdge, SP!ClockEdge, slaveVars, linkVars, routerVars
<1>6. QED
  BY <1>4, <1>5

\* Tick takes a flit and returns a credit as the adapter's environment does.
LEMMA SlaveTick ==
  ASSUME BuffersTyped, SP!TypeOK, Tick
  PROVE  SP!Tick /\ BuffersTyped'
<1>1. VCs = 0 .. NumVCs - 1 /\ Noc!VCs = VCs /\ SP!VCs = VCs
  BY DEF VCs, Noc!VCs, SP!VCs
<1>2. inject \in SP!BooksimFlits \cup {NoFlit}
  BY DEF SP!TypeOK
<1>3. Noc!Buffered \in [VCs -> Seq(SP!BooksimFlits)]
  BY <1>1, <1>2 DEF Noc!Buffered, BuffersTyped
<1>4. \A v \in VCs : SP!Arrived[v] = Len(Noc!Buffered[v])
  <2>1. \A v \in VCs : Noc!Buffered[v] = IF inject # NoFlit /\ inject.vc = v
                                         THEN Append(rbuf[v], inject) ELSE rbuf[v]
    BY <1>1 DEF Noc!Buffered
  <2>2. \A v \in VCs : SP!Arrived[v] = IF inject # NoFlit /\ inject.vc = v
                                       THEN Len(rbuf[v]) + 1 ELSE Len(rbuf[v])
    BY <1>1 DEF SP!Arrived
  <2>3. \A v \in VCs : Len(Append(rbuf[v], inject)) = Len(rbuf[v]) + 1
    BY DEF BuffersTyped
  <2>4. QED
    BY <2>1, <2>2, <2>3
<1>5. SP!Run("Tick")
  BY SlaveRun DEF Tick, SlaveThreads
<1>6. \A t \in BeforeTick : t \notin pending \cap SlaveThreads
  BY DEF Tick
<1>7. inject' = NoFlit
  BY DEF Tick, Noc!NocCycle
<1>8. CASE Noc!NothingMoves
  <2>1. rbuf' = Noc!Buffered /\ credit' = NoVC
    BY <1>8 DEF Noc!NothingMoves
  <2>2. [v \in 0 .. NumVCs - 1 |-> Len(rbuf[v])]' = SP!Arrived
    BY <1>1, <1>4, <2>1 DEF SP!Arrived
  <2>3. QED
    BY <1>3, <1>5, <1>6, <1>7, <2>1, <2>2 DEF SP!Tick, Tick, slaveVars, BuffersTyped
<1>9. ASSUME NEW v \in VCs, Noc!Forward(v) PROVE SP!Tick /\ BuffersTyped'
  <2>1. /\ Noc!Buffered[v] # <<>> /\ credit' = v
        /\ rbuf' = [Noc!Buffered EXCEPT ![v] = Tail(@)]
    BY <1>9 DEF Noc!Forward, Noc!CanForward
  <2>2. /\ Noc!Buffered[v] \in Seq(SP!BooksimFlits)
        /\ Tail(Noc!Buffered[v]) \in Seq(SP!BooksimFlits)
        /\ Len(Noc!Buffered[v]) > 0
        /\ Len(Tail(Noc!Buffered[v])) = Len(Noc!Buffered[v]) - 1
    BY <1>3, <2>1
  <2>3. BuffersTyped'
    BY <1>3, <2>1, <2>2 DEF BuffersTyped
  <2>4. SP!Arrived[v] > 0
    BY <1>4, <2>2
  <2>5. [w \in 0 .. NumVCs - 1 |-> Len(rbuf[w])]' = [SP!Arrived EXCEPT ![v] = @ - 1]
    <3>1. ASSUME NEW w \in VCs
          PROVE  Len(rbuf'[w]) = [SP!Arrived EXCEPT ![v] = @ - 1][w]
      <4>1. SP!Arrived \in [VCs -> Nat]
        BY <1>1, <1>3, <1>4 DEF SP!Arrived
      <4>2. QED
        BY <1>3, <1>4, <2>1, <2>2, <4>1
    <3>2. DOMAIN SP!Arrived = VCs
      BY <1>1 DEF SP!Arrived
    <3>3. QED
      BY <1>1, <3>1, <3>2
  <2>6. QED
    BY <1>1, <1>5, <1>6, <1>7, <2>1, <2>3, <2>4, <2>5 DEF SP!Tick, Tick, slaveVars
<1>10. QED
  BY <1>1, <1>8, <1>9 DEF Tick, Noc!NocCycle

LEMMA SlaveStep ==
  BuffersTyped /\ SP!TypeOK /\ [Next]_vars => [SP!Next]_(SP!vars) /\ BuffersTyped'
<1>1. SUFFICES ASSUME BuffersTyped, SP!TypeOK, [Next]_vars
               PROVE  [SP!Next]_(SP!vars) /\ BuffersTyped'
  OBVIOUS
<1>2. rbuf' = rbuf => BuffersTyped'
  BY <1>1 DEF BuffersTyped
<1>3. ASSUME UNCHANGED <<settled, slaveVars, linkVars, rbuf>>,
             (pending \cap SlaveThreads)' = pending \cap SlaveThreads
      PROVE  UNCHANGED SP!vars
  BY <1>3 DEF SP!vars, slaveVars, linkVars
<1>4. ASSUME NEW S \in SUBSET AllClocks, ClockEdge(S)
      PROVE  [SP!Next]_(SP!vars) /\ BuffersTyped'
  BY <1>2, <1>4, SlaveEdge DEF SP!Next, ClockEdge, routerVars
<1>5. CASE Settle
  <2>1. SP!InputReady
    BY <1>5, SameBodies DEF Settle, SP!InputReady, linkVars, routerVars
  <2>2. QED
    BY <1>2, <1>5, <2>1 DEF SP!Next, Settle, routerVars
<1>6. CASE InputInterface
  BY <1>2, <1>6, SlaveThread DEF SP!Next, InputInterface, routerVars
<1>7. CASE InputPacketization
  BY <1>2, <1>7, SlaveThread DEF SP!Next, InputPacketization, routerVars
<1>8. CASE InputInjection
  BY <1>2, <1>8, SlaveThread DEF SP!Next, InputInjection, routerVars
<1>9. CASE Tick
  BY <1>1, <1>9, SlaveTick DEF SP!Next
<1>10. CASE OutputEjection \/ OutputDepacketization \/ OutputInterface
  <2>1. (pending \cap SlaveThreads)' = pending \cap SlaveThreads
    BY <1>10, OthersRun
    DEF OutputEjection, OutputDepacketization, OutputInterface, SlaveThreads,
        Master!OutputEjection, Master!OutputDepacketization, Master!OutputInterface
  <2>2. UNCHANGED <<settled, slaveVars, linkVars, rbuf>>
    BY <1>10 DEF OutputEjection, OutputDepacketization, OutputInterface
  <2>3. QED
    BY <1>2, <1>3, <2>1, <2>2
<1>11. CASE UNCHANGED vars
  BY <1>2, <1>3, <1>11 DEF vars, routerVars
<1>12. QED
  BY <1>1, <1>4, <1>5, <1>6, <1>7, <1>8, <1>9, <1>10, <1>11 DEF Next

LEMMA SlaveRefined == Spec => SP!Spec
<1>1. Init => SP!Init /\ BuffersTyped /\ SP!TypeOK
  BY SlaveInit, SlaveConstants, SP!TypeInit
<1>2. BuffersTyped /\ SP!TypeOK /\ [Next]_vars
        => [SP!Next]_(SP!vars) /\ BuffersTyped' /\ SP!TypeOK'
  BY SlaveStep, SlaveConstants, SP!TypeStep
<1>3. QED
  BY <1>1, <1>2, PTL DEF Spec, SP!Spec

(***************************************************************************)
(* The way out of the NoC.                                                 *)
(***************************************************************************)
LEMMA EgressConstants == EP!EgressAssumption
<1>1. EP!Master!MasterAssumption
  BY NocAssumption
  DEF EP!Master!MasterAssumption, Master!MasterAssumption, EP!Master!Outputs, Master!Outputs
<1>2. EP!VCs = SP!VCs /\ EP!Outputs = Outputs /\ VCs = SP!VCs
  BY DEF EP!VCs, EP!Noc!VCs, SP!VCs, EP!Outputs, EP!Master!Outputs, Outputs, Master!Outputs,
         VCs, Noc!VCs
<1>3. {Slave!DestNode(d) : d \in Dests} \subseteq Nat
  BY SlaveConstants DEF Slave!DestNode
<1>4. EP!Flits \subseteq [id : Nat, seq : Nat, head : BOOLEAN, tail : BOOLEAN, vc : VCs,
                          node : Nat, dest : Dests, tid : Outputs]
  BY <1>2, <1>3 DEF EP!Flits
<1>5. EP!Packets \subseteq [id : Nat, node : Nat, dest : Dests, tid : Outputs, next : Nat]
  BY <1>2, <1>3 DEF EP!Packets
<1>6. NoFlit \notin EP!Flits /\ NoTx \notin EP!Packets
  BY <1>4, <1>5, NocAssumption
<1>7. [n \in 1 .. MaxTx |-> 1 .. 255] \in [1 .. MaxTx -> SUBSET (Nat \ {0})]
  OBVIOUS
<1>8. QED
  BY <1>1, <1>2, <1>6, <1>7, SlaveConstants

\* The two ends agree on what the sender is doing.
LEMMA SameView ==
  /\ Slave!FirstFlit = SP!FirstFlit /\ Slave!Started = SP!Started
  /\ Slave!Contents = SP!Contents
<1>1. Slave!FirstFlit = SP!FirstFlit
  BY DEF Slave!FirstFlit, SP!FirstFlit, Slave!NextMade, SP!NextMade, Slave!FlitOf, SP!FlitOf,
         Slave!LastFlit, SP!LastFlit
<1>2. Slave!Started = SP!Started
  BY <1>1 DEF Slave!Started, SP!Started
<1>3. Slave!MadeFlits = SP!MadeFlits
  BY DEF Slave!MadeFlits, SP!MadeFlits, Slave!Range, SP!Range
<1>4. \A f : Slave!Tag(f) = SP!Tag(f)
  BY DEF Slave!Tag, SP!Tag
<1>5. \A tx : Slave!FlitOf(tx, 0) = SP!FlitOf(tx, 0)
  BY DEF Slave!FlitOf, SP!FlitOf, Slave!LastFlit, SP!LastFlit
<1>6. Slave!Contents = SP!Contents
  BY <1>3, <1>4, <1>5 DEF Slave!Contents, SP!Contents, Slave!Range, SP!Range
<1>7. QED
  BY <1>1, <1>2, <1>6

LEMMA SameViewNext ==
  /\ Slave!FirstFlit' = SP!FirstFlit' /\ Slave!Started' = SP!Started'
  /\ Slave!Contents' = SP!Contents'
<1>1. (/\ Slave!FirstFlit = SP!FirstFlit /\ Slave!Started = SP!Started
       /\ Slave!Contents = SP!Contents)'
  BY SameView, PTL
<1>2. QED
  BY <1>1

\* Nothing is injected: the sender is where it was.
LEMMA SourceKept ==
  ASSUME SP!Started' = SP!Started,
         \/ SP!FirstFlit' = SP!FirstFlit
         \/ ~SP!InPacket(SP!FirstFlit) /\ ~SP!InPacket(SP!FirstFlit)'
  PROVE  UNCHANGED EP!sourceVars
<1>1. ASSUME NEW v \in VCs PROVE SendingOn(v)' = SendingOn(v)
  BY SameView, SameViewNext, Zenon DEF SendingOn, PacketOf, SP!InPacket
<1>2. [v \in VCs |-> SendingOn(v)]' = [v \in VCs |-> SendingOn(v)]
  <2>1. VCs' = VCs
    BY DEF VCs, Noc!VCs
  <2>2. QED
    BY <1>1, <2>1
<1>3. QED
  BY <1>2, SameView, SameViewNext DEF EP!sourceVars

LEMMA QueuesKept ==
  ASSUME UNCHANGED <<injReg, injFifo, txFifo, pktCycle, numTx>>
  PROVE  UNCHANGED EP!sourceVars
<1>1. SP!FirstFlit' = SP!FirstFlit
  BY DEF SP!FirstFlit, SP!NextMade
<1>2. SP!Started' = SP!Started
  BY <1>1 DEF SP!Started
<1>3. QED
  BY <1>1, <1>2, SourceKept

LEMMA EgressRun ==
  ASSUME NEW t \in EgressThreads, Master!Run(t)
  PROVE  EP!Master!Run(t)
BY DEF Master!Run, EP!Master!Run

LEMMA EgressEdge ==
  ASSUME NEW S \in SUBSET AllClocks, ClockEdge(S)
  PROVE  \E T \in SUBSET EP!Clocks : EP!ClockEdge(T)
<1> DEFINE T == {c \in EP!Clocks : EP!Threads[c] \subseteq Woken(S)}
<1>1. /\ EP!Clocks = {"node", "adapter", "noc"}
      /\ EP!Threads["node"] = {"OutputInterface"}
      /\ EP!Threads["adapter"] = {"OutputDepacketization"}
      /\ EP!Threads["noc"] = {"InputInjection", "OutputEjection", "Tick"}
  BY DEF EP!Clocks, EP!Threads
<1>2. /\ "InputInjection" \in Woken(S) <=> "Tick" \in Woken(S)
      /\ "OutputEjection" \in Woken(S) <=> "Tick" \in Woken(S)
  <2>1. ClockOf["InputInjection"] = ClockOf["Tick"] /\ ClockOf["OutputEjection"] = ClockOf["Tick"]
    BY NocAssumption
  <2>2. {"InputInjection", "OutputEjection", "Tick"} \subseteq Threads
    BY DEF Threads, EgressThreads
  <2>3. QED
    BY <2>1, <2>2 DEF Woken
<1>3. /\ "adapter" \in T <=> "OutputDepacketization" \in Woken(S)
      /\ "noc" \in T <=> "Tick" \in Woken(S)
  BY <1>1, <1>2
<1>4. UNION {EP!Threads[c] : c \in T} = Woken(S) \cap EgressThreads
  <2>1. ASSUME NEW t \in Woken(S) \cap EgressThreads
        PROVE  \E c \in T : t \in EP!Threads[c]
    <3>1. CASE t = "OutputInterface"
      <4>1. "node" \in T
        BY <1>1, <3>1
      <4>2. QED
        BY <1>1, <3>1, <4>1
    <3>2. CASE t = "OutputDepacketization"
      <4>1. "adapter" \in T
        BY <1>1, <3>2
      <4>2. QED
        BY <1>1, <3>2, <4>1
    <3>3. CASE t \in {"InputInjection", "OutputEjection", "Tick"}
      <4>1. "noc" \in T
        BY <1>1, <1>2, <3>3
      <4>2. QED
        BY <1>1, <3>3, <4>1
    <3>4. QED
      BY <3>1, <3>2, <3>3 DEF EgressThreads
  <2>2. \A c \in T : EP!Threads[c] \subseteq Woken(S) \cap EgressThreads
    BY <1>1 DEF EgressThreads
  <2>3. QED
    BY <2>1, <2>2
<1>5. (pending \cap EgressThreads)' = UNION {EP!Threads[c] : c \in T}
  BY <1>4 DEF ClockEdge
<1>6. pending \cap EgressThreads = {}
  BY DEF ClockEdge
<1>7. T \in SUBSET EP!Clocks
  OBVIOUS
<1>8. UNCHANGED EP!sourceVars
  BY QueuesKept DEF ClockEdge, slaveVars
<1>9. UNCHANGED <<EP!nocVars, EP!masterVars>>
  BY DEF ClockEdge, linkVars, routerVars, masterVars, EP!nocVars, EP!masterVars
<1> HIDE DEF T
<1>10. EP!ClockEdge(T)
  BY <1>3, <1>5, <1>6, <1>8, <1>9 DEF ClockEdge, EP!ClockEdge
<1>11. QED
  BY <1>7, <1>10

\* A flit that leaves the slave adapter leaves the sender that the way out of
\* the NoC has in its environment: its packet goes on, or begins under the next
\* number, on a VC for which the network has a slot.
LEMMA FlitSent ==
  ASSUME SP!AdapterInv, SP!AdapterInv', BuffersTyped, InputInjection, SP!InputInjection,
         SP!CanInject(SP!NextFlit)
  PROVE  EP!Send
<1>1. /\ SP!TypeOK /\ SP!StreamInv /\ SP!ContentsInv /\ SP!ContentsInv' /\ SP!OffersInv
      /\ SP!CreditsConserved
  BY DEF SP!AdapterInv
<1>2. /\ SP!FirstFlit = SP!NextFlit /\ SP!FirstFlit # NoFlit
      /\ SP!Started' = SP!FirstFlit.id
      /\ IF SP!FirstFlit.tail THEN ~SP!InPacket(SP!FirstFlit)'
         ELSE /\ SP!InPacket(SP!FirstFlit)'
              /\ SP!FirstFlit'.seq = SP!FirstFlit.seq + 1
              /\ SP!Tag(SP!FirstFlit)' = SP!Tag(SP!FirstFlit)
  BY <1>1, SlaveConstants, SP!InjectStarted
<1>3. PICK f, g : f = SP!FirstFlit /\ g = SP!FirstFlit'
  OBVIOUS
<1>4. f \in SP!Flits /\ SP!WellMade(f) /\ SP!Tag(f) \in SP!Contents
  BY <1>1, <1>2, <1>3, SlaveConstants, SP!FirstInContents
<1>5. /\ f.id \in 1 .. MaxTx /\ f.seq \in Nat /\ f.head \in BOOLEAN /\ f.tail \in BOOLEAN
      /\ f.vc \in VCs /\ f.dest \in Dests /\ f.tid \in Outputs
  <2>1. f.id \in 1 .. numTx
    BY <1>1, <1>4 DEF SP!ContentsInv, SP!Tag
  <2>2. VCs = SP!VCs
    BY DEF VCs, Noc!VCs, SP!VCs
  <2>3. numTx \in Nat /\ numTx <= MaxTx /\ MaxTx \in Nat
    BY <1>1, SlaveConstants, SP!NumbersBounded DEF SP!TypeOK
  <2>4. f.id \in 1 .. MaxTx
    BY <2>1, <2>3
  <2>5. QED
    BY <1>4, <2>2, <2>4, NocAssumption DEF SP!Flits
<1>6. inject' = SP!BooksimFlit(f)
  BY <1>2, <1>3 DEF SP!InputInjection, SP!InjectFlit
<1>7. PICK p : p = PacketOf(f)
  OBVIOUS
<1>8. /\ p.id = f.id /\ p.node = Slave!DestNode(f.dest) /\ p.dest = f.dest
      /\ p.tid = f.tid /\ p.next = f.seq
  BY <1>7 DEF PacketOf
<1>9. EP!HasSlot(f.vc)
  <2>1. f.vc \in SP!VCs /\ VCs = SP!VCs /\ VCs = 0 .. NumVCs - 1
    BY <1>5 DEF VCs, Noc!VCs, SP!VCs
  <2>2. bufState.occupancy[f.vc] < VcBufSize
    BY <1>1, <1>2, <1>3, <2>1, SlaveConstants
    DEF SP!CanInject, SP!IsFullFor, SP!TypeOK, SP!BufferStates
  <2>3. PICK n \in Nat : n = Len(rbuf[f.vc])
    BY <1>5 DEF BuffersTyped
  <2>4. [v \in 0 .. NumVCs - 1 |-> Len(rbuf[v])][f.vc] = n
    BY <2>1, <2>3
  <2>5. PICK k \in {0, 1}, c \in {0, 1} :
          /\ k = IF inject # NoFlit /\ inject.vc = f.vc THEN 1 ELSE 0
          /\ c = IF SP!CreditDue /\ credit = f.vc THEN 1 ELSE 0
    OBVIOUS
  <2>6. bufState.occupancy[f.vc] = n + k + c
    BY <1>1, <2>1, <2>4, <2>5 DEF SP!CreditsConserved, SP!InChannel
  <2>7. n + k < VcBufSize
    <3>1. VcBufSize \in Nat
      BY SlaveConstants
    <3>2. QED
      BY <2>2, <2>6, <3>1
  <2>8. QED
    BY <2>3, <2>5, <2>7 DEF EP!HasSlot
<1>10. ASSUME NEW v \in VCs
       PROVE  SendingOn(v) = IF ~f.head /\ f.vc = v THEN p ELSE NoTx
  BY <1>2, <1>3, <1>7, SameView DEF SendingOn
<1>11. EP!SendFlit(f.vc, p)
  <2>1. EP!MayEnd(p, f.tail)
    <3>1. [n \in 1 .. MaxTx |-> 1 .. 255][p.id] = 1 .. 255
      BY <1>5, <1>8
    <3>2. CASE f.tail
      <4>1. p.next + 1 \in 1 .. 255
        BY <1>4, <1>5, <1>8 DEF SP!WellMade
      <4>2. QED
        BY <3>1, <3>2, <4>1 DEF EP!MayEnd
    <3>3. CASE ~f.tail
      <4>1. p.next + 1 < 255 /\ 255 \in 1 .. 255
        BY <1>4, <1>5, <1>8, <3>3 DEF SP!WellMade
      <4>2. QED
        BY <3>1, <3>3, <4>1 DEF EP!MayEnd
    <3>4. QED
      BY <3>2, <3>3
  <2>2. inject' = [id |-> p.id, seq |-> p.next, head |-> p.next = 0, tail |-> f.tail,
                   vc |-> f.vc, node |-> p.node, dest |-> p.dest, tid |-> p.tid]
    <3>1. f.head = (p.next = 0)
      BY <1>4, <1>5, <1>8 DEF SP!WellMade
    <3>2. Slave!DestNode(f.dest) = SP!DestNode(f.dest)
      BY DEF Slave!DestNode, SP!DestNode
    <3>3. QED
      BY <1>6, <1>8, <3>1, <3>2, Zenon DEF SP!BooksimFlit
  <2>3. ASSUME NEW v \in VCs
        PROVE  SendingOn(v)' = IF v = f.vc THEN (IF f.tail THEN NoTx ELSE [p EXCEPT !.next = @ + 1])
                               ELSE SendingOn(v)
    <3>1. SendingOn(v)' = IF g # NoFlit /\ ~g.head /\ g.vc = v THEN PacketOf(g) ELSE NoTx
      BY <1>3, SameViewNext DEF SendingOn, PacketOf
    <3>2. CASE f.tail
      <4>1. SendingOn(v)' = NoTx
        BY <1>2, <1>3, <3>1, <3>2 DEF SP!InPacket
      <4>2. QED
        BY <1>10, <3>2, <4>1
    <3>3. CASE ~f.tail
      <4>1. g # NoFlit /\ ~g.head /\ g.seq = f.seq + 1 /\ SP!Tag(g) = SP!Tag(f)
        BY <1>2, <1>3, <3>3 DEF SP!InPacket, SP!Tag
      <4>2. g.id = f.id /\ g.vc = f.vc /\ g.dest = f.dest /\ g.tid = f.tid
        <5>1. /\ SP!Tag(g).id = g.id /\ SP!Tag(g).vc = g.vc
              /\ SP!Tag(g).dest = g.dest /\ SP!Tag(g).tid = g.tid
          BY DEF SP!Tag
        <5>2. /\ SP!Tag(f).id = f.id /\ SP!Tag(f).vc = f.vc
              /\ SP!Tag(f).dest = f.dest /\ SP!Tag(f).tid = f.tid
          BY DEF SP!Tag
        <5>3. QED
          BY <4>1, <5>1, <5>2
      <4>3. PacketOf(g) = [p EXCEPT !.next = @ + 1]
        BY <1>7, <4>1, <4>2 DEF PacketOf
      <4>4. QED
        BY <1>10, <3>1, <3>3, <4>1, <4>2, <4>3
    <3>4. QED
      BY <3>2, <3>3
  <2>4. [v \in VCs |-> SendingOn(v)]'
          = [[v \in VCs |-> SendingOn(v)] EXCEPT
               ![f.vc] = IF f.tail THEN NoTx ELSE [p EXCEPT !.next = @ + 1]]
    <3>1. VCs' = VCs
      BY DEF VCs, Noc!VCs
    <3>2. QED
      BY <1>5, <2>3, <3>1
  <2>5. QED
    BY <1>5, <2>1, <2>2, <2>4 DEF EP!SendFlit
<1>12. EP!Master!Run("InputInjection") /\ EP!Master!TickOrder("InputInjection")
  BY EgressRun DEF InputInjection, EgressThreads, Master!TickOrder, EP!Master!TickOrder
<1>13. UNCHANGED <<settled, ticked, credit, rbuf, outState, eject, ejected, EP!masterVars>>
  BY DEF InputInjection, routerVars, masterVars, EP!masterVars
<1>14. EP!VCs = VCs /\ EP!Outputs = Outputs
  BY DEF EP!VCs, EP!Noc!VCs, VCs, Noc!VCs, EP!Outputs, EP!Master!Outputs, Outputs, Master!Outputs
<1>15. CASE ~f.head
  <2>1. [v \in VCs |-> SendingOn(v)][f.vc] = p
    BY <1>5, <1>10, <1>15
  <2>2. p # NoTx
    <3>1. p \in [id : Nat, node : Nat, dest : Dests, tid : Outputs, next : Nat]
      <4>1. Slave!DestNode(f.dest) \in Nat
        BY <1>5, SlaveConstants DEF Slave!DestNode
      <4>2. QED
        BY <1>5, <1>7, <4>1 DEF PacketOf
    <3>2. QED
      BY <3>1, NocAssumption
  <2>3. Slave!Started' = Slave!Started
    BY <1>2, <1>3, <1>15, SameView, SameViewNext DEF SP!Started
  <2>4. QED
    BY <1>5, <1>9, <1>11, <1>12, <1>13, <1>14, <2>1, <2>2, <2>3 DEF EP!Send
<1>16. CASE f.head
  <2>1. [v \in VCs |-> SendingOn(v)][f.vc] = NoTx
    BY <1>5, <1>10, <1>16
  <2>2. Slave!Started = f.id - 1 /\ Slave!Started' = f.id
    BY <1>2, <1>3, <1>16, SameView, SameViewNext DEF SP!Started
  <2>3. /\ Slave!Started < MaxTx /\ Slave!Started' = Slave!Started + 1
        /\ f.id = Slave!Started + 1
    BY <1>5, <2>2, SlaveConstants
  <2>4. p = [id |-> Slave!Started + 1, node |-> Slave!DestNode(f.dest), dest |-> f.dest,
             tid |-> f.tid, next |-> 0]
    <3>1. f.seq = 0
      BY <1>4, <1>16 DEF SP!WellMade
    <3>2. QED
      BY <1>7, <2>3, <3>1 DEF PacketOf
  <2>5. EP!SendFlit(f.vc, [id |-> Slave!Started + 1, node |-> Slave!DestNode(f.dest),
                           dest |-> f.dest, tid |-> f.tid, next |-> 0])
    BY <1>11, <2>4
  <2>6. Slave!DestNode(f.dest) \in {Slave!DestNode(d) : d \in Dests}
    BY <1>5
  <2>7. QED
    BY <1>5, <1>9, <1>12, <1>13, <1>14, <2>1, <2>3, <2>5, <2>6 DEF EP!Send
<1>17. QED
  BY <1>5, <1>15, <1>16

\* Tick does to the network what it does to the network of the way out alone.
LEMMA EgressTick ==
  ASSUME Tick
  PROVE  EP!Tick
<1>1. EP!Master!Run("Tick") /\ \A t \in BeforeTick : t \notin pending \cap EgressThreads
  BY EgressRun DEF Tick, EgressThreads
<1>2. UNCHANGED EP!sourceVars
  BY QueuesKept DEF Tick, slaveVars
<1>3. UNCHANGED EP!masterVars
  BY DEF Tick, masterVars, EP!masterVars
<1>4. EP!Noc!Buffered = Noc!Buffered /\ EP!Noc!Credited = Noc!Credited
  BY DEF EP!Noc!Buffered, Noc!Buffered, EP!Noc!Credited, Noc!Credited, EP!Noc!VCs, Noc!VCs,
         EP!Noc!ProcessCredit, Noc!ProcessCredit, EP!Noc!Drained, Noc!Drained
<1>5. EP!Noc!NothingMoves <=> Noc!NothingMoves
  BY <1>4 DEF EP!Noc!NothingMoves, Noc!NothingMoves
<1>6. \A v : EP!Noc!Forward(v) <=> Noc!Forward(v)
  <2>1. \A b, f : EP!Noc!SendingFlit(b, f) = Noc!SendingFlit(b, f)
    BY DEF EP!Noc!SendingFlit, Noc!SendingFlit, EP!Noc!Frees, Noc!Frees
  <2>2. \A b, v : EP!Noc!TakeBuffer(b, v) = Noc!TakeBuffer(b, v)
    BY DEF EP!Noc!TakeBuffer, Noc!TakeBuffer
  <2>3. \A v : EP!Noc!CanForward(v) <=> Noc!CanForward(v)
    BY <1>4 DEF EP!Noc!CanForward, Noc!CanForward, EP!Noc!IsFullFor, Noc!IsFullFor,
                EP!Noc!IsAvailableFor, Noc!IsAvailableFor
  <2>4. QED
    BY <1>4, <2>1, <2>2, <2>3 DEF EP!Noc!Forward, Noc!Forward
<1>7. EP!Noc!VCs = Noc!VCs
  BY DEF EP!Noc!VCs, Noc!VCs
<1>8. EP!Noc!NocCycle
  BY <1>5, <1>6, <1>7 DEF Tick, EP!Noc!NocCycle, Noc!NocCycle
<1>9. QED
  BY <1>1, <1>2, <1>3, <1>8 DEF Tick, EP!Tick

LEMMA EgressEjection ==
  ASSUME OutputEjection
  PROVE  EP!OutputEjection
<1>1. EP!Master!Run("OutputEjection") /\ EP!Master!TickOrder("OutputEjection")
  BY EgressRun
  DEF OutputEjection, Master!OutputEjection, EgressThreads, Master!TickOrder, EP!Master!TickOrder
<1>2. EP!Master!OutputEjection
  BY <1>1
  DEF OutputEjection, Master!OutputEjection, EP!Master!OutputEjection, Master!HasRoom,
      EP!Master!HasRoom, Master!Ejected, EP!Master!Ejected
<1>3. UNCHANGED EP!sourceVars
  BY QueuesKept DEF OutputEjection, slaveVars
<1>4. QED
  BY <1>2, <1>3 DEF OutputEjection, EP!OutputEjection, linkVars

LEMMA EgressDepacketization ==
  ASSUME OutputDepacketization
  PROVE  EP!OutputDepacketization
<1>1. EP!Master!Run("OutputDepacketization")
  BY EgressRun DEF OutputDepacketization, Master!OutputDepacketization, EgressThreads
<1>2. EP!Master!OutputDepacketization
  <2>1. EP!Master!Rotation = Master!Rotation
    BY DEF EP!Master!Rotation, Master!Rotation, EP!Master!HasCompletePacket,
           Master!HasCompletePacket
  <2>2. \A v : EP!Master!HasCompletePacket(v) <=> Master!HasCompletePacket(v)
    BY DEF EP!Master!HasCompletePacket, Master!HasCompletePacket
  <2>3. \A k : EP!Master!Rotated(k) = Master!Rotated(k)
    BY DEF EP!Master!Rotated, Master!Rotated
  <2>4. \A v : EP!Master!TakeFlit(v) <=> Master!TakeFlit(v)
    BY <2>1, <2>3 DEF EP!Master!TakeFlit, Master!TakeFlit
  <2>5. QED
    BY <1>1, <2>1, <2>2, <2>3, <2>4
    DEF OutputDepacketization, Master!OutputDepacketization, EP!Master!OutputDepacketization
<1>3. UNCHANGED EP!sourceVars
  BY QueuesKept DEF OutputDepacketization, slaveVars
<1>4. QED
  BY <1>2, <1>3 DEF OutputDepacketization, EP!OutputDepacketization, linkVars

LEMMA EgressInterface ==
  ASSUME OutputInterface
  PROVE  EP!OutputInterface
<1>1. EP!Master!Run("OutputInterface")
  BY EgressRun DEF OutputInterface, Master!OutputInterface, EgressThreads
<1>2. EP!Master!OutputInterface
  <2>1. EP!Master!Outputs = Master!Outputs /\ EP!Master!VCs = Master!VCs
    BY DEF EP!Master!Outputs, Master!Outputs, EP!Master!VCs, Master!VCs
  <2>2. \A o : EP!Master!Transfer(o) <=> Master!Transfer(o)
    BY DEF EP!Master!Transfer, Master!Transfer
  <2>3. \A o : EP!Master!LastChunk(o) <=> Master!LastChunk(o)
    BY DEF EP!Master!LastChunk, Master!LastChunk, EP!Master!NumChunks, Master!NumChunks
  <2>4. \A o : EP!Master!Popped(o) = Master!Popped(o)
    BY <2>2, <2>3 DEF EP!Master!Popped, Master!Popped
  <2>5. \A o : EP!Master!Presented(o) = Master!Presented(o)
    BY <2>4 DEF EP!Master!Presented, Master!Presented
  <2>6. QED
    BY <1>1, <2>1, <2>2, <2>3, <2>4, <2>5
    DEF OutputInterface, Master!OutputInterface, EP!Master!OutputInterface
<1>3. UNCHANGED EP!sourceVars
  BY QueuesKept DEF OutputInterface, slaveVars
<1>4. QED
  BY <1>2, <1>3 DEF OutputInterface, EP!OutputInterface, linkVars

LEMMA EgressSettle ==
  ASSUME Settle
  PROVE  EP!Settle
<1>1. EP!Master!CommitPush
  BY DEF Settle, Master!CommitPush, EP!Master!CommitPush
<1>2. UNCHANGED EP!sourceVars
  BY QueuesKept DEF Settle
<1>3. QED
  BY <1>1, <1>2 DEF Settle, EP!Settle, linkVars, routerVars, EP!nocVars

LEMMA EgressInit == Init => EP!Init
<1>1. SUFFICES ASSUME Init PROVE EP!Init
  OBVIOUS
<1>2. SP!FirstFlit = NoFlit
  BY <1>1 DEF Init, SP!FirstFlit
<1>3. Slave!FirstFlit = NoFlit /\ Slave!Started = 0
  BY <1>1, <1>2, SameView DEF Init, SP!Started
<1>4. EP!VCs = VCs /\ EP!Noc!VCs = Noc!VCs
  BY DEF EP!VCs, EP!Noc!VCs, VCs, Noc!VCs
<1>5. [v \in VCs |-> SendingOn(v)] = [v \in EP!VCs |-> NoTx]
  BY <1>3, <1>4 DEF SendingOn
<1>6. EP!Noc!EmptyBuffer = Noc!EmptyBuffer
  BY <1>4 DEF EP!Noc!EmptyBuffer, Noc!EmptyBuffer, EP!Noc!NoId, Noc!NoId
<1>7. EP!Noc!NocInit
  BY <1>1, <1>4, <1>6 DEF Init, EP!Noc!NocInit, Noc!NocInit
<1>8. EP!Master!MasterInit
  BY <1>1
  DEF Init, EP!Master!MasterInit, Master!MasterInit, EP!Master!VCs, Master!VCs,
      EP!Master!Outputs, Master!Outputs
<1>9. QED
  BY <1>1, <1>3, <1>5, <1>7, <1>8 DEF Init, EP!Init

\* A cycle of the injection thread that injects nothing is one of a sender that
\* sends nothing.
LEMMA NothingSent ==
  ASSUME SP!AdapterInv, SP!AdapterInv', InputInjection, SP!InputInjection,
         ~SP!CanInject(SP!NextFlit)
  PROVE  EP!Send
<1>1. SP!TypeOK /\ SP!StreamInv /\ SP!ContentsInv /\ SP!ContentsInv'
  BY DEF SP!AdapterInv
<1>2. SP!FirstFlit' = SP!FirstFlit /\ SP!Started' = SP!Started
  BY <1>1, SlaveConstants, SP!InjectStarted
<1>3. UNCHANGED EP!sourceVars
  BY <1>2, SourceKept
<1>4. UNCHANGED inject
  BY DEF SP!InputInjection, SP!InjectFlit
<1>5. EP!Master!Run("InputInjection") /\ EP!Master!TickOrder("InputInjection")
  BY EgressRun DEF InputInjection, EgressThreads, Master!TickOrder, EP!Master!TickOrder
<1>6. UNCHANGED <<settled, ticked, credit, rbuf, outState, eject, ejected, EP!masterVars>>
  BY DEF InputInjection, routerVars, masterVars, EP!masterVars
<1>7. QED
  BY <1>3, <1>4, <1>5, <1>6 DEF EP!Send

\* Before injection nothing is visible to the way out.
LEMMA EgressUnmoved ==
  ASSUME SP!AdapterInv, InputInterface \/ InputPacketization
  PROVE  UNCHANGED EP!vars
<1>1. SP!TypeOK /\ SP!StreamInv
  BY DEF SP!AdapterInv
<1>2. SP!InputInterface \/ SP!InputPacketization
  BY SlaveThread
<1>3. UNCHANGED EP!sourceVars
  BY <1>1, <1>2, SlaveConstants, SP!StartedKept, SourceKept
<1>4. (pending \cap EgressThreads)' = pending \cap EgressThreads
  BY DEF InputInterface, InputPacketization, Master!Run, EgressThreads
<1>5. UNCHANGED <<settled, ticked, EP!nocVars, EP!masterVars>>
  BY DEF InputInterface, InputPacketization, linkVars, routerVars, masterVars,
         EP!nocVars, EP!masterVars
<1>6. QED
  BY <1>3, <1>4, <1>5 DEF EP!vars, EP!kernelVars

LEMMA EgressStep ==
  BuffersTyped /\ SP!AdapterInv /\ SP!AdapterInv' /\ [Next]_vars => [EP!Next]_(EP!vars)
<1>1. SUFFICES ASSUME BuffersTyped, SP!AdapterInv, SP!AdapterInv', [Next]_vars
               PROVE  EP!Next \/ UNCHANGED EP!vars
  OBVIOUS
<1>2. CASE \E S \in (SUBSET AllClocks) \ {{}} : ClockEdge(S)
  BY <1>2, EgressEdge DEF EP!Next
<1>3. CASE Settle
  BY <1>3, EgressSettle DEF EP!Next
<1>4. CASE InputInterface \/ InputPacketization
  BY <1>1, <1>4, EgressUnmoved
<1>5. CASE InputInjection
  BY <1>1, <1>5, SlaveThread, FlitSent, NothingSent DEF EP!Next
<1>6. CASE Tick
  BY <1>6, EgressTick DEF EP!Next
<1>7. CASE OutputEjection
  BY <1>7, EgressEjection DEF EP!Next
<1>8. CASE OutputDepacketization
  BY <1>8, EgressDepacketization DEF EP!Next
<1>9. CASE OutputInterface
  BY <1>9, EgressInterface DEF EP!Next
<1>10. CASE UNCHANGED vars
  <2>1. UNCHANGED EP!sourceVars
    BY <1>10, QueuesKept DEF vars, slaveVars
  <2>2. QED
    BY <1>10, <2>1
    DEF vars, linkVars, routerVars, masterVars, EP!vars, EP!kernelVars, EP!nocVars,
        EP!masterVars
<1>11. QED
  BY <1>1, <1>2, <1>3, <1>4, <1>5, <1>6, <1>7, <1>8, <1>9, <1>10 DEF Next

\* What is known of the adapter in every state of the path.
LEMMA SlaveInvariants == Spec => [](BuffersTyped /\ SP!AdapterInv)
<1>1. Init => BuffersTyped
  BY SlaveInit
<1>2. BuffersTyped /\ SP!TypeOK /\ [Next]_vars => BuffersTyped'
  BY SlaveStep
<1>3. SP!AdapterInv => SP!TypeOK
  BY DEF SP!AdapterInv
<1>4. SP!Spec => []SP!AdapterInv
  BY SlaveConstants, SP!AdapterCorrect
<1>5. QED
  BY <1>1, <1>2, <1>3, <1>4, SlaveRefined, PTL DEF Spec

LEMMA EgressRefined == Spec => EP!Spec
BY EgressInit, EgressStep, SlaveInvariants, PTL DEF Spec, EP!Spec

(***************************************************************************)
(* The parts.                                                              *)
(***************************************************************************)
\* What SP says of the adapter AxisNoc calls by the name Slave.
LEMMA SlaveBehaviour == SP!Spec => Slave!Spec
<1>1. SP!VCs = Slave!VCs /\ SP!Interfaces = Slave!Interfaces /\ SP!Clocks = Slave!Clocks
  BY DEF SP!VCs, Slave!VCs, SP!Interfaces, Slave!Interfaces, SP!Clocks, Slave!Clocks
<1>2. SP!Init => Slave!Init
  BY <1>1 DEF SP!Init, Slave!Init, SP!EmptyBuffer, Slave!EmptyBuffer, SP!NoId, Slave!NoId
<1>3. SP!vars = Slave!vars
  BY DEF SP!vars, Slave!vars
<1>4. \A t : SP!Run(t) <=> Slave!Run(t)
  BY DEF SP!Run, Slave!Run
<1>5. \A S : SP!ClockEdge(S) <=> Slave!ClockEdge(S)
  BY DEF SP!ClockEdge, Slave!ClockEdge, SP!Threads, Slave!Threads
<1>6. SP!InputReady => Slave!InputReady
  BY SameBodies DEF SP!InputReady, Slave!InputReady
<1>7. SP!InputInterface => Slave!InputInterface
  BY <1>4, SameBodies DEF SP!InputInterface, Slave!InputInterface
<1>8. SP!InputPacketization => Slave!InputPacketization
  BY <1>4, SameBodies DEF SP!InputPacketization, Slave!InputPacketization
<1>9. SP!InputInjection => Slave!InputInjection
  BY <1>4, SameBodies
  DEF SP!InputInjection, Slave!InputInjection, SP!TickOrder, Slave!TickOrder
<1>10. SP!Tick => Slave!Tick
  BY <1>1, <1>4 DEF SP!Tick, Slave!Tick, SP!Arrived, Slave!Arrived
<1>11. SP!Next => Slave!Next
  BY <1>1, <1>5, <1>6, <1>7, <1>8, <1>9, <1>10 DEF SP!Next, Slave!Next
<1>12. UNCHANGED SP!vars => UNCHANGED Slave!vars
  BY DEF SP!vars, Slave!vars
<1>13. [SP!Next]_(SP!vars) => [Slave!Next]_(Slave!vars)
  BY <1>11, <1>12
<1>14. QED
  BY <1>2, <1>13, PTL DEF SP!Spec, Slave!Spec

LEMMA EgressBehaviour == EP!Spec => Egress!Spec
<1>1. EP!VCs = Egress!VCs /\ EP!Outputs = Egress!Outputs /\ EP!Clocks = Egress!Clocks
  BY DEF EP!VCs, Egress!VCs, EP!Outputs, Egress!Outputs, EP!Clocks, Egress!Clocks,
         EP!Noc!VCs, Egress!Noc!VCs, EP!Master!Outputs, Egress!Master!Outputs
<1>2. EP!Noc!VCs = Egress!Noc!VCs /\ EP!Master!Outputs = Egress!Master!Outputs
      /\ EP!Master!VCs = Egress!Master!VCs
  BY DEF EP!Noc!VCs, Egress!Noc!VCs, EP!Master!Outputs, Egress!Master!Outputs,
         EP!Master!VCs, Egress!Master!VCs
<1>3. EP!Init => Egress!Init
  <2>1. EP!Noc!NocInit => Egress!Noc!NocInit
    BY <1>2 DEF EP!Noc!NocInit, Egress!Noc!NocInit, EP!Noc!EmptyBuffer,
                Egress!Noc!EmptyBuffer, EP!Noc!NoId, Egress!Noc!NoId
  <2>2. EP!Master!MasterInit => Egress!Master!MasterInit
    BY <1>2 DEF EP!Master!MasterInit, Egress!Master!MasterInit
  <2>3. QED
    BY <1>1, <2>1, <2>2 DEF EP!Init, Egress!Init
<1>4. UNCHANGED EP!sourceVars <=> UNCHANGED Egress!sourceVars
  BY DEF EP!sourceVars, Egress!sourceVars
<1>5. UNCHANGED EP!nocVars <=> UNCHANGED Egress!nocVars
  BY DEF EP!nocVars, Egress!nocVars
<1>6. UNCHANGED EP!masterVars <=> UNCHANGED Egress!masterVars
  BY DEF EP!masterVars, Egress!masterVars
<1>7. \A t : EP!Master!Run(t) <=> Egress!Master!Run(t)
  BY DEF EP!Master!Run, Egress!Master!Run
<1>8. \A t : EP!Master!TickOrder(t) <=> Egress!Master!TickOrder(t)
  BY DEF EP!Master!TickOrder, Egress!Master!TickOrder
<1>9. \A S : EP!ClockEdge(S) <=> Egress!ClockEdge(S)
  BY <1>4, <1>5, <1>6 DEF EP!ClockEdge, Egress!ClockEdge, EP!Threads, Egress!Threads
<1>10. EP!Settle => Egress!Settle
  BY <1>4, <1>5 DEF EP!Settle, Egress!Settle, EP!Master!CommitPush, Egress!Master!CommitPush
<1>11. EP!Send => Egress!Send
  <2>1. \A v : EP!HasSlot(v) <=> Egress!HasSlot(v)
    BY DEF EP!HasSlot, Egress!HasSlot
  <2>2. \A v, p : EP!SendFlit(v, p) <=> Egress!SendFlit(v, p)
    BY DEF EP!SendFlit, Egress!SendFlit, EP!MayEnd, Egress!MayEnd
  <2>3. QED
    BY <1>1, <1>4, <1>6, <1>7, <1>8, <2>1, <2>2 DEF EP!Send, Egress!Send
<1>12. EP!Tick => Egress!Tick
  <2>1. EP!Noc!Buffered = Egress!Noc!Buffered /\ EP!Noc!Credited = Egress!Noc!Credited
    BY <1>2
    DEF EP!Noc!Buffered, Egress!Noc!Buffered, EP!Noc!Credited, Egress!Noc!Credited,
        EP!Noc!ProcessCredit, Egress!Noc!ProcessCredit, EP!Noc!Drained, Egress!Noc!Drained
  <2>2. EP!Noc!NothingMoves <=> Egress!Noc!NothingMoves
    BY <2>1 DEF EP!Noc!NothingMoves, Egress!Noc!NothingMoves
  <2>3. \A b, f : EP!Noc!SendingFlit(b, f) = Egress!Noc!SendingFlit(b, f)
    BY DEF EP!Noc!SendingFlit, Egress!Noc!SendingFlit, EP!Noc!Frees, Egress!Noc!Frees
  <2>4. \A b, v : EP!Noc!TakeBuffer(b, v) = Egress!Noc!TakeBuffer(b, v)
    BY DEF EP!Noc!TakeBuffer, Egress!Noc!TakeBuffer
  <2>5. \A v : EP!Noc!CanForward(v) <=> Egress!Noc!CanForward(v)
    BY <2>1 DEF EP!Noc!CanForward, Egress!Noc!CanForward, EP!Noc!IsFullFor,
                Egress!Noc!IsFullFor, EP!Noc!IsAvailableFor, Egress!Noc!IsAvailableFor
  <2>6. \A v : EP!Noc!Forward(v) <=> Egress!Noc!Forward(v)
    BY <2>1, <2>3, <2>4, <2>5 DEF EP!Noc!Forward, Egress!Noc!Forward
  <2>7. EP!Noc!NocCycle <=> Egress!Noc!NocCycle
    BY <1>2, <2>2, <2>6 DEF EP!Noc!NocCycle, Egress!Noc!NocCycle
  <2>8. QED
    BY <1>4, <1>6, <1>7, <2>7 DEF EP!Tick, Egress!Tick
<1>13. EP!OutputEjection => Egress!OutputEjection
  <2>1. EP!Master!OutputEjection => Egress!Master!OutputEjection
    BY <1>7, <1>8
    DEF EP!Master!OutputEjection, Egress!Master!OutputEjection, EP!Master!HasRoom,
        Egress!Master!HasRoom, EP!Master!Ejected, Egress!Master!Ejected
  <2>2. QED
    BY <1>4, <2>1 DEF EP!OutputEjection, Egress!OutputEjection
<1>14. EP!OutputDepacketization => Egress!OutputDepacketization
  <2>1. EP!Master!Rotation = Egress!Master!Rotation
    BY DEF EP!Master!Rotation, Egress!Master!Rotation, EP!Master!HasCompletePacket,
           Egress!Master!HasCompletePacket
  <2>2. \A v : EP!Master!HasCompletePacket(v) <=> Egress!Master!HasCompletePacket(v)
    BY DEF EP!Master!HasCompletePacket, Egress!Master!HasCompletePacket
  <2>3. \A k : EP!Master!Rotated(k) = Egress!Master!Rotated(k)
    BY DEF EP!Master!Rotated, Egress!Master!Rotated
  <2>4. \A v : EP!Master!TakeFlit(v) <=> Egress!Master!TakeFlit(v)
    BY <2>1, <2>3 DEF EP!Master!TakeFlit, Egress!Master!TakeFlit
  <2>5. EP!Master!OutputDepacketization => Egress!Master!OutputDepacketization
    BY <1>7, <2>1, <2>2, <2>3, <2>4
    DEF EP!Master!OutputDepacketization, Egress!Master!OutputDepacketization
  <2>6. QED
    BY <1>4, <2>5 DEF EP!OutputDepacketization, Egress!OutputDepacketization
<1>15. EP!OutputInterface => Egress!OutputInterface
  <2>1. \A o : EP!Master!Transfer(o) <=> Egress!Master!Transfer(o)
    BY DEF EP!Master!Transfer, Egress!Master!Transfer
  <2>2. \A o : EP!Master!LastChunk(o) <=> Egress!Master!LastChunk(o)
    BY DEF EP!Master!LastChunk, Egress!Master!LastChunk, EP!Master!NumChunks,
           Egress!Master!NumChunks
  <2>3. \A o : EP!Master!Popped(o) = Egress!Master!Popped(o)
    BY <2>1, <2>2 DEF EP!Master!Popped, Egress!Master!Popped
  <2>4. \A o : EP!Master!Presented(o) = Egress!Master!Presented(o)
    BY <2>3 DEF EP!Master!Presented, Egress!Master!Presented
  <2>5. EP!Master!OutputInterface => Egress!Master!OutputInterface
    BY <1>2, <1>7, <2>1, <2>2, <2>3, <2>4
    DEF EP!Master!OutputInterface, Egress!Master!OutputInterface
  <2>6. QED
    BY <1>4, <2>5 DEF EP!OutputInterface, Egress!OutputInterface
<1>16. EP!Next => Egress!Next
  BY <1>1, <1>9, <1>10, <1>11, <1>12, <1>13, <1>14, <1>15 DEF EP!Next, Egress!Next
<1>17. UNCHANGED EP!vars => UNCHANGED Egress!vars
  BY DEF EP!vars, Egress!vars, EP!kernelVars, Egress!kernelVars, EP!nocVars, Egress!nocVars,
         EP!masterVars, Egress!masterVars, EP!sourceVars, Egress!sourceVars
<1>18. [EP!Next]_(EP!vars) => [Egress!Next]_(Egress!vars)
  BY <1>16, <1>17
<1>19. QED
  BY <1>3, <1>18, PTL DEF EP!Spec, Egress!Spec

\* In the whole path each of the two ends is in an environment that its own
\* specification allows for: the network treats the slave adapter as it expects
\* credits, and the slave adapter feeds the way out whole packets, in order and
\* only into free slots.  So everything proved of either holds of the path.
THEOREM PartsBehave == Spec => PartsSpec
BY SlaveRefined, EgressRefined, SlaveBehaviour, EgressBehaviour DEF PartsSpec

(***************************************************************************)
(* The channel.  The way out already is one for the transactions of which  *)
(* the head has been injected; it remains that the others wait in the      *)
(* slave adapter in the order of their numbers, behind those, each for the *)
(* flow that it will be sent on.                                           *)
(***************************************************************************)
Undelivered(f) == Egress!Undelivered(f[1], f[2])

Queue == [f \in Flows |-> Waiting(f[1], f[2]) \cup Undelivered(f)]

Delivered == [f \in Flows |-> received[f[1]][f[2]]]

LEMMA SameFlows ==
  /\ Flows = EP!Flows
  /\ \A f \in Flows : f[1] \in VCs /\ f[2] \in Outputs /\ f = <<f[1], f[2]>>
  /\ EP!VCs = VCs /\ EP!Outputs = Outputs /\ SP!VCs = VCs
<1>1. EP!VCs = VCs /\ EP!Outputs = Outputs /\ SP!VCs = VCs
  BY DEF EP!VCs, EP!Noc!VCs, VCs, Noc!VCs, SP!VCs, EP!Outputs, EP!Master!Outputs, Outputs,
         Master!Outputs
<1>2. QED
  BY <1>1 DEF Flows, EP!Flows

LEMMA SameUndelivered ==
  \A v, o : Egress!Undelivered(v, o) = EP!Undelivered(v, o)
<1>1. \A s : Egress!Range(s) = EP!Range(s)
  BY DEF Egress!Range, EP!Range
<1>2. Egress!Unread <=> EP!Unread
  BY DEF Egress!Unread, EP!Unread
<1>3. \A v : Egress!InTransit(v) = EP!InTransit(v)
  BY <1>1, <1>2, Zenon DEF Egress!InTransit, EP!InTransit
<1>4. QED
  BY <1>1, <1>3, Zenon DEF Egress!Undelivered, EP!Undelivered

LEMMA SameUndeliveredNext ==
  (\A v, o : Egress!Undelivered(v, o) = EP!Undelivered(v, o))'
BY SameUndelivered, PTL

LEMMA LeastNumber ==
  ASSUME NEW T \in SUBSET Nat, T # {}
  PROVE  \E m \in T : \A n \in T : m <= n
<1>1. PICK R : R = OpToRel(<, Nat)
  BY Zenon
<1>2. \E m \in T : \A n \in T : <<n, m>> \notin R
  BY <1>1, NatLessThanWellFounded, WFMin, Zenon
<1>3. \A m, n \in Nat : <<n, m>> \notin R => m <= n
  <2>1. R = {ss \in Nat \X Nat : ss[1] < ss[2]}
    BY <1>1, Zenon DEF OpToRel
  <2>2. QED
    BY <2>1
<1>4. QED
  BY <1>2, <1>3

\* The least number of a flow is that of a transaction under way, if there is
\* one: those that wait have the greater numbers.
LEMMA SameMin ==
  ASSUME NEW W, NEW U, NEW k \in Nat, U # {},
         \A n \in W : n \in Nat /\ k < n, \A n \in U : n \in Nat /\ n <= k
  PROVE  /\ Channel!Min(W \cup U) = EP!Channel!Min(U)
         /\ Channel!Min(W \cup U) \in U /\ Channel!Min(W \cup U) \notin W
<1>1. PICK m \in U : \A n \in U : m <= n
  BY LeastNumber
<1>2. ASSUME NEW T, m \in T, \A n \in T : n \in Nat /\ m <= n
      PROVE  (CHOOSE x \in T : \A y \in T : x =< y) = m
  <2>1. PICK x : x = CHOOSE z \in T : \A y \in T : z =< y
    OBVIOUS
  <2>2. x \in T /\ \A y \in T : x =< y
    BY <1>2, <2>1
  <2>3. QED
    BY <1>2, <2>1, <2>2
<1>3. \A n \in W \cup U : n \in Nat /\ m <= n
  BY <1>1
<1>4. Channel!Min(W \cup U) = m
  BY <1>2, <1>3 DEF Channel!Min
<1>5. EP!Channel!Min(U) = m
  BY <1>1, <1>2 DEF EP!Channel!Min
<1>6. QED
  BY <1>1, <1>4, <1>5

\* The numbers of the two parts of a queue.
LEMMA QueueParts ==
  ASSUME SP!AdapterInv, EP!EgressInv, EP!OrderInv, NEW f \in Flows
  PROVE  /\ Slave!Started \in Nat /\ numTx \in Nat
         /\ \A n \in Waiting(f[1], f[2]) : n \in Nat /\ Slave!Started < n
         /\ \A n \in Undelivered(f) : n \in Nat /\ n <= Slave!Started
<1>1. numTx \in Nat
  BY DEF SP!AdapterInv, SP!TypeOK
<1>2. Slave!Started \in Nat
  BY DEF EP!EgressInv, EP!TypeInv, EP!SenderTypes
<1>3. \A n \in Waiting(f[1], f[2]) : n \in Nat /\ Slave!Started < n
  BY <1>1, <1>2 DEF Waiting
<1>4. ASSUME NEW n \in Undelivered(f) PROVE n \in 1 .. Slave!Started
  BY <1>4, SameFlows, SameUndelivered, EgressConstants, EP!UndeliveredNumbered DEF Undelivered
<1>5. QED
  BY <1>1, <1>2, <1>3, <1>4

\* The channel of the way out has the other parts of the queues.
LEMMA UnderWay ==
  /\ EP!Queue = [f \in Flows |-> Undelivered(f)] /\ EP!Delivered = Delivered
  /\ EP!Queue' = [f \in Flows |-> Undelivered(f)'] /\ EP!Delivered' = Delivered'
<1>1. /\ EP!Queue = [f \in Flows |-> EP!Undelivered(f[1], f[2])]
      /\ EP!Queue' = [f \in Flows |-> EP!Undelivered(f[1], f[2])']
  BY SameFlows DEF EP!Queue
<1>2. /\ \A f \in Flows : EP!Undelivered(f[1], f[2]) = Undelivered(f)
      /\ \A f \in Flows : EP!Undelivered(f[1], f[2])' = Undelivered(f)'
  BY SameUndelivered, SameUndeliveredNext DEF Undelivered
<1>3. EP!Delivered = Delivered /\ EP!Delivered' = Delivered'
  BY SameFlows DEF EP!Delivered, Delivered
<1>4. QED
  BY <1>1, <1>2, <1>3

\* A step of the way out that starts no transaction is one of the channel.
LEMMA DeliveryStep ==
  ASSUME SP!AdapterInv, EP!EgressInv, EP!OrderInv,
         [EP!Channel!Next]_(EP!Channel!vars),
         numTx' = numTx, Slave!Started' = Slave!Started,
         \A f \in Flows : Waiting(f[1], f[2])' = Waiting(f[1], f[2])
  PROVE  [Channel!Next]_(Channel!vars)
<1>1. /\ Queue = [f \in Flows |-> Waiting(f[1], f[2]) \cup Undelivered(f)]
      /\ Queue' = [f \in Flows |-> Waiting(f[1], f[2]) \cup Undelivered(f)']
  BY DEF Queue
<1>2. Channel!vars = <<numTx, Queue, Delivered>> /\ Channel!vars' = <<numTx', Queue', Delivered'>>
  BY DEF Channel!vars, Queue, Delivered, Undelivered
<1>3. CASE UNCHANGED EP!Channel!vars
  <2>1. EP!Queue' = EP!Queue /\ EP!Delivered' = EP!Delivered
    BY <1>3 DEF EP!Channel!vars, EP!Queue, EP!Delivered
  <2>2. \A f \in Flows : Undelivered(f)' = Undelivered(f)
    BY <2>1, UnderWay
  <2>3. QED
    BY <1>1, <1>2, <2>1, <2>2, UnderWay
<1>4. ASSUME NEW f, EP!Channel!Accept(f) PROVE FALSE
  BY <1>4 DEF EP!Channel!Accept, EP!EgressInv, EP!TypeInv, EP!SenderTypes
<1>5. ASSUME NEW S \in (SUBSET EP!Flows) \ {{}}, EP!Channel!Deliver(S)
      PROVE  Channel!Deliver(S) /\ S \in (SUBSET Flows) \ {{}}
  <2>1. S \in (SUBSET Flows) \ {{}}
    BY SameFlows
  <2>2. /\ \A f \in S : EP!Queue[f] # {}
        /\ EP!Delivered' = [f \in EP!Flows |-> IF f \in S THEN EP!Channel!Min(EP!Queue[f])
                                                         ELSE EP!Delivered[f]]
        /\ EP!Queue' = [f \in EP!Flows |-> IF f \in S THEN EP!Queue[f] \ {EP!Channel!Min(EP!Queue[f])}
                                                     ELSE EP!Queue[f]]
        /\ EP!Delivered' # EP!Delivered
    BY <1>5 DEF EP!Channel!Deliver, EP!Queue, EP!Delivered
  <2>3. /\ \A f \in S : Undelivered(f) # {}
        /\ \A f \in Flows :
             Delivered'[f] = IF f \in S THEN EP!Channel!Min(Undelivered(f)) ELSE Delivered[f]
        /\ Delivered' # Delivered
    BY <2>1, <2>2, SameFlows, UnderWay
  <2>4. \A f \in Flows :
          Undelivered(f)' = IF f \in S THEN Undelivered(f) \ {EP!Channel!Min(Undelivered(f))}
                                       ELSE Undelivered(f)
    BY <2>2, SameFlows, UnderWay
  <2>5. ASSUME NEW f \in S
        PROVE  /\ Channel!Min(Queue[f]) = EP!Channel!Min(Undelivered(f))
               /\ Channel!Min(Queue[f]) \notin Waiting(f[1], f[2])
    <3>1. PICK W, U : W = Waiting(f[1], f[2]) /\ U = Undelivered(f)
      OBVIOUS
    <3>2. Queue[f] = W \cup U
      BY <1>1, <2>1, <3>1
    <3>3. /\ Slave!Started \in Nat
          /\ \A n \in W : n \in Nat /\ Slave!Started < n
          /\ \A n \in U : n \in Nat /\ n <= Slave!Started
      BY <2>1, <3>1, QueueParts
    <3>4. U # {}
      BY <2>3, <3>1
    <3>5. PICK k \in Nat : /\ \A n \in W : n \in Nat /\ k < n
                           /\ \A n \in U : n \in Nat /\ n <= k
      BY <3>3
    <3>6. /\ Channel!Min(W \cup U) = EP!Channel!Min(U)
          /\ Channel!Min(W \cup U) \notin W
      BY <3>4, <3>5, SameMin
    <3>7. QED
      BY <3>1, <3>2, <3>6
  <2>6. \A f \in S : Queue[f] # {}
    BY <1>1, <2>1, <2>3
  <2>7. Delivered' = [f \in Flows |-> IF f \in S THEN Channel!Min(Queue[f]) ELSE Delivered[f]]
    <3>1. Delivered' = [f \in Flows |-> Delivered'[f]]
      BY DEF Delivered
    <3>2. QED
      BY <2>3, <2>5, <3>1
  <2>8. ASSUME NEW f \in Flows
        PROVE  Queue'[f] = IF f \in S THEN Queue[f] \ {Channel!Min(Queue[f])} ELSE Queue[f]
    BY <1>1, <2>4, <2>5
  <2>9. Queue' = [f \in Flows |-> IF f \in S THEN Queue[f] \ {Channel!Min(Queue[f])}
                                            ELSE Queue[f]]
    <3>1. Queue' = [f \in Flows |-> Queue'[f]]
      BY <1>1
    <3>2. QED
      BY <2>8, <3>1
  <2>10. QED
    BY <2>1, <2>3, <2>6, <2>7, <2>9 DEF Channel!Deliver, Queue, Delivered, Undelivered
<1>6. QED
  BY <1>3, <1>4, <1>5 DEF EP!Channel!Next, Channel!Next

LEMMA WaitingKept ==
  ASSUME numTx' = numTx, Slave!Started' = Slave!Started, Slave!Contents' = Slave!Contents
  PROVE  \A v, o : Waiting(v, o)' = Waiting(v, o)
BY DEF Waiting

LEMMA EgressKept ==
  ASSUME UNCHANGED EP!vars
  PROVE  /\ Slave!Started' = Slave!Started /\ Delivered' = Delivered
         /\ \A f \in Flows : Undelivered(f)' = Undelivered(f)
<1>1. UNCHANGED <<EP!kernelVars, EP!nocVars, EP!masterVars, EP!sourceVars>>
  BY DEF EP!vars
<1>2. EP!Unread' <=> EP!Unread
  BY <1>1 DEF EP!Unread, EP!kernelVars
<1>3. \A v : EP!InTransit(v)' = EP!InTransit(v)
  BY <1>1, <1>2 DEF EP!InTransit, EP!Range, EP!nocVars, EP!masterVars
<1>4. \A v, o : EP!Undelivered(v, o)' = EP!Undelivered(v, o)
  BY <1>1, <1>3 DEF EP!Undelivered, EP!Range, EP!masterVars, EP!sourceVars
<1>5. \A f \in Flows : Undelivered(f)' = Undelivered(f)
  BY <1>4, SameUndelivered, SameUndeliveredNext DEF Undelivered
<1>6. QED
  BY <1>1, <1>5 DEF EP!sourceVars, EP!masterVars, Delivered

\* A transaction is accepted under the next number and waits.
LEMMA AcceptStep ==
  ASSUME SP!AdapterInv, InputInterface
  PROVE  [Channel!Next]_(Channel!vars)
<1>1. SP!TypeOK /\ SP!StreamInv /\ SP!ContentsInv /\ SP!InputInterface
  BY SlaveThread DEF SP!AdapterInv
<1>2. /\ Slave!Started' = Slave!Started /\ Delivered' = Delivered
      /\ \A f \in Flows : Undelivered(f)' = Undelivered(f)
  BY EgressUnmoved, EgressKept
<1>3. /\ Queue = [f \in Flows |-> Waiting(f[1], f[2]) \cup Undelivered(f)]
      /\ Queue' = [f \in Flows |-> Waiting(f[1], f[2])' \cup Undelivered(f)]
  BY <1>2 DEF Queue
<1>4. CASE numTx' = numTx /\ SP!Contents' = SP!Contents
  <2>1. \A v, o : Waiting(v, o)' = Waiting(v, o)
    BY <1>2, <1>4, SameView, SameViewNext, WaitingKept
  <2>2. Queue' = Queue
    BY <1>3, <2>1
  <2>3. QED
    BY <1>2, <1>4, <2>2 DEF Channel!vars, Queue, Delivered, Undelivered
<1>5. ASSUME NEW w \in SP!Tags, w.id = numTx + 1, numTx' = numTx + 1,
             SP!Contents' = SP!Contents \cup {w}
      PROVE  \E g \in Flows : Channel!Accept(g)
  <2>1. PICK g \in Flows : g = <<w.vc, w.tid>>
    <3>1. w.vc \in VCs /\ w.tid \in Outputs
      BY SameFlows, NocAssumption DEF SP!Tags
    <3>2. QED
      BY <3>1 DEF Flows
  <2>2. Slave!Started \in 0 .. numTx /\ numTx \in Nat
    BY <1>1, SlaveConstants, SP!StartedBounded, SameView DEF SP!TypeOK
  <2>3. \A a \in Slave!Contents : a.id \in 1 .. numTx
    BY <1>1, SameView DEF SP!ContentsInv
  <2>4. Slave!Contents' = Slave!Contents \cup {w}
    BY <1>5, SameView, SameViewNext
  <2>5. ASSUME NEW f \in Flows
        PROVE  Waiting(f[1], f[2])' = IF f = g THEN Waiting(f[1], f[2]) \cup {numTx + 1}
                                               ELSE Waiting(f[1], f[2])
    <3>1. PICK C, s, k : C = Slave!Contents /\ s = Slave!Started /\ k = numTx
      OBVIOUS
    <3>2. Waiting(f[1], f[2]) = {n \in s + 1 .. k : \E a \in C : a.id = n /\ a.vc = f[1] /\ a.tid = f[2]}
      BY <3>1 DEF Waiting
    <3>3. Waiting(f[1], f[2])'
            = {n \in s + 1 .. k + 1 : \E a \in C \cup {w} : a.id = n /\ a.vc = f[1] /\ a.tid = f[2]}
      BY <1>2, <1>5, <2>4, <3>1 DEF Waiting
    <3>4. f = g <=> f[1] = w.vc /\ f[2] = w.tid
      BY <2>1, SameFlows
    <3>5. k \in Nat /\ s \in 0 .. k /\ w.id = k + 1 /\ \A a \in C : a.id \in 1 .. k
      BY <1>5, <2>2, <2>3, <3>1
    <3>6. \A n : n \in Waiting(f[1], f[2])' <=> n \in Waiting(f[1], f[2]) \/ (f = g /\ n = k + 1)
      BY <3>2, <3>3, <3>4, <3>5
    <3>7. QED
      BY <3>1, <3>2, <3>3, <3>6
  <2>6. Queue' = [Queue EXCEPT ![g] = @ \cup {numTx + 1}]
    BY <1>3, <2>5
  <2>7. QED
    BY <1>2, <1>5, <2>6 DEF Channel!Accept, Queue, Delivered, Undelivered
<1>6. QED
  BY <1>1, <1>4, <1>5, SlaveConstants, SP!AcceptContents DEF Channel!Next

\* A transaction that is cut into flits still waits.
LEMMA PacketizeStep ==
  ASSUME SP!AdapterInv, InputPacketization
  PROVE  UNCHANGED Channel!vars
<1>1. numTx' = numTx /\ SP!Contents' = SP!Contents
  BY SlaveThread, SlaveConstants, SP!PacketizeContents DEF SP!AdapterInv
<1>2. /\ Slave!Started' = Slave!Started /\ Delivered' = Delivered
      /\ \A f \in Flows : Undelivered(f)' = Undelivered(f)
  BY EgressUnmoved, EgressKept
<1>3. \A v, o : Waiting(v, o)' = Waiting(v, o)
  BY <1>1, <1>2, SameView, SameViewNext, WaitingKept
<1>4. Queue' = Queue
  BY <1>2, <1>3 DEF Queue
<1>5. QED
  BY <1>1, <1>2, <1>4 DEF Channel!vars, Queue, Delivered, Undelivered

\* The head that is injected moves its transaction from the adapter to the way
\* out, in the same flow.
LEMMA InjectStep ==
  ASSUME VcBufSize <= EjectionDepth, BuffersTyped, SP!AdapterInv, SP!AdapterInv',
         EP!EgressInv, EP!EgressInv', EP!OrderInv, EP!Behind, InputInjection
  PROVE  [Channel!Next]_(Channel!vars)
<1>1. /\ SP!TypeOK /\ SP!StreamInv /\ SP!ContentsInv /\ SP!ContentsInv' /\ SP!InputInjection
  BY SlaveThread DEF SP!AdapterInv
<1>2. numTx' = numTx
  BY DEF InputInjection
<1>3. [EP!Channel!Next]_(EP!Channel!vars)
  <2>1. [EP!Next]_(EP!vars)
    BY EgressStep DEF Next
  <2>2. EP!FifosSuffice
    BY DEF EP!FifosSuffice
  <2>3. QED
    BY <2>1, <2>2, EgressConstants, EP!ChannelStep
<1>4. PICK f : f = SP!FirstFlit
  OBVIOUS
<1>5. CASE ~SP!CanInject(SP!NextFlit)
  <2>1. Slave!Started' = Slave!Started /\ Slave!Contents' = Slave!Contents
    BY <1>1, <1>5, SlaveConstants, SP!InjectStarted, SP!ContentsInjected, SameView, SameViewNext
  <2>2. \A v, o : Waiting(v, o)' = Waiting(v, o)
    BY <1>2, <2>1, WaitingKept
  <2>3. QED
    BY <1>2, <1>3, <2>1, <2>2, DeliveryStep
<1>6. CASE SP!CanInject(SP!NextFlit)
  <2>1. /\ f = SP!NextFlit /\ f # NoFlit /\ Slave!Started' = f.id
        /\ Slave!Contents' \subseteq Slave!Contents
        /\ Slave!Contents \subseteq Slave!Contents' \cup {SP!Tag(f)}
    BY <1>1, <1>4, <1>6, SlaveConstants, SP!InjectStarted, SP!ContentsInjected, SameView,
       SameViewNext
  <2>2. Slave!Started = IF f.head THEN f.id - 1 ELSE f.id
    BY <1>4, <2>1, SameView DEF SP!Started
  <2>3. /\ SP!Tag(f) \in Slave!Contents /\ f.id \in 1 .. numTx /\ numTx \in Nat
        /\ f.vc \in VCs /\ f.tid \in Outputs
    <3>1. f \in SP!Flits /\ SP!Tag(f) \in SP!Contents
      BY <1>1, <1>4, <2>1, SlaveConstants, SP!FirstInContents
    <3>2. SP!Tag(f).id = f.id
      BY DEF SP!Tag
    <3>3. QED
      BY <1>1, <3>1, <3>2, SameView, SameFlows, NocAssumption
      DEF SP!ContentsInv, SP!TypeOK, SP!Flits
  <2>4. ASSUME NEW n, n > f.id, n \in Int, NEW v, NEW o
        PROVE  (\E a \in Slave!Contents : a.id = n /\ a.vc = v /\ a.tid = o)
                 <=> (\E a \in Slave!Contents' : a.id = n /\ a.vc = v /\ a.tid = o)
    <3>1. SP!Tag(f).id = f.id /\ f.id \in Int
      BY <2>3 DEF SP!Tag
    <3>2. \A a \in Slave!Contents : a.id = n => a \in Slave!Contents'
      BY <2>1, <2>4, <3>1
    <3>3. QED
      BY <2>1, <3>2
  <2>5. ASSUME NEW v, NEW o
        PROVE  Waiting(v, o)' = {n \in Waiting(v, o) : n # f.id}
    <3>1. PICK C, D, k : C = Slave!Contents /\ D = Slave!Contents' /\ k = numTx
      OBVIOUS
    <3>2. PICK m \in 1 .. k : m = f.id
      BY <2>3, <3>1
    <3>3. Waiting(v, o)' = {n \in m + 1 .. k : \E a \in D : a.id = n /\ a.vc = v /\ a.tid = o}
      BY <1>2, <2>1, <3>1, <3>2 DEF Waiting
    <3>4. PICK s \in {m, m - 1} : s = Slave!Started
      BY <2>2, <3>2
    <3>5. Waiting(v, o) = {n \in s + 1 .. k : \E a \in C : a.id = n /\ a.vc = v /\ a.tid = o}
      BY <3>1, <3>4 DEF Waiting
    <3>6. \A n \in m + 1 .. k :
            (\E a \in C : a.id = n /\ a.vc = v /\ a.tid = o)
              <=> (\E a \in D : a.id = n /\ a.vc = v /\ a.tid = o)
      BY <2>4, <3>1, <3>2
    <3>7. k \in Nat
      BY <2>3, <3>1
    <3>8. \A n : n \in s + 1 .. k /\ n # m <=> n \in m + 1 .. k
      BY <3>2, <3>4, <3>7
    <3>9. QED
      BY <3>2, <3>3, <3>5, <3>6, <3>8
  <2>6. CASE ~f.head
    <3>1. Slave!Started' = Slave!Started
      BY <2>1, <2>2, <2>6
    <3>2. \A v, o : f.id \notin Waiting(v, o)
      BY <2>2, <2>3, <2>6 DEF Waiting
    <3>3. \A v, o : Waiting(v, o)' = Waiting(v, o)
      BY <2>5, <3>2
    <3>4. QED
      BY <1>2, <1>3, <3>1, <3>3, DeliveryStep
  <2>7. CASE f.head
    <3>1. Slave!Started' = Slave!Started + 1 /\ Slave!Started # Slave!Started'
          /\ Slave!Started + 1 = f.id
      BY <2>1, <2>2, <2>3, <2>7
    <3>2. PICK g \in Flows : g = <<f.vc, f.tid>>
      BY <2>3 DEF Flows
    <3>3. EP!SentFlow = g
      <4>1. inject' = SP!BooksimFlit(f)
        BY <1>1, <1>6, <2>1 DEF SP!InputInjection, SP!InjectFlit
      <4>2. inject'.vc = f.vc /\ inject'.tid = f.tid
        BY <4>1 DEF SP!BooksimFlit
      <4>3. QED
        BY <3>2, <4>2 DEF EP!SentFlow
    <3>4. EP!Channel!Accept(g)
      <4>1. EP!Send
        BY <1>1, <1>6, FlitSent
      <4>2. UNCHANGED EP!Channel!vars \/ EP!Channel!Accept(EP!SentFlow)
        BY <4>1, EgressConstants, EP!SendStep
      <4>3. QED
        BY <3>1, <3>3, <4>2 DEF EP!Channel!vars
    <3>5. ASSUME NEW h \in Flows
          PROVE  Undelivered(h)' = IF h = g THEN Undelivered(h) \cup {f.id} ELSE Undelivered(h)
      <4>1. EP!Queue' = [EP!Queue EXCEPT ![g] = @ \cup {f.id}]
        BY <3>1, <3>4 DEF EP!Channel!Accept, EP!Queue
      <4>2. EP!Queue'[h] = IF h = g THEN EP!Queue[h] \cup {f.id} ELSE EP!Queue[h]
        BY <4>1, UnderWay
      <4>3. EP!Queue[h] = Undelivered(h) /\ EP!Queue'[h] = Undelivered(h)'
        BY UnderWay
      <4>4. QED
        BY <4>2, <4>3
    <3>6. Delivered' = Delivered
      BY <3>4, UnderWay DEF EP!Channel!Accept, EP!Delivered
    <3>7. ASSUME NEW h \in Flows
          PROVE  f.id \in Waiting(h[1], h[2]) <=> h = g
      <4>1. h = g <=> h[1] = f.vc /\ h[2] = f.tid
        BY <3>2, SameFlows
      <4>2. \A a \in Slave!Contents : a.id = f.id <=> a = SP!Tag(f)
        <5>1. SP!Tag(f).id = f.id
          BY DEF SP!Tag
        <5>2. QED
          BY <1>1, <2>3, <5>1, SameView DEF SP!ContentsInv
      <4>3. SP!Tag(f).vc = f.vc /\ SP!Tag(f).tid = f.tid
        BY DEF SP!Tag
      <4>4. f.id \in Slave!Started + 1 .. numTx
        BY <2>3, <3>1
      <4>5. QED
        BY <2>3, <4>1, <4>2, <4>3, <4>4 DEF Waiting
    <3>8. ASSUME NEW h \in Flows
          PROVE  Waiting(h[1], h[2])' \cup Undelivered(h)'
                   = Waiting(h[1], h[2]) \cup Undelivered(h)
      BY <2>5, <3>5, <3>7
    <3>9. Queue' = Queue
      <4>1. /\ Queue = [h \in Flows |-> Waiting(h[1], h[2]) \cup Undelivered(h)]
            /\ Queue' = [h \in Flows |-> Waiting(h[1], h[2])' \cup Undelivered(h)']
        BY DEF Queue
      <4>2. QED
        BY <3>8, <4>1
    <3>10. QED
      BY <1>2, <3>6, <3>9 DEF Channel!vars, Queue, Delivered, Undelivered
  <2>8. QED
    BY <2>6, <2>7
<1>7. QED
  BY <1>5, <1>6

LEMMA PathInit == Init => Channel!Init
<1>1. SUFFICES ASSUME Init PROVE Channel!Init
  OBVIOUS
<1>2. EP!Channel!Init
  BY <1>1, EgressInit, EgressConstants, EP!ChannelInit
<1>3. numTx = 0 /\ Slave!Started = 0
  BY <1>1, <1>2 DEF Init, EP!Channel!Init
<1>4. \A v, o : Waiting(v, o) = {}
  BY <1>3 DEF Waiting
<1>5. EP!Queue = [f \in EP!Flows |-> {}] /\ EP!Delivered = [f \in EP!Flows |-> 0]
  BY <1>2 DEF EP!Channel!Init, EP!Queue, EP!Delivered
<1>6. \A f \in Flows : Undelivered(f) = {}
  BY <1>5, UnderWay, SameFlows
<1>7. Queue = [f \in Flows |-> {}] /\ Delivered = [f \in Flows |-> 0]
  BY <1>4, <1>5, <1>6, UnderWay, SameFlows DEF Queue
<1>8. QED
  BY <1>3, <1>7 DEF Channel!Init, Queue, Delivered, Undelivered

LEMMA PathStep ==
  ASSUME VcBufSize <= EjectionDepth, BuffersTyped, SP!AdapterInv, SP!AdapterInv',
         EP!EgressInv, EP!EgressInv', EP!OrderInv, EP!Behind, [Next]_vars
  PROVE  [Channel!Next]_(Channel!vars)
<1>1. CASE InputInterface
  BY <1>1, AcceptStep
<1>2. CASE InputPacketization
  BY <1>2, PacketizeStep
<1>3. CASE InputInjection
  BY <1>3, InjectStep
<1>4. ASSUME UNCHANGED <<injReg, injFifo, txFifo, pktCycle, numTx>>
      PROVE  [Channel!Next]_(Channel!vars)
  <2>1. [EP!Next]_(EP!vars) /\ EP!FifosSuffice
    BY EgressStep DEF EP!FifosSuffice
  <2>2. [EP!Channel!Next]_(EP!Channel!vars)
    BY <2>1, EgressConstants, EP!ChannelStep
  <2>3. UNCHANGED EP!sourceVars
    BY <1>4, QueuesKept
  <2>4. SP!Contents' = SP!Contents
    BY <1>4 DEF SP!Contents, SP!MadeFlits
  <2>5. numTx' = numTx /\ Slave!Started' = Slave!Started
    BY <1>4, <2>3 DEF EP!sourceVars
  <2>6. \A v, o : Waiting(v, o)' = Waiting(v, o)
    BY <2>4, <2>5, SameView, SameViewNext, WaitingKept
  <2>7. QED
    BY <2>2, <2>5, <2>6, DeliveryStep
<1>5. ASSUME NEW S \in (SUBSET AllClocks) \ {{}}, ClockEdge(S)
      PROVE  [Channel!Next]_(Channel!vars)
  BY <1>4, <1>5 DEF ClockEdge, slaveVars
<1>6. CASE Settle
  BY <1>4, <1>6 DEF Settle
<1>7. CASE Tick \/ OutputEjection \/ OutputDepacketization \/ OutputInterface \/ UNCHANGED vars
  BY <1>4, <1>7
  DEF Tick, OutputEjection, OutputDepacketization, OutputInterface, vars, slaveVars
<1>8. QED
  BY <1>1, <1>2, <1>3, <1>5, <1>6, <1>7 DEF Next

\* If the FIFO of a VC at the destination has room for the flits that the
\* router may send to it, the path is a reliable FIFO channel for each packet
\* type to each interface: a transaction that the slave adapter accepts arrives
\* whole, once and in the order of acceptance, whatever the clocks, the order
\* of the threads, the network and the modules at both ends do.
THEOREM PathImplementsChannel ==
  ASSUME VcBufSize <= EjectionDepth
  PROVE  Spec => ChannelSpec
<1>1. Init => Channel!Init
  BY PathInit
<1>2. BuffersTyped /\ SP!AdapterInv /\ SP!AdapterInv' /\ EP!EgressInv /\ EP!EgressInv'
        /\ EP!OrderInv /\ EP!Behind /\ [Next]_vars => [Channel!Next]_(Channel!vars)
  BY PathStep
<1>3. Spec => [](EP!EgressInv /\ EP!OrderInv) /\ []EP!Behind
  <2>1. EP!FifosSuffice
    BY DEF EP!FifosSuffice
  <2>2. EP!FifosSuffice /\ EP!Spec => [](EP!EgressInv /\ EP!OrderInv)
    BY EgressConstants, EP!OrderCorrect
  <2>3. EP!FifosSuffice /\ EP!Spec => []EP!Behind
    BY EgressConstants, EP!BehindCorrect
  <2>4. QED
    BY <2>1, <2>2, <2>3, EgressRefined
<1>4. QED
  BY <1>1, <1>2, <1>3, SlaveInvariants, PTL DEF Spec, ChannelSpec, Channel!Spec

=============================================================================
