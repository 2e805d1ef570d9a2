-------------------------- MODULE AxisEgressProofs --------------------------
(***************************************************************************)
(* Theorems about AxisEgress, for any number of VCs and interfaces, any    *)
(* widths, depths of the FIFOs, packets and order of the kernel's threads, *)
(* provided that the FIFO of a VC has room for the flits the router may    *)
(* send to it (fifo_size and vc_buffer_size of the configurations).        *)
(***************************************************************************)
EXTENDS AxisEgress, FiniteSetTheorems, SequenceTheorems, TLAPS

FifosSuffice == VcBufSize <= EjectionDepth

(***************************************************************************)
(* The types, and the order of the threads of the NoC clock.               *)
(***************************************************************************)
AllThreads ==
  {"OutputInterface", "OutputDepacketization", "InputInjection", "OutputEjection", "Tick"}

KernelInv ==
  /\ pending \subseteq AllThreads
  /\ settled \in BOOLEAN /\ (settled => pending = {})
  /\ ticked \in BOOLEAN
  /\ \A t \in {"InputInjection", "OutputEjection"} :
       IF t \in BeforeTick THEN t \in pending => "Tick" \in pending
                           ELSE "Tick" \in pending => t \in pending

FlitsOn(v) == {f \in Flits : f.vc = v}

NocTypes ==
  /\ inject \in Flits \cup {NoFlit} /\ eject \in Flits \cup {NoFlit}
  /\ ejected \in VCs \cup {NoVC}
  /\ rbuf \in [VCs -> Seq(Flits)]
  /\ \A v \in VCs : rbuf[v] \in Seq(FlitsOn(v))
  /\ outState.occupancy \in [VCs -> Int]

FifoTypes ==
  /\ ejFifo \in [VCs -> Seq(Flits)]
  /\ \A v \in VCs : ejFifo[v] \in Seq(FlitsOn(v))
  /\ pushCount \in [VCs -> Nat] /\ popCount \in [VCs -> Nat]
  /\ pushing \in VCs \cup {NoVC}
  /\ priority \in [1 .. NumVCs -> VCs] /\ depacketizing \in BOOLEAN
  /\ constructed \in Seq(Flits)
  /\ ejectReg \in Flits \cup {NoFlit}

OutputTypes ==
  /\ outFifo \in [Outputs -> Seq(Seq(Flits))]
  /\ out \in [Outputs -> Seq(Flits)]
  /\ \A o \in Outputs : out[o] # <<>> => outFifo[o] # <<>>

SenderTypes == numTx \in Nat /\ sending \in [VCs -> Packets \cup {NoPacket}]

TypeInv == KernelInv /\ NocTypes /\ FifoTypes /\ OutputTypes /\ SenderTypes

(***************************************************************************)
(* The slots of the FIFOs: what the router counts as occupied is at least  *)
(* what is there.                                                          *)
(***************************************************************************)
\* The flits of VC v that occupy a slot of the router's count, with the credit
\* that waits in the map.
Occupied(v) ==
  Count(Unread /\ eject # NoFlit /\ eject.vc = v) + Len(ejFifo[v]) + Count(ejected = v)

SlotInv ==
  /\ ejectReg = NoFlit
  /\ \A v \in VCs : outState.occupancy[v] \in Occupied(v) .. VcBufSize

\* With an edge of the NoC clock between two of the adapter clock, the map is
\* empty when a flit is taken.
MapInv ==
  AdapterSlower =>
    /\ "OutputDepacketization" \in pending => ejected = NoVC /\ ~ticked
    /\ ticked /\ "Tick" \notin pending => ejected = NoVC
    /\ \A v \in VCs : outState.occupancy[v] = Occupied(v)

(***************************************************************************)
(* The counters.                                                           *)
(***************************************************************************)
CountInv ==
  /\ settled \/ "OutputEjection" \in pending => pushing = NoVC
  /\ CountersMatchFifos

(***************************************************************************)
(* The flits of a VC from the FIFO back to the sender, in order.           *)
(***************************************************************************)
Now(v)  == IF Unread /\ eject # NoFlit /\ eject.vc = v THEN <<eject>> ELSE <<>>
Last(v) == IF inject # NoFlit /\ inject.vc = v THEN <<inject>> ELSE <<>>

Line(v) == (ejFifo[v] \o Now(v)) \o (rbuf[v] \o Last(v))

\* g may come after f on a VC: f ends a packet and g begins one, or g continues
\* the packet of f.
Follows(f, g) ==
  IF f.tail THEN g.head /\ g.seq = 0
  ELSE ~g.head /\ g.id = f.id /\ g.tid = f.tid /\ g.seq = f.seq + 1

\* The VC whose packet is being rebuilt.
Rebuilding(v) == depacketizing /\ v = priority[1]

Begins(v, f) ==
  IF Rebuilding(v) THEN Follows(constructed[Len(constructed)], f)
                   ELSE f.head /\ f.seq = 0

Chain(s) == \A k \in 1 .. Len(s) - 1 : Follows(s[k], s[k + 1])

\* What the sender does next continues the line.
Ends(v, line) ==
  IF sending[v] = NoPacket THEN line # <<>> => line[Len(line)].tail
  ELSE /\ line # <<>>
       /\ LET f == line[Len(line)] IN /\ ~f.tail
                                     /\ f.id = sending[v].id /\ f.tid = sending[v].tid
                                     /\ f.seq + 1 = sending[v].next

InjectInv ==
  inject # NoFlit =>
    IF "InputInjection" \in BeforeTick
    THEN "InputInjection" \notin pending /\ "Tick" \in pending
    ELSE "InputInjection" \notin pending \/ "Tick" \in pending

LineInv ==
  \A v \in VCs : /\ Chain(Line(v))
                 /\ Line(v) # <<>> => Begins(v, Line(v)[1])
                 /\ Ends(v, Line(v))

RebuildInv ==
  /\ Master!PacketPrefix(constructed)
  /\ depacketizing <=> constructed # <<>>
  /\ constructed # <<>> => /\ ~constructed[Len(constructed)].tail
                          /\ constructed[1].vc = priority[1]
                          /\ Master!HasCompletePacket(priority[1])

OutputInv ==
  \A o \in Outputs :
    /\ Len(outFifo[o]) <= OutputDepth
    /\ \A k \in 1 .. Len(outFifo[o]) : Master!WholePacket(outFifo[o][k]) /\ outFifo[o][k][1].tid = o
    /\ out[o] # <<>> => outFifo[o] # <<>> /\ out[o] = outFifo[o][1]

(***************************************************************************)
(* The constants and the threads.                                          *)
(***************************************************************************)
LEMMA Constants ==
  /\ NumVCs \in Nat \ {0} /\ NumOutputs \in Nat \ {0}
  /\ EjectionDepth \in Nat \ {0} /\ OutputDepth \in Nat \ {0}
  /\ VCs = 0 .. NumVCs - 1 /\ Outputs = 0 .. NumOutputs - 1
  /\ Noc!VCs = VCs /\ Master!VCs = VCs /\ Master!Outputs = Outputs
BY EgressAssumption
   DEF Master!MasterAssumption, VCs, Outputs, Noc!VCs, Master!VCs, Master!Outputs

LEMMA Apart == NoFlit \notin Flits /\ NoVC \notin VCs /\ NoPacket \notin Packets
BY EgressAssumption

LEMMA BufferSize == VcBufSize \in Nat \ {0}
BY EgressAssumption

\* What a clock edge lets run.
LEMMA EdgeThreads ==
  ASSUME NEW S \in SUBSET Clocks, ClockEdge(S)
  PROVE  /\ pending = {} /\ pending' \subseteq AllThreads
         /\ \A t \in {"InputInjection", "OutputEjection"} :
              t \in pending' <=> "Tick" \in pending'
         /\ "Tick" \in pending' <=> "noc" \in S
         /\ "OutputDepacketization" \in pending' <=> "adapter" \in S
<1>1. pending' = UNION {Threads[c] : c \in S} /\ pending = {}
  BY DEF ClockEdge
<1>2. /\ Threads["node"] = {"OutputInterface"}
      /\ Threads["adapter"] = {"OutputDepacketization"}
      /\ Threads["noc"] = {"InputInjection", "OutputEjection", "Tick"}
  BY DEF Threads
<1>3. \A t : t \in pending' <=>
             (\/ "node" \in S /\ t \in Threads["node"]
              \/ "adapter" \in S /\ t \in Threads["adapter"]
              \/ "noc" \in S /\ t \in Threads["noc"])
  <2>1. \A c \in S : c = "node" \/ c = "adapter" \/ c = "noc"
    BY DEF Clocks
  <2>2. \A t : t \in pending' <=> \E c \in S : t \in Threads[c]
    BY <1>1
  <2>3. QED
    BY <2>1, <2>2
<1>4. QED
  BY <1>1, <1>2, <1>3 DEF AllThreads

(***************************************************************************)
(* Which steps read the eject channel: from Tick to OutputEjection a flit  *)
(* presented is unread.                                                    *)
(***************************************************************************)
LEMMA KernelInit == Init => KernelInv
BY DEF Init, KernelInv, AllThreads

LEMMA KernelNext == KernelInv /\ [Next]_vars => KernelInv'
<1> SUFFICES ASSUME KernelInv, [Next]_vars PROVE KernelInv'
  OBVIOUS
<1>1. ASSUME NEW S \in SUBSET Clocks, ClockEdge(S) PROVE KernelInv'
  <2>1. settled' = FALSE /\ ticked' \in BOOLEAN
    BY <1>1 DEF ClockEdge, KernelInv
  <2>2. QED
    BY <1>1, <2>1, EdgeThreads DEF KernelInv
<1>2. CASE Settle
  BY <1>2 DEF Settle, KernelInv, AllThreads
<1>3. CASE Send
  BY <1>3 DEF Send, Master!Run, Master!TickOrder, KernelInv, AllThreads
<1>4. CASE Tick
  BY <1>4 DEF Tick, Master!Run, KernelInv, AllThreads
<1>5. CASE OutputEjection
  BY <1>5 DEF OutputEjection, Master!OutputEjection, Master!Run, Master!TickOrder, KernelInv,
              AllThreads
<1>6. CASE OutputDepacketization
  BY <1>6 DEF OutputDepacketization, Master!OutputDepacketization, Master!Run, KernelInv,
              AllThreads
<1>7. CASE OutputInterface
  BY <1>7 DEF OutputInterface, Master!OutputInterface, Master!Run, KernelInv, AllThreads
<1>8. CASE UNCHANGED vars
  BY <1>8 DEF vars, kernelVars, KernelInv
<1>9. QED
  BY <1>1, <1>2, <1>3, <1>4, <1>5, <1>6, <1>7, <1>8 DEF Next

\* Nobody but Tick and OutputEjection changes what is unread.
LEMMA UnreadKept ==
  ASSUME KernelInv,
         \/ \E S \in SUBSET Clocks : ClockEdge(S)
         \/ Settle \/ Send \/ OutputDepacketization \/ OutputInterface
  PROVE  Unread' <=> Unread
<1>1. ASSUME NEW S \in SUBSET Clocks, ClockEdge(S) PROVE Unread' <=> Unread
  <2>1. pending = {} /\ ("OutputEjection" \in pending' <=> "Tick" \in pending')
    BY <1>1, EdgeThreads
  <2>2. QED
    BY <2>1 DEF Unread
<1>2. CASE Settle
  BY <1>2 DEF Settle, Unread
<1>3. CASE Send
  BY <1>3 DEF Send, Master!Run, Unread
<1>4. CASE OutputDepacketization
  BY <1>4 DEF OutputDepacketization, Master!OutputDepacketization, Master!Run, Unread
<1>5. CASE OutputInterface
  BY <1>5 DEF OutputInterface, Master!OutputInterface, Master!Run, Unread
<1>6. QED
  BY <1>1, <1>2, <1>3, <1>4, <1>5

LEMMA TickPresents ==
  ASSUME KernelInv, Tick
  PROVE  ~Unread /\ Unread'
BY DEF Tick, Master!Run, KernelInv, Unread

LEMMA EjectionReads ==
  ASSUME KernelInv, OutputEjection
  PROVE  Unread /\ ~Unread'
BY DEF OutputEjection, Master!OutputEjection, Master!Run, Master!TickOrder, KernelInv, Unread

(***************************************************************************)
(* Tick, as its effect on what the invariants speak of.                    *)
(***************************************************************************)
LEMMA HeadTail ==
  ASSUME NEW S, NEW q \in Seq(S), q # <<>>
  PROVE  /\ Head(q) \in S /\ Tail(q) \in Seq(S) /\ Len(q) \in Nat \ {0}
         /\ q[1] = Head(q) /\ Len(Tail(q)) = Len(q) - 1
         /\ \A k \in 1 .. Len(q) - 1 : Tail(q)[k] = q[k + 1]
OBVIOUS

LEMMA FlitsOnType ==
  ASSUME NEW v, NEW f \in FlitsOn(v)
  PROVE  f \in Flits /\ f.vc = v /\ f # NoFlit
BY Apart DEF FlitsOn

LEMMA LastType ==
  ASSUME NocTypes, NEW v \in VCs
  PROVE  /\ Last(v) \in Seq(FlitsOn(v)) /\ Now(v) \in Seq(FlitsOn(v))
<1>1. inject # NoFlit /\ inject.vc = v => inject \in FlitsOn(v)
  BY DEF NocTypes, FlitsOn
<1>2. eject # NoFlit /\ eject.vc = v => eject \in FlitsOn(v)
  BY DEF NocTypes, FlitsOn
<1>3. Last(v) \in Seq(FlitsOn(v))
  BY <1>1 DEF Last
<1>4. Now(v) \in Seq(FlitsOn(v))
  BY <1>2 DEF Now
<1>5. QED
  BY <1>3, <1>4

LEMMA BufferedType ==
  ASSUME NocTypes
  PROVE  /\ Noc!Buffered \in [VCs -> Seq(Flits)]
         /\ \A v \in VCs : /\ Noc!Buffered[v] \in Seq(FlitsOn(v))
                           /\ Noc!Buffered[v] = rbuf[v] \o Last(v)
<1>1. DOMAIN Noc!Buffered = VCs
  BY Constants DEF Noc!Buffered
<1>2. ASSUME NEW v \in VCs
      PROVE  /\ Noc!Buffered[v] \in Seq(FlitsOn(v)) /\ Noc!Buffered[v] \in Seq(Flits)
             /\ Noc!Buffered[v] = rbuf[v] \o Last(v)
  <2>1. PICK r \in Seq(FlitsOn(v)) : r = rbuf[v]
    BY DEF NocTypes
  <2>2. Seq(FlitsOn(v)) \subseteq Seq(Flits)
    BY DEF FlitsOn
  <2>3. CASE inject # NoFlit /\ inject.vc = v
    <3>1. inject \in FlitsOn(v)
      BY <2>3 DEF NocTypes, FlitsOn
    <3>2. Noc!Buffered[v] = Append(r, inject) /\ Last(v) = <<inject>>
      BY <2>1, <2>3, Constants DEF Noc!Buffered, Last
    <3>3. PICK i \in FlitsOn(v) : i = inject
      BY <3>1
    <3>4. Append(r, i) \in Seq(FlitsOn(v)) /\ Append(r, i) = r \o <<i>>
      OBVIOUS
    <3>5. QED
      BY <2>1, <2>2, <3>2, <3>3, <3>4
  <2>4. CASE ~(inject # NoFlit /\ inject.vc = v)
    <3>1. Noc!Buffered[v] = r /\ Last(v) = <<>>
      BY <2>1, <2>4, Constants DEF Noc!Buffered, Last
    <3>2. r \o <<>> = r
      OBVIOUS
    <3>3. QED
      BY <2>1, <2>2, <3>1, <3>2
  <2>5. QED
    BY <2>3, <2>4
<1>3. Noc!Buffered = [v \in VCs |-> Noc!Buffered[v]]
  BY <1>1, Constants DEF Noc!Buffered
<1>4. QED
  BY <1>2, <1>3

\* The counts of the occupied slots after the credit in the map.
CreditedCount(v) == outState.occupancy[v] - Count(ejected = v)

LEMMA CreditedOccupancy ==
  ASSUME NocTypes
  PROVE  /\ Noc!Credited.occupancy \in [VCs -> Int]
         /\ \A v \in VCs : Noc!Credited.occupancy[v] = CreditedCount(v)
<1>1. CASE ejected = NoVC
  BY <1>1, Apart DEF NocTypes, Noc!Credited, CreditedCount, Count
<1>2. CASE ejected # NoVC
  <2>1. ejected \in VCs
    BY <1>2 DEF NocTypes
  <2>2. Noc!Credited.occupancy = [outState.occupancy EXCEPT ![ejected] = @ - 1]
    BY <1>2 DEF Noc!Credited, Noc!ProcessCredit
  <2>3. QED
    BY <2>1, <2>2 DEF NocTypes, CreditedCount, Count
<1>3. QED
  BY <1>1, <1>2

\* A flit moves, on VC v.
Moves(v) ==
  /\ eject' \in FlitsOn(v)
  /\ rbuf' \in [VCs -> Seq(Flits)]
  /\ rbuf'[v] \in Seq(FlitsOn(v))
  /\ rbuf[v] \o Last(v) # <<>>
  /\ eject' = Head(rbuf[v] \o Last(v)) /\ rbuf'[v] = Tail(rbuf[v] \o Last(v))
  /\ \A w \in VCs \ {v} : rbuf'[w] = rbuf[w] \o Last(w)
  /\ CreditedCount(v) < VcBufSize
  /\ outState'.occupancy \in [VCs -> Int]
  /\ \A w \in VCs : outState'.occupancy[w] = CreditedCount(w) + Count(w = v)

NoneMoves ==
  /\ eject' = NoFlit
  /\ rbuf' \in [VCs -> Seq(Flits)]
  /\ \A w \in VCs : rbuf'[w] = rbuf[w] \o Last(w)
  /\ outState'.occupancy \in [VCs -> Int]
  /\ \A w \in VCs : outState'.occupancy[w] = CreditedCount(w)

LEMMA TickEffect ==
  ASSUME NocTypes, Tick
  PROVE  /\ inject' = NoFlit /\ ejected' = NoVC
         /\ UNCHANGED <<settled, ticked, masterVars, sourceVars>>
         /\ NoneMoves \/ \E v \in VCs : Moves(v)
<1>1. /\ inject' = NoFlit /\ ejected' = NoVC
      /\ UNCHANGED <<settled, ticked, masterVars, sourceVars>>
      /\ Noc!NothingMoves \/ \E v \in VCs : Noc!Forward(v)
  BY Constants, Zenon DEF Tick, Noc!NocCycle
<1>2. CASE Noc!NothingMoves
  <2>1. rbuf' = Noc!Buffered /\ outState' = Noc!Credited /\ eject' = NoFlit
    BY <1>2 DEF Noc!NothingMoves
  <2>2. NoneMoves
    BY <2>1, BufferedType, CreditedOccupancy DEF NoneMoves
  <2>3. QED
    BY <1>1, <2>2
<1>3. ASSUME NEW v \in VCs, Noc!Forward(v) PROVE Moves(v)
  <2>1. PICK b \in [VCs -> Seq(Flits)] : b = Noc!Buffered
    BY BufferedType
  <2>2. /\ b[v] # <<>> /\ eject' = Head(b[v])
        /\ rbuf' = [b EXCEPT ![v] = Tail(@)]
        /\ ~Noc!IsFullFor(Noc!Credited, v)
        /\ outState' = Noc!SendingFlit(IF Head(b[v]).head
                                       THEN Noc!TakeBuffer(Noc!Credited, v)
                                       ELSE Noc!Credited, Head(b[v]))
    BY <1>3, <2>1 DEF Noc!Forward, Noc!CanForward
  <2>3. /\ b[v] \in Seq(FlitsOn(v))
        /\ \A w \in VCs : b[w] = rbuf[w] \o Last(w)
    BY <2>1, BufferedType
  <2>4. PICK q \in Seq(FlitsOn(v)) : q = b[v]
    BY <2>3
  <2>5. Head(q) \in FlitsOn(v) /\ Tail(q) \in Seq(FlitsOn(v)) /\ Tail(q) \in Seq(Flits)
    <3>1. FlitsOn(v) \subseteq Flits
      BY DEF FlitsOn
    <3>2. QED
      BY <2>2, <2>4, <3>1
  <2>6. rbuf' \in [VCs -> Seq(Flits)] /\ rbuf'[v] = Tail(q) /\ \A w \in VCs \ {v} : rbuf'[w] = b[w]
    BY <2>2, <2>4, <2>5
  <2>7. PICK o \in [VCs -> Int] : o = Noc!Credited.occupancy
    BY CreditedOccupancy
  <2>8. outState'.occupancy = [o EXCEPT ![v] = @ + 1]
    <3>1. Head(b[v]).vc = v
      BY <2>4, <2>5 DEF FlitsOn
    <3>2. outState'.occupancy =
            [(IF Head(b[v]).head THEN Noc!TakeBuffer(Noc!Credited, v)
              ELSE Noc!Credited).occupancy EXCEPT ![v] = @ + 1]
      BY <2>2, <3>1 DEF Noc!SendingFlit
    <3>3. Noc!TakeBuffer(Noc!Credited, v).occupancy = o
      BY <2>7 DEF Noc!TakeBuffer
    <3>4. QED
      BY <2>7, <3>2, <3>3
  <2>9. /\ outState'.occupancy \in [VCs -> Int]
        /\ \A w \in VCs : outState'.occupancy[w] = CreditedCount(w) + Count(w = v)
    <3>1. \A w \in VCs : o[w] = CreditedCount(w)
      BY <2>7, CreditedOccupancy
    <3>2. QED
      BY <2>8, <3>1 DEF Count
  <2>10. CreditedCount(v) < VcBufSize
    <3>1. ~(o[v] >= VcBufSize) /\ o[v] = CreditedCount(v) /\ o[v] \in Int
      BY <2>2, <2>7, CreditedOccupancy DEF Noc!IsFullFor
    <3>2. QED
      BY <3>1, BufferSize
  <2>11. QED
    BY <2>2, <2>3, <2>4, <2>5, <2>6, <2>9, <2>10 DEF Moves
<1>4. QED
  BY <1>1, <1>2, <1>3

(***************************************************************************)
(* OutputEjection and OutputDepacketization, in the same way.              *)
(***************************************************************************)
\* The flit f is filed, and no flit is.
Filed(f) ==
  /\ f \in Flits /\ f.vc \in VCs
  /\ Len(ejFifo[f.vc]) < EjectionDepth
  /\ ejFifo' = [ejFifo EXCEPT ![f.vc] = Append(@, f)]
  /\ pushing' = IF f.tail THEN f.vc ELSE NoVC
  /\ ejectReg' = NoFlit

NotFiled(f) ==
  /\ f # NoFlit => f \in Flits /\ ~(Len(ejFifo[f.vc]) < EjectionDepth)
  /\ ejectReg' = f
  /\ UNCHANGED <<ejFifo, pushing>>

LEMMA EjectionEffect ==
  ASSUME NocTypes, FifoTypes, OutputEjection
  PROVE  /\ Filed(Master!Ejected) \/ NotFiled(Master!Ejected)
         /\ ejectReg = NoFlit => Master!Ejected = eject
<1>1. Master!Ejected \in Flits \cup {NoFlit}
  BY DEF NocTypes, FifoTypes, Master!Ejected
<1>2. ejectReg = NoFlit => Master!Ejected = eject
  BY DEF Master!Ejected
<1>3. \A f \in Flits : f.vc \in VCs
  BY DEF Flits
<1>4. CASE Master!HasRoom(Master!Ejected)
  <2>1. Filed(Master!Ejected)
    BY <1>1, <1>3, <1>4 DEF OutputEjection, Master!OutputEjection, Master!HasRoom, Filed
  <2>2. QED
    BY <1>2, <2>1
<1>5. CASE ~Master!HasRoom(Master!Ejected)
  <2>1. NotFiled(Master!Ejected)
    BY <1>1, <1>5 DEF OutputEjection, Master!OutputEjection, Master!HasRoom, NotFiled
  <2>2. QED
    BY <1>2, <2>1
<1>6. QED
  BY <1>4, <1>5

LEMMA SmallestElement ==
  ASSUME NEW T \in SUBSET Nat, T # {}
  PROVE  \E n \in T : \A m \in T : n <= m
<1> DEFINE R == {ss \in Nat \X Nat : ss[1] < ss[2]}
<1>1. IsWellFoundedOn(R, Nat)
  BY NatLessThanWellFounded, Zenon DEF OpToRel
<1>2. PICK n \in T : \A m \in T : ~ (<<m, n>> \in R)
  <2> HIDE DEF R
  <2> QED
    BY <1>1, WFMin, Zenon
<1>3. \A m \in T : ~(m < n)
  BY <1>2
<1>4. QED
  BY <1>3

\* The priority queue is rotated to the first VC with a packet.
LEMMA RotationFirst ==
  /\ Master!Rotation \in 0 .. NumVCs - 1
  /\ depacketizing => Master!Rotation = 0
<1>1. CASE depacketizing \/ \A k \in 1 .. NumVCs : ~Master!HasCompletePacket(priority[k])
  BY <1>1, Constants DEF Master!Rotation
<1>2. CASE ~(depacketizing \/ \A k \in 1 .. NumVCs : ~Master!HasCompletePacket(priority[k]))
  <2> DEFINE T == {k \in 0 .. NumVCs - 1 : Master!HasCompletePacket(priority[k + 1])}
  <2>1. PICK j \in 1 .. NumVCs : Master!HasCompletePacket(priority[j])
    BY <1>2
  <2>2. j - 1 \in T
    <3>1. j - 1 \in 0 .. NumVCs - 1 /\ (j - 1) + 1 = j
      BY Constants
    <3>2. QED
      BY <2>1, <3>1
  <2>3. PICK n \in T : \A m \in T : n <= m
    <3>1. T \subseteq 0 .. NumVCs - 1 /\ T # {}
      BY <2>2
    <3> HIDE DEF T
    <3>2. T \subseteq Nat
      BY <3>1, Constants
    <3>3. QED
      BY <3>1, <3>2, SmallestElement
  <2>4. \A i \in 1 .. n : ~Master!HasCompletePacket(priority[i])
    <3>1. SUFFICES ASSUME NEW i \in 1 .. n, Master!HasCompletePacket(priority[i]) PROVE FALSE
      OBVIOUS
    <3>2. i - 1 \in 0 .. NumVCs - 1 /\ (i - 1) + 1 = i /\ ~(n <= i - 1)
      BY Constants
    <3>3. i - 1 \in T
      BY <3>1, <3>2
    <3>4. QED
      BY <2>3, <3>2, <3>3
  <2>5. \E k \in 0 .. NumVCs - 1 : /\ Master!HasCompletePacket(priority[k + 1])
                                   /\ \A i \in 1 .. k : ~Master!HasCompletePacket(priority[i])
    BY <2>4
  <2>6. (CHOOSE k \in 0 .. NumVCs - 1 :
           /\ Master!HasCompletePacket(priority[k + 1])
           /\ \A i \in 1 .. k : ~Master!HasCompletePacket(priority[i])) \in 0 .. NumVCs - 1
    BY <2>5, Zenon
  <2>7. QED
    BY <1>2, <2>6, Zenon DEF Master!Rotation
<1>3. QED
  BY <1>1, <1>2

LEMMA RotatedType ==
  ASSUME priority \in [1 .. NumVCs -> VCs], NEW k \in Nat
  PROVE  /\ Master!Rotated(k) \in [1 .. NumVCs -> VCs]
         /\ k < NumVCs => Master!Rotated(k)[1] = priority[k + 1]
<1>1. \A n \in Nat : n % NumVCs \in 0 .. NumVCs - 1
  BY Constants
<1>2. ASSUME NEW j \in 1 .. NumVCs PROVE priority[((j - 1 + k) % NumVCs) + 1] \in VCs
  <2>1. j - 1 + k \in Nat
    BY Constants
  <2>2. ((j - 1 + k) % NumVCs) + 1 \in 1 .. NumVCs
    <3>1. PICK m \in 0 .. NumVCs - 1 : m = (j - 1 + k) % NumVCs
      BY <1>1, <2>1
    <3>2. m + 1 \in 1 .. NumVCs
      BY Constants
    <3>3. QED
      BY <3>1, <3>2
  <2>3. QED
    BY <2>2
<1>3. Master!Rotated(k) \in [1 .. NumVCs -> VCs]
  BY <1>2 DEF Master!Rotated
<1>4. ASSUME k < NumVCs PROVE Master!Rotated(k)[1] = priority[k + 1]
  <2>1. (1 - 1 + k) % NumVCs = k
    BY <1>4, Constants
  <2>2. 1 \in 1 .. NumVCs
    BY Constants
  <2>3. QED
    BY <2>1, <2>2 DEF Master!Rotated
<1>5. QED
  BY <1>3, <1>4

\* What every step that takes the front flit f of VC v does, and what it does
\* with the last flit of a packet and with another one.
Takes(v, f) ==
  /\ v \in VCs /\ (depacketizing => v = priority[1])
  /\ Master!HasCompletePacket(v)
  /\ ejFifo[v] # <<>> /\ f = Head(ejFifo[v])
  /\ ejFifo' = [ejFifo EXCEPT ![v] = Tail(@)]
  /\ ejected' = IF ejected = NoVC THEN v ELSE ejected
  /\ priority' \in [1 .. NumVCs -> VCs]

TakesTail(v, f) ==
  /\ Takes(v, f) /\ f.tail
  /\ outFifo' = [outFifo EXCEPT ![f.tid] = Append(@, Append(constructed, f))]
  /\ constructed' = <<>> /\ depacketizing' = FALSE
  /\ popCount' = [popCount EXCEPT ![v] = @ + 1]

TakesOther(v, f) ==
  /\ Takes(v, f) /\ ~f.tail
  /\ constructed' = Append(constructed, f) /\ depacketizing' = TRUE
  /\ priority'[1] = v
  /\ UNCHANGED <<outFifo, popCount>>

TakesNone ==
  /\ depacketizing => ~Master!HasCompletePacket(priority[1])
  /\ priority' \in [1 .. NumVCs -> VCs]
  /\ UNCHANGED <<ejFifo, ejected, popCount, depacketizing, constructed, outFifo>>

LEMMA DepacketizationEffect ==
  ASSUME FifoTypes, OutputDepacketization
  PROVE  \/ TakesNone
         \/ \E v, f : TakesTail(v, f) \/ TakesOther(v, f)
<1> DEFINE R == Master!Rotation
<1> DEFINE v == priority[R + 1]
<1>1. R \in 0 .. NumVCs - 1 /\ (depacketizing => R = 0)
  BY RotationFirst, Zenon
<1>2. priority \in [1 .. NumVCs -> VCs]
  BY DEF FifoTypes
<1> HIDE DEF R
<1>3. v \in VCs /\ (depacketizing => v = priority[1])
  BY <1>1, <1>2, Constants
<1>4. /\ Master!Rotated(1) \in [1 .. NumVCs -> VCs]
      /\ Master!Rotated(R) \in [1 .. NumVCs -> VCs] /\ Master!Rotated(R)[1] = v
      /\ Master!Rotated(R + 1) \in [1 .. NumVCs -> VCs]
  <2>1. R \in Nat /\ R + 1 \in Nat /\ R < NumVCs
    BY <1>1, Constants
  <2>2. QED
    BY <1>2, <2>1, RotatedType
<1>5. IF Master!HasCompletePacket(v)
      THEN Master!TakeFlit(v)
      ELSE /\ priority' = Master!Rotated(1)
           /\ UNCHANGED <<ejFifo, ejected, popCount, depacketizing, constructed, outFifo>>
  BY DEF OutputDepacketization, Master!OutputDepacketization, R
<1> HIDE DEF v
<1>6. CASE ~Master!HasCompletePacket(v)
  <2>1. TakesNone
    BY <1>3, <1>4, <1>5, <1>6 DEF TakesNone
  <2>2. QED
    BY <2>1
<1>7. CASE Master!HasCompletePacket(v)
  <2> DEFINE f == Head(ejFifo[v])
  <2>1. ejFifo[v] # <<>>
    BY <1>7 DEF Master!HasCompletePacket
  <2>2. /\ ejFifo' = [ejFifo EXCEPT ![v] = Tail(@)]
        /\ ejected' = IF ejected = NoVC THEN v ELSE ejected
    BY <1>5, <1>7 DEF Master!TakeFlit
  <2>3. CASE f.tail
    <3>1. /\ outFifo' = [outFifo EXCEPT ![f.tid] = Append(@, Append(constructed, f))]
          /\ constructed' = <<>> /\ depacketizing' = FALSE
          /\ popCount' = [popCount EXCEPT ![v] = @ + 1]
          /\ priority' = Master!Rotated(R + 1)
      BY <1>5, <1>7, <2>3 DEF Master!TakeFlit, R
    <3> HIDE DEF f
    <3>2. Takes(v, f)
      BY <1>3, <1>4, <1>7, <2>1, <2>2, <3>1 DEF Takes, f
    <3>3. TakesTail(v, f)
      BY <2>3, <3>1, <3>2 DEF TakesTail
    <3>4. QED
      BY <3>3
  <2>4. CASE ~f.tail
    <3>1. /\ constructed' = Append(constructed, f) /\ depacketizing' = TRUE
          /\ priority' = Master!Rotated(R)
          /\ UNCHANGED <<outFifo, popCount>>
      BY <1>5, <1>7, <2>4 DEF Master!TakeFlit, R
    <3> HIDE DEF f
    <3>2. Takes(v, f)
      BY <1>3, <1>4, <1>7, <2>1, <2>2, <3>1 DEF Takes, f
    <3>3. TakesOther(v, f)
      BY <1>4, <2>4, <3>1, <3>2 DEF TakesOther
    <3>4. QED
      BY <3>3
  <2>5. QED
    BY <2>3, <2>4
<1>8. QED
  BY <1>6, <1>7

(***************************************************************************)
(* The senders and the ports.                                              *)
(***************************************************************************)
\* What remains of packet p when its next flit, which may be its last, has been sent,
\* and that flit.
Remains(p, last) == IF last THEN NoPacket ELSE [p EXCEPT !.next = @ + 1]

FlitOf(p, v, last) ==
  [id |-> p.id, seq |-> p.next, head |-> p.next = 0, tail |-> last,
   vc |-> v, node |-> p.node, dest |-> p.dest, tid |-> p.tid]

Sends(v, p) ==
  /\ v \in VCs /\ p \in Packets
  /\ \/ sending[v] = p /\ numTx' = numTx
     \/ sending[v] = NoPacket /\ p.next = 0 /\ p.id = numTx + 1 /\ numTx' = numTx + 1
  /\ inject' \in FlitsOn(v)
  /\ \E last \in BOOLEAN : /\ inject' = FlitOf(p, v, last)
                           /\ Remains(p, last) \in Packets \cup {NoPacket}
                           /\ sending' = [sending EXCEPT ![v] = Remains(p, last)]
  /\ numTx' \in Nat

SendsNone == UNCHANGED <<inject, sourceVars>>

LEMMA SendEffect ==
  ASSUME SenderTypes, Send
  PROVE  SendsNone \/ \E v, p : Sends(v, p)
<1>1. ASSUME NEW v \in VCs, NEW p \in Packets, SendFlit(v, p), numTx' \in Nat,
             \/ sending[v] = p /\ numTx' = numTx
             \/ sending[v] = NoPacket /\ p.next = 0 /\ p.id = numTx + 1 /\ numTx' = numTx + 1
      PROVE  Sends(v, p)
  <2>1. PICK last \in BOOLEAN : /\ inject' = FlitOf(p, v, last)
                               /\ sending' = [sending EXCEPT ![v] = Remains(p, last)]
    BY <1>1 DEF SendFlit, FlitOf, Remains
  <2>2. inject' \in FlitsOn(v)
    <3>1. p.id \in Nat /\ p.next \in Nat /\ p.tid \in Outputs /\ p.node \in Nodes /\ p.dest \in Dests
      BY DEF Packets
    <3>2. (p.next = 0) \in BOOLEAN
      OBVIOUS
    <3>3. QED
      BY <2>1, <3>1, <3>2 DEF FlitOf, FlitsOn, Flits
  <2>3. Remains(p, last) \in Packets \cup {NoPacket}
    BY DEF Remains, Packets
  <2>4. QED
    BY <1>1, <2>1, <2>2, <2>3 DEF Sends
<1>2. ASSUME NEW v \in VCs, sending[v] # NoPacket, SendFlit(v, sending[v]), UNCHANGED numTx
      PROVE  \E p : Sends(v, p)
  <2>1. sending[v] \in Packets /\ numTx' \in Nat
    BY <1>2 DEF SenderTypes
  <2>2. QED
    BY <1>1, <1>2, <2>1
<1>3. ASSUME numTx < MaxTx, numTx' = numTx + 1, NEW v \in VCs, NEW n \in Nodes, NEW d \in Dests,
             NEW o \in Outputs, sending[v] = NoPacket,
             SendFlit(v, [id |-> numTx + 1, node |-> n, dest |-> d, tid |-> o, next |-> 0])
      PROVE  \E p : Sends(v, p)
  <2>1. numTx \in Nat /\ numTx + 1 \in 1 .. MaxTx /\ numTx' \in Nat
    BY <1>3, EgressAssumption DEF SenderTypes
  <2>2. PICK p : p = [id |-> numTx + 1, node |-> n, dest |-> d, tid |-> o, next |-> 0]
    OBVIOUS
  <2>3. p \in Packets /\ p.next = 0 /\ p.id = numTx + 1
    BY <2>1, <2>2 DEF Packets
  <2>4. QED
    BY <1>1, <1>3, <2>1, <2>2, <2>3
<1>4. CASE UNCHANGED <<inject, sourceVars>>
  BY <1>4 DEF SendsNone
<1>5. QED
  BY <1>2, <1>3, <1>4 DEF Send

\* A port that is empty takes nothing out of its FIFO.
LEMMA PortEffect ==
  ASSUME OutputTypes, OutputInterface, NEW o \in Outputs
  PROVE  /\ outFifo[o] \in Seq(Seq(Flits)) /\ outFifo'[o] \in Seq(Seq(Flits))
         /\ out'[o] \in Seq(Flits)
         /\ \/ outFifo'[o] = outFifo[o]
            \/ (outFifo[o] # <<>> /\ outFifo'[o] = Tail(outFifo[o]))
         /\ out'[o] # <<>> => outFifo'[o] # <<>> /\ out'[o] = outFifo'[o][1]
<1>1. outFifo[o] \in Seq(Seq(Flits)) /\ (out[o] # <<>> => outFifo[o] # <<>>)
  BY DEF OutputTypes
<1>2. PICK q \in Seq(Seq(Flits)) : q = outFifo[o]
  BY <1>1
<1>3. outFifo'[o] = Master!Popped(o) /\ out'[o] = Master!Presented(o)
  BY Constants DEF OutputInterface, Master!OutputInterface
<1>4. \/ Master!Popped(o) = q
      \/ q # <<>> /\ Master!Popped(o) = Tail(q)
  BY <1>1, <1>2 DEF Master!Popped, Master!Transfer
<1>5. Master!Popped(o) \in Seq(Seq(Flits))
  <2>1. q # <<>> => Tail(q) \in Seq(Seq(Flits))
    OBVIOUS
  <2>2. QED
    BY <1>4, <2>1
<1>6. PICK r \in Seq(Seq(Flits)) : r = Master!Popped(o)
  BY <1>5
<1>7. out'[o] = IF r # <<>> THEN Head(r) ELSE <<>>
  BY <1>3, <1>6 DEF Master!Presented
<1>8. out'[o] \in Seq(Flits) /\ (out'[o] # <<>> => r # <<>> /\ out'[o] = r[1])
  BY <1>7
<1>9. QED
  BY <1>1, <1>2, <1>3, <1>4, <1>6, <1>8

LEMMA PortTypes ==
  ASSUME OutputTypes, OutputInterface
  PROVE  OutputTypes'
<1>1. /\ outFifo' = [o \in Outputs |-> Master!Popped(o)]
      /\ out' = [o \in Outputs |-> Master!Presented(o)]
  BY Constants DEF OutputInterface, Master!OutputInterface
<1>2. /\ outFifo' = [o \in Outputs |-> outFifo'[o]]
      /\ out' = [o \in Outputs |-> out'[o]]
  BY <1>1
<1>3. QED
  BY <1>2, PortEffect DEF OutputTypes

(***************************************************************************)
(* Type correctness.                                                       *)
(***************************************************************************)
LEMMA TypeInit == Init => TypeInv
<1> SUFFICES ASSUME Init PROVE TypeInv
  OBVIOUS
<1>1. KernelInv
  BY KernelInit
<1>2. NocTypes
  BY Constants DEF Init, Noc!NocInit, Noc!EmptyBuffer, NocTypes
<1>3. FifoTypes
  <2>1. [k \in 1 .. NumVCs |-> k - 1] \in [1 .. NumVCs -> VCs]
    BY Constants
  <2>2. priority \in [1 .. NumVCs -> VCs]
    BY <2>1, Zenon DEF Init, Master!MasterInit
  <2>3. /\ ejFifo = [v \in VCs |-> <<>>] /\ pushCount = [v \in VCs |-> 0]
        /\ popCount = [v \in VCs |-> 0] /\ pushing = NoVC /\ ejectReg = NoFlit
        /\ depacketizing = FALSE /\ constructed = <<>>
    BY Constants, Zenon DEF Init, Master!MasterInit
  <2>4. /\ ejFifo \in [VCs -> Seq(Flits)]
        /\ \A v \in VCs : ejFifo[v] \in Seq(FlitsOn(v))
    BY <2>3
  <2>5. pushCount \in [VCs -> Nat] /\ popCount \in [VCs -> Nat]
    BY <2>3
  <2>6. /\ pushing \in VCs \cup {NoVC} /\ ejectReg \in Flits \cup {NoFlit}
        /\ depacketizing \in BOOLEAN
    BY <2>3, Zenon
  <2>7. constructed \in Seq(Flits)
    BY <2>3
  <2>8. QED
    BY <2>2, <2>4, <2>5, <2>6, <2>7, Zenon DEF FifoTypes
<1>4. OutputTypes
  BY Constants DEF Init, Master!MasterInit, OutputTypes
<1>5. SenderTypes
  BY DEF Init, SenderTypes
<1>6. QED
  BY <1>1, <1>2, <1>3, <1>4, <1>5 DEF TypeInv

LEMMA TypeNext == TypeInv /\ [Next]_vars => TypeInv'
<1> SUFFICES ASSUME TypeInv, [Next]_vars PROVE TypeInv'
  OBVIOUS
<1>1. KernelInv /\ NocTypes /\ FifoTypes /\ OutputTypes /\ SenderTypes
  BY DEF TypeInv
<1>2. KernelInv'
  BY <1>1, KernelNext
<1>3. ASSUME UNCHANGED nocVars, UNCHANGED sourceVars, UNCHANGED <<outFifo, out>>, FifoTypes'
      PROVE  TypeInv'
  BY <1>1, <1>2, <1>3 DEF nocVars, sourceVars, TypeInv, NocTypes, OutputTypes, SenderTypes
<1>4. ASSUME UNCHANGED masterVars, NocTypes', SenderTypes'
      PROVE  TypeInv'
  BY <1>1, <1>2, <1>4 DEF masterVars, TypeInv, FifoTypes, OutputTypes
<1>5. ASSUME NEW S \in SUBSET Clocks, ClockEdge(S) PROVE TypeInv'
  <2>1. UNCHANGED <<nocVars, masterVars, sourceVars>>
    BY <1>5 DEF ClockEdge
  <2>2. FifoTypes'
    BY <1>1, <2>1 DEF masterVars, FifoTypes
  <2>3. QED
    BY <1>3, <2>1, <2>2 DEF masterVars
<1>6. CASE Settle
  <2>1. /\ UNCHANGED <<nocVars, sourceVars>> /\ UNCHANGED <<outFifo, out>>
        /\ UNCHANGED <<ejectReg, ejFifo, popCount, priority, depacketizing, constructed>>
        /\ pushing' = NoVC
        /\ pushCount' = IF pushing = NoVC THEN pushCount
                                          ELSE [pushCount EXCEPT ![pushing] = @ + 1]
    BY <1>6 DEF Settle, Master!CommitPush
  <2>2. pushCount' \in [VCs -> Nat]
    BY <1>1, <2>1 DEF FifoTypes
  <2>3. FifoTypes'
    BY <1>1, <2>1, <2>2 DEF FifoTypes
  <2>4. QED
    BY <1>3, <2>1, <2>3
<1>7. CASE Send
  <2>1. UNCHANGED <<credit, rbuf, outState, eject, ejected, masterVars>>
    BY <1>7 DEF Send
  <2>2. inject' \in Flits \cup {NoFlit} /\ SenderTypes'
    <3>1. CASE SendsNone
      BY <1>1, <3>1 DEF SendsNone, sourceVars, NocTypes, SenderTypes
    <3>2. ASSUME NEW v, NEW p, Sends(v, p) PROVE inject' \in Flits \cup {NoFlit} /\ SenderTypes'
      BY <1>1, <3>2 DEF Sends, FlitsOn, SenderTypes
    <3>3. QED
      BY <1>1, <1>7, <3>1, <3>2, SendEffect
  <2>3. NocTypes'
    BY <1>1, <2>1, <2>2 DEF NocTypes
  <2>4. QED
    BY <1>4, <2>1, <2>2, <2>3
<1>8. CASE Tick
  <2>1. /\ inject' = NoFlit /\ ejected' = NoVC
        /\ UNCHANGED <<settled, ticked, masterVars, sourceVars>>
        /\ NoneMoves \/ \E v \in VCs : Moves(v)
    BY <1>1, <1>8, TickEffect
  <2>2. \A w \in VCs : rbuf[w] \o Last(w) \in Seq(FlitsOn(w))
    <3>1. \A w \in VCs : /\ Noc!Buffered[w] \in Seq(FlitsOn(w))
                         /\ Noc!Buffered[w] = rbuf[w] \o Last(w)
      BY <1>1, BufferedType
    <3>2. QED
      BY <3>1
  <2>3. NocTypes'
    <3>1. CASE NoneMoves
      BY <2>1, <2>2, <3>1 DEF NoneMoves, NocTypes
    <3>2. ASSUME NEW v \in VCs, Moves(v) PROVE NocTypes'
      <4>1. eject' \in Flits
        BY <3>2 DEF Moves, FlitsOn
      <4>2. \A w \in VCs : rbuf'[w] \in Seq(FlitsOn(w))
        <5>1. \A w \in VCs : w = v \/ rbuf'[w] = rbuf[w] \o Last(w)
          BY <3>2 DEF Moves
        <5>2. rbuf'[v] \in Seq(FlitsOn(v))
          BY <3>2 DEF Moves
        <5>3. QED
          BY <2>2, <5>1, <5>2
      <4>3. QED
        BY <2>1, <3>2, <4>1, <4>2 DEF Moves, NocTypes
    <3>3. QED
      BY <2>1, <3>1, <3>2
  <2>4. SenderTypes'
    BY <1>1, <2>1 DEF sourceVars, SenderTypes
  <2>5. QED
    BY <1>4, <2>1, <2>3, <2>4
<1>9. CASE OutputEjection
  <2>1. /\ UNCHANGED <<inject, credit, rbuf, outState, eject, ejected, sourceVars>>
        /\ UNCHANGED <<pushCount, popCount, priority, depacketizing, constructed, outFifo, out>>
    BY <1>9 DEF OutputEjection, Master!OutputEjection
  <2>2. Filed(Master!Ejected) \/ NotFiled(Master!Ejected)
    BY <1>1, <1>9, EjectionEffect
  <2>3. PICK f : f = Master!Ejected
    OBVIOUS
  <2>4. FifoTypes'
    <3>1. CASE Filed(f)
      <4>1. /\ f \in Flits /\ f.vc \in VCs /\ ejectReg' = NoFlit
            /\ ejFifo' = [ejFifo EXCEPT ![f.vc] = Append(@, f)]
            /\ pushing' \in VCs \cup {NoVC}
        BY <3>1 DEF Filed
      <4>2. \A w \in VCs : ejFifo'[w] \in Seq(FlitsOn(w)) /\ ejFifo'[w] \in Seq(Flits)
        <5>1. SUFFICES ASSUME NEW w \in VCs
                       PROVE  ejFifo'[w] \in Seq(FlitsOn(w)) /\ ejFifo'[w] \in Seq(Flits)
          OBVIOUS
        <5>2. PICK q \in Seq(FlitsOn(w)) : q = ejFifo[w]
          BY <1>1 DEF FifoTypes
        <5>3. Seq(FlitsOn(w)) \subseteq Seq(Flits)
          BY DEF FlitsOn
        <5>4. CASE w = f.vc
          <6>1. f \in FlitsOn(w)
            BY <4>1, <5>4 DEF FlitsOn
          <6>2. Append(q, f) \in Seq(FlitsOn(w))
            BY <6>1
          <6>3. ejFifo'[w] = Append(q, f)
            BY <1>1, <4>1, <5>2, <5>4 DEF FifoTypes
          <6>4. QED
            BY <5>3, <6>2, <6>3
        <5>5. CASE w # f.vc
          <6>1. ejFifo'[w] = q
            BY <1>1, <4>1, <5>2, <5>5 DEF FifoTypes
          <6>2. QED
            BY <5>3, <6>1
        <5>6. QED
          BY <5>4, <5>5
      <4>3. ejFifo' \in [VCs -> Seq(Flits)]
        <5>1. DOMAIN ejFifo' = VCs /\ ejFifo' = [w \in VCs |-> ejFifo'[w]]
          BY <1>1, <4>1 DEF FifoTypes
        <5>2. QED
          BY <4>2, <5>1
      <4>4. QED
        BY <1>1, <2>1, <4>1, <4>2, <4>3 DEF FifoTypes
    <3>2. CASE NotFiled(f)
      BY <1>1, <2>1, <3>2 DEF NotFiled, FifoTypes
    <3>3. QED
      BY <2>2, <2>3, <3>1, <3>2
  <2>5. UNCHANGED nocVars
    BY <2>1 DEF nocVars
  <2>6. QED
    BY <1>3, <2>1, <2>4, <2>5
<1>10. CASE OutputDepacketization
  <2>1. /\ UNCHANGED <<inject, credit, rbuf, outState, eject, sourceVars>>
        /\ UNCHANGED <<ejectReg, pushCount, pushing, out>>
    BY <1>10 DEF OutputDepacketization, Master!OutputDepacketization
  <2>2. SenderTypes'
    BY <1>1, <2>1 DEF sourceVars, SenderTypes
  <2>3. ASSUME TakesNone PROVE TypeInv'
    <3>1. NocTypes'
      BY <1>1, <2>1, <2>3 DEF TakesNone, NocTypes
    <3>2. FifoTypes'
      BY <1>1, <2>1, <2>3 DEF TakesNone, FifoTypes
    <3>3. OutputTypes'
      BY <1>1, <2>1, <2>3 DEF TakesNone, OutputTypes
    <3>4. QED
      BY <1>2, <2>2, <3>1, <3>2, <3>3 DEF TypeInv
  <2>4. ASSUME NEW v, NEW f, Takes(v, f)
        PROVE  /\ NocTypes' /\ f \in FlitsOn(v)
               /\ ejFifo' \in [VCs -> Seq(Flits)]
               /\ \A w \in VCs : ejFifo'[w] \in Seq(FlitsOn(w))
    <3>1. v \in VCs /\ ejFifo[v] # <<>> /\ f = Head(ejFifo[v])
      BY <2>4 DEF Takes
    <3>2. PICK q \in Seq(FlitsOn(v)) : q = ejFifo[v]
      BY <1>1, <3>1 DEF FifoTypes
    <3>3. Head(q) \in FlitsOn(v) /\ Tail(q) \in Seq(FlitsOn(v)) /\ Tail(q) \in Seq(Flits)
      <4>1. FlitsOn(v) \subseteq Flits
        BY DEF FlitsOn
      <4>2. QED
        BY <3>1, <3>2, <4>1
    <3>4. /\ ejFifo' \in [VCs -> Seq(Flits)] /\ ejFifo'[v] = Tail(q)
          /\ \A w \in VCs \ {v} : ejFifo'[w] = ejFifo[w]
      BY <1>1, <2>4, <3>1, <3>2, <3>3 DEF Takes, FifoTypes
    <3>5. \A w \in VCs : ejFifo'[w] \in Seq(FlitsOn(w))
      BY <1>1, <3>3, <3>4 DEF FifoTypes
    <3>6. ejected' \in VCs \cup {NoVC}
      BY <1>1, <2>4, <3>1 DEF Takes, NocTypes
    <3>7. NocTypes'
      BY <1>1, <2>1, <3>6 DEF NocTypes
    <3>8. QED
      BY <3>1, <3>2, <3>3, <3>4, <3>5, <3>7
  <2>5. ASSUME NEW v, NEW f, TakesOther(v, f) PROVE TypeInv'
    <3>1. Takes(v, f)
      BY <2>5 DEF TakesOther
    <3>2. /\ NocTypes' /\ f \in FlitsOn(v)
          /\ ejFifo' \in [VCs -> Seq(Flits)]
          /\ \A w \in VCs : ejFifo'[w] \in Seq(FlitsOn(w))
      BY <2>4, <3>1
    <3>3. constructed' \in Seq(Flits)
      BY <1>1, <2>5, <3>2 DEF TakesOther, FifoTypes, FlitsOn
    <3>4. FifoTypes'
      BY <1>1, <2>1, <2>5, <3>1, <3>2, <3>3 DEF Takes, TakesOther, FifoTypes
    <3>5. OutputTypes'
      BY <1>1, <2>1, <2>5 DEF TakesOther, OutputTypes
    <3>6. QED
      BY <1>2, <2>2, <3>2, <3>4, <3>5 DEF TypeInv
  <2>6. ASSUME NEW v, NEW f, TakesTail(v, f) PROVE TypeInv'
    <3>1. Takes(v, f)
      BY <2>6 DEF TakesTail
    <3>2. /\ NocTypes' /\ f \in FlitsOn(v)
          /\ ejFifo' \in [VCs -> Seq(Flits)]
          /\ \A w \in VCs : ejFifo'[w] \in Seq(FlitsOn(w))
      BY <2>4, <3>1
    <3>3. f \in Flits /\ f.tid \in Outputs /\ v \in VCs
      BY <3>1, <3>2 DEF FlitsOn, Flits, Takes
    <3>4. constructed' \in Seq(Flits) /\ popCount' \in [VCs -> Nat]
      BY <1>1, <2>6, <3>3 DEF TakesTail, FifoTypes
    <3>5. FifoTypes'
      BY <1>1, <2>1, <2>6, <3>1, <3>2, <3>4 DEF Takes, TakesTail, FifoTypes
    <3>6. OutputTypes'
      <4>1. PICK c \in Seq(Flits) : c = Append(constructed, f)
        <5>1. PICK b \in Seq(Flits) : b = constructed
          BY <1>1 DEF FifoTypes
        <5>2. Append(b, f) \in Seq(Flits)
          BY <3>3
        <5>3. QED
          BY <5>1, <5>2
      <4>2. outFifo' = [outFifo EXCEPT ![f.tid] = Append(@, c)]
        BY <2>6, <4>1 DEF TakesTail
      <4>3. PICK q \in Seq(Seq(Flits)) : q = outFifo[f.tid]
        BY <1>1, <3>3 DEF OutputTypes
      <4>4. Append(q, c) \in Seq(Seq(Flits)) /\ Append(q, c) # <<>>
        OBVIOUS
      <4>5. /\ outFifo' \in [Outputs -> Seq(Seq(Flits))]
            /\ \A o \in Outputs : outFifo'[o] = <<>> => outFifo[o] = <<>>
        BY <1>1, <3>3, <4>2, <4>3, <4>4 DEF OutputTypes
      <4>6. QED
        BY <1>1, <2>1, <4>5 DEF OutputTypes
    <3>7. QED
      BY <1>2, <2>2, <3>2, <3>5, <3>6 DEF TypeInv
  <2>7. QED
    BY <1>1, <1>10, <2>3, <2>5, <2>6, DepacketizationEffect
<1>11. CASE OutputInterface
  <2>1. /\ UNCHANGED <<inject, credit, rbuf, outState, eject, ejected, sourceVars>>
        /\ UNCHANGED <<ejectReg, ejFifo, pushCount, pushing, popCount, priority, depacketizing,
                       constructed>>
    BY <1>11 DEF OutputInterface, Master!OutputInterface
  <2>2. NocTypes' /\ SenderTypes'
    BY <1>1, <2>1 DEF NocTypes, SenderTypes, sourceVars
  <2>3. FifoTypes'
    BY <1>1, <2>1 DEF FifoTypes
  <2>4. QED
    BY <1>1, <1>2, <1>11, <2>2, <2>3, PortTypes DEF TypeInv
<1>12. CASE UNCHANGED vars
  BY <1>1, <1>2, <1>12
     DEF vars, nocVars, masterVars, sourceVars, TypeInv, NocTypes, FifoTypes, OutputTypes,
         SenderTypes
<1>13. QED
  BY <1>5, <1>6, <1>7, <1>8, <1>9, <1>10, <1>11, <1>12 DEF Next

(***************************************************************************)
(* The counters: how many tails a sequence of flits has.                   *)
(***************************************************************************)
TailsAt(q) == {k \in 1 .. Len(q) : q[k].tail}

\* The instance of AxisMasterAdapter has an instance of FiniteSets of its own.
LEMMA MasterCardinality == ASSUME NEW S PROVE Master!Cardinality(S) = Cardinality(S)
BY DEF Master!Cardinality, Cardinality

LEMMA TailsDef == ASSUME NEW q PROVE Master!Tails(q) = Cardinality(TailsAt(q))
BY MasterCardinality DEF Master!Tails, TailsAt

LEMMA TailsType ==
  ASSUME NEW q \in Seq(Flits)
  PROVE  IsFiniteSet(TailsAt(q)) /\ Master!Tails(q) \in Nat /\ Master!Tails(q) = Cardinality(TailsAt(q))
<1>1. IsFiniteSet(1 .. Len(q))
  BY FS_Interval
<1>2. TailsAt(q) \in SUBSET (1 .. Len(q))
  BY DEF TailsAt
<1>3. IsFiniteSet(TailsAt(q))
  BY <1>1, <1>2, FS_Subset
<1>4. QED
  BY <1>3, FS_CardinalityType, TailsDef

LEMMA TailsEmpty == Master!Tails(<<>>) = 0
<1>1. TailsAt(<<>>) = {}
  BY DEF TailsAt
<1>2. QED
  BY <1>1, FS_EmptySet, TailsDef, Zenon

LEMMA TailsOne ==
  ASSUME NEW f \in Flits
  PROVE  Master!Tails(<<f>>) = Count(f.tail)
<1> DEFINE S == {k \in 1 .. Len(<<f>>) : (<<f>>)[k].tail}
<1>1. 1 .. Len(<<f>>) = {1} /\ (<<f>>)[1] = f
  OBVIOUS
<1>2. CASE f.tail
  <2>1. S = {1}
    BY <1>1, <1>2, Zenon
  <2>2. QED
    BY <1>2, <2>1, FS_Singleton, TailsDef DEF TailsAt, Count
<1>3. CASE ~f.tail
  <2>1. S = {}
    BY <1>1, <1>3, Zenon
  <2>2. QED
    BY <1>3, <2>1, FS_EmptySet, TailsDef DEF TailsAt, Count
<1>4. QED
  BY <1>2, <1>3

LEMMA TailsConcat ==
  ASSUME NEW p \in Seq(Flits), NEW q \in Seq(Flits)
  PROVE  Master!Tails(p \o q) = Master!Tails(p) + Master!Tails(q)
<1> DEFINE P == TailsAt(p)
           Q == TailsAt(q)
           R == {k \in Len(p) + 1 .. Len(p) + Len(q) : (p \o q)[k].tail}
           f == [k \in Q |-> k + Len(p)]
<1>1. /\ Len(p) \in Nat /\ Len(q) \in Nat
      /\ Len(p \o q) = Len(p) + Len(q)
      /\ \A k \in 1 .. Len(p) : (p \o q)[k] = p[k]
      /\ \A k \in 1 .. Len(q) : (p \o q)[k + Len(p)] = q[k]
  OBVIOUS
<1>2. IsFiniteSet(P) /\ IsFiniteSet(Q)
  BY TailsType
<1>3. f \in Bijection(Q, R)
  <2>1. Q = {k \in 1 .. Len(q) : q[k].tail}
    BY <1>1 DEF TailsAt
  <2>2. ASSUME NEW k \in Q PROVE k + Len(p) \in R
    BY <1>1, <2>1
  <2>3. ASSUME NEW r \in R PROVE \E k \in Q : k + Len(p) = r
    <3>1. r - Len(p) \in 1 .. Len(q) /\ (r - Len(p)) + Len(p) = r
      BY <1>1
    <3>2. q[r - Len(p)] = (p \o q)[r]
      BY <1>1, <3>1
    <3>3. QED
      BY <2>1, <3>1, <3>2
  <2>4. \A j, k \in Q : j + Len(p) = k + Len(p) => j = k
    BY <1>1, <2>1
  <2> HIDE DEF Q, R
  <2>5. f \in [Q -> R]
    BY <2>2
  <2>6. f \in Injection(Q, R)
    BY <2>4, <2>5 DEF Injection, IsInjective
  <2>7. f \in Surjection(Q, R)
    BY <2>3, <2>5 DEF Surjection
  <2>8. QED
    BY <2>6, <2>7 DEF Bijection
<1>4. IsFiniteSet(R) /\ Cardinality(R) = Cardinality(Q)
  <2>1. ExistsBijection(Q, R)
    BY <1>3 DEF ExistsBijection
  <2> HIDE DEF Q, R
  <2>2. QED
    BY <1>2, <1>3, <2>1, FS_Bijection
<1>5. TailsAt(p \o q) = P \cup R /\ P \cap R = {}
  BY <1>1 DEF TailsAt
<1>6. Cardinality(P \cup R) = Cardinality(P) + Cardinality(R)
  <2> HIDE DEF P, R
  <2>1. Cardinality(P) \in Nat /\ Cardinality(R) \in Nat /\ Cardinality(P \cap R) = 0
    BY <1>2, <1>4, <1>5, FS_CardinalityType, FS_EmptySet
  <2>2. Cardinality(P \cup R) = Cardinality(P) + Cardinality(R) - Cardinality(P \cap R)
    BY <1>2, <1>4, FS_Union
  <2>3. QED
    BY <2>1, <2>2
<1>7. QED
  BY <1>4, <1>5, <1>6, TailsDef

LEMMA TailsAppend ==
  ASSUME NEW q \in Seq(Flits), NEW f \in Flits
  PROVE  Master!Tails(Append(q, f)) = Master!Tails(q) + Count(f.tail)
<1>1. Append(q, f) = q \o <<f>> /\ <<f>> \in Seq(Flits)
  OBVIOUS
<1>2. QED
  BY <1>1, TailsConcat, TailsOne

LEMMA TailsTail ==
  ASSUME NEW q \in Seq(Flits), q # <<>>
  PROVE  Master!Tails(q) = Count(Head(q).tail) + Master!Tails(Tail(q))
<1>1. Head(q) \in Flits /\ Tail(q) \in Seq(Flits) /\ <<Head(q)>> \in Seq(Flits)
  OBVIOUS
<1>2. q = <<Head(q)>> \o Tail(q)
  <2>1. Len(q) \in Nat \ {0}
    OBVIOUS
  <2>2. /\ <<Head(q)>> \o Tail(q) \in Seq(Flits) /\ Len(<<Head(q)>> \o Tail(q)) = Len(q)
        /\ \A i \in 1 .. Len(q) : (<<Head(q)>> \o Tail(q))[i] = q[i]
    BY <1>1, <2>1
  <2>3. QED
    BY <2>2, SeqEqual
<1>3. Master!Tails(<<Head(q)>> \o Tail(q)) = Master!Tails(<<Head(q)>>) + Master!Tails(Tail(q))
  BY <1>1, TailsConcat
<1>4. QED
  BY <1>1, <1>2, <1>3, TailsOne

LEMMA CountType == ASSUME NEW b PROVE Count(b) \in 0 .. 1
BY DEF Count

\* The counters of one VC.
CountAt(v) ==
  /\ popCount[v] <= pushCount[v]
  /\ pushCount[v] + Count(pushing = v) = popCount[v] + Master!Tails(ejFifo[v])

LEMMA CountersAt == CountersMatchFifos <=> \A v \in VCs : CountAt(v)
BY Constants DEF CountersMatchFifos, Master!CountersMatchFifos, CountAt, Count

LEMMA CountInit == Init => CountInv
<1> SUFFICES ASSUME Init PROVE CountInv
  OBVIOUS
<1>1. /\ settled = TRUE /\ pending = {} /\ pushing = NoVC
      /\ pushCount = [v \in VCs |-> 0] /\ popCount = [v \in VCs |-> 0]
      /\ ejFifo = [v \in VCs |-> <<>>]
  BY Constants, Zenon DEF Init, Master!MasterInit
<1>2. ASSUME NEW v \in VCs PROVE CountAt(v)
  BY <1>1, TailsEmpty, Apart DEF CountAt, Count
<1>3. QED
  BY <1>1, <1>2, CountersAt DEF CountInv

LEMMA CountNext == TypeInv /\ CountInv /\ [Next]_vars => CountInv'
<1> SUFFICES ASSUME TypeInv, CountInv, [Next]_vars PROVE CountInv'
  OBVIOUS
<1>1. KernelInv /\ NocTypes /\ FifoTypes /\ SenderTypes
  BY DEF TypeInv
<1>2. \A v \in VCs : /\ pushCount[v] \in Nat /\ popCount[v] \in Nat /\ ejFifo[v] \in Seq(Flits)
                     /\ Master!Tails(ejFifo[v]) \in Nat
  BY <1>1, TailsType DEF FifoTypes
<1>3. \A v \in VCs : CountAt(v)
  BY CountersAt DEF CountInv
<1>4. CountersMatchFifos' <=> \A v \in VCs : CountAt(v)'
  BY Constants DEF CountersMatchFifos, Master!CountersMatchFifos, CountAt, Count
<1>5. ASSUME UNCHANGED <<ejFifo, pushCount, pushing, popCount>> PROVE CountersMatchFifos'
  BY <1>3, <1>4, <1>5 DEF CountAt, Count
<1>6. ASSUME NEW S \in SUBSET Clocks, ClockEdge(S) PROVE CountInv'
  <2>1. settled /\ UNCHANGED <<ejFifo, pushCount, pushing, popCount>>
    BY <1>6 DEF ClockEdge, masterVars
  <2>2. QED
    BY <1>5, <2>1 DEF CountInv
<1>7. CASE Settle
  <2>1. /\ UNCHANGED <<ejFifo, popCount>> /\ pushing' = NoVC
        /\ pushCount' = IF pushing = NoVC THEN pushCount
                                          ELSE [pushCount EXCEPT ![pushing] = @ + 1]
    BY <1>7 DEF Settle, Master!CommitPush
  <2>2. ASSUME NEW v \in VCs PROVE CountAt(v)'
    <3>1. pushCount'[v] = pushCount[v] + Count(pushing = v)
      <4>1. CASE pushing = v
        BY <1>1, <2>1, <4>1, Apart DEF FifoTypes, Count
      <4>2. CASE pushing # v
        BY <1>1, <1>2, <2>1, <4>2 DEF FifoTypes, Count
      <4>3. QED
        BY <4>1, <4>2
    <3>2. Count(pushing' = v) = 0
      BY <2>1, Apart DEF Count
    <3>3. Count(pushing = v) \in 0 .. 1
      BY CountType
    <3>4. popCount[v] <= pushCount[v] /\ pushCount[v] + Count(pushing = v) = popCount[v] + Master!Tails(ejFifo[v])
      BY <1>3 DEF CountAt
    <3>5. popCount'[v] <= pushCount'[v] /\ pushCount'[v] + Count(pushing' = v) = popCount'[v] + Master!Tails(ejFifo'[v])
      BY <1>2, <2>1, <3>1, <3>2, <3>3, <3>4
    <3>6. QED
      BY <3>5 DEF CountAt
  <2>3. QED
    BY <1>4, <2>1, <2>2 DEF CountInv
<1>8. CASE Send
  <2>1. /\ UNCHANGED <<ejFifo, pushCount, pushing, popCount, settled>>
        /\ "OutputEjection" \in pending' => "OutputEjection" \in pending
    BY <1>8 DEF Send, Master!Run, masterVars
  <2>2. QED
    BY <1>5, <2>1 DEF CountInv
<1>9. CASE Tick
  <2>1. /\ UNCHANGED <<ejFifo, pushCount, pushing, popCount, settled>>
        /\ "OutputEjection" \in pending' => "OutputEjection" \in pending
    BY <1>9 DEF Tick, Master!Run, masterVars
  <2>2. QED
    BY <1>5, <2>1 DEF CountInv
<1>10. CASE OutputEjection
  <2>1. /\ UNCHANGED <<pushCount, popCount, settled>> /\ ~settled
        /\ "OutputEjection" \in pending /\ "OutputEjection" \notin pending'
    BY <1>1, <1>10 DEF OutputEjection, Master!OutputEjection, Master!Run, KernelInv
  <2>2. pushing = NoVC
    BY <2>1 DEF CountInv
  <2>3. PICK f : f = Master!Ejected
    OBVIOUS
  <2>4. CASE NotFiled(f)
    BY <1>5, <2>1, <2>4 DEF NotFiled, CountInv
  <2>5. CASE Filed(f)
    <3>1. /\ f \in Flits /\ f.vc \in VCs
          /\ ejFifo' = [ejFifo EXCEPT ![f.vc] = Append(@, f)]
          /\ pushing' = IF f.tail THEN f.vc ELSE NoVC
      BY <2>5 DEF Filed
    <3>2. ASSUME NEW v \in VCs PROVE CountAt(v)'
      <4>1. Count(pushing = v) = 0
        BY <2>2, Apart DEF Count
      <4>2. Master!Tails(ejFifo'[v]) = Master!Tails(ejFifo[v]) + Count(pushing' = v)
        <5>1. CASE v = f.vc
          <6>1. ejFifo'[v] = Append(ejFifo[v], f)
            BY <1>1, <3>1, <5>1 DEF FifoTypes
          <6>2. Master!Tails(Append(ejFifo[v], f)) = Master!Tails(ejFifo[v]) + Count(f.tail)
            BY <1>2, <3>1, TailsAppend
          <6>3. Count(pushing' = v) = Count(f.tail)
            BY <3>1, <5>1, Apart DEF Count
          <6>4. QED
            BY <6>1, <6>2, <6>3
        <5>2. CASE v # f.vc
          <6>1. ejFifo'[v] = ejFifo[v]
            BY <1>1, <3>1, <5>2 DEF FifoTypes
          <6>2. Count(pushing' = v) = 0
            BY <3>1, <5>2, Apart DEF Count
          <6>3. QED
            BY <1>2, <6>1, <6>2
        <5>3. QED
          BY <5>1, <5>2
      <4>3. Count(pushing' = v) \in 0 .. 1
        BY CountType
      <4>4. popCount[v] <= pushCount[v] /\ pushCount[v] + Count(pushing = v) = popCount[v] + Master!Tails(ejFifo[v])
        BY <1>3 DEF CountAt
      <4>5. popCount'[v] <= pushCount'[v] /\ pushCount'[v] + Count(pushing' = v) = popCount'[v] + Master!Tails(ejFifo'[v])
        BY <1>2, <2>1, <4>1, <4>2, <4>3, <4>4
      <4>6. QED
        BY <4>5 DEF CountAt
    <3>3. QED
      BY <1>4, <2>1, <3>2 DEF CountInv
  <2>6. QED
    BY <1>1, <1>10, <2>3, <2>4, <2>5, EjectionEffect
<1>11. CASE OutputDepacketization
  <2>1. /\ UNCHANGED <<pushCount, pushing, settled>>
        /\ "OutputEjection" \in pending' => "OutputEjection" \in pending
    BY <1>11 DEF OutputDepacketization, Master!OutputDepacketization, Master!Run
  <2>2. CASE TakesNone
    BY <1>5, <2>1, <2>2 DEF TakesNone, CountInv
  <2>3. ASSUME NEW v, NEW f, Takes(v, f)
        PROVE  /\ v \in VCs /\ pushCount[v] > popCount[v]
               /\ Master!Tails(ejFifo[v]) = Count(f.tail) + Master!Tails(ejFifo'[v])
               /\ Master!Tails(ejFifo'[v]) \in Nat
               /\ \A w \in VCs \ {v} : ejFifo'[w] = ejFifo[w]
    <3>1. /\ v \in VCs /\ pushCount[v] > popCount[v]
          /\ ejFifo[v] # <<>> /\ f = Head(ejFifo[v])
          /\ ejFifo' = [ejFifo EXCEPT ![v] = Tail(@)]
      BY <2>3 DEF Takes, Master!HasCompletePacket
    <3>2. ejFifo'[v] = Tail(ejFifo[v]) /\ \A w \in VCs \ {v} : ejFifo'[w] = ejFifo[w]
      BY <1>1, <3>1 DEF FifoTypes
    <3>3. Tail(ejFifo[v]) \in Seq(Flits)
      BY <1>2, <3>1
    <3>4. QED
      BY <1>2, <3>1, <3>2, <3>3, TailsTail, TailsType
  <2>4. ASSUME NEW v, NEW f, TakesOther(v, f) PROVE CountInv'
    <3>1. Takes(v, f) /\ Count(f.tail) = 0 /\ UNCHANGED popCount
      BY <2>4 DEF TakesOther, Count
    <3>2. \A w \in VCs : Master!Tails(ejFifo'[w]) = Master!Tails(ejFifo[w])
      BY <1>2, <2>3, <3>1
    <3>3. ASSUME NEW w \in VCs PROVE CountAt(w)'
      BY <1>3, <2>1, <3>1, <3>2 DEF CountAt
    <3>4. QED
      BY <1>4, <2>1, <3>3 DEF CountInv
  <2>5. ASSUME NEW v, NEW f, TakesTail(v, f) PROVE CountInv'
    <3>1. Takes(v, f) /\ Count(f.tail) = 1 /\ popCount' = [popCount EXCEPT ![v] = @ + 1]
      BY <2>5 DEF TakesTail, Count
    <3>2. ASSUME NEW w \in VCs PROVE CountAt(w)'
      <4>1. Count(pushing = w) \in 0 .. 1
        BY CountType
      <4>2. popCount[w] <= pushCount[w] /\ pushCount[w] + Count(pushing = w) = popCount[w] + Master!Tails(ejFifo[w])
        BY <1>3 DEF CountAt
      <4>3. popCount'[w] <= pushCount'[w] /\ pushCount'[w] + Count(pushing' = w) = popCount'[w] + Master!Tails(ejFifo'[w])
        <5>1. CASE w = v
          <6>1. popCount'[w] = popCount[w] + 1
            BY <1>1, <3>1, <5>1 DEF FifoTypes
          <6>2. /\ pushCount[w] > popCount[w]
                /\ Master!Tails(ejFifo[w]) = 1 + Master!Tails(ejFifo'[w])
                /\ Master!Tails(ejFifo'[w]) \in Nat
            BY <2>3, <3>1, <5>1
          <6>3. pushCount[w] \in Nat /\ popCount[w] \in Nat
            BY <1>2
          <6>4. pushCount' = pushCount /\ pushing' = pushing
            BY <2>1
          <6>5. QED
            BY <4>1, <4>2, <6>1, <6>2, <6>3, <6>4
        <5>2. CASE w # v
          <6>1. popCount'[w] = popCount[w]
            BY <1>1, <3>1, <5>2 DEF FifoTypes
          <6>2. ejFifo'[w] = ejFifo[w]
            BY <2>3, <3>1, <5>2
          <6>3. QED
            BY <2>1, <4>2, <6>1, <6>2
        <5>3. QED
          BY <5>1, <5>2
      <4>4. QED
        BY <4>3 DEF CountAt
    <3>3. QED
      BY <1>4, <2>1, <3>2 DEF CountInv
  <2>6. QED
    BY <1>1, <1>11, <2>2, <2>4, <2>5, DepacketizationEffect
<1>12. CASE OutputInterface
  <2>1. /\ UNCHANGED <<ejFifo, pushCount, pushing, popCount, settled>>
        /\ "OutputEjection" \in pending' => "OutputEjection" \in pending
    BY <1>12 DEF OutputInterface, Master!OutputInterface, Master!Run
  <2>2. QED
    BY <1>5, <2>1 DEF CountInv
<1>13. CASE UNCHANGED vars
  <2>1. UNCHANGED <<ejFifo, pushCount, pushing, popCount, settled, pending>>
    BY <1>13 DEF vars, kernelVars, masterVars
  <2>2. QED
    BY <1>5, <2>1 DEF CountInv
<1>14. QED
  BY <1>6, <1>7, <1>8, <1>9, <1>10, <1>11, <1>12, <1>13 DEF Next

\* The counters of whole packets always match the contents of the ejection
\* FIFOs, and no more packets are popped than were pushed (the assertion in
\* OutputDepacketization), for any depth of the FIFOs and any clocks.
THEOREM CountersMatch == Spec => []CountersMatchFifos
<1>1. Init => TypeInv /\ CountInv
  BY TypeInit, CountInit
<1>2. (TypeInv /\ CountInv) /\ [Next]_vars => (TypeInv /\ CountInv)'
  BY TypeNext, CountNext
<1>3. TypeInv /\ CountInv => CountersMatchFifos
  BY DEF CountInv
<1>4. QED
  BY <1>1, <1>2, <1>3, PTL DEF Spec

(***************************************************************************)
(* The slots.                                                              *)
(***************************************************************************)
LEMMA OccupiedType ==
  ASSUME TypeInv, NEW v \in VCs
  PROVE  /\ Occupied(v) \in Nat /\ Len(ejFifo[v]) \in Nat /\ Count(ejected = v) \in 0 .. 1
         /\ outState.occupancy[v] \in Int
<1>1. Len(ejFifo[v]) \in Nat /\ outState.occupancy[v] \in Int
  BY DEF TypeInv, FifoTypes, NocTypes
<1>2. Count(Unread /\ eject # NoFlit /\ eject.vc = v) \in 0 .. 1 /\ Count(ejected = v) \in 0 .. 1
  BY CountType
<1>3. QED
  BY <1>1, <1>2 DEF Occupied

\* Tick reads the credit in the map and presents a flit that occupies a slot.
LEMMA TickSlots ==
  ASSUME TypeInv, Tick, NEW w \in VCs, outState.occupancy[w] \in Occupied(w) .. VcBufSize
  PROVE  /\ outState'.occupancy[w] - outState.occupancy[w] = Occupied(w)' - Occupied(w)
         /\ outState'.occupancy[w] \in Occupied(w)' .. VcBufSize
<1>1. KernelInv /\ NocTypes
  BY DEF TypeInv
<1>2. ~Unread /\ Unread'
  BY <1>1, TickPresents
<1>3. /\ ejected' = NoVC /\ ejFifo' = ejFifo
      /\ NoneMoves \/ \E v \in VCs : Moves(v)
  BY <1>1, TickEffect DEF masterVars
<1>4. PICK n \in Nat : n = Len(ejFifo[w])
  BY OccupiedType
<1>5. PICK e \in 0 .. 1 : e = Count(ejected = w)
  BY OccupiedType
<1>6. Occupied(w) = n + e
  BY <1>2, <1>4, <1>5 DEF Occupied, Count
<1>7. outState.occupancy[w] \in Int /\ CreditedCount(w) = outState.occupancy[w] - e
  BY <1>5, OccupiedType DEF CreditedCount
<1>8. Count(ejected' = w) = 0
  BY <1>3, Apart DEF Count
<1>9. CASE NoneMoves
  <2>1. eject' = NoFlit /\ outState'.occupancy[w] = CreditedCount(w)
    BY <1>9 DEF NoneMoves
  <2>2. Occupied(w)' = n
    <3>1. Count(Unread' /\ eject' # NoFlit /\ eject'.vc = w) = 0
      BY <2>1 DEF Count
    <3>2. QED
      BY <1>3, <1>4, <1>8, <3>1 DEF Occupied
  <2>3. QED
    BY <1>6, <1>7, <2>1, <2>2, BufferSize
<1>10. ASSUME NEW v \in VCs, Moves(v)
       PROVE  /\ outState'.occupancy[w] - outState.occupancy[w] = Occupied(w)' - Occupied(w)
              /\ outState'.occupancy[w] \in Occupied(w)' .. VcBufSize
  <2>1. /\ eject' \in FlitsOn(v) /\ CreditedCount(v) < VcBufSize
        /\ outState'.occupancy[w] = CreditedCount(w) + Count(w = v)
    BY <1>10 DEF Moves
  <2>2. Occupied(w)' = n + Count(w = v)
    <3>1. eject' # NoFlit /\ eject'.vc = v
      BY <2>1, Apart DEF FlitsOn
    <3>2. Count(Unread' /\ eject' # NoFlit /\ eject'.vc = w) = Count(w = v)
      BY <1>2, <3>1 DEF Count
    <3>3. Count(w = v) \in 0 .. 1
      BY CountType
    <3>4. QED
      BY <1>3, <1>4, <1>8, <3>2, <3>3 DEF Occupied
  <2>3. outState'.occupancy[w] <= VcBufSize
    <3>1. CASE w = v
      BY <1>7, <2>1, <3>1, BufferSize DEF Count
    <3>2. CASE w # v
      <4>1. Count(w = v) = 0
        BY <3>2 DEF Count
      <4>2. QED
        BY <1>7, <2>1, <4>1, BufferSize
    <3>3. QED
      BY <3>1, <3>2
  <2>4. Count(w = v) \in 0 .. 1
    BY CountType
  <2>5. QED
    BY <1>6, <1>7, <2>1, <2>2, <2>3, <2>4, BufferSize
<1>11. QED
  BY <1>3, <1>9, <1>10

\* OutputEjection finds room, and moves a flit from the channel to a FIFO.
LEMMA EjectionFiles ==
  ASSUME FifosSuffice, TypeInv, SlotInv, OutputEjection
  PROVE  /\ ejectReg' = NoFlit
         /\ IF eject = NoFlit THEN UNCHANGED ejFifo
            ELSE eject.vc \in VCs /\ ejFifo' = [ejFifo EXCEPT ![eject.vc] = Append(@, eject)]
<1>1. KernelInv /\ NocTypes /\ FifoTypes /\ ejectReg = NoFlit
  BY DEF TypeInv, SlotInv
<1>2. Unread
  BY <1>1, EjectionReads
<1>3. Filed(eject) \/ NotFiled(eject)
  BY <1>1, EjectionEffect
<1>4. CASE eject = NoFlit
  BY <1>3, <1>4, Apart DEF Filed, NotFiled
<1>5. CASE eject # NoFlit
  <2>1. eject \in Flits /\ eject.vc \in VCs
    BY <1>1, <1>5 DEF NocTypes, Flits
  <2>2. Occupied(eject.vc) >= 1 + Len(ejFifo[eject.vc])
    <3>1. Len(ejFifo[eject.vc]) \in Nat /\ Count(ejected = eject.vc) \in 0 .. 1
      BY <2>1, OccupiedType
    <3>2. Count(Unread /\ eject # NoFlit /\ eject.vc = eject.vc) = 1
      BY <1>2, <1>5 DEF Count
    <3>3. QED
      BY <3>1, <3>2 DEF Occupied
  <2>3. Occupied(eject.vc) <= VcBufSize
    <3>1. outState.occupancy[eject.vc] \in Occupied(eject.vc) .. VcBufSize
      BY <2>1 DEF SlotInv
    <3>2. QED
      BY <2>1, <3>1, OccupiedType, BufferSize
  <2>4. Len(ejFifo[eject.vc]) < EjectionDepth
    <3>1. Len(ejFifo[eject.vc]) \in Nat /\ Occupied(eject.vc) \in Nat
      BY <2>1, OccupiedType
    <3>2. VcBufSize \in Nat /\ EjectionDepth \in Nat
      BY BufferSize, Constants
    <3>3. QED
      BY <2>2, <2>3, <3>1, <3>2 DEF FifosSuffice
  <2>5. Filed(eject)
    BY <1>3, <1>5, <2>4 DEF NotFiled
  <2>6. QED
    BY <1>5, <2>5 DEF Filed
<1>6. QED
  BY <1>4, <1>5

LEMMA EjectionSlots ==
  ASSUME FifosSuffice, TypeInv, SlotInv, OutputEjection, NEW w \in VCs
  PROVE  Occupied(w)' = Occupied(w)
<1>1. KernelInv /\ FifoTypes /\ NocTypes
  BY DEF TypeInv
<1>2. Unread /\ ~Unread'
  BY <1>1, EjectionReads
<1>3. UNCHANGED <<eject, ejected>>
  BY DEF OutputEjection, Master!OutputEjection
<1>4. Count(Unread' /\ eject' # NoFlit /\ eject'.vc = w) = 0
  BY <1>2 DEF Count
<1>5. PICK q \in Seq(Flits) : q = ejFifo[w]
  BY <1>1 DEF FifoTypes
<1>6. Count(ejected = w) \in 0 .. 1
  BY CountType
<1>7. CASE eject # NoFlit /\ eject.vc = w
  <2>1. Count(Unread /\ eject # NoFlit /\ eject.vc = w) = 1
    BY <1>2, <1>7 DEF Count
  <2>2. ejFifo' = [ejFifo EXCEPT ![w] = Append(@, eject)]
    BY <1>7, EjectionFiles
  <2>3. ejFifo'[w] = Append(q, eject)
    BY <1>1, <1>5, <2>2 DEF FifoTypes
  <2>4. Len(ejFifo'[w]) = Len(ejFifo[w]) + 1 /\ Len(ejFifo[w]) \in Nat
    BY <1>5, <2>3
  <2>5. QED
    BY <1>3, <1>4, <1>6, <2>1, <2>4 DEF Occupied
<1>8. CASE ~(eject # NoFlit /\ eject.vc = w)
  <2>1. Count(Unread /\ eject # NoFlit /\ eject.vc = w) = 0
    BY <1>8 DEF Count
  <2>2. ejFifo'[w] = ejFifo[w]
    <3>1. CASE eject = NoFlit
      BY <3>1, EjectionFiles
    <3>2. CASE eject # NoFlit
      BY <1>1, <1>8, <3>2, EjectionFiles DEF FifoTypes
    <3>3. QED
      BY <3>1, <3>2
  <2>3. QED
    BY <1>3, <1>4, <1>6, <2>1, <2>2 DEF Occupied
<1>9. QED
  BY <1>7, <1>8

\* Depacketization frees a slot at most; none, if its credit finds the map empty.
LEMMA DepacketizationSlots ==
  ASSUME TypeInv, OutputDepacketization, NEW w \in VCs
  PROVE  Occupied(w)' <= Occupied(w) /\ (ejected = NoVC => Occupied(w)' = Occupied(w))
<1>1. KernelInv /\ FifoTypes /\ NocTypes
  BY DEF TypeInv
<1>2. (Unread' <=> Unread) /\ UNCHANGED eject
  BY <1>1, UnreadKept DEF OutputDepacketization, Master!OutputDepacketization
<1>3. PICK u \in 0 .. 1 : u = Count(Unread /\ eject # NoFlit /\ eject.vc = w)
  BY CountType
<1>4. Count(Unread' /\ eject' # NoFlit /\ eject'.vc = w) = u
  BY <1>2, <1>3 DEF Count
<1>5. PICK q \in Seq(Flits) : q = ejFifo[w]
  BY <1>1 DEF FifoTypes
<1>6. Occupied(w) = u + Len(q) + Count(ejected = w) /\ Len(q) \in Nat /\ Count(ejected = w) \in 0 .. 1
  BY <1>3, <1>5, CountType DEF Occupied
<1>7. CASE TakesNone
  <2>1. Occupied(w)' = Occupied(w)
    BY <1>3, <1>4, <1>7 DEF TakesNone, Occupied
  <2>2. QED
    BY <1>6, <2>1
<1>8. ASSUME NEW v, NEW f, Takes(v, f)
      PROVE  Occupied(w)' <= Occupied(w) /\ (ejected = NoVC => Occupied(w)' = Occupied(w))
  <2>1. /\ v \in VCs /\ ejFifo[v] # <<>>
        /\ ejFifo' = [ejFifo EXCEPT ![v] = Tail(@)]
        /\ ejected' = IF ejected = NoVC THEN v ELSE ejected
    BY <1>8 DEF Takes
  <2>2. CASE w = v
    <3>1. ejFifo'[w] = Tail(q) /\ q # <<>>
      BY <1>1, <1>5, <2>1, <2>2 DEF FifoTypes
    <3>2. Len(ejFifo'[w]) = Len(q) - 1
      BY <3>1
    <3>3. Count(ejected' = w) \in 0 .. 1 /\ (ejected = NoVC => Count(ejected' = w) = 1 /\ Count(ejected = w) = 0)
      BY <2>1, <2>2, CountType, Apart DEF Count
    <3>4. Count(ejected' = w) <= 1 + Count(ejected = w)
      BY <1>6, <3>3
    <3>5. Occupied(w)' = u + (Len(q) - 1) + Count(ejected' = w)
      BY <1>4, <3>2 DEF Occupied
    <3>6. QED
      BY <1>6, <3>3, <3>4, <3>5
  <2>3. CASE w # v
    <3>1. ejFifo'[w] = q
      BY <1>1, <1>5, <2>1, <2>3 DEF FifoTypes
    <3>2. Count(ejected' = w) = Count(ejected = w)
      BY <2>1, <2>3, Apart DEF Count
    <3>3. Occupied(w)' = u + Len(q) + Count(ejected = w)
      BY <1>4, <3>1, <3>2 DEF Occupied
    <3>4. QED
      BY <1>6, <3>3
  <2>4. QED
    BY <2>2, <2>3
<1>9. QED
  BY <1>1, <1>7, <1>8, DepacketizationEffect DEF TakesTail, TakesOther

LEMMA OccupiedKept ==
  ASSUME Unread' <=> Unread, UNCHANGED <<eject, ejected, ejFifo>>, NEW w \in VCs
  PROVE  Occupied(w)' = Occupied(w)
BY DEF Occupied, Count

LEMMA SlotInit == Init => SlotInv /\ MapInv
<1> SUFFICES ASSUME Init PROVE SlotInv /\ MapInv
  OBVIOUS
<1>1. /\ ejectReg = NoFlit /\ eject = NoFlit /\ ejected = NoVC /\ pending = {}
      /\ ejFifo = [v \in VCs |-> <<>>]
      /\ outState.occupancy = [v \in VCs |-> 0]
  BY Constants DEF Init, Master!MasterInit, Noc!NocInit, Noc!EmptyBuffer
<1>2. ASSUME NEW v \in VCs PROVE outState.occupancy[v] = 0 /\ Occupied(v) = 0
  BY <1>1, Apart DEF Occupied, Count
<1>3. SlotInv
  BY <1>1, <1>2, BufferSize DEF SlotInv
<1>4. MapInv
  BY <1>1, <1>2 DEF MapInv
<1>5. QED
  BY <1>3, <1>4

LEMMA SlotNext == FifosSuffice /\ TypeInv /\ SlotInv /\ [Next]_vars => SlotInv'
<1> SUFFICES ASSUME FifosSuffice, TypeInv, SlotInv, [Next]_vars PROVE SlotInv'
  OBVIOUS
<1>1. KernelInv /\ ejectReg = NoFlit /\ \A v \in VCs : outState.occupancy[v] \in Occupied(v) .. VcBufSize
  BY DEF TypeInv, SlotInv
<1>2. ASSUME UNCHANGED <<ejectReg, outState>>, \A w \in VCs : Occupied(w)' = Occupied(w)
      PROVE  SlotInv'
  BY <1>1, <1>2 DEF SlotInv
<1>3. ASSUME NEW S \in SUBSET Clocks, ClockEdge(S) PROVE SlotInv'
  <2>1. UNCHANGED <<eject, ejected, ejFifo, ejectReg, outState>>
    BY <1>3 DEF ClockEdge, nocVars, masterVars
  <2>2. Unread' <=> Unread
    BY <1>1, <1>3, UnreadKept
  <2>3. QED
    BY <1>2, <2>1, <2>2, OccupiedKept
<1>4. CASE Settle \/ Send \/ OutputInterface
  <2>1. UNCHANGED <<eject, ejected, ejFifo, ejectReg, outState>>
    BY <1>4 DEF Settle, Send, OutputInterface, Master!OutputInterface, nocVars, masterVars
  <2>2. Unread' <=> Unread
    BY <1>1, <1>4, UnreadKept
  <2>3. QED
    BY <1>2, <2>1, <2>2, OccupiedKept
<1>5. CASE Tick
  <2>1. ejectReg' = ejectReg
    BY <1>5 DEF Tick, masterVars
  <2>2. QED
    BY <1>1, <1>5, <2>1, TickSlots DEF SlotInv
<1>6. CASE OutputEjection
  <2>1. outState' = outState
    BY <1>6 DEF OutputEjection
  <2>2. ejectReg' = ejectReg
    BY <1>1, <1>6, EjectionFiles
  <2>3. QED
    BY <1>2, <1>6, <2>1, <2>2, EjectionSlots
<1>7. CASE OutputDepacketization
  <2>1. UNCHANGED <<ejectReg, outState>>
    BY <1>7 DEF OutputDepacketization, Master!OutputDepacketization
  <2>2. TypeInv'
    BY TypeNext
  <2>3. ASSUME NEW w \in VCs PROVE outState'.occupancy[w] \in Occupied(w)' .. VcBufSize
    <3>1. Occupied(w)' <= Occupied(w) /\ outState'.occupancy[w] = outState.occupancy[w]
      BY <1>7, <2>1, DepacketizationSlots
    <3>2. Occupied(w)' \in Nat
      <4>1. Len(ejFifo'[w]) \in Nat
        BY <2>2 DEF TypeInv, FifoTypes
      <4>2. Count(Unread' /\ eject' # NoFlit /\ eject'.vc = w) \in 0 .. 1 /\ Count(ejected' = w) \in 0 .. 1
        BY CountType
      <4>3. QED
        BY <4>1, <4>2 DEF Occupied
    <3>3. outState.occupancy[w] \in Occupied(w) .. VcBufSize /\ Occupied(w) \in Nat
      BY <1>1, OccupiedType
    <3>4. QED
      BY <3>1, <3>2, <3>3, BufferSize
  <2>4. QED
    BY <1>1, <2>1, <2>3 DEF SlotInv
<1>8. CASE UNCHANGED vars
  <2>1. UNCHANGED <<pending, eject, ejected, ejFifo, ejectReg, outState>>
    BY <1>8 DEF vars, kernelVars, nocVars, masterVars
  <2>2. Unread' <=> Unread
    BY <2>1 DEF Unread
  <2>3. QED
    BY <1>2, <2>1, <2>2, OccupiedKept
<1>9. QED
  BY <1>3, <1>4, <1>5, <1>6, <1>7, <1>8 DEF Next

LEMMA MapNext == FifosSuffice /\ TypeInv /\ SlotInv /\ MapInv /\ [Next]_vars => MapInv'
<1> SUFFICES ASSUME FifosSuffice, TypeInv, SlotInv, MapInv, [Next]_vars, AdapterSlower
             PROVE  /\ "OutputDepacketization" \in pending' => ejected' = NoVC /\ ~ticked'
                    /\ ticked' /\ "Tick" \notin pending' => ejected' = NoVC
                    /\ \A v \in VCs : outState'.occupancy[v] = Occupied(v)'
  BY DEF MapInv
<1> DEFINE EdgesInv ==
             /\ "OutputDepacketization" \in pending => ejected = NoVC /\ ~ticked
             /\ ticked /\ "Tick" \notin pending => ejected = NoVC
<1>1. KernelInv /\ EdgesInv /\ \A v \in VCs : outState.occupancy[v] = Occupied(v)
  BY DEF TypeInv, MapInv
<1>2. ASSUME UNCHANGED outState, \A w \in VCs : Occupied(w)' = Occupied(w)
      PROVE  \A v \in VCs : outState'.occupancy[v] = Occupied(v)'
  BY <1>1, <1>2
<1>3. ASSUME NEW S \in SUBSET Clocks, ClockEdge(S)
      PROVE  EdgesInv' /\ \A v \in VCs : outState'.occupancy[v] = Occupied(v)'
  <2>1. UNCHANGED <<eject, ejected, ejFifo, outState>>
    BY <1>3 DEF ClockEdge, nocVars, masterVars
  <2>2. Unread' <=> Unread
    BY <1>1, <1>3, UnreadKept
  <2>3. /\ "adapter" \in S => ticked
        /\ ticked' = IF "adapter" \in S THEN FALSE ELSE ticked \/ "noc" \in S
    BY <1>3 DEF ClockEdge
  <2>4. EdgesInv'
    BY <1>1, <1>3, <2>1, <2>3, EdgeThreads
  <2>5. QED
    BY <1>2, <2>1, <2>2, <2>4, OccupiedKept
<1>4. CASE Settle \/ Send \/ OutputInterface
  <2>1. UNCHANGED <<eject, ejected, ejFifo, outState, ticked>>
    BY <1>4 DEF Settle, Send, OutputInterface, Master!OutputInterface, nocVars, masterVars
  <2>2. Unread' <=> Unread
    BY <1>1, <1>4, UnreadKept
  <2>3. /\ "OutputDepacketization" \in pending' => "OutputDepacketization" \in pending
        /\ "Tick" \in pending' <=> "Tick" \in pending
    BY <1>4 DEF Settle, Send, OutputInterface, Master!OutputInterface, Master!Run
  <2>4. EdgesInv'
    BY <1>1, <2>1, <2>3
  <2>5. QED
    BY <1>2, <2>1, <2>2, <2>4, OccupiedKept
<1>5. CASE Tick
  <2>1. /\ UNCHANGED ticked /\ ejected' = NoVC
        /\ "OutputDepacketization" \in pending' => "OutputDepacketization" \in pending
    BY <1>5, TickEffect DEF Tick, Master!Run, TypeInv
  <2>2. EdgesInv'
    BY <1>1, <2>1
  <2>3. ASSUME NEW w \in VCs PROVE outState'.occupancy[w] = Occupied(w)'
    <3>1. outState.occupancy[w] \in Occupied(w) .. VcBufSize
      BY DEF SlotInv
    <3>2. outState'.occupancy[w] - outState.occupancy[w] = Occupied(w)' - Occupied(w)
      BY <1>5, <3>1, TickSlots
    <3>3. outState'.occupancy[w] \in Occupied(w)' .. VcBufSize
      BY <1>5, <3>1, TickSlots
    <3>4. outState.occupancy[w] = Occupied(w) /\ Occupied(w) \in Nat
      BY <1>1, OccupiedType
    <3>5. TypeInv'
      BY TypeNext
    <3>6. Occupied(w)' \in Int /\ outState'.occupancy[w] \in Int
      <4>1. Len(ejFifo'[w]) \in Nat /\ outState'.occupancy[w] \in Int
        BY <3>5 DEF TypeInv, FifoTypes, NocTypes
      <4>2. Count(Unread' /\ eject' # NoFlit /\ eject'.vc = w) \in 0 .. 1 /\ Count(ejected' = w) \in 0 .. 1
        BY CountType
      <4>3. QED
        BY <4>1, <4>2 DEF Occupied
    <3>7. QED
      BY <3>2, <3>4, <3>6
  <2>4. QED
    BY <2>2, <2>3
<1>6. CASE OutputEjection
  <2>1. /\ UNCHANGED <<outState, ejected, ticked>>
        /\ "OutputDepacketization" \in pending' => "OutputDepacketization" \in pending
        /\ "Tick" \in pending' <=> "Tick" \in pending
    BY <1>6 DEF OutputEjection, Master!OutputEjection, Master!Run
  <2>2. EdgesInv'
    BY <1>1, <2>1
  <2>3. QED
    BY <1>2, <1>6, <2>1, <2>2, EjectionSlots
<1>7. CASE OutputDepacketization
  <2>1. UNCHANGED <<outState, ticked>> /\ "OutputDepacketization" \in pending
        /\ "OutputDepacketization" \notin pending'
    BY <1>7 DEF OutputDepacketization, Master!OutputDepacketization, Master!Run
  <2>2. ejected = NoVC /\ ~ticked
    BY <1>1, <2>1
  <2>3. EdgesInv'
    BY <2>1, <2>2
  <2>4. QED
    BY <1>2, <1>7, <2>1, <2>2, <2>3, DepacketizationSlots
<1>8. CASE UNCHANGED vars
  <2>1. UNCHANGED <<pending, ticked, eject, ejected, ejFifo, outState>>
    BY <1>8 DEF vars, kernelVars, nocVars, masterVars
  <2>2. Unread' <=> Unread
    BY <2>1 DEF Unread
  <2>3. QED
    BY <1>1, <1>2, <2>1, <2>2, OccupiedKept
<1>9. QED
  BY <1>3, <1>4, <1>5, <1>6, <1>7, <1>8 DEF Next

LEMMA SlotsCorrect == FifosSuffice /\ Spec => [](TypeInv /\ SlotInv /\ MapInv)
<1>1. Init => TypeInv /\ SlotInv /\ MapInv
  BY TypeInit, SlotInit
<1>2. FifosSuffice /\ (TypeInv /\ SlotInv /\ MapInv) /\ [Next]_vars => (TypeInv /\ SlotInv /\ MapInv)'
  BY TypeNext, SlotNext, MapNext
<1>3. FifosSuffice => FifosSuffice'
  BY DEF FifosSuffice
<1>4. QED
  BY <1>1, <1>2, <1>3, PTL DEF Spec

\* If the FIFO of a VC is as deep as the router's count of its slots, a flit
\* never waits in the ejection register, whatever the clocks: the credit
\* protocol alone keeps it free.
THEOREM EjectionIsNeverBlocked ==
  ASSUME FifosSuffice
  PROVE  Spec => []EjectionNeverBlocks
<1>1. TypeInv /\ SlotInv /\ MapInv => EjectionNeverBlocks
  BY DEF SlotInv, EjectionNeverBlocks
<1>2. QED
  BY <1>1, SlotsCorrect, PTL

\* If moreover an edge of the NoC clock comes between two of the adapter clock,
\* the router's count of the slots is exact: no credit is lost in the map.
THEOREM FlitsAreAccounted ==
  ASSUME FifosSuffice, AdapterSlower
  PROVE  Spec => []FlitsAccounted
<1>1. TypeInv /\ SlotInv /\ MapInv => FlitsAccounted
  <2>1. SUFFICES ASSUME TypeInv, SlotInv, MapInv, NEW v \in VCs
                 PROVE  outState.occupancy[v]
                          = Count(Unread /\ eject # NoFlit /\ eject.vc = v)
                            + Count(ejectReg # NoFlit /\ ejectReg.vc = v)
                            + Len(ejFifo[v]) + Count(ejected = v)
    BY DEF FlitsAccounted
  <2>2. Count(ejectReg # NoFlit /\ ejectReg.vc = v) = 0
    BY <2>1 DEF SlotInv, Count
  <2>3. outState.occupancy[v] = Occupied(v)
    BY <2>1 DEF MapInv
  <2>4. Count(Unread /\ eject # NoFlit /\ eject.vc = v) \in 0 .. 1
    BY CountType
  <2>5. QED
    BY <2>1, <2>2, <2>3, <2>4, OccupiedType DEF Occupied
<1>2. QED
  BY <1>1, SlotsCorrect, PTL

(***************************************************************************)
(* Chains of flits.                                                        *)
(***************************************************************************)
LEMMA HeadTailConcat ==
  ASSUME NEW S, NEW b \in Seq(S), b # <<>>
  PROVE  <<Head(b)>> \o Tail(b) = b /\ <<Head(b)>> \in Seq(S) /\ Tail(b) \in Seq(S)
<1>1. Head(b) \in S /\ Tail(b) \in Seq(S) /\ Len(b) \in Nat \ {0} /\ <<Head(b)>> \in Seq(S)
  OBVIOUS
<1>2. /\ <<Head(b)>> \o Tail(b) \in Seq(S) /\ Len(<<Head(b)>> \o Tail(b)) = Len(b)
      /\ \A i \in 1 .. Len(b) : (<<Head(b)>> \o Tail(b))[i] = b[i]
  BY <1>1
<1>3. QED
  BY <1>1, <1>2, SeqEqual

LEMMA Associative ==
  ASSUME NEW S, NEW a \in Seq(S), NEW b \in Seq(S), NEW c \in Seq(S)
  PROVE  (a \o b) \o c = a \o (b \o c) /\ a \o b \in Seq(S)
OBVIOUS

LEMMA EmptyConcat ==
  ASSUME NEW S, NEW a \in Seq(S)
  PROVE  a \o <<>> = a /\ <<>> \o a = a
OBVIOUS

LEMMA TailOfConcat ==
  ASSUME NEW S, NEW a \in Seq(S), NEW b \in Seq(S), a # <<>>
  PROVE  Tail(a \o b) = Tail(a) \o b /\ Head(a \o b) = Head(a) /\ a \o b # <<>>
<1>1. /\ Tail(a) \in Seq(S) /\ Len(a) \in Nat \ {0} /\ Len(b) \in Nat /\ a \o b \in Seq(S)
      /\ Len(a \o b) = Len(a) + Len(b)
  OBVIOUS
<1>2. a \o b # <<>>
  BY <1>1
<1>3. Head(a \o b) = Head(a)
  BY <1>1
<1>4. /\ Tail(a \o b) \in Seq(S) /\ Tail(a) \o b \in Seq(S)
      /\ Len(Tail(a \o b)) = Len(a) + Len(b) - 1 /\ Len(Tail(a) \o b) = Len(a) + Len(b) - 1
  BY <1>1, <1>2
<1>5. \A i \in 1 .. Len(a) + Len(b) - 1 : Tail(a \o b)[i] = (Tail(a) \o b)[i]
  BY <1>1, <1>2, <1>4
<1>6. QED
  BY <1>2, <1>3, <1>4, <1>5, SeqEqual

LEMMA ChainTail ==
  ASSUME NEW S, NEW s \in Seq(S), s # <<>>, Chain(s)
  PROVE  /\ Chain(Tail(s))
         /\ Tail(s) # <<>> => /\ Follows(Head(s), Tail(s)[1])
                              /\ Tail(s)[Len(Tail(s))] = s[Len(s)]
<1>1. /\ Len(s) \in Nat \ {0} /\ Tail(s) \in Seq(S) /\ Len(Tail(s)) = Len(s) - 1 /\ Head(s) = s[1]
      /\ \A k \in 1 .. Len(s) - 1 : Tail(s)[k] = s[k + 1]
  OBVIOUS
<1>2. ASSUME NEW k \in 1 .. Len(Tail(s)) - 1 PROVE Follows(Tail(s)[k], Tail(s)[k + 1])
  <2>1. k \in 1 .. Len(s) - 1 /\ k + 1 \in 1 .. Len(s) - 1
    BY <1>1
  <2>2. Tail(s)[k] = s[k + 1] /\ Tail(s)[k + 1] = s[(k + 1) + 1]
    BY <1>1, <2>1
  <2>3. QED
    BY <2>1, <2>2 DEF Chain
<1>3. ASSUME Tail(s) # <<>>
      PROVE  Follows(Head(s), Tail(s)[1]) /\ Tail(s)[Len(Tail(s))] = s[Len(s)]
  <2>1. Len(Tail(s)) # 0
    BY <1>1, <1>3
  <2>2. 1 \in 1 .. Len(s) - 1 /\ Len(s) - 1 \in 1 .. Len(s) - 1
    BY <1>1, <2>1
  <2>3. Tail(s)[1] = s[1 + 1] /\ Tail(s)[Len(s) - 1] = s[(Len(s) - 1) + 1]
    BY <1>1, <2>2
  <2>4. Follows(s[1], s[1 + 1])
    BY <2>2 DEF Chain
  <2>5. (Len(s) - 1) + 1 = Len(s)
    BY <1>1
  <2>6. QED
    BY <1>1, <2>3, <2>4, <2>5
<1>4. QED
  BY <1>2, <1>3 DEF Chain

LEMMA ChainAppend ==
  ASSUME NEW S, NEW s \in Seq(S), NEW f \in S, Chain(s),
         s # <<>> => Follows(s[Len(s)], f)
  PROVE  /\ Chain(Append(s, f)) /\ Append(s, f) # <<>>
         /\ Append(s, f)[Len(Append(s, f))] = f
         /\ s # <<>> => Append(s, f)[1] = s[1]
         /\ s = <<>> => Append(s, f)[1] = f
<1>1. /\ Len(s) \in Nat /\ Len(Append(s, f)) = Len(s) + 1 /\ Append(s, f)[Len(s) + 1] = f
      /\ \A k \in 1 .. Len(s) : Append(s, f)[k] = s[k]
      /\ s = <<>> <=> Len(s) = 0
  OBVIOUS
<1>2. ASSUME NEW k \in 1 .. Len(Append(s, f)) - 1
      PROVE  Follows(Append(s, f)[k], Append(s, f)[k + 1])
  <2>1. CASE k = Len(s)
    BY <1>1, <2>1
  <2>2. CASE k # Len(s)
    <3>1. k \in 1 .. Len(s) - 1 /\ k \in 1 .. Len(s) /\ k + 1 \in 1 .. Len(s)
      BY <1>1, <2>2
    <3>2. QED
      BY <1>1, <3>1 DEF Chain
  <2>3. QED
    BY <2>1, <2>2
<1>3. s # <<>> => Append(s, f)[1] = s[1]
  BY <1>1
<1>4. s = <<>> => Append(s, f)[1] = f
  BY <1>1
<1>5. Append(s, f) # <<>>
  OBVIOUS
<1>6. Chain(Append(s, f))
  BY <1>2 DEF Chain
<1>7. QED
  BY <1>1, <1>3, <1>4, <1>5, <1>6

(***************************************************************************)
(* How the steps change a line.                                            *)
(***************************************************************************)
LEMMA LineParts ==
  ASSUME TypeInv, NEW v \in VCs
  PROVE  /\ ejFifo[v] \in Seq(FlitsOn(v)) /\ rbuf[v] \in Seq(FlitsOn(v))
         /\ Now(v) \in Seq(FlitsOn(v)) /\ Last(v) \in Seq(FlitsOn(v))
         /\ Line(v) \in Seq(FlitsOn(v))
<1>1. /\ ejFifo[v] \in Seq(FlitsOn(v)) /\ rbuf[v] \in Seq(FlitsOn(v))
      /\ Now(v) \in Seq(FlitsOn(v)) /\ Last(v) \in Seq(FlitsOn(v))
  BY LastType DEF TypeInv, NocTypes, FifoTypes
<1>2. ejFifo[v] \o Now(v) \in Seq(FlitsOn(v)) /\ rbuf[v] \o Last(v) \in Seq(FlitsOn(v))
  BY <1>1, Associative
<1>3. QED
  BY <1>1, <1>2, Associative DEF Line

LEMMA LineAtTick ==
  ASSUME TypeInv, Tick, NEW w \in VCs
  PROVE  Line(w)' = Line(w)
<1>1. KernelInv /\ NocTypes
  BY DEF TypeInv
<1>2. /\ ejFifo' = ejFifo /\ inject' = NoFlit
      /\ NoneMoves \/ \E v \in VCs : Moves(v)
  BY <1>1, TickEffect DEF masterVars
<1>3. ~Unread /\ Unread'
  BY <1>1, TickPresents
<1>4. PICK e \in Seq(FlitsOn(w)) : e = ejFifo[w]
  BY LineParts
<1>5. PICK b \in Seq(FlitsOn(w)) : b = rbuf[w] \o Last(w)
  BY LineParts, Associative
<1>6. Line(w) = e \o b
  <2>1. Now(w) = <<>>
    BY <1>3 DEF Now
  <2>2. e \o <<>> = e
    OBVIOUS
  <2>3. QED
    BY <1>4, <1>5, <2>1, <2>2 DEF Line
<1>7. Last(w)' = <<>>
  BY <1>2 DEF Last
<1>8. CASE rbuf'[w] = b /\ Now(w)' = <<>>
  <2>1. Line(w)' = (e \o <<>>) \o (b \o <<>>)
    BY <1>2, <1>4, <1>7, <1>8 DEF Line
  <2>2. e \o <<>> = e /\ b \o <<>> = b
    OBVIOUS
  <2>3. QED
    BY <1>6, <2>1, <2>2
<1>9. CASE NoneMoves
  <2>1. rbuf'[w] = b /\ Now(w)' = <<>>
    BY <1>5, <1>9 DEF NoneMoves, Now
  <2>2. QED
    BY <1>8, <2>1
<1>10. ASSUME NEW v \in VCs, Moves(v) PROVE Line(w)' = Line(w)
  <2>1. CASE w # v
    <3>1. rbuf'[w] = b
      BY <1>5, <1>10, <2>1 DEF Moves
    <3>2. Now(w)' = <<>>
      BY <1>10, <2>1 DEF Moves, Now, FlitsOn
    <3>3. QED
      BY <1>8, <3>1, <3>2
  <2>2. CASE w = v
    <3>1. b # <<>> /\ eject' = Head(b) /\ rbuf'[w] = Tail(b) /\ eject' \in FlitsOn(w)
      BY <1>5, <1>10, <2>2 DEF Moves
    <3>2. Now(w)' = <<Head(b)>>
      BY <1>3, <3>1, Apart DEF Now, FlitsOn
    <3>3. Line(w)' = (e \o <<Head(b)>>) \o (Tail(b) \o <<>>)
      BY <1>2, <1>4, <1>7, <3>1, <3>2 DEF Line
    <3>4. <<Head(b)>> \o Tail(b) = b /\ <<Head(b)>> \in Seq(FlitsOn(w)) /\ Tail(b) \in Seq(FlitsOn(w))
      BY <3>1, HeadTailConcat
    <3>5. PICK h \in Seq(FlitsOn(w)) : h = <<Head(b)>>
      BY <3>4
    <3>6. PICK t \in Seq(FlitsOn(w)) : t = Tail(b)
      BY <3>4
    <3>7. t \o <<>> = t /\ (e \o h) \o t = e \o (h \o t)
      OBVIOUS
    <3>8. QED
      BY <1>6, <3>3, <3>4, <3>5, <3>6, <3>7
  <2>3. QED
    BY <2>1, <2>2
<1>11. QED
  BY <1>2, <1>9, <1>10

LEMMA LineAtEjection ==
  ASSUME FifosSuffice, TypeInv, SlotInv, OutputEjection, NEW w \in VCs
  PROVE  Line(w)' = Line(w)
<1>1. KernelInv /\ FifoTypes /\ NocTypes
  BY DEF TypeInv
<1>2. Unread /\ ~Unread' /\ UNCHANGED <<eject, inject, rbuf>>
  BY <1>1, EjectionReads DEF OutputEjection, Master!OutputEjection
<1>3. PICK e \in Seq(FlitsOn(w)) : e = ejFifo[w]
  BY LineParts
<1>4. PICK b : b = rbuf[w] \o Last(w)
  OBVIOUS
<1>5. Now(w)' = <<>> /\ (rbuf[w] \o Last(w))' = b
  BY <1>2, <1>4 DEF Now, Last
<1>6. CASE eject # NoFlit /\ eject.vc = w
  <2>1. Now(w) = <<eject>> /\ eject \in FlitsOn(w)
    BY <1>1, <1>2, <1>6 DEF Now, NocTypes, FlitsOn
  <2>2. ejFifo'[w] = Append(e, eject)
    BY <1>1, <1>3, <1>6, EjectionFiles DEF FifoTypes
  <2>3. Append(e, eject) \o <<>> = e \o <<eject>>
    BY <2>1
  <2>4. QED
    BY <1>3, <1>4, <1>5, <2>1, <2>2, <2>3 DEF Line
<1>7. CASE ~(eject # NoFlit /\ eject.vc = w)
  <2>1. Now(w) = <<>>
    BY <1>7 DEF Now
  <2>2. ejFifo'[w] = e
    <3>1. CASE eject = NoFlit
      BY <1>3, <3>1, EjectionFiles
    <3>2. CASE eject # NoFlit
      BY <1>1, <1>3, <1>7, <3>2, EjectionFiles DEF FifoTypes
    <3>3. QED
      BY <3>1, <3>2
  <2>3. QED
    BY <1>3, <1>4, <1>5, <2>1, <2>2 DEF Line
<1>8. QED
  BY <1>6, <1>7

LEMMA LineKept ==
  ASSUME Unread' <=> Unread, UNCHANGED <<eject, inject, rbuf>>, NEW w, ejFifo'[w] = ejFifo[w]
  PROVE  Line(w)' = Line(w)
BY DEF Line, Now, Last

LEMMA LineAtTake ==
  ASSUME TypeInv, OutputDepacketization, NEW v, NEW f, Takes(v, f), NEW w \in VCs
  PROVE  IF w = v THEN /\ Line(w) # <<>> /\ f = Head(Line(w)) /\ Line(w)' = Tail(Line(w))
                       /\ ejFifo'[v] # <<>> => Line(w)' # <<>> /\ Head(ejFifo'[v]) = Line(w)'[1]
                  ELSE Line(w)' = Line(w)
<1>1. KernelInv /\ FifoTypes /\ NocTypes
  BY DEF TypeInv
<1>2. (Unread' <=> Unread) /\ UNCHANGED <<eject, inject, rbuf>>
  BY <1>1, UnreadKept DEF OutputDepacketization, Master!OutputDepacketization
<1>3. /\ v \in VCs /\ ejFifo[v] # <<>> /\ f = Head(ejFifo[v])
      /\ ejFifo' = [ejFifo EXCEPT ![v] = Tail(@)]
  BY DEF Takes
<1>4. CASE w # v
  <2>1. ejFifo'[w] = ejFifo[w]
    BY <1>1, <1>3, <1>4 DEF FifoTypes
  <2>2. QED
    BY <1>2, <1>4, <2>1, LineKept
<1>5. CASE w = v
  <2>1. PICK e \in Seq(FlitsOn(w)) : e = ejFifo[w]
    BY LineParts
  <2>2. PICK n \in Seq(FlitsOn(w)) : n = Now(w)
    BY LineParts
  <2>3. PICK b \in Seq(FlitsOn(w)) : b = rbuf[w] \o Last(w)
    BY LineParts, Associative
  <2>4. PICK nb \in Seq(FlitsOn(w)) : nb = n \o b
    BY Associative
  <2>5. PICK t \in Seq(FlitsOn(w)) : t = Tail(e)
    BY <1>3, <1>5, <2>1, HeadTailConcat
  <2>6. ejFifo'[w] = t /\ e # <<>> /\ f = Head(e)
    BY <1>1, <1>3, <1>5, <2>1, <2>5 DEF FifoTypes
  <2>7. Line(w) = e \o nb
    <3>1. (e \o n) \o b = e \o (n \o b)
      OBVIOUS
    <3>2. QED
      BY <2>1, <2>2, <2>3, <2>4, <3>1 DEF Line
  <2>8. Line(w)' = t \o nb
    <3>1. (t \o n) \o b = t \o (n \o b)
      BY Associative
    <3>2. Now(w)' = n /\ (rbuf[w] \o Last(w))' = b
      BY <1>2, <2>2, <2>3 DEF Now, Last
    <3>3. QED
      BY <2>4, <2>6, <3>1, <3>2 DEF Line
  <2>9. Tail(e \o nb) = t \o nb /\ Head(e \o nb) = Head(e) /\ e \o nb # <<>>
    BY <2>5, <2>6, TailOfConcat
  <2>10. ASSUME t # <<>> PROVE t \o nb # <<>> /\ Head(t) = (t \o nb)[1]
    <3>1. Head(t \o nb) = Head(t) /\ t \o nb # <<>> /\ t \o nb \in Seq(FlitsOn(w))
      BY <2>10, TailOfConcat, Associative
    <3>2. Head(t \o nb) = (t \o nb)[1]
      BY <3>1, HeadTail
    <3>3. QED
      BY <3>1, <3>2
  <2>11. QED
    BY <1>5, <2>6, <2>7, <2>8, <2>9, <2>10
<1>6. QED
  BY <1>4, <1>5

LEMMA LineAtSend ==
  ASSUME TypeInv, Send, inject = NoFlit, NEW v, NEW p, Sends(v, p), NEW w \in VCs
  PROVE  Line(w)' = IF w = v THEN Append(Line(w), inject') ELSE Line(w)
<1>1. KernelInv
  BY DEF TypeInv
<1>2. (Unread' <=> Unread) /\ UNCHANGED <<eject, ejFifo, rbuf>>
  BY <1>1, UnreadKept DEF Send, masterVars
<1>3. Last(w) = <<>> /\ Now(w)' = Now(w)
  BY <1>2 DEF Last, Now
<1>4. inject' \in FlitsOn(v)
  BY DEF Sends
<1>5. PICK a \in Seq(FlitsOn(w)) : a = ejFifo[w] \o Now(w)
  BY LineParts, Associative
<1>6. PICK r \in Seq(FlitsOn(w)) : r = rbuf[w]
  BY LineParts
<1>7. Line(w) = a \o r
  <2>1. r \o <<>> = r
    OBVIOUS
  <2>2. QED
    BY <1>3, <1>5, <1>6, <2>1 DEF Line
<1>8. Line(w)' = a \o (r \o Last(w)')
  BY <1>2, <1>3, <1>5, <1>6 DEF Line
<1>9. CASE w = v
  <2>1. PICK i \in FlitsOn(w) : i = inject'
    BY <1>4, <1>9
  <2>2. Last(w)' = <<i>>
    BY <2>1, Apart DEF Last, FlitsOn
  <2>3. a \o (r \o <<i>>) = Append(a \o r, i)
    OBVIOUS
  <2>4. QED
    BY <1>7, <1>8, <1>9, <2>1, <2>2, <2>3
<1>10. CASE w # v
  <2>1. Last(w)' = <<>>
    BY <1>4, <1>10 DEF Last, FlitsOn
  <2>2. r \o <<>> = r
    OBVIOUS
  <2>3. QED
    BY <1>7, <1>8, <1>10, <2>1, <2>2
<1>11. QED
  BY <1>9, <1>10

(***************************************************************************)
(* Packets.                                                                *)
(***************************************************************************)
LEMMA PrefixAppend ==
  ASSUME NEW s \in Seq(Flits), NEW f \in Flits, Master!PacketPrefix(s),
         IF s = <<>> THEN f.head /\ f.seq = 0
         ELSE ~s[Len(s)].tail /\ Follows(s[Len(s)], f) /\ f.vc = s[1].vc
  PROVE  /\ Master!PacketPrefix(Append(s, f)) /\ Append(s, f)[Len(Append(s, f))] = f
         /\ Append(s, f) # <<>> /\ Append(s, f)[1].tid = f.tid /\ Append(s, f)[1].vc = f.vc
<1> DEFINE t == Append(s, f)
<1>1. /\ Len(s) \in Nat /\ Len(t) = Len(s) + 1 /\ t[Len(s) + 1] = f
      /\ \A k \in 1 .. Len(s) : t[k] = s[k]
      /\ s = <<>> <=> Len(s) = 0
      /\ t # <<>>
  <2>1. t \in Seq(Flits) /\ Len(s) \in Nat
    OBVIOUS
  <2>2. Len(t) = Len(s) + 1 /\ t[Len(s) + 1] = f
    OBVIOUS
  <2>3. \A k \in 1 .. Len(s) : t[k] = s[k]
    OBVIOUS
  <2>4. s = <<>> <=> Len(s) = 0
    OBVIOUS
  <2>5. t # <<>>
    OBVIOUS
  <2>6. QED
    BY <2>1, <2>2, <2>3, <2>4, <2>5
<1>2. f.head \in BOOLEAN /\ f.seq \in Nat
  BY DEF Flits
<1> HIDE DEF t
<1>3. CASE s = <<>>
  <2>1. Len(t) = 1 /\ t[1] = f
    BY <1>1, <1>3
  <2>2. f.head = TRUE /\ f.seq = 0
    BY <1>2, <1>3, Zenon
  <2>3. f.head = (1 = 1)
    BY <2>2
  <2>4. ASSUME NEW k \in 1 .. Len(t)
        PROVE  /\ t[k].id = t[1].id /\ t[k].vc = t[1].vc /\ t[k].tid = t[1].tid
               /\ t[k].seq = k - 1 /\ t[k].head = (k = 1)
               /\ k < Len(t) => ~t[k].tail
    <3>1. k = 1
      BY <2>1
    <3>2. QED
      BY <2>1, <2>2, <2>3, <3>1
  <2>5. Master!PacketPrefix(t)
    BY <2>4 DEF Master!PacketPrefix
  <2>6. QED
    BY <1>1, <2>1, <2>5 DEF t
<1>4. CASE s # <<>>
  <2>1. /\ ~s[Len(s)].tail /\ f.vc = s[1].vc
        /\ ~f.head /\ f.id = s[Len(s)].id /\ f.tid = s[Len(s)].tid /\ f.seq = s[Len(s)].seq + 1
    BY <1>4 DEF Follows
  <2>2. Len(s) \in 1 .. Len(s) /\ 1 \in 1 .. Len(s)
    BY <1>1, <1>4
  <2>3. \A k \in 1 .. Len(s) :
          /\ s[k].id = s[1].id /\ s[k].vc = s[1].vc /\ s[k].tid = s[1].tid
          /\ s[k].seq = k - 1 /\ s[k].head = (k = 1)
          /\ k < Len(s) => ~s[k].tail
    BY DEF Master!PacketPrefix
  <2>4. t[1] = s[1] /\ f.id = s[1].id /\ f.tid = s[1].tid /\ f.seq = Len(s)
    <3>1. s[Len(s)].id = s[1].id /\ s[Len(s)].tid = s[1].tid /\ s[Len(s)].seq = Len(s) - 1
      BY <2>2, <2>3
    <3>2. QED
      BY <1>1, <2>1, <2>2, <3>1
  <2>5. ASSUME NEW k \in 1 .. Len(t)
        PROVE  /\ t[k].id = t[1].id /\ t[k].vc = t[1].vc /\ t[k].tid = t[1].tid
               /\ t[k].seq = k - 1 /\ t[k].head = (k = 1)
               /\ k < Len(t) => ~t[k].tail
    <3>1. CASE k = Len(s) + 1
      <4>1. t[k] = f /\ k - 1 = Len(s) /\ ~(k < Len(t)) /\ (k = 1) = FALSE
        BY <1>1, <2>2, <3>1
      <4>2. f.head = FALSE
        BY <1>2, <2>1, Zenon
      <4>3. t[k].head = (k = 1)
        BY <4>1, <4>2
      <4>4. QED
        BY <2>1, <2>4, <4>1, <4>3
    <3>2. CASE k # Len(s) + 1
      <4>1. k \in 1 .. Len(s) /\ t[k] = s[k]
        BY <1>1, <3>2
      <4>2. ~t[k].tail
        <5>1. CASE k = Len(s)
          BY <2>1, <4>1, <5>1
        <5>2. CASE k # Len(s)
          <6>1. k < Len(s)
            BY <1>1, <4>1, <5>2
          <6>2. QED
            BY <2>3, <4>1, <6>1
        <5>3. QED
          BY <5>1, <5>2
      <4>3. QED
        BY <2>3, <2>4, <4>1, <4>2
    <3>3. QED
      BY <3>1, <3>2
  <2>6. Master!PacketPrefix(t)
    BY <2>5 DEF Master!PacketPrefix
  <2>7. QED
    BY <1>1, <2>1, <2>4, <2>6 DEF t
<1>5. QED
  BY <1>3, <1>4

(***************************************************************************)
(* The injected flit.                                                      *)
(***************************************************************************)
LEMMA InjectInit == Init => InjectInv
BY DEF Init, Noc!NocInit, InjectInv

LEMMA InjectNext == TypeInv /\ InjectInv /\ [Next]_vars => InjectInv'
<1> SUFFICES ASSUME TypeInv, InjectInv, [Next]_vars PROVE InjectInv'
  OBVIOUS
<1>1. KernelInv /\ NocTypes /\ SenderTypes
  BY DEF TypeInv
<1>2. ASSUME UNCHANGED inject, "InputInjection" \in pending' <=> "InputInjection" \in pending,
             "Tick" \in pending' <=> "Tick" \in pending
      PROVE  InjectInv'
  BY <1>2 DEF InjectInv
<1>3. ASSUME NEW S \in SUBSET Clocks, ClockEdge(S) PROVE InjectInv'
  <2>1. UNCHANGED inject
    BY <1>3 DEF ClockEdge, nocVars
  <2>2. pending = {} /\ ("InputInjection" \in pending' <=> "Tick" \in pending')
    BY <1>3, EdgeThreads
  <2>3. QED
    BY <2>1, <2>2 DEF InjectInv
<1>4. CASE Settle
  BY <1>2, <1>4 DEF Settle, nocVars
<1>5. CASE Send
  <2>1. "InputInjection" \in pending /\ pending' = pending \ {"InputInjection"}
    BY <1>5 DEF Send, Master!Run
  <2>2. QED
    BY <1>1, <2>1 DEF KernelInv, InjectInv
<1>6. CASE Tick
  BY <1>1, <1>6, TickEffect DEF InjectInv
<1>7. CASE OutputEjection
  BY <1>2, <1>7 DEF OutputEjection, Master!OutputEjection, Master!Run
<1>8. CASE OutputDepacketization
  BY <1>2, <1>8 DEF OutputDepacketization, Master!OutputDepacketization, Master!Run
<1>9. CASE OutputInterface
  BY <1>2, <1>9 DEF OutputInterface, Master!OutputInterface, Master!Run
<1>10. CASE UNCHANGED vars
  BY <1>2, <1>10 DEF vars, kernelVars, nocVars
<1>11. QED
  BY <1>3, <1>4, <1>5, <1>6, <1>7, <1>8, <1>9, <1>10 DEF Next

LEMMA InjectIsFree ==
  ASSUME TypeInv, InjectInv, Send
  PROVE  inject = NoFlit
BY DEF Send, Master!Run, Master!TickOrder, TypeInv, KernelInv, InjectInv

(***************************************************************************)
(* The packet under construction and the lines.                            *)
(***************************************************************************)
LEMMA RestIsThere ==
  ASSUME TypeInv, CountInv, NEW v, NEW f, Takes(v, f), ~f.tail
  PROVE  ejFifo'[v] # <<>>
<1>1. /\ v \in VCs /\ ejFifo[v] # <<>> /\ f = Head(ejFifo[v]) /\ pushCount[v] > popCount[v]
      /\ ejFifo' = [ejFifo EXCEPT ![v] = Tail(@)]
  BY DEF Takes, Master!HasCompletePacket
<1>2. PICK q \in Seq(Flits) : q = ejFifo[v]
  BY <1>1 DEF TypeInv, FifoTypes
<1>3. ejFifo'[v] = Tail(q) /\ q # <<>> /\ f = Head(q)
  BY <1>1, <1>2 DEF TypeInv, FifoTypes
<1>4. Master!Tails(q) = Count(f.tail) + Master!Tails(Tail(q)) /\ Count(f.tail) = 0
  BY <1>3, TailsTail DEF Count
<1>5. pushCount[v] + Count(pushing = v) = popCount[v] + Master!Tails(q)
  BY <1>1, <1>2, CountersAt DEF CountInv, CountAt
<1>6. pushCount[v] \in Nat /\ popCount[v] \in Nat /\ Count(pushing = v) \in 0 .. 1 /\ Master!Tails(q) \in Nat
  BY <1>1, CountType, TailsType DEF TypeInv, FifoTypes
<1>7. Master!Tails(q) # 0
  BY <1>1, <1>5, <1>6
<1>8. Tail(q) \in Seq(Flits)
  BY <1>3
<1>9. Master!Tails(Tail(q)) # 0
  BY <1>4, <1>7, <1>8, TailsType
<1>10. QED
  BY <1>3, <1>9, TailsEmpty

PacketInv == LineInv /\ RebuildInv

LEMMA PacketInit == Init => PacketInv
<1> SUFFICES ASSUME Init PROVE PacketInv
  OBVIOUS
<1>1. /\ inject = NoFlit /\ eject = NoFlit /\ depacketizing = FALSE /\ constructed = <<>>
      /\ ejFifo = [v \in VCs |-> <<>>] /\ rbuf = [v \in VCs |-> <<>>]
      /\ sending = [v \in VCs |-> NoPacket]
  BY Constants, Zenon DEF Init, Master!MasterInit, Noc!NocInit
<1>2. ASSUME NEW v \in VCs PROVE Line(v) = <<>>
  <2>1. ejFifo[v] = <<>> /\ rbuf[v] = <<>> /\ Now(v) = <<>> /\ Last(v) = <<>>
    BY <1>1 DEF Now, Last
  <2>2. <<>> \o <<>> = <<>>
    OBVIOUS
  <2>3. QED
    BY <2>1, <2>2 DEF Line
<1>3. LineInv
  BY <1>1, <1>2 DEF LineInv, Chain, Ends
<1>4. RebuildInv
  BY <1>1 DEF RebuildInv, Master!PacketPrefix
<1>5. QED
  BY <1>3, <1>4 DEF PacketInv

LEMMA LineStays ==
  ASSUME LineInv, NEW w \in VCs, Line(w)' = Line(w), sending'[w] = sending[w],
         UNCHANGED <<constructed, depacketizing>>, depacketizing => priority' = priority
  PROVE  /\ Chain(Line(w)')
         /\ Line(w)' # <<>> => Begins(w, Line(w)[1])'
         /\ Ends(w, Line(w))'
<1>1. Chain(Line(w)) /\ (Line(w) # <<>> => Begins(w, Line(w)[1])) /\ Ends(w, Line(w))
  BY DEF LineInv
<1>2. Rebuilding(w)' <=> Rebuilding(w)
  BY DEF Rebuilding
<1>3. Line(w)' # <<>> => Begins(w, Line(w)[1])'
  BY <1>1, <1>2 DEF Begins
<1>4. Ends(w, Line(w))'
  BY <1>1 DEF Ends
<1>5. QED
  BY <1>1, <1>3, <1>4

LEMMA SendKeepsPacket ==
  ASSUME TypeInv, InjectInv, PacketInv, Send
  PROVE  LineInv'
<1>1. /\ UNCHANGED <<constructed, depacketizing, priority, ejFifo, eject, rbuf>>
      /\ Unread' <=> Unread
  BY UnreadKept DEF Send, masterVars, TypeInv
<1>2. inject = NoFlit /\ SenderTypes
  BY InjectIsFree DEF TypeInv
<1>3. CASE SendsNone
  <2>1. UNCHANGED <<inject, sending>>
    BY <1>3 DEF SendsNone, sourceVars
  <2>2. QED
    BY <1>1, <2>1, LineStays, LineKept DEF LineInv, PacketInv
<1>4. ASSUME NEW v, NEW p, Sends(v, p) PROVE LineInv'
  <2>1. /\ v \in VCs /\ p \in Packets /\ inject' \in FlitsOn(v)
        /\ sending[v] = p \/ (sending[v] = NoPacket /\ p.next = 0)
    BY <1>4 DEF Sends
  <2>14. PICK last \in BOOLEAN : /\ inject' = FlitOf(p, v, last)
                                /\ sending' = [sending EXCEPT ![v] = Remains(p, last)]
    BY <1>4 DEF Sends
  <2>2. ASSUME NEW w \in VCs, w # v
        PROVE  /\ Chain(Line(w)')
               /\ Line(w)' # <<>> => Begins(w, Line(w)[1])'
               /\ Ends(w, Line(w))'
    <3>1. Line(w)' = Line(w)
      BY <1>2, <1>4, <2>2, LineAtSend
    <3>2. sending'[w] = sending[w]
      BY <1>2, <2>14, <2>2 DEF SenderTypes
    <3>3. QED
      BY <1>1, <3>1, <3>2, LineStays DEF PacketInv
  <2>3. PICK s \in Seq(FlitsOn(v)) : s = Line(v)
    BY <2>1, LineParts
  <2>4. PICK f \in FlitsOn(v) : f = inject'
    BY <2>1
  <2>5. Line(v)' = Append(s, f)
    BY <1>2, <1>4, <2>1, <2>3, <2>4, LineAtSend
  <2>6. Chain(s) /\ (s # <<>> => Begins(v, s[1])) /\ Ends(v, s)
    BY <2>1, <2>3 DEF PacketInv, LineInv
  <2>7. /\ f.id = p.id /\ f.seq = p.next /\ f.tid = p.tid
        /\ f.head <=> p.next = 0
        /\ f.tail = last
    BY <2>14, <2>4 DEF FlitOf
  <2>8. IF s = <<>> THEN f.head /\ f.seq = 0 ELSE Follows(s[Len(s)], f)
    <3>1. CASE sending[v] = p
      <4>1. p # NoPacket
        BY <2>1, Apart
      <4>2. /\ s # <<>> /\ ~s[Len(s)].tail
            /\ s[Len(s)].id = p.id /\ s[Len(s)].tid = p.tid /\ s[Len(s)].seq + 1 = p.next
        BY <2>6, <3>1, <4>1 DEF Ends
      <4>3. s[Len(s)].seq \in Nat
        <5>1. s[Len(s)] \in FlitsOn(v)
          BY <4>2
        <5>2. QED
          BY <5>1 DEF FlitsOn, Flits
      <4>4. p.next # 0
        BY <4>2, <4>3
      <4>5. QED
        BY <2>7, <4>2, <4>4 DEF Follows
    <3>2. CASE sending[v] = NoPacket /\ p.next = 0
      <4>1. s # <<>> => s[Len(s)].tail
        BY <2>6, <3>2 DEF Ends
      <4>2. QED
        BY <2>7, <3>2, <4>1 DEF Follows
    <3>3. QED
      BY <2>1, <3>1, <3>2
  <2>9. /\ Chain(Append(s, f)) /\ Append(s, f) # <<>>
        /\ Append(s, f)[Len(Append(s, f))] = f
        /\ s # <<>> => Append(s, f)[1] = s[1]
        /\ s = <<>> => Append(s, f)[1] = f
    BY <2>6, <2>8, ChainAppend
  <2>10. Begins(v, Append(s, f)[1])
    <3>1. CASE s # <<>>
      BY <2>6, <2>9, <3>1
    <3>2. CASE s = <<>>
      <4>1. ~Rebuilding(v)
        <5>1. SUFFICES ASSUME Rebuilding(v) PROVE FALSE
          OBVIOUS
        <5>2. ejFifo[v] # <<>>
          BY <5>1 DEF Rebuilding, PacketInv, RebuildInv, Master!HasCompletePacket
        <5>3. PICK a \in Seq(FlitsOn(v)) : a = ejFifo[v]
          BY <2>1, LineParts
        <5>4. PICK n \in Seq(FlitsOn(v)) : n = Now(v)
          BY <2>1, LineParts
        <5>5. PICK b \in Seq(FlitsOn(v)) : b = rbuf[v] \o Last(v)
          BY <2>1, LineParts, Associative
        <5>6. Len((a \o n) \o b) = Len(a) + Len(n) + Len(b) /\ Len(a) \in Nat \ {0} /\ Len(n) \in Nat /\ Len(b) \in Nat
          BY <5>2, <5>3
        <5>7. s = (a \o n) \o b
          BY <2>3, <5>3, <5>4, <5>5 DEF Line
        <5>8. Len(s) = 0
          BY <3>2
        <5>9. QED
          BY <5>6, <5>7, <5>8
      <4>2. QED
        BY <2>8, <2>9, <3>2, <4>1 DEF Begins
    <3>3. QED
      BY <3>1, <3>2
  <2>11. Begins(v, Append(s, f)[1])'
    <3>1. PICK g : g = Append(s, f)[1]
      OBVIOUS
    <3>2. Begins(v, g)
      BY <2>10, <3>1
    <3>3. Begins(v, g)'
      BY <1>1, <3>2 DEF Begins, Rebuilding
    <3>4. QED
      BY <3>1, <3>3
  <2>12. Ends(v, Append(s, f))'
    <3>1. PICK t : t = Append(s, f)
      OBVIOUS
    <3>2. t # <<>> /\ t[Len(t)] = f
      BY <2>9, <3>1
    <3>3. sending'[v] = Remains(p, last)
      BY <1>2, <2>1, <2>14 DEF SenderTypes
    <3>4. CASE last
      <4>1. sending'[v] = NoPacket /\ f.tail
        BY <2>7, <3>3, <3>4 DEF Remains
      <4>2. Ends(v, t)'
        BY <3>2, <4>1 DEF Ends
      <4>3. QED
        BY <3>1, <4>2
    <3>5. CASE ~last
      <4>1. sending'[v] = [p EXCEPT !.next = @ + 1] /\ ~f.tail
        BY <2>7, <3>3, <3>5 DEF Remains
      <4>2. /\ sending'[v].id = p.id /\ sending'[v].tid = p.tid /\ sending'[v].next = p.next + 1
            /\ sending'[v] # NoPacket
        <5>1. [p EXCEPT !.next = @ + 1] \in Packets
          BY <2>1 DEF Packets
        <5>2. QED
          BY <2>1, <4>1, <5>1, Apart DEF Packets
      <4>3. Ends(v, t)'
        BY <2>7, <3>2, <4>1, <4>2 DEF Ends
      <4>4. QED
        BY <3>1, <4>3
    <3>6. QED
      BY <3>4, <3>5
  <2>13. QED
    BY <2>2, <2>5, <2>9, <2>11, <2>12 DEF LineInv
<1>5. QED
  BY <1>2, <1>3, <1>4, SendEffect

\* The flit taken continues the packet under construction, or begins one.
LEMMA TakenFits ==
  ASSUME TypeInv, PacketInv, OutputDepacketization, NEW v, NEW f, Takes(v, f)
  PROVE  /\ v \in VCs /\ f \in Flits /\ f.vc = v
         /\ constructed \in Seq(Flits)
         /\ depacketizing <=> constructed # <<>>
         /\ Begins(v, f)
         /\ IF constructed = <<>> THEN f.head /\ f.seq = 0
            ELSE /\ ~constructed[Len(constructed)].tail
                 /\ Follows(constructed[Len(constructed)], f) /\ f.vc = constructed[1].vc
<1>1. v \in VCs /\ ejFifo[v] # <<>> /\ f = Head(ejFifo[v]) /\ (depacketizing => v = priority[1])
  BY DEF Takes
<1>2. ejFifo[v] \in Seq(FlitsOn(v)) /\ Line(v) \in Seq(FlitsOn(v))
  BY <1>1, LineParts
<1>3. f \in FlitsOn(v)
  BY <1>1, <1>2
<1>4. Line(v) # <<>> /\ f = Head(Line(v))
  BY <1>1, LineAtTake
<1>5. Line(v)[1] = f
  BY <1>2, <1>4, HeadTail
<1>6. Begins(v, f)
  BY <1>1, <1>4, <1>5 DEF PacketInv, LineInv
<1>7. /\ depacketizing <=> constructed # <<>>
      /\ constructed # <<>> => ~constructed[Len(constructed)].tail /\ constructed[1].vc = priority[1]
  BY DEF PacketInv, RebuildInv
<1>8. constructed \in Seq(Flits)
  BY DEF TypeInv, FifoTypes
<1>9. f \in Flits /\ f.vc = v
  BY <1>3 DEF FlitsOn
<1>10. IF constructed = <<>> THEN f.head /\ f.seq = 0
       ELSE /\ ~constructed[Len(constructed)].tail
            /\ Follows(constructed[Len(constructed)], f) /\ f.vc = constructed[1].vc
  <2>1. CASE constructed = <<>>
    <3>1. ~Rebuilding(v)
      BY <1>7, <2>1 DEF Rebuilding
    <3>2. QED
      BY <1>6, <2>1, <3>1 DEF Begins
  <2>2. CASE constructed # <<>>
    <3>1. Rebuilding(v) /\ v = priority[1]
      BY <1>1, <1>7, <2>2 DEF Rebuilding
    <3>2. QED
      BY <1>6, <1>7, <1>9, <2>2, <3>1 DEF Begins
  <2>3. QED
    BY <2>1, <2>2
<1>11. QED
  BY <1>1, <1>6, <1>7, <1>8, <1>9, <1>10

\* What a flit taken leaves of the lines.
LEMMA TakeKeepsLines ==
  ASSUME TypeInv, CountInv, PacketInv, OutputDepacketization, NEW v, NEW f,
         TakesTail(v, f) \/ TakesOther(v, f)
  PROVE  LineInv'
<1>1. /\ Takes(v, f) /\ v \in VCs /\ f \in Flits
      /\ constructed \in Seq(Flits) /\ (depacketizing => v = priority[1])
  BY TakenFits DEF TakesTail, TakesOther, Takes
<1>2. UNCHANGED sending
  BY DEF OutputDepacketization, sourceVars
<1>3. ASSUME NEW w \in VCs, w # v PROVE ~Rebuilding(w) /\ ~Rebuilding(w)'
  BY <1>1, <1>3 DEF Rebuilding, TakesTail, TakesOther
<1>4. ASSUME NEW w \in VCs, w # v
      PROVE  /\ Chain(Line(w)')
             /\ Line(w)' # <<>> => Begins(w, Line(w)[1])'
             /\ Ends(w, Line(w))'
  <2>1. Line(w)' = Line(w)
    BY <1>1, <1>4, LineAtTake
  <2>2. Chain(Line(w)) /\ (Line(w) # <<>> => Begins(w, Line(w)[1])) /\ Ends(w, Line(w))
    BY DEF PacketInv, LineInv
  <2>3. Line(w)' # <<>> => Begins(w, Line(w)[1])'
    BY <1>3, <1>4, <2>1, <2>2 DEF Begins
  <2>4. Ends(w, Line(w))'
    BY <1>2, <2>1, <2>2 DEF Ends
  <2>5. QED
    BY <2>1, <2>2, <2>3, <2>4
<1>5. PICK s \in Seq(FlitsOn(v)) : s = Line(v)
  BY <1>1, LineParts
<1>6. PICK t \in Seq(FlitsOn(v)) : t = Tail(s) /\ s # <<>> /\ f = Head(s) /\ Line(v)' = t
  <2>1. s # <<>> /\ f = Head(s) /\ Line(v)' = Tail(s)
    BY <1>1, <1>5, LineAtTake
  <2>2. Tail(s) \in Seq(FlitsOn(v))
    BY <2>1
  <2>3. QED
    BY <2>1, <2>2
<1>7. Chain(s) /\ Ends(v, s)
  BY <1>1, <1>5 DEF PacketInv, LineInv
<1>8. /\ Chain(t)
      /\ t # <<>> => Follows(f, t[1]) /\ t[Len(t)] = s[Len(s)]
  BY <1>6, <1>7, ChainTail
<1>9. t # <<>> => Begins(v, t[1])'
  <2>1. SUFFICES ASSUME t # <<>> PROVE Begins(v, t[1])'
    OBVIOUS
  <2>2. Follows(f, t[1])
    BY <1>8, <2>1
  <2>3. CASE TakesTail(v, f)
    <3>1. f.tail /\ ~Rebuilding(v)'
      BY <2>3 DEF TakesTail, Rebuilding
    <3>2. QED
      BY <2>2, <3>1 DEF Begins, Follows
  <2>4. CASE TakesOther(v, f)
    <3>1. Rebuilding(v)' /\ constructed' = Append(constructed, f)
      BY <2>4 DEF TakesOther, Rebuilding
    <3>2. constructed'[Len(constructed')] = f
      <4>1. PICK c \in Seq(Flits) : c = constructed
        BY <1>1
      <4>2. Append(c, f)[Len(Append(c, f))] = f
        BY <1>1
      <4>3. QED
        BY <3>1, <4>1, <4>2
    <3>3. QED
      BY <2>2, <3>1, <3>2 DEF Begins
  <2>5. QED
    BY <2>3, <2>4
<1>10. Ends(v, t)'
  <2>1. CASE sending[v] = NoPacket
    BY <1>2, <1>6, <1>7, <1>8, <2>1 DEF Ends
  <2>2. CASE sending[v] # NoPacket
    <3>1. t # <<>>
      <4>1. CASE TakesTail(v, f)
        <5>1. f.tail /\ ~s[Len(s)].tail
          BY <1>7, <2>2, <4>1 DEF TakesTail, Ends
        <5>2. SUFFICES ASSUME t = <<>> PROVE FALSE
          OBVIOUS
        <5>3. Len(s) = 1 /\ f = s[1]
          <6>1. Len(Tail(s)) = Len(s) - 1 /\ Len(s) \in Nat /\ s[1] = Head(s)
            BY <1>6, HeadTail
          <6>2. Len(Tail(s)) = 0
            <7>1. Len(t) = 0
              BY <5>2
            <7>2. t = Tail(s)
              BY <1>6
            <7>3. QED
              BY <7>1, <7>2
          <6>3. QED
            BY <1>6, <6>1, <6>2
        <5>4. QED
          BY <5>1, <5>3
      <4>2. CASE TakesOther(v, f)
        <5>1. ejFifo'[v] # <<>>
          BY <1>1, <4>2, RestIsThere DEF TakesOther
        <5>2. QED
          BY <1>1, <1>6, <5>1, LineAtTake
      <4>3. QED
        BY <4>1, <4>2
    <3>2. QED
      BY <1>2, <1>6, <1>7, <1>8, <2>2, <3>1 DEF Ends
  <2>3. QED
    BY <2>1, <2>2
<1>11. QED
  BY <1>4, <1>6, <1>8, <1>9, <1>10 DEF LineInv

LEMMA LineNext ==
  FifosSuffice /\ TypeInv /\ SlotInv /\ CountInv /\ InjectInv /\ PacketInv /\ [Next]_vars => LineInv'
<1> SUFFICES ASSUME FifosSuffice, TypeInv, SlotInv, CountInv, InjectInv, PacketInv, [Next]_vars
             PROVE  LineInv'
  OBVIOUS
<1>1. KernelInv /\ LineInv
  BY DEF TypeInv, PacketInv
<1>2. ASSUME UNCHANGED <<constructed, depacketizing, sending>>, depacketizing => priority' = priority,
             \A w \in VCs : Line(w)' = Line(w)
      PROVE  LineInv'
  BY <1>1, <1>2, LineStays DEF LineInv
<1>3. ASSUME NEW S \in SUBSET Clocks, ClockEdge(S) PROVE LineInv'
  <2>1. UNCHANGED <<eject, inject, rbuf, ejFifo, constructed, depacketizing, priority, sending>>
    BY <1>3 DEF ClockEdge, nocVars, masterVars, sourceVars
  <2>2. Unread' <=> Unread
    BY <1>1, <1>3, UnreadKept
  <2>3. QED
    BY <1>2, <2>1, <2>2, LineKept
<1>4. CASE Settle \/ OutputInterface
  <2>1. UNCHANGED <<eject, inject, rbuf, ejFifo, constructed, depacketizing, priority, sending>>
    BY <1>4 DEF Settle, OutputInterface, Master!OutputInterface, nocVars, sourceVars
  <2>2. Unread' <=> Unread
    BY <1>1, <1>4, UnreadKept
  <2>3. QED
    BY <1>2, <2>1, <2>2, LineKept
<1>5. CASE Send
  BY <1>5, SendKeepsPacket
<1>6. CASE Tick
  <2>1. UNCHANGED <<constructed, depacketizing, priority, sending>>
    BY <1>6 DEF Tick, masterVars, sourceVars
  <2>2. QED
    BY <1>2, <1>6, <2>1, LineAtTick
<1>7. CASE OutputEjection
  <2>1. UNCHANGED <<constructed, depacketizing, priority, sending>>
    BY <1>7 DEF OutputEjection, Master!OutputEjection, sourceVars
  <2>2. QED
    BY <1>2, <1>7, <2>1, LineAtEjection
<1>8. CASE OutputDepacketization
  <2>1. UNCHANGED <<eject, inject, rbuf, sending>>
    BY <1>8 DEF OutputDepacketization, Master!OutputDepacketization, sourceVars
  <2>2. CASE TakesNone
    <3>1. ~depacketizing
      BY <2>2 DEF TakesNone, PacketInv, RebuildInv
    <3>2. UNCHANGED <<constructed, depacketizing, ejFifo>>
      BY <2>2 DEF TakesNone
    <3>3. Unread' <=> Unread
      BY <1>1, <1>8, UnreadKept
    <3>4. QED
      BY <1>2, <2>1, <3>1, <3>2, <3>3, LineKept
  <2>3. QED
    BY <1>8, <2>2, TakeKeepsLines, DepacketizationEffect DEF TypeInv
<1>9. CASE UNCHANGED vars
  <2>1. UNCHANGED <<pending, eject, inject, rbuf, ejFifo, constructed, depacketizing, priority, sending>>
    BY <1>9 DEF vars, kernelVars, nocVars, masterVars, sourceVars
  <2>2. Unread' <=> Unread
    BY <2>1 DEF Unread
  <2>3. QED
    BY <1>2, <2>1, <2>2, LineKept
<1>10. QED
  BY <1>3, <1>4, <1>5, <1>6, <1>7, <1>8, <1>9 DEF Next

\* While a packet is under construction nobody takes its completeness away.
LEMMA CompleteKept ==
  ASSUME TypeInv, NEW v \in VCs, Master!HasCompletePacket(v),
         ejFifo'[v] # <<>>, Head(ejFifo'[v]) = Head(ejFifo[v]),
         pushCount'[v] >= pushCount[v], pushCount'[v] \in Nat, UNCHANGED popCount,
         \A o \in Outputs : Len(outFifo'[o]) <= Len(outFifo[o]) /\ Len(outFifo'[o]) \in Nat
  PROVE  Master!HasCompletePacket(v)'
<1>1. /\ ejFifo[v] # <<>> /\ pushCount[v] > popCount[v]
      /\ Len(outFifo[Head(ejFifo[v]).tid]) < OutputDepth
  BY DEF Master!HasCompletePacket
<1>2. pushCount[v] \in Nat /\ popCount[v] \in Nat /\ ejFifo[v] \in Seq(Flits)
  BY DEF TypeInv, FifoTypes
<1>3. Head(ejFifo[v]).tid \in Outputs
  <2>1. Head(ejFifo[v]) \in Flits
    BY <1>1, <1>2
  <2>2. QED
    BY <2>1 DEF Flits
<1>4. pushCount'[v] > popCount'[v]
  BY <1>1, <1>2
<1>5. Len(outFifo'[Head(ejFifo'[v]).tid]) < OutputDepth
  <2>1. PICK o \in Outputs : o = Head(ejFifo[v]).tid
    BY <1>3
  <2>2. Len(outFifo'[o]) <= Len(outFifo[o]) /\ Len(outFifo[o]) < OutputDepth
        /\ Len(outFifo'[o]) \in Nat /\ Len(outFifo[o]) \in Nat
    BY <1>1, <2>1 DEF TypeInv, OutputTypes
  <2>3. Len(outFifo'[o]) < OutputDepth
    BY <2>2, Constants
  <2>4. QED
    BY <2>1, <2>3
<1>6. QED
  BY <1>4, <1>5 DEF Master!HasCompletePacket

LEMMA RebuildStays ==
  ASSUME TypeInv, RebuildInv, UNCHANGED <<constructed, depacketizing, priority>>,
         depacketizing => Master!HasCompletePacket(priority[1])'
  PROVE  RebuildInv'
<1>1. /\ Master!PacketPrefix(constructed)
      /\ depacketizing <=> constructed # <<>>
      /\ constructed # <<>> => ~constructed[Len(constructed)].tail /\ constructed[1].vc = priority[1]
  BY DEF RebuildInv
<1>2. PICK c : c = constructed
  OBVIOUS
<1>3. constructed' = c
  BY <1>2
<1>4. Master!PacketPrefix(constructed)'
  BY <1>1, <1>2, <1>3 DEF Master!PacketPrefix
<1>5. QED
  BY <1>1, <1>4 DEF RebuildInv

LEMMA TakeKeepsRebuild ==
  ASSUME TypeInv, CountInv, PacketInv, OutputDepacketization, NEW v, NEW f, TakesOther(v, f), LineInv'
  PROVE  RebuildInv'
<1>1. /\ Takes(v, f) /\ v \in VCs /\ f \in Flits /\ f.vc = v
      /\ constructed \in Seq(Flits)
      /\ IF constructed = <<>> THEN f.head /\ f.seq = 0
         ELSE /\ ~constructed[Len(constructed)].tail
              /\ Follows(constructed[Len(constructed)], f) /\ f.vc = constructed[1].vc
  BY TakenFits DEF TakesOther
<1>2. /\ ~f.tail /\ constructed' = Append(constructed, f) /\ depacketizing' = TRUE
      /\ priority'[1] = v /\ UNCHANGED <<outFifo, popCount>>
  BY DEF TakesOther
<1>3. Master!PacketPrefix(constructed)
  BY DEF PacketInv, RebuildInv
<1>4. PICK c \in Seq(Flits) : c = constructed
  BY <1>1
<1>5. /\ Master!PacketPrefix(Append(c, f)) /\ Append(c, f)[Len(Append(c, f))] = f
      /\ Append(c, f) # <<>> /\ Append(c, f)[1].tid = f.tid /\ Append(c, f)[1].vc = f.vc
  BY <1>1, <1>3, <1>4, PrefixAppend
<1>6. Master!PacketPrefix(constructed)'
  BY <1>2, <1>4, <1>5 DEF Master!PacketPrefix
<1>7. Master!HasCompletePacket(v)'
  <2>1. ejFifo'[v] # <<>>
    BY <1>1, <1>2, RestIsThere
  <2>2. pushCount' = pushCount /\ pushCount[v] > popCount[v]
    BY <1>1 DEF OutputDepacketization, Master!OutputDepacketization, Takes, Master!HasCompletePacket
  <2>3. Line(v)' # <<>> /\ Head(ejFifo'[v]) = Line(v)'[1]
    BY <1>1, <2>1, LineAtTake
  <2>4. Begins(v, Line(v)[1])'
    BY <1>1, <2>3 DEF LineInv
  <2>5. Rebuilding(v)' /\ constructed'[Len(constructed')] = f
    BY <1>2, <1>4, <1>5 DEF Rebuilding
  <2>6. Follows(f, Line(v)'[1])
    BY <2>4, <2>5 DEF Begins, Follows
  <2>7. Head(ejFifo'[v]).tid = f.tid
    BY <1>2, <2>3, <2>6 DEF Follows
  <2>8. f = Head(ejFifo[v]) /\ Len(outFifo[f.tid]) < OutputDepth
    BY <1>1 DEF Takes, Master!HasCompletePacket
  <2>9. QED
    BY <1>2, <2>1, <2>2, <2>7, <2>8 DEF Master!HasCompletePacket
<1>8. Master!HasCompletePacket(priority[1])'
  BY <1>2, <1>7 DEF Master!HasCompletePacket
<1>9. constructed' # <<>> /\ ~constructed'[Len(constructed')].tail /\ constructed'[1].vc = priority'[1]
  BY <1>1, <1>2, <1>4, <1>5
<1>10. QED
  BY <1>2, <1>6, <1>8, <1>9 DEF RebuildInv

LEMMA RebuildNext ==
  FifosSuffice /\ TypeInv /\ SlotInv /\ CountInv /\ InjectInv /\ PacketInv /\ [Next]_vars => PacketInv'
<1> SUFFICES ASSUME FifosSuffice, TypeInv, SlotInv, CountInv, InjectInv, PacketInv, [Next]_vars
             PROVE  RebuildInv'
  BY LineNext DEF PacketInv
<1>1. /\ KernelInv /\ RebuildInv /\ LineInv' /\ FifoTypes /\ OutputTypes
      /\ TypeInv'
  BY LineNext, TypeNext DEF TypeInv, PacketInv
<1>2. depacketizing => Master!HasCompletePacket(priority[1])
  BY <1>1 DEF RebuildInv
<1>3. priority[1] \in VCs
  BY <1>1, Constants DEF FifoTypes
<1>4. \A o \in Outputs : Len(outFifo[o]) \in Nat
  BY <1>1 DEF OutputTypes
<1>5. pushCount[priority[1]] \in Nat /\ pushCount'[priority[1]] \in Nat
  BY <1>1, <1>3 DEF TypeInv, FifoTypes
<1>6. ASSUME UNCHANGED <<constructed, depacketizing, priority, popCount>>,
             depacketizing => /\ ejFifo'[priority[1]] # <<>>
                              /\ Head(ejFifo'[priority[1]]) = Head(ejFifo[priority[1]]),
             pushCount'[priority[1]] >= pushCount[priority[1]],
             \A o \in Outputs : Len(outFifo'[o]) <= Len(outFifo[o]) /\ Len(outFifo'[o]) \in Nat
      PROVE  RebuildInv'
  <2>1. PICK v \in VCs : v = priority[1]
    BY <1>3
  <2>2. ASSUME depacketizing PROVE Master!HasCompletePacket(v)'
    <3>1. Master!HasCompletePacket(v)
      BY <1>2, <2>1, <2>2
    <3>2. QED
      BY <1>5, <1>6, <2>1, <2>2, <3>1, CompleteKept
  <2>3. depacketizing => Master!HasCompletePacket(priority[1])'
    BY <1>6, <2>1, <2>2 DEF Master!HasCompletePacket
  <2>4. QED
    BY <1>1, <1>6, <2>3, RebuildStays
<1>7. ASSUME UNCHANGED <<constructed, depacketizing, priority, popCount, ejFifo, pushCount, outFifo>>
      PROVE  RebuildInv'
  BY <1>2, <1>4, <1>5, <1>6, <1>7 DEF Master!HasCompletePacket
<1>8. ASSUME NEW S \in SUBSET Clocks, ClockEdge(S) PROVE RebuildInv'
  BY <1>7, <1>8 DEF ClockEdge, masterVars
<1>9. CASE Settle
  <2>1. UNCHANGED <<constructed, depacketizing, priority, popCount, ejFifo, outFifo>>
    BY <1>9 DEF Settle
  <2>2. pushCount'[priority[1]] >= pushCount[priority[1]]
    <3>1. pushCount' = IF pushing = NoVC THEN pushCount
                                         ELSE [pushCount EXCEPT ![pushing] = @ + 1]
      BY <1>9 DEF Settle, Master!CommitPush
    <3>2. QED
      BY <1>1, <1>3, <1>5, <3>1 DEF FifoTypes
  <2>3. QED
    BY <1>2, <1>4, <1>6, <2>1, <2>2 DEF Master!HasCompletePacket
<1>10. CASE Send \/ Tick
  BY <1>7, <1>10 DEF Send, Tick, masterVars
<1>11. CASE OutputEjection
  <2>1. UNCHANGED <<constructed, depacketizing, priority, popCount, pushCount, outFifo>>
    BY <1>11 DEF OutputEjection, Master!OutputEjection
  <2>2. PICK q \in Seq(Flits) : q = ejFifo[priority[1]]
    BY <1>1, <1>3 DEF FifoTypes
  <2>3. ASSUME depacketizing
        PROVE  ejFifo'[priority[1]] # <<>> /\ Head(ejFifo'[priority[1]]) = Head(ejFifo[priority[1]])
    <3>1. q # <<>>
      BY <1>2, <2>2, <2>3 DEF Master!HasCompletePacket
    <3>2. \/ ejFifo'[priority[1]] = q
          \/ ejFifo'[priority[1]] = Append(q, eject)
      BY <1>1, <1>3, <1>11, <2>2, EjectionFiles DEF FifoTypes
    <3>3. PICK e : e = eject
      OBVIOUS
    <3>4. Append(q, e) # <<>> /\ Head(Append(q, e)) = Head(q)
      BY <3>1, AppendProperties
    <3>5. QED
      BY <2>2, <3>1, <3>2, <3>3, <3>4
  <2>4. QED
    BY <1>4, <1>5, <1>6, <2>1, <2>3
<1>12. CASE OutputDepacketization
  <2>1. CASE TakesNone
    <3>1. ~depacketizing
      BY <1>2, <2>1 DEF TakesNone
    <3>2. UNCHANGED <<constructed, depacketizing>>
      BY <2>1 DEF TakesNone
    <3>3. constructed = <<>>
      BY <1>1, <3>1 DEF RebuildInv
    <3>4. QED
      BY <3>1, <3>2, <3>3 DEF RebuildInv, Master!PacketPrefix
  <2>2. ASSUME NEW v, NEW f, TakesTail(v, f) PROVE RebuildInv'
    <3>1. constructed' = <<>> /\ depacketizing' = FALSE
      BY <2>2 DEF TakesTail
    <3>2. QED
      BY <3>1 DEF RebuildInv, Master!PacketPrefix
  <2>3. QED
    BY <1>1, <1>12, <2>1, <2>2, TakeKeepsRebuild, DepacketizationEffect
<1>13. CASE OutputInterface
  <2>1. UNCHANGED <<constructed, depacketizing, priority, popCount, pushCount, ejFifo>>
    BY <1>13 DEF OutputInterface, Master!OutputInterface
  <2>2. ASSUME NEW o \in Outputs PROVE Len(outFifo'[o]) <= Len(outFifo[o]) /\ Len(outFifo'[o]) \in Nat
    <3>1. PICK q \in Seq(Seq(Flits)) : q = outFifo[o]
      BY <1>1 DEF OutputTypes
    <3>2. \/ outFifo'[o] = q
          \/ (q # <<>> /\ outFifo'[o] = Tail(q))
      BY <1>1, <1>13, <3>1, PortEffect
    <3>3. Len(q) \in Nat /\ (q # <<>> => Len(Tail(q)) = Len(q) - 1 /\ Len(q) > 0)
      OBVIOUS
    <3>4. CASE outFifo'[o] = q
      BY <3>1, <3>3, <3>4
    <3>5. CASE q # <<>> /\ outFifo'[o] = Tail(q)
      BY <3>1, <3>3, <3>5
    <3>6. QED
      BY <3>2, <3>4, <3>5
  <2>3. QED
    BY <1>2, <1>5, <1>6, <2>1, <2>2 DEF Master!HasCompletePacket
<1>14. CASE UNCHANGED vars
  BY <1>7, <1>14 DEF vars, masterVars
<1>15. QED
  BY <1>8, <1>9, <1>10, <1>11, <1>12, <1>13, <1>14 DEF Next

(***************************************************************************)
(* The output FIFOs.                                                       *)
(***************************************************************************)
LEMMA OutputInit == Init => OutputInv
<1> SUFFICES ASSUME Init PROVE OutputInv
  OBVIOUS
<1>1. outFifo = [o \in Outputs |-> <<>>] /\ out = [o \in Outputs |-> <<>>]
  BY Constants, Zenon DEF Init, Master!MasterInit
<1>2. Len(<<>>) = 0 /\ 1 .. 0 = {}
  OBVIOUS
<1>3. QED
  BY <1>1, <1>2, Constants DEF OutputInv

LEMMA OutputNext ==
  TypeInv /\ CountInv /\ PacketInv /\ OutputInv /\ [Next]_vars => OutputInv'
<1> SUFFICES ASSUME TypeInv, CountInv, PacketInv, OutputInv, [Next]_vars PROVE OutputInv'
  OBVIOUS
<1>1. OutputTypes
  BY DEF TypeInv
<1>2. \A o \in Outputs :
        /\ Len(outFifo[o]) <= OutputDepth
        /\ \A k \in 1 .. Len(outFifo[o]) :
             Master!WholePacket(outFifo[o][k]) /\ outFifo[o][k][1].tid = o
        /\ out[o] # <<>> => outFifo[o] # <<>> /\ out[o] = outFifo[o][1]
  BY DEF OutputInv
<1>3. ASSUME NEW o \in Outputs, outFifo'[o] = outFifo[o], out'[o] = out[o]
      PROVE  /\ Len(outFifo'[o]) <= OutputDepth
             /\ \A k \in 1 .. Len(outFifo'[o]) :
                  Master!WholePacket(outFifo'[o][k]) /\ outFifo'[o][k][1].tid = o
             /\ out'[o] # <<>> => outFifo'[o] # <<>> /\ out'[o] = outFifo'[o][1]
  BY <1>2, <1>3
<1>4. ASSUME UNCHANGED <<outFifo, out>> PROVE OutputInv'
  BY <1>2, <1>4 DEF OutputInv
<1>5. ASSUME NEW S \in SUBSET Clocks, ClockEdge(S) PROVE OutputInv'
  BY <1>4, <1>5 DEF ClockEdge, masterVars
<1>6. CASE Settle \/ Send \/ Tick \/ OutputEjection
  BY <1>4, <1>6 DEF Settle, Send, Tick, OutputEjection, Master!OutputEjection, masterVars
<1>7. CASE OutputDepacketization
  <2>1. UNCHANGED out
    BY <1>7 DEF OutputDepacketization, Master!OutputDepacketization
  <2>2. CASE TakesNone
    BY <1>4, <2>1, <2>2 DEF TakesNone
  <2>3. ASSUME NEW v, NEW f, TakesOther(v, f) PROVE OutputInv'
    BY <1>4, <2>1, <2>3 DEF TakesOther
  <2>4. ASSUME NEW v, NEW f, TakesTail(v, f) PROVE OutputInv'
    <3>1. /\ Takes(v, f) /\ v \in VCs /\ f \in Flits
          /\ constructed \in Seq(Flits)
          /\ IF constructed = <<>> THEN f.head /\ f.seq = 0
             ELSE /\ ~constructed[Len(constructed)].tail
                  /\ Follows(constructed[Len(constructed)], f) /\ f.vc = constructed[1].vc
      BY <1>7, <2>4, TakenFits DEF TakesTail
    <3>2. f.tail /\ outFifo' = [outFifo EXCEPT ![f.tid] = Append(@, Append(constructed, f))]
      BY <2>4 DEF TakesTail
    <3>3. Master!PacketPrefix(constructed)
      BY DEF PacketInv, RebuildInv
    <3>4. PICK c \in Seq(Flits) : c = constructed
      BY <3>1
    <3>5. PICK d \in Seq(Flits) : d = Append(c, f)
      <4>1. f \in Flits
        BY <3>1
      <4>2. Append(c, f) \in Seq(Flits)
        BY <4>1
      <4>3. QED
        BY <4>2
    <3>6. Master!WholePacket(d) /\ d[1].tid = f.tid
      <4>1. /\ Master!PacketPrefix(d) /\ d[Len(d)] = f /\ d # <<>> /\ d[1].tid = f.tid
        BY <3>1, <3>3, <3>4, <3>5, PrefixAppend
      <4>2. QED
        BY <3>2, <4>1 DEF Master!WholePacket
    <3>7. f.tid \in Outputs /\ Len(outFifo[f.tid]) < OutputDepth
      BY <3>1 DEF Takes, Master!HasCompletePacket, Flits
    <3>8. ASSUME NEW o \in Outputs
          PROVE  /\ Len(outFifo'[o]) <= OutputDepth
                 /\ \A k \in 1 .. Len(outFifo'[o]) :
                      Master!WholePacket(outFifo'[o][k]) /\ outFifo'[o][k][1].tid = o
                 /\ out'[o] # <<>> => outFifo'[o] # <<>> /\ out'[o] = outFifo'[o][1]
      <4>1. CASE o # f.tid
        <5>1. outFifo'[o] = outFifo[o]
          BY <1>1, <3>2, <4>1 DEF OutputTypes
        <5>2. QED
          BY <1>3, <2>1, <5>1
      <4>2. CASE o = f.tid
        <5>1. PICK q \in Seq(Seq(Flits)) : q = outFifo[o]
          BY <1>1 DEF OutputTypes
        <5>2. PICK r \in Seq(Seq(Flits)) : r = Append(q, d)
          <6>1. Append(q, d) \in Seq(Seq(Flits))
            OBVIOUS
          <6>2. QED
            BY <6>1
        <5>3. outFifo'[o] = r
          BY <1>1, <3>2, <3>4, <3>5, <3>7, <4>2, <5>1, <5>2 DEF OutputTypes
        <5>4. /\ Len(r) = Len(q) + 1 /\ Len(q) \in Nat /\ r # <<>>
              /\ r[Len(q) + 1] = d
              /\ \A k \in 1 .. Len(q) : r[k] = q[k]
              /\ q # <<>> => 1 \in 1 .. Len(q)
          BY <5>2
        <5>5. Len(r) <= OutputDepth
          BY <3>7, <4>2, <5>1, <5>4, Constants
        <5>6. ASSUME NEW k \in 1 .. Len(r) PROVE Master!WholePacket(r[k]) /\ r[k][1].tid = o
          <6>1. CASE k = Len(q) + 1
            BY <3>6, <4>2, <5>4, <6>1
          <6>2. CASE k # Len(q) + 1
            <7>1. k \in 1 .. Len(q)
              BY <5>4, <6>2
            <7>2. QED
              <8>1. r[k] = q[k]
                BY <5>4, <7>1
              <8>2. Master!WholePacket(q[k]) /\ q[k][1].tid = o
                BY <1>2, <5>1, <7>1
              <8>3. QED
                BY <8>1, <8>2
          <6>3. QED
            BY <6>1, <6>2
        <5>7. ASSUME out'[o] # <<>> PROVE r # <<>> /\ out'[o] = r[1]
          <6>1. q # <<>> /\ out'[o] = q[1]
            BY <1>2, <2>1, <5>1, <5>7
          <6>2. QED
            BY <5>4, <6>1
        <5>8. QED
          BY <5>3, <5>5, <5>6, <5>7
      <4>3. QED
        BY <4>1, <4>2
    <3>9. QED
      BY <3>8 DEF OutputInv
  <2>5. QED
    BY <1>7, <2>2, <2>3, <2>4, DepacketizationEffect DEF TypeInv
<1>8. CASE OutputInterface
  <2>1. ASSUME NEW o \in Outputs
        PROVE  /\ Len(outFifo'[o]) <= OutputDepth
               /\ \A k \in 1 .. Len(outFifo'[o]) :
                    Master!WholePacket(outFifo'[o][k]) /\ outFifo'[o][k][1].tid = o
               /\ out'[o] # <<>> => outFifo'[o] # <<>> /\ out'[o] = outFifo'[o][1]
    <3>1. PICK q \in Seq(Seq(Flits)) : q = outFifo[o]
      BY <1>1 DEF OutputTypes
    <3>2. PICK r \in Seq(Seq(Flits)) : r = outFifo'[o]
      BY <1>1, <1>8, PortEffect
    <3>3. /\ r = q \/ (q # <<>> /\ r = Tail(q))
          /\ out'[o] # <<>> => r # <<>> /\ out'[o] = r[1]
      BY <1>1, <1>8, <3>1, <3>2, PortEffect
    <3>4. /\ Len(q) <= OutputDepth
          /\ \A k \in 1 .. Len(q) : Master!WholePacket(q[k]) /\ q[k][1].tid = o
      BY <1>2, <3>1
    <3>5. /\ Len(r) <= OutputDepth
          /\ \A k \in 1 .. Len(r) : Master!WholePacket(r[k]) /\ r[k][1].tid = o
      <4>1. CASE r = q
        BY <3>4, <4>1
      <4>2. CASE q # <<>> /\ r = Tail(q)
        <5>1. /\ Len(q) \in Nat \ {0} /\ Len(r) = Len(q) - 1
              /\ \A k \in 1 .. Len(q) - 1 : r[k] = q[k + 1]
          BY <4>2, HeadTail
        <5>2. ASSUME NEW k \in 1 .. Len(r) PROVE r[k] = q[k + 1] /\ k + 1 \in 1 .. Len(q)
          BY <5>1
        <5>3. Len(r) <= OutputDepth
          BY <3>4, <5>1, Constants
        <5>4. QED
          BY <3>4, <5>2, <5>3
      <4>3. QED
        BY <3>3, <4>1, <4>2
    <3>6. QED
      BY <3>2, <3>3, <3>5
  <2>2. QED
    BY <2>1 DEF OutputInv
<1>9. CASE UNCHANGED vars
  BY <1>4, <1>9 DEF vars, masterVars
<1>10. QED
  BY <1>5, <1>6, <1>7, <1>8, <1>9 DEF Next

EgressInv == TypeInv /\ SlotInv /\ CountInv /\ InjectInv /\ PacketInv /\ OutputInv

LEMMA EgressCorrect == FifosSuffice /\ Spec => []EgressInv
<1>1. Init => EgressInv
  BY TypeInit, SlotInit, CountInit, InjectInit, PacketInit, OutputInit DEF EgressInv
<1>2. FifosSuffice /\ EgressInv /\ [Next]_vars => EgressInv'
  BY TypeNext, SlotNext, CountNext, InjectNext, RebuildNext, OutputNext DEF EgressInv
<1>3. FifosSuffice => FifosSuffice'
  BY DEF FifosSuffice
<1>4. QED
  BY <1>1, <1>2, <1>3, PTL DEF Spec

\* Packets are rebuilt whole, in order and for the interface they are meant
\* for, and a module is shown the packet that its handshake will pop, however
\* flits of different VCs are interleaved and whatever the three clocks do.
THEOREM PacketsAreRebuilt ==
  ASSUME FifosSuffice
  PROVE  Spec => []PacketsRebuilt
<1>1. EgressInv => PacketsRebuilt
  <2>1. SUFFICES ASSUME EgressInv PROVE Master!PacketsRebuilt
    BY DEF PacketsRebuilt
  <2>2. /\ Master!PacketPrefix(constructed)
        /\ depacketizing <=> constructed # <<>>
        /\ constructed # <<>> => ~constructed[Len(constructed)].tail
    BY <2>1 DEF EgressInv, PacketInv, RebuildInv
  <2>3. \A o \in Outputs :
          /\ Len(outFifo[o]) <= OutputDepth
          /\ \A k \in 1 .. Len(outFifo[o]) :
               Master!WholePacket(outFifo[o][k]) /\ outFifo[o][k][1].tid = o
          /\ out[o] # <<>> => outFifo[o] # <<>> /\ out[o] = outFifo[o][1]
    BY <2>1 DEF EgressInv, OutputInv
  <2>4. QED
    BY <2>2, <2>3, Constants DEF Master!PacketsRebuilt
<1>2. QED
  BY <1>1, EgressCorrect, PTL

\* A packet once started never waits: its next flit is at the front of the FIFO
\* of the VC in front of the priority queue, and the output FIFO has room.
THEOREM PacketsNeverStall ==
  ASSUME FifosSuffice
  PROVE  Spec => []PacketNeverStalls
<1>1. EgressInv => PacketNeverStalls
  <2>1. SUFFICES ASSUME EgressInv, depacketizing
                 PROVE  /\ Master!HasCompletePacket(priority[1])
                        /\ ejFifo[priority[1]][1].id = constructed[1].id
                        /\ ejFifo[priority[1]][1].seq = Len(constructed)
    BY DEF PacketNeverStalls, Master!PacketNeverStalls
  <2>2. PICK v \in VCs : v = priority[1]
    BY <2>1, Constants DEF EgressInv, TypeInv, FifoTypes
  <2>3. /\ TypeInv /\ Master!PacketPrefix(constructed) /\ constructed # <<>>
        /\ Master!HasCompletePacket(v)
    BY <2>1, <2>2 DEF EgressInv, PacketInv, RebuildInv
  <2>4. PICK e \in Seq(FlitsOn(v)) : e = ejFifo[v]
    BY <2>3, LineParts
  <2>5. PICK n \in Seq(FlitsOn(v)) : n = Now(v)
    BY <2>3, LineParts
  <2>6. PICK b \in Seq(FlitsOn(v)) : b = rbuf[v] \o Last(v)
    BY <2>3, LineParts, Associative
  <2>7. PICK l \in Seq(FlitsOn(v)) : l = Line(v)
    BY <2>3, LineParts
  <2>8. e # <<>>
    BY <2>3, <2>4 DEF Master!HasCompletePacket
  <2>9. l = (e \o n) \o b
    BY <2>4, <2>5, <2>6, <2>7 DEF Line
  <2>10. l # <<>> /\ l[1] = e[1]
    <3>1. Len(e) \in Nat \ {0} /\ Len(n) \in Nat /\ Len(b) \in Nat
      BY <2>8
    <3>2. PICK en \in Seq(FlitsOn(v)) : en = e \o n
      <4>1. e \o n \in Seq(FlitsOn(v))
        OBVIOUS
      <4>2. QED
        BY <4>1
    <3>3. Len(en) = Len(e) + Len(n) /\ en[1] = e[1]
      BY <3>1, <3>2
    <3>4. Len(en \o b) = Len(en) + Len(b) /\ (en \o b)[1] = en[1]
      <4>1. Len(en) \in Nat /\ 1 <= Len(en)
        BY <3>1, <3>3
      <4>2. QED
        BY <3>1, <4>1
    <3>5. QED
      BY <2>9, <3>1, <3>2, <3>3, <3>4
  <2>11. Follows(constructed[Len(constructed)], e[1])
    <3>1. Begins(v, l[1])
      BY <2>1, <2>7, <2>10 DEF EgressInv, PacketInv, LineInv
    <3>2. QED
      BY <2>1, <2>2, <2>10, <3>1 DEF Begins, Rebuilding
  <2>12. PICK c \in Seq(Flits) : c = constructed
    BY <2>3 DEF TypeInv, FifoTypes
  <2>13. Len(c) \in Nat \ {0} /\ Len(c) \in 1 .. Len(c)
    BY <2>3, <2>12
  <2>14. c[Len(c)].id = c[1].id /\ c[Len(c)].seq = Len(c) - 1
    BY <2>3, <2>12, <2>13 DEF Master!PacketPrefix
  <2>15. ~c[Len(c)].tail
    BY <2>1, <2>3, <2>12 DEF EgressInv, PacketInv, RebuildInv
  <2>16. e[1].id = c[1].id /\ e[1].seq = Len(c)
    BY <2>11, <2>12, <2>13, <2>14, <2>15 DEF Follows
  <2>17. QED
    BY <2>2, <2>3, <2>4, <2>12, <2>16
<1>2. QED
  BY <1>1, EgressCorrect, PTL

(***************************************************************************)
(* The numbers of the packets: they increase along the way of a VC, so     *)
(* that the packet a module is shown is the first of its flow.             *)
(***************************************************************************)
\* The flits of s that end a packet come before the flits of later packets.
Increasing(s) ==
  \A i, j \in 1 .. Len(s) : i < j /\ s[i].tail => s[i].id < s[j].id

Numbered(s) == \A i \in 1 .. Len(s) : s[i].id \in 1 .. numTx

EndedBefore(s, n) == \A i \in 1 .. Len(s) : s[i].tail => s[i].id < n

StartedAfter(s, n) == \A i \in 1 .. Len(s) : n < s[i].id

LineOrder(v, s) ==
  /\ Increasing(s) /\ Numbered(s)
  /\ sending[v] # NoPacket => sending[v].id \in 1 .. numTx /\ EndedBefore(s, sending[v].id)

\* The packets of an output FIFO, each represented by its first flit.
Heads(o) == [k \in 1 .. Len(outFifo[o]) |-> outFifo[o][k][1]]

\* Packet n precedes all those on VC v that are still on their way.
Precedes(v, n) ==
  /\ n \in 1 .. numTx
  /\ StartedAfter(Line(v), n)
  /\ sending[v] # NoPacket => n < sending[v].id

FifoOrder(v, hs) ==
  \A k \in 1 .. Len(hs) : hs[k].vc = v =>
    /\ Precedes(v, hs[k].id)
    /\ \A l \in 1 .. Len(hs) : k < l /\ hs[l].vc = v => hs[k].id < hs[l].id

OrderAt(v) == LineOrder(v, Line(v)) /\ \A o \in Outputs : FifoOrder(v, Heads(o))

OrderInv == \A v \in VCs : OrderAt(v)

LEMMA OrderInit == Init => OrderInv
<1> SUFFICES ASSUME Init, NEW v \in VCs PROVE OrderAt(v)
  BY DEF OrderInv
<1>1. Line(v) = <<>>
  <2>1. ejFifo[v] = <<>> /\ rbuf[v] = <<>> /\ eject = NoFlit /\ inject = NoFlit
    BY Constants, Zenon DEF Init, Master!MasterInit, Noc!NocInit, Noc!EmptyBuffer
  <2>2. (<<>> \o <<>>) \o (<<>> \o <<>>) = <<>>
    OBVIOUS
  <2>3. QED
    BY <2>1, <2>2 DEF Line, Now, Last
<1>2. ASSUME NEW o \in Outputs PROVE Len(Heads(o)) = 0
  <2>1. outFifo[o] = <<>>
    BY Constants, Zenon DEF Init, Master!MasterInit
  <2>2. Heads(o) = [k \in 1 .. 0 |-> outFifo[o][k][1]]
    BY <2>1 DEF Heads
  <2>3. QED
    BY <2>2
<1>3. sending[v] = NoPacket
  BY DEF Init
<1>4. LineOrder(v, <<>>)
  <2>1. Len(<<>>) = 0 /\ 1 .. 0 = {}
    OBVIOUS
  <2>2. QED
    BY <1>3, <2>1 DEF LineOrder, Increasing, Numbered
<1>5. QED
  BY <1>1, <1>2, <1>4 DEF OrderAt, FifoOrder

LEMMA OrderKept ==
  ASSUME OrderInv, NEW v \in VCs, Line(v)' = Line(v), sending'[v] = sending[v],
         numTx \in Nat, numTx' \in Nat, numTx <= numTx', UNCHANGED outFifo
  PROVE  OrderAt(v)'
<1>1. OrderAt(v) /\ 1 .. numTx \subseteq 1 .. numTx'
  BY DEF OrderInv
<1>2. PICK s : s = Line(v)
  OBVIOUS
<1>3. LineOrder(v, s)'
  <2>1. LineOrder(v, s)
    BY <1>1, <1>2 DEF OrderAt
  <2>2. QED
    BY <1>1, <2>1 DEF LineOrder, Numbered
<1>4. ASSUME NEW o \in Outputs PROVE FifoOrder(v, Heads(o))'
  <2>1. PICK hs : hs = Heads(o)
    OBVIOUS
  <2>2. Heads(o)' = hs
    BY <2>1 DEF Heads
  <2>3. FifoOrder(v, hs)
    BY <1>1, <2>1 DEF OrderAt
  <2>4. ASSUME NEW n, Precedes(v, n) PROVE Precedes(v, n)'
    BY <1>1, <2>4 DEF Precedes
  <2>5. FifoOrder(v, hs)'
    BY <2>3, <2>4 DEF FifoOrder
  <2>6. QED
    BY <2>2, <2>5
<1>5. QED
  BY <1>2, <1>3, <1>4 DEF OrderAt

LEMMA HeadsType ==
  ASSUME OutputTypes, OutputInv, NEW o \in Outputs
  PROVE  /\ outFifo[o] \in Seq(Seq(Flits))
         /\ Heads(o) \in Seq(Flits) /\ Len(Heads(o)) = Len(outFifo[o])
         /\ \A k \in 1 .. Len(outFifo[o]) : Heads(o)[k] = outFifo[o][k][1] /\ Heads(o)[k].tid = o
<1>1. PICK q \in Seq(Seq(Flits)) : q = outFifo[o]
  BY DEF OutputTypes
<1>2. Len(q) \in Nat /\ Heads(o) = [k \in 1 .. Len(q) |-> q[k][1]]
  BY <1>1 DEF Heads
<1>3. ASSUME NEW k \in 1 .. Len(q) PROVE q[k][1] \in Flits /\ q[k][1].tid = o
  <2>1. PICK p \in Seq(Flits) : p = q[k]
    BY <1>3
  <2>2. p # <<>> /\ p[1].tid = o
    <3>1. k \in 1 .. Len(outFifo[o]) /\ p = outFifo[o][k]
      BY <1>1, <1>3, <2>1
    <3>2. Master!WholePacket(p) /\ p[1].tid = o
      BY <3>1 DEF OutputInv
    <3>3. QED
      BY <3>2 DEF Master!WholePacket
  <2>3. p[1] \in Flits
    BY <2>2
  <2>4. QED
    BY <2>1, <2>2, <2>3
<1>4. Heads(o) \in Seq(Flits) /\ Len(Heads(o)) = Len(q)
  BY <1>2, <1>3
<1>5. QED
  BY <1>1, <1>2, <1>3, <1>4

(***************************************************************************)
(* A flit is sent.                                                         *)
(***************************************************************************)
\* Packet n may be sent on VC v next.
MayFollow(v, n) ==
  /\ n \in 1 .. numTx'
  /\ EndedBefore(Line(v), n)
  /\ \A m : Precedes(v, m) => m < n

LEMMA SentIsNext ==
  ASSUME TypeInv, OrderInv, NEW v, NEW p, Sends(v, p)
  PROVE  MayFollow(v, p.id)
<1>1. /\ v \in VCs /\ p \in Packets
      /\ \/ sending[v] = p /\ numTx' = numTx
         \/ sending[v] = NoPacket /\ p.id = numTx + 1 /\ numTx' = numTx + 1
  BY DEF Sends
<1>2. LineOrder(v, Line(v)) /\ numTx \in Nat
  BY <1>1 DEF OrderInv, OrderAt, TypeInv, SenderTypes
<1>3. CASE sending[v] = p /\ numTx' = numTx
  <2>1. p # NoPacket
    BY <1>1, Apart
  <2>2. QED
    BY <1>2, <1>3, <2>1 DEF LineOrder, Precedes, MayFollow
<1>4. CASE p.id = numTx + 1 /\ numTx' = numTx + 1
  <2>1. \A i \in 1 .. Len(Line(v)) : Line(v)[i].id < p.id
    BY <1>2, <1>4 DEF LineOrder, Numbered
  <2>2. QED
    BY <1>2, <1>4, <2>1 DEF Precedes, MayFollow, EndedBefore
<1>5. QED
  BY <1>1, <1>3, <1>4

LEMMA OrderAppend ==
  ASSUME NEW S, NEW s \in Seq(S), NEW f \in S, NEW n \in Nat, f.id = n,
         Increasing(s), EndedBefore(s, n)
  PROVE  /\ Increasing(Append(s, f))
         /\ ~f.tail => EndedBefore(Append(s, f), n)
         /\ \A m : StartedAfter(s, m) /\ m < n => StartedAfter(Append(s, f), m)
         /\ \A i \in 1 .. Len(Append(s, f)) : i \in 1 .. Len(s) \/ Append(s, f)[i] = f
<1>1. PICK t \in Seq(S) : t = Append(s, f)
  <2>1. Append(s, f) \in Seq(S)
    OBVIOUS
  <2>2. QED
    BY <2>1
<1>2. /\ Len(s) \in Nat /\ Len(t) = Len(s) + 1 /\ t[Len(s) + 1] = f
      /\ \A i \in 1 .. Len(s) : t[i] = s[i]
  BY <1>1
<1>3. \A i \in 1 .. Len(t) : i \in 1 .. Len(s) \/ i = Len(s) + 1
  BY <1>2
<1>4. ASSUME NEW i \in 1 .. Len(t), NEW j \in 1 .. Len(t), i < j, t[i].tail
      PROVE  t[i].id < t[j].id
  <2>1. i \in 1 .. Len(s) /\ t[i] = s[i]
    BY <1>2, <1>3, <1>4
  <2>2. CASE j \in 1 .. Len(s)
    BY <1>2, <1>4, <2>1, <2>2 DEF Increasing
  <2>3. CASE j = Len(s) + 1
    BY <1>2, <1>4, <2>1, <2>3 DEF EndedBefore
  <2>4. QED
    BY <1>3, <2>2, <2>3
<1>5. Increasing(t)
  BY <1>4 DEF Increasing
<1>6. ~f.tail => EndedBefore(t, n)
  BY <1>2, <1>3 DEF EndedBefore
<1>7. ASSUME NEW m, StartedAfter(s, m), m < n PROVE StartedAfter(t, m)
  BY <1>7, <1>2, <1>3 DEF StartedAfter
<1>8. QED
  BY <1>1, <1>2, <1>3, <1>5, <1>6, <1>7

LEMMA SendKeepsOrder ==
  ASSUME TypeInv, InjectInv, OrderInv, Send
  PROVE  OrderInv'
<1>1. inject = NoFlit /\ SenderTypes /\ KernelInv
  BY InjectIsFree DEF TypeInv
<1>2. /\ UNCHANGED <<outFifo, ejFifo, eject, rbuf>>
      /\ Unread' <=> Unread
  BY <1>1, UnreadKept DEF Send, masterVars
<1>3. CASE SendsNone
  <2>1. UNCHANGED <<inject, sending, numTx>>
    BY <1>3 DEF SendsNone, sourceVars
  <2>2. \A w \in VCs : Line(w)' = Line(w)
    BY <1>2, <2>1, LineKept
  <2>3. QED
    BY <1>1, <1>2, <2>1, <2>2, OrderKept DEF OrderInv, SenderTypes
<1>4. ASSUME NEW v, NEW p, Sends(v, p) PROVE OrderInv'
  <2>1. /\ v \in VCs /\ p \in Packets /\ inject' \in FlitsOn(v)
        /\ numTx \in Nat /\ numTx' \in Nat /\ numTx <= numTx' /\ p.id \in Nat
    BY <1>1, <1>4 DEF Sends, SenderTypes, Packets
  <2>2. PICK last \in BOOLEAN : /\ inject' = FlitOf(p, v, last)
                               /\ sending' = [sending EXCEPT ![v] = Remains(p, last)]
    BY <1>4 DEF Sends
  <2>3. ASSUME NEW w \in VCs, w # v PROVE OrderAt(w)'
    <3>1. Line(w)' = Line(w)
      BY <1>1, <1>4, <2>3, LineAtSend
    <3>2. sending'[w] = sending[w]
      BY <1>1, <2>2, <2>3 DEF SenderTypes
    <3>3. QED
      BY <1>2, <2>1, <3>1, <3>2, OrderKept
  <2>4. PICK s \in Seq(FlitsOn(v)) : s = Line(v)
    BY <2>1, LineParts
  <2>5. PICK f \in FlitsOn(v) : f = inject'
    BY <2>1
  <2>6. PICK t : t = Append(s, f)
    OBVIOUS
  <2>7. Line(v)' = t
    BY <1>1, <1>4, <2>1, <2>4, <2>5, <2>6, LineAtSend
  <2>8. f.id = p.id /\ f.tail = last
    BY <2>2, <2>5 DEF FlitOf
  <2>9. /\ p.id \in 1 .. numTx' /\ EndedBefore(s, p.id)
        /\ \A m : Precedes(v, m) => m < p.id
    BY <1>4, <2>4, SentIsNext DEF MayFollow
  <2>10. LineOrder(v, s) /\ \A o \in Outputs : FifoOrder(v, Heads(o))
    BY <2>1, <2>4 DEF OrderInv, OrderAt
  <2>11. /\ Increasing(t)
         /\ \A m : StartedAfter(s, m) /\ m < p.id => StartedAfter(t, m)
         /\ ~f.tail => EndedBefore(t, p.id)
         /\ \A i \in 1 .. Len(t) : i \in 1 .. Len(s) \/ t[i] = f
    BY <2>1, <2>6, <2>8, <2>9, <2>10, OrderAppend DEF LineOrder
  <2>12. sending'[v] # NoPacket => sending'[v].id = p.id /\ ~f.tail
    <3>1. sending'[v] = Remains(p, last)
      BY <1>1, <2>1, <2>2 DEF SenderTypes
    <3>2. [p EXCEPT !.next = @ + 1].id = p.id
      BY <2>1 DEF Packets
    <3>3. QED
      BY <2>8, <3>1, <3>2 DEF Remains
  <2>13. Numbered(t)'
    <3>1. \A i \in 1 .. Len(s) : t[i] = s[i]
      BY <2>6
    <3>2. \A i \in 1 .. Len(s) : s[i].id \in 1 .. numTx
      BY <2>10 DEF LineOrder, Numbered
    <3>3. 1 .. numTx \subseteq 1 .. numTx'
      BY <2>1
    <3>4. QED
      BY <2>8, <2>9, <2>11, <3>1, <3>2, <3>3 DEF Numbered
  <2>14. LineOrder(v, t)'
    BY <2>9, <2>11, <2>12, <2>13 DEF LineOrder
  <2>15. ASSUME NEW m, Precedes(v, m) PROVE Precedes(v, m)'
    <3>1. m < p.id /\ m \in 1 .. numTx /\ StartedAfter(s, m)
      BY <2>4, <2>9, <2>15 DEF Precedes
    <3>2. StartedAfter(t, m)
      BY <2>11, <3>1
    <3>3. m \in 1 .. numTx'
      BY <2>1, <3>1
    <3>4. StartedAfter(Line(v), m)'
      BY <2>7, <3>2 DEF StartedAfter
    <3>5. QED
      BY <2>12, <3>1, <3>3, <3>4 DEF Precedes
  <2>16. ASSUME NEW o \in Outputs PROVE FifoOrder(v, Heads(o))'
    <3>1. PICK hs : hs = Heads(o)
      OBVIOUS
    <3>2. Heads(o)' = hs
      BY <1>2, <3>1 DEF Heads
    <3>3. FifoOrder(v, hs)'
      BY <2>10, <2>15, <3>1 DEF FifoOrder
    <3>4. QED
      BY <3>2, <3>3
  <2>17. OrderAt(v)'
    BY <2>7, <2>14, <2>16 DEF OrderAt
  <2>18. QED
    BY <2>3, <2>17 DEF OrderInv
<1>5. QED
  BY <1>1, <1>3, <1>4, SendEffect

(***************************************************************************)
(* A flit is taken out of its FIFO, and with the last one of a packet the  *)
(* packet moves to an output FIFO.                                         *)
(***************************************************************************)
LEMMA OrderTail ==
  ASSUME NEW S, NEW s \in Seq(S), s # <<>>
  PROVE  /\ Increasing(s) => Increasing(Tail(s))
         /\ Numbered(s) => Numbered(Tail(s))
         /\ \A n : EndedBefore(s, n) => EndedBefore(Tail(s), n)
         /\ \A n : StartedAfter(s, n) => StartedAfter(Tail(s), n)
         /\ Increasing(s) /\ Head(s).tail => StartedAfter(Tail(s), Head(s).id)
<1>1. PICK t \in Seq(S) : t = Tail(s)
  <2>1. Tail(s) \in Seq(S)
    OBVIOUS
  <2>2. QED
    BY <2>1
<1>2. /\ Len(s) \in Nat \ {0} /\ Len(t) = Len(s) - 1 /\ s[1] = Head(s)
      /\ \A k \in 1 .. Len(s) - 1 : t[k] = s[k + 1]
  BY <1>1, HeadTail
<1>3. \A k \in 1 .. Len(t) : k + 1 \in 1 .. Len(s) /\ t[k] = s[k + 1] /\ 1 < k + 1
  BY <1>2
<1>4. Increasing(s) => Increasing(t)
  <2>1. \A i, j \in 1 .. Len(t) : i < j => i + 1 < j + 1
    BY <1>2
  <2>2. QED
    BY <1>3, <2>1 DEF Increasing
<1>5. Numbered(s) => Numbered(t)
  BY <1>3 DEF Numbered
<1>6. \A n : EndedBefore(s, n) => EndedBefore(t, n)
  BY <1>3 DEF EndedBefore
<1>7. \A n : StartedAfter(s, n) => StartedAfter(t, n)
  BY <1>3 DEF StartedAfter
<1>8. Increasing(s) /\ Head(s).tail => StartedAfter(t, Head(s).id)
  <2>1. 1 \in 1 .. Len(s)
    BY <1>2
  <2>2. QED
    BY <1>2, <1>3, <2>1 DEF Increasing, StartedAfter
<1>9. QED
  BY <1>1, <1>4, <1>5, <1>6, <1>7, <1>8

\* The way of a VC after a flit has been taken, but for the output FIFOs.
LEMMA TakeKeepsLineOrder ==
  ASSUME TypeInv, OrderInv, OutputDepacketization, NEW v, NEW f, Takes(v, f), NEW w \in VCs
  PROVE  /\ LineOrder(w, Line(w))'
         /\ \A n : Precedes(w, n) => Precedes(w, n)'
         /\ w = v /\ f.tail => /\ Precedes(w, f.id)'
                               /\ \A n : Precedes(w, n) => n < f.id
<1>1. UNCHANGED <<sending, numTx>>
  BY DEF OutputDepacketization, sourceVars
<1>2. PICK s \in Seq(FlitsOn(w)) : s = Line(w)
  BY LineParts
<1>3. LineOrder(w, s)
  BY <1>2 DEF OrderInv, OrderAt
<1>4. CASE w # v
  <2>1. Line(w)' = s
    BY <1>2, <1>4, LineAtTake
  <2>2. LineOrder(w, s)'
    BY <1>1, <1>3 DEF LineOrder, Numbered
  <2>3. QED
    BY <1>1, <1>2, <1>4, <2>1, <2>2 DEF Precedes
<1>5. CASE w = v
  <2>1. s # <<>> /\ f = Head(s) /\ Line(w)' = Tail(s)
    BY <1>2, <1>5, LineAtTake
  <2>2. PICK t : t = Tail(s)
    OBVIOUS
  <2>3. Increasing(s) /\ Numbered(s)
    BY <1>3 DEF LineOrder
  <2>4. Increasing(t) /\ Numbered(t) /\ (\A n : EndedBefore(s, n) => EndedBefore(t, n))
    BY <2>1, <2>2, <2>3, OrderTail
  <2>5. \A n : StartedAfter(s, n) => StartedAfter(t, n)
    BY <2>1, <2>2, OrderTail
  <2>6. LineOrder(w, t)'
    BY <1>1, <1>3, <2>4 DEF LineOrder, Numbered
  <2>7. ASSUME NEW n, Precedes(w, n) PROVE Precedes(w, n)'
    <3>1. StartedAfter(Line(w), n)'
      BY <1>2, <2>1, <2>2, <2>5, <2>7 DEF Precedes, StartedAfter
    <3>2. QED
      BY <1>1, <2>7, <3>1 DEF Precedes
  <2>8. ASSUME f.tail
        PROVE  Precedes(w, f.id)' /\ \A n : Precedes(w, n) => n < f.id
    <3>1. 1 \in 1 .. Len(s) /\ s[1] = f
      BY <2>1, HeadTail
    <3>2. f.id \in 1 .. numTx
      BY <2>3, <3>1 DEF Numbered
    <3>3. StartedAfter(t, f.id)
      BY <2>1, <2>2, <2>3, <2>8, OrderTail
    <3>4. sending[w] # NoPacket => f.id < sending[w].id
      BY <1>3, <2>8, <3>1 DEF LineOrder, EndedBefore
    <3>5. StartedAfter(Line(w), f.id)'
      BY <2>1, <2>2, <3>3 DEF StartedAfter
    <3>6. Precedes(w, f.id)'
      BY <1>1, <3>2, <3>4, <3>5 DEF Precedes
    <3>7. \A n : Precedes(w, n) => n < f.id
      BY <1>2, <3>1 DEF Precedes, StartedAfter
    <3>8. QED
      BY <3>6, <3>7
  <2>9. LineOrder(w, Line(w))'
    BY <2>1, <2>2, <2>6
  <2>10. QED
    BY <1>5, <2>7, <2>8, <2>9
<1>6. QED
  BY <1>4, <1>5

\* What TakesTail does to the first flits of the packets in an output FIFO.
LEMMA HeadsAtTail ==
  ASSUME TypeInv, PacketInv, OutputInv, OutputDepacketization, NEW v, NEW f, TakesTail(v, f),
         NEW o \in Outputs
  PROVE  IF o = f.tid
         THEN \E h \in Flits : h.id = f.id /\ h.vc = v /\ Heads(o)' = Append(Heads(o), h)
         ELSE Heads(o)' = Heads(o)
<1>1. /\ Takes(v, f) /\ f.tail /\ outFifo' = [outFifo EXCEPT ![f.tid] = Append(@, Append(constructed, f))]
  BY DEF TakesTail
<1>2. /\ f \in Flits /\ f.vc = v /\ constructed \in Seq(Flits)
      /\ IF constructed = <<>> THEN f.head /\ f.seq = 0
         ELSE /\ ~constructed[Len(constructed)].tail
              /\ Follows(constructed[Len(constructed)], f) /\ f.vc = constructed[1].vc
  BY <1>1, TakenFits
<1>3. PICK d \in Seq(Flits) : d = Append(constructed, f)
  <2>1. Append(constructed, f) \in Seq(Flits)
    BY <1>2
  <2>2. QED
    BY <2>1
<1>4. Master!PacketPrefix(d) /\ d[Len(d)] = f /\ d # <<>> /\ d[1].vc = v
  <2>1. Master!PacketPrefix(constructed)
    BY DEF PacketInv, RebuildInv
  <2>2. QED
    BY <1>2, <1>3, <2>1, PrefixAppend
<1>5. d[1] \in Flits /\ d[1].id = f.id
  <2>1. Len(d) \in 1 .. Len(d) /\ 1 \in 1 .. Len(d)
    BY <1>4
  <2>2. QED
    BY <1>4, <2>1 DEF Master!PacketPrefix
<1>6. OutputTypes
  BY DEF TypeInv
<1>7. PICK q \in Seq(Seq(Flits)) : q = outFifo[o]
  BY <1>6 DEF OutputTypes
<1>8. CASE o = f.tid
  <2>1. outFifo'[o] = Append(q, d)
    BY <1>1, <1>3, <1>6, <1>7, <1>8 DEF OutputTypes
  <2>2. PICK r \in Seq(Seq(Flits)) : r = Append(q, d)
    <3>1. Append(q, d) \in Seq(Seq(Flits))
      OBVIOUS
    <3>2. QED
      BY <3>1
  <2>3. /\ Len(r) = Len(q) + 1 /\ Len(q) \in Nat /\ r[Len(q) + 1] = d
        /\ \A k \in 1 .. Len(q) : r[k] = q[k]
    BY <2>2
  <2>4. Heads(o)' = [k \in 1 .. Len(r) |-> r[k][1]]
    BY <2>1, <2>2 DEF Heads
  <2>5. PICK hs \in Seq(Flits) : hs = Heads(o)
    BY <1>6, HeadsType
  <2>6. Len(hs) = Len(q) /\ \A k \in 1 .. Len(q) : hs[k] = q[k][1]
    BY <1>6, <1>7, <2>5, HeadsType
  <2>7. PICK h \in Flits : h = d[1]
    BY <1>5
  <2>8. Append(hs, h) = [k \in 1 .. Len(r) |-> r[k][1]]
    <3>1. PICK t \in Seq(Flits) : t = Append(hs, h)
      <4>1. Append(hs, h) \in Seq(Flits)
        OBVIOUS
      <4>2. QED
        BY <4>1
    <3>2. /\ Len(t) = Len(hs) + 1 /\ t[Len(hs) + 1] = h
          /\ \A k \in 1 .. Len(hs) : t[k] = hs[k]
      BY <3>1
    <3>3. ASSUME NEW k \in 1 .. Len(r) PROVE t[k] = r[k][1]
      <4>1. CASE k = Len(q) + 1
        BY <2>3, <2>6, <2>7, <3>2, <4>1
      <4>2. CASE k # Len(q) + 1
        <5>1. k \in 1 .. Len(q)
          BY <2>3, <4>2
        <5>2. QED
          BY <2>3, <2>6, <3>2, <4>2, <5>1
      <4>3. QED
        BY <4>1, <4>2
    <3>4. t = [k \in 1 .. Len(t) |-> t[k]]
      OBVIOUS
    <3>5. Len(t) = Len(r)
      BY <2>3, <2>6, <3>2
    <3>6. QED
      BY <3>1, <3>3, <3>4, <3>5
  <2>9. QED
    BY <1>4, <1>5, <1>8, <2>4, <2>5, <2>7, <2>8
<1>9. CASE o # f.tid
  <2>1. outFifo'[o] = outFifo[o]
    BY <1>1, <1>6, <1>9 DEF OutputTypes
  <2>2. QED
    BY <1>9, <2>1 DEF Heads
<1>10. QED
  BY <1>8, <1>9

LEMMA TakeKeepsOrder ==
  ASSUME TypeInv, CountInv, PacketInv, OutputInv, OrderInv, OutputDepacketization, NEW v, NEW f,
         TakesTail(v, f) \/ TakesOther(v, f)
  PROVE  OrderInv'
<1>1. Takes(v, f) /\ OutputTypes
  BY DEF TakesTail, TakesOther, TypeInv
<1>2. SUFFICES ASSUME NEW w \in VCs, NEW o \in Outputs PROVE FifoOrder(w, Heads(o))'
  BY <1>1, TakeKeepsLineOrder DEF OrderInv, OrderAt
<1>3. PICK hs \in Seq(Flits) : hs = Heads(o)
  BY <1>1, HeadsType
<1>4. FifoOrder(w, hs)
  BY <1>3 DEF OrderInv, OrderAt
<1>5. \A n : Precedes(w, n) => Precedes(w, n)'
  BY <1>1, TakeKeepsLineOrder
<1>6. FifoOrder(w, hs)'
  BY <1>4, <1>5 DEF FifoOrder
<1>7. CASE TakesOther(v, f)
  <2>1. Heads(o)' = hs
    BY <1>3, <1>7 DEF TakesOther, Heads
  <2>2. QED
    BY <1>6, <2>1
<1>8. CASE TakesTail(v, f)
  <2>1. CASE o # f.tid
    <3>1. Heads(o)' = hs
      BY <1>3, <1>8, <2>1, HeadsAtTail
    <3>2. QED
      BY <1>6, <3>1
  <2>2. CASE o = f.tid
    <3>1. PICK h \in Flits : h.id = f.id /\ h.vc = v /\ Heads(o)' = Append(hs, h)
      BY <1>3, <1>8, <2>2, HeadsAtTail
    <3>2. PICK t \in Seq(Flits) : t = Append(hs, h)
      <4>1. Append(hs, h) \in Seq(Flits)
        OBVIOUS
      <4>2. QED
        BY <4>1
    <3>3. /\ Len(hs) \in Nat /\ Len(t) = Len(hs) + 1 /\ t[Len(hs) + 1] = h
          /\ \A k \in 1 .. Len(hs) : t[k] = hs[k]
      BY <3>2
    <3>4. \A k \in 1 .. Len(t) : k \in 1 .. Len(hs) \/ k = Len(hs) + 1
      BY <3>3
    <3>5. f.tail
      BY <1>8 DEF TakesTail
    <3>6. w = v => Precedes(w, h.id)' /\ \A n : Precedes(w, n) => n < h.id
      BY <1>1, <3>1, <3>5, TakeKeepsLineOrder
    <3>7. ASSUME NEW k \in 1 .. Len(t), t[k].vc = w PROVE Precedes(w, t[k].id)'
      <4>1. CASE k \in 1 .. Len(hs)
        BY <1>6, <3>3, <3>7, <4>1 DEF FifoOrder
      <4>2. CASE k = Len(hs) + 1
        BY <3>1, <3>3, <3>6, <3>7, <4>2
      <4>3. QED
        BY <3>4, <4>1, <4>2
    <3>8. ASSUME NEW k \in 1 .. Len(t), NEW l \in 1 .. Len(t), k < l, t[k].vc = w, t[l].vc = w
          PROVE  t[k].id < t[l].id
      <4>1. k \in 1 .. Len(hs) /\ t[k] = hs[k]
        BY <3>3, <3>4, <3>8
      <4>2. CASE l \in 1 .. Len(hs)
        BY <1>4, <3>3, <3>8, <4>1, <4>2 DEF FifoOrder
      <4>3. CASE l = Len(hs) + 1
        BY <1>4, <3>1, <3>3, <3>6, <3>8, <4>1, <4>3 DEF FifoOrder
      <4>4. QED
        BY <3>4, <4>2, <4>3
    <3>9. FifoOrder(w, t)'
      BY <3>7, <3>8 DEF FifoOrder
    <3>10. QED
      BY <3>1, <3>2, <3>9
  <2>3. QED
    BY <2>1, <2>2
<1>9. QED
  BY <1>7, <1>8

(***************************************************************************)
(* A packet is delivered.                                                  *)
(***************************************************************************)
Delivers(o) == Master!Transfer(o) /\ Master!LastChunk(o)

LEMMA HeadsAtPort ==
  ASSUME TypeInv, OutputInv, OutputInterface, NEW o \in Outputs
  PROVE  IF Delivers(o)
         THEN /\ Heads(o) # <<>> /\ out[o][1] = Heads(o)[1]
              /\ Heads(o)' = Tail(Heads(o))
         ELSE Heads(o)' = Heads(o)
<1>1. OutputTypes /\ Heads(o) \in Seq(Flits) /\ Len(Heads(o)) = Len(outFifo[o])
  BY HeadsType DEF TypeInv
<1>2. PICK q \in Seq(Seq(Flits)) : q = outFifo[o]
  BY <1>1 DEF OutputTypes
<1>3. outFifo'[o] = Master!Popped(o)
  BY Constants DEF OutputInterface, Master!OutputInterface
<1>4. CASE ~Delivers(o)
  <2>1. outFifo'[o] = outFifo[o]
    BY <1>3, <1>4 DEF Master!Popped, Delivers
  <2>2. QED
    BY <1>4, <2>1 DEF Heads
<1>5. CASE Delivers(o)
  <2>1. out[o] # <<>> /\ outFifo'[o] = Tail(q)
    BY <1>2, <1>3, <1>5 DEF Master!Popped, Master!Transfer, Delivers
  <2>2. q # <<>> /\ out[o] = q[1]
    BY <1>2, <2>1 DEF OutputInv
  <2>3. PICK r \in Seq(Seq(Flits)) : r = Tail(q)
    <3>1. Tail(q) \in Seq(Seq(Flits))
      BY <2>2
    <3>2. QED
      BY <3>1
  <2>4. /\ Len(q) \in Nat \ {0} /\ Len(r) = Len(q) - 1
        /\ \A k \in 1 .. Len(q) - 1 : r[k] = q[k + 1]
    BY <2>2, <2>3, HeadTail
  <2>5. Heads(o)' = [k \in 1 .. Len(r) |-> r[k][1]]
    BY <2>1, <2>3 DEF Heads
  <2>6. PICK hs \in Seq(Flits) : hs = Heads(o)
    BY <1>1
  <2>7. Len(hs) = Len(q) /\ \A k \in 1 .. Len(q) : hs[k] = q[k][1]
    BY <1>1, <1>2, <2>6, HeadsType
  <2>8. hs # <<>> /\ out[o][1] = hs[1]
    BY <2>2, <2>4, <2>7
  <2>9. PICK t \in Seq(Flits) : t = Tail(hs)
    <3>1. Tail(hs) \in Seq(Flits)
      BY <2>8
    <3>2. QED
      BY <3>1
  <2>10. Len(t) = Len(hs) - 1 /\ \A k \in 1 .. Len(hs) - 1 : t[k] = hs[k + 1]
    BY <2>8, <2>9, HeadTail
  <2>11. ASSUME NEW k \in 1 .. Len(r) PROVE t[k] = r[k][1]
    <3>1. k \in 1 .. Len(q) - 1 /\ k + 1 \in 1 .. Len(q) /\ k \in 1 .. Len(hs) - 1
      BY <2>4, <2>7
    <3>2. r[k] = q[k + 1] /\ t[k] = hs[k + 1] /\ hs[k + 1] = q[k + 1][1]
      BY <2>4, <2>7, <2>10, <3>1
    <3>3. QED
      BY <3>2, Zenon
  <2>12. t = [k \in 1 .. Len(t) |-> t[k]]
    OBVIOUS
  <2>13. Len(t) = Len(r)
    BY <2>4, <2>7, <2>10
  <2>14. t = [k \in 1 .. Len(r) |-> r[k][1]]
    BY <2>11, <2>12, <2>13
  <2>15. QED
    BY <1>5, <2>5, <2>6, <2>8, <2>9, <2>14
<1>6. QED
  BY <1>4, <1>5

LEMMA PortKeepsOrder ==
  ASSUME TypeInv, OutputInv, OrderInv, OutputInterface
  PROVE  OrderInv'
<1>1. /\ UNCHANGED <<eject, inject, rbuf, ejFifo, sending, numTx>>
      /\ Unread' <=> Unread
      /\ OutputTypes
  BY UnreadKept DEF OutputInterface, Master!OutputInterface, sourceVars, TypeInv
<1>2. \A w \in VCs : Line(w)' = Line(w)
  BY <1>1, LineKept
<1>3. ASSUME NEW w \in VCs PROVE LineOrder(w, Line(w))'
  <2>1. PICK s : s = Line(w)
    OBVIOUS
  <2>2. LineOrder(w, s)
    BY <2>1 DEF OrderInv, OrderAt
  <2>3. LineOrder(w, s)'
    BY <1>1, <2>2 DEF LineOrder, Numbered
  <2>4. QED
    BY <1>2, <2>1, <2>3
<1>4. ASSUME NEW w \in VCs, NEW o \in Outputs PROVE FifoOrder(w, Heads(o))'
  <2>1. PICK hs \in Seq(Flits) : hs = Heads(o)
    BY <1>1, HeadsType
  <2>2. FifoOrder(w, hs)
    BY <2>1 DEF OrderInv, OrderAt
  <2>3. \A n : Precedes(w, n) => Precedes(w, n)'
    BY <1>1, <1>2 DEF Precedes
  <2>4. FifoOrder(w, hs)'
    BY <2>2, <2>3 DEF FifoOrder
  <2>5. CASE ~Delivers(o)
    BY <2>1, <2>4, <2>5, HeadsAtPort
  <2>6. CASE Delivers(o)
    <3>1. hs # <<>> /\ Heads(o)' = Tail(hs)
      BY <2>1, <2>6, HeadsAtPort
    <3>2. PICK t : t = Tail(hs)
      OBVIOUS
    <3>3. /\ Len(hs) \in Nat \ {0} /\ Len(t) = Len(hs) - 1
          /\ \A k \in 1 .. Len(hs) - 1 : t[k] = hs[k + 1]
      BY <3>1, <3>2, HeadTail
    <3>4. \A k \in 1 .. Len(t) : k + 1 \in 1 .. Len(hs) /\ t[k] = hs[k + 1]
      BY <3>3
    <3>5. ASSUME NEW k \in 1 .. Len(t), t[k].vc = w PROVE Precedes(w, t[k].id)'
      BY <2>4, <3>4, <3>5 DEF FifoOrder
    <3>6. ASSUME NEW k \in 1 .. Len(t), NEW l \in 1 .. Len(t), k < l, t[k].vc = w, t[l].vc = w
          PROVE  t[k].id < t[l].id
      <4>1. k + 1 < l + 1
        BY <3>3, <3>6
      <4>2. QED
        BY <2>2, <3>4, <3>6, <4>1 DEF FifoOrder
    <3>7. FifoOrder(w, t)'
      BY <3>5, <3>6 DEF FifoOrder
    <3>8. QED
      BY <3>1, <3>2, <3>7
  <2>7. QED
    BY <2>5, <2>6
<1>5. QED
  BY <1>3, <1>4 DEF OrderInv, OrderAt

LEMMA OrderNext ==
  FifosSuffice /\ EgressInv /\ OrderInv /\ [Next]_vars => OrderInv'
<1> SUFFICES ASSUME FifosSuffice, EgressInv, OrderInv, [Next]_vars PROVE OrderInv'
  OBVIOUS
<1>1. /\ TypeInv /\ SlotInv /\ CountInv /\ InjectInv /\ PacketInv /\ OutputInv
      /\ KernelInv /\ numTx \in Nat
  BY DEF EgressInv, TypeInv, SenderTypes
<1>2. ASSUME UNCHANGED <<outFifo, sending, numTx>>, \A w \in VCs : Line(w)' = Line(w)
      PROVE  OrderInv'
  BY <1>1, <1>2, OrderKept DEF OrderInv
<1>3. ASSUME UNCHANGED <<eject, inject, rbuf, ejFifo, outFifo, sending, numTx>>, Unread' <=> Unread
      PROVE  OrderInv'
  BY <1>2, <1>3, LineKept
<1>4. ASSUME NEW S \in SUBSET Clocks, ClockEdge(S) PROVE OrderInv'
  BY <1>1, <1>3, <1>4, UnreadKept DEF ClockEdge, nocVars, masterVars, sourceVars
<1>5. CASE Settle
  BY <1>1, <1>3, <1>5, UnreadKept DEF Settle, nocVars, sourceVars
<1>6. CASE Send
  BY <1>1, <1>6, SendKeepsOrder
<1>7. CASE Tick
  BY <1>1, <1>2, <1>7, LineAtTick DEF Tick, masterVars, sourceVars
<1>8. CASE OutputEjection
  BY <1>1, <1>2, <1>8, LineAtEjection DEF OutputEjection, Master!OutputEjection, sourceVars
<1>9. CASE OutputDepacketization
  <2>1. CASE TakesNone
    BY <1>1, <1>3, <1>9, <2>1, UnreadKept
       DEF OutputDepacketization, Master!OutputDepacketization, TakesNone, sourceVars
  <2>2. QED
    BY <1>1, <1>9, <2>1, TakeKeepsOrder, DepacketizationEffect DEF TypeInv
<1>10. CASE OutputInterface
  BY <1>1, <1>10, PortKeepsOrder
<1>11. CASE UNCHANGED vars
  BY <1>3, <1>11 DEF vars, kernelVars, nocVars, masterVars, sourceVars, Unread
<1>12. QED
  BY <1>4, <1>5, <1>6, <1>7, <1>8, <1>9, <1>10, <1>11 DEF Next

LEMMA OrderCorrect == FifosSuffice /\ Spec => [](EgressInv /\ OrderInv)
<1>1. FifosSuffice /\ EgressInv /\ OrderInv /\ [Next]_vars => OrderInv'
  BY OrderNext
<1>2. FifosSuffice => FifosSuffice'
  BY DEF FifosSuffice
<1>3. QED
  BY <1>1, <1>2, OrderInit, EgressCorrect, PTL DEF Spec

(***************************************************************************)
(* The packets of a flow that are still on their way.                      *)
(***************************************************************************)
InFifo(v, hs, n) == \E k \in 1 .. Len(hs) : hs[k].vc = v /\ hs[k].id = n

OnLine(s, o, n) == \E i \in 1 .. Len(s) : s[i].tail /\ s[i].tid = o /\ s[i].id = n

AtSender(v, o, n) == sending[v] # NoPacket /\ sending[v].tid = o /\ sending[v].id = n

OnItsWay(v, o, n) == InFifo(v, Heads(o), n) \/ OnLine(Line(v), o, n) \/ AtSender(v, o, n)

UndeliveredIs ==
  \A v \in VCs, o \in Outputs : \A n : n \in Undelivered(v, o) <=> OnItsWay(v, o, n)

LEMMA RangeConcat ==
  ASSUME NEW S, NEW a \in Seq(S), NEW b \in Seq(S)
  PROVE  Range(a \o b) = Range(a) \cup Range(b)
<1>1. PICK c \in Seq(S) : c = a \o b
  <2>1. a \o b \in Seq(S)
    OBVIOUS
  <2>2. QED
    BY <2>1
<1>2. /\ Len(a) \in Nat /\ Len(b) \in Nat /\ Len(c) = Len(a) + Len(b)
      /\ \A i \in 1 .. Len(a) : c[i] = a[i]
      /\ \A i \in 1 .. Len(b) : c[Len(a) + i] = b[i]
  BY <1>1
<1>3. /\ DOMAIN a = 1 .. Len(a) /\ DOMAIN b = 1 .. Len(b) /\ DOMAIN c = 1 .. Len(c)
  OBVIOUS
<1>4. ASSUME NEW i \in 1 .. Len(c) PROVE c[i] \in Range(a) \cup Range(b)
  <2>1. CASE i \in 1 .. Len(a)
    BY <1>2, <1>3, <2>1 DEF Range
  <2>2. CASE i \notin 1 .. Len(a)
    <3>1. i - Len(a) \in 1 .. Len(b) /\ Len(a) + (i - Len(a)) = i
      BY <1>2, <2>2
    <3>2. c[i] = b[i - Len(a)]
      BY <1>2, <3>1
    <3>3. QED
      BY <1>3, <3>1, <3>2 DEF Range
  <2>3. QED
    BY <2>1, <2>2
<1>5. ASSUME NEW i \in 1 .. Len(a) PROVE a[i] \in Range(c)
  <2>1. i \in 1 .. Len(c)
    BY <1>2
  <2>2. QED
    BY <1>2, <1>3, <2>1 DEF Range
<1>6. ASSUME NEW i \in 1 .. Len(b) PROVE b[i] \in Range(c)
  <2>1. Len(a) + i \in 1 .. Len(c)
    BY <1>2
  <2>2. QED
    BY <1>2, <1>3, <2>1 DEF Range
<1>7. Range(c) \subseteq Range(a) \cup Range(b)
  BY <1>3, <1>4 DEF Range
<1>8. Range(a) \subseteq Range(c)
  BY <1>3, <1>5 DEF Range
<1>9. Range(b) \subseteq Range(c)
  BY <1>3, <1>6 DEF Range
<1>10. QED
  BY <1>1, <1>7, <1>8, <1>9

\* The flits in transit are those on the way of their VC.
LEMMA InTransitIsLine ==
  ASSUME TypeInv, SlotInv, NEW v \in VCs
  PROVE  InTransit(v) = Range(Line(v))
<1>1. PICK e \in Seq(FlitsOn(v)) : e = ejFifo[v]
  BY LineParts
<1>2. PICK n \in Seq(FlitsOn(v)) : n = Now(v)
  BY LineParts
<1>3. PICK r \in Seq(FlitsOn(v)) : r = rbuf[v]
  BY LineParts
<1>4. PICK l \in Seq(FlitsOn(v)) : l = Last(v)
  BY LineParts
<1>5. Range(Line(v)) = (Range(e) \cup Range(n)) \cup (Range(r) \cup Range(l))
  <2>1. PICK en \in Seq(FlitsOn(v)) : en = e \o n
    <3>1. e \o n \in Seq(FlitsOn(v))
      OBVIOUS
    <3>2. QED
      BY <3>1
  <2>2. PICK rl \in Seq(FlitsOn(v)) : rl = r \o l
    <3>1. r \o l \in Seq(FlitsOn(v))
      OBVIOUS
    <3>2. QED
      BY <3>1
  <2>3. Range(en) = Range(e) \cup Range(n) /\ Range(rl) = Range(r) \cup Range(l)
    BY <2>1, <2>2, RangeConcat
  <2>4. Range(en \o rl) = Range(en) \cup Range(rl)
    BY RangeConcat
  <2>5. Line(v) = en \o rl
    BY <1>1, <1>2, <1>3, <1>4, <2>1, <2>2 DEF Line
  <2>6. QED
    BY <2>3, <2>4, <2>5
<1>6. \A s \in Seq(FlitsOn(v)) : Range(s) \subseteq FlitsOn(v)
  BY DEF Range
<1>7. Range(n) = {f \in (IF Unread THEN {eject} ELSE {}) : f # NoFlit /\ f.vc = v}
  <2>1. CASE Unread /\ eject # NoFlit /\ eject.vc = v
    <3>1. n = <<eject>>
      BY <1>2, <2>1 DEF Now
    <3>2. DOMAIN <<eject>> = {1} /\ <<eject>>[1] = eject
      OBVIOUS
    <3>3. Range(n) = {eject}
      BY <3>1, <3>2 DEF Range
    <3>4. QED
      BY <2>1, <3>3
  <2>2. CASE ~(Unread /\ eject # NoFlit /\ eject.vc = v)
    <3>1. n = <<>>
      BY <1>2, <2>2 DEF Now
    <3>2. DOMAIN <<>> = {}
      OBVIOUS
    <3>3. Range(n) = {}
      BY <3>1, <3>2 DEF Range
    <3>4. QED
      BY <2>2, <3>3
  <2>3. QED
    BY <2>1, <2>2
<1>8. Range(l) = {f \in {inject} : f # NoFlit /\ f.vc = v}
  <2>1. CASE inject # NoFlit /\ inject.vc = v
    <3>1. l = <<inject>>
      BY <1>4, <2>1 DEF Last
    <3>2. DOMAIN <<inject>> = {1} /\ <<inject>>[1] = inject
      OBVIOUS
    <3>3. Range(l) = {inject}
      BY <3>1, <3>2 DEF Range
    <3>4. QED
      BY <2>1, <3>3
  <2>2. CASE ~(inject # NoFlit /\ inject.vc = v)
    <3>1. l = <<>>
      BY <1>4, <2>2 DEF Last
    <3>2. DOMAIN <<>> = {}
      OBVIOUS
    <3>3. Range(l) = {}
      BY <3>1, <3>2 DEF Range
    <3>4. QED
      BY <2>2, <3>3
  <2>3. QED
    BY <2>1, <2>2
<1>9. /\ {f \in Range(e) : f # NoFlit /\ f.vc = v} = Range(e)
      /\ {f \in Range(r) : f # NoFlit /\ f.vc = v} = Range(r)
  BY <1>6, FlitsOnType
<1>10. ejectReg = NoFlit
  BY DEF SlotInv
<1>11. InTransit(v) = (Range(e) \cup Range(n)) \cup (Range(r) \cup Range(l))
  <2>1. InTransit(v) =
          {f \in Range(e) : f # NoFlit /\ f.vc = v}
            \cup {f \in (IF Unread THEN {eject} ELSE {}) : f # NoFlit /\ f.vc = v}
            \cup {f \in Range(r) : f # NoFlit /\ f.vc = v}
            \cup {f \in {inject} : f # NoFlit /\ f.vc = v}
    BY <1>1, <1>3, <1>10 DEF InTransit
  <2>2. QED
    BY <1>7, <1>8, <1>9, <2>1
<1>12. QED
  BY <1>5, <1>11

LEMMA UndeliveredHere == TypeInv /\ SlotInv /\ OutputInv => UndeliveredIs
<1> SUFFICES ASSUME TypeInv, SlotInv, OutputInv, NEW v \in VCs, NEW o \in Outputs, NEW n
             PROVE  n \in Undelivered(v, o) <=> OnItsWay(v, o, n)
  BY DEF UndeliveredIs
<1>1. OutputTypes
  BY DEF TypeInv
<1>2. n \in {p[1].id : p \in {q \in Range(outFifo[o]) : q[1].vc = v}} <=> InFifo(v, Heads(o), n)
  <2>1. PICK q \in Seq(Seq(Flits)) : q = outFifo[o]
    BY <1>1 DEF OutputTypes
  <2>2. PICK hs : hs = Heads(o)
    OBVIOUS
  <2>3. /\ DOMAIN q = 1 .. Len(q) /\ Len(hs) = Len(q)
        /\ \A k \in 1 .. Len(q) : hs[k] = q[k][1]
    BY <1>1, <2>1, <2>2, HeadsType
  <2>4. n \in {p[1].id : p \in {s \in Range(q) : s[1].vc = v}}
          <=> \E k \in 1 .. Len(q) : q[k][1].vc = v /\ q[k][1].id = n
    BY <2>3 DEF Range
  <2>5. QED
    BY <2>1, <2>2, <2>3, <2>4 DEF InFifo
<1>3. n \in {f.id : f \in {g \in InTransit(v) : g.tail /\ g.tid = o}} <=> OnLine(Line(v), o, n)
  <2>1. PICK s \in Seq(FlitsOn(v)) : s = Line(v)
    BY LineParts
  <2>2. DOMAIN s = 1 .. Len(s)
    OBVIOUS
  <2>3. InTransit(v) = Range(s)
    BY <2>1, InTransitIsLine
  <2>4. n \in {f.id : f \in {g \in Range(s) : g.tail /\ g.tid = o}} <=> OnLine(s, o, n)
    BY <2>2 DEF Range, OnLine
  <2>5. QED
    BY <2>1, <2>3, <2>4
<1>4. n \in {p.id : p \in {q \in {sending[v]} : q # NoPacket /\ q.tid = o}} <=> AtSender(v, o, n)
  BY DEF AtSender
<1>5. QED
  BY <1>2, <1>3, <1>4 DEF Undelivered, OnItsWay

LEMMA UndeliveredNext == (TypeInv /\ SlotInv /\ OutputInv => UndeliveredIs)'
BY UndeliveredHere, PTL

(***************************************************************************)
(* The steps of the channel.                                               *)
(***************************************************************************)
\* The state of the channel: its queues and what it has delivered.
Queue == [f \in Flows |-> Undelivered(f[1], f[2])]

Delivered == [f \in Flows |-> received[f[1]][f[2]]]

\* A packet on its way has a number that was given.
LEMMA UndeliveredNumbered ==
  ASSUME EgressInv, OrderInv, NEW v \in VCs, NEW o \in Outputs, NEW n \in Undelivered(v, o)
  PROVE  n \in 1 .. numTx
<1>1. OnItsWay(v, o, n)
  BY UndeliveredHere DEF EgressInv, UndeliveredIs
<1>2. LineOrder(v, Line(v)) /\ FifoOrder(v, Heads(o))
  BY DEF OrderInv, OrderAt
<1>3. QED
  BY <1>1, <1>2
  DEF OnItsWay, InFifo, OnLine, AtSender, LineOrder, Numbered, FifoOrder, Precedes

LEMMA FlowParts ==
  ASSUME NEW f \in Flows
  PROVE  f[1] \in VCs /\ f[2] \in Outputs /\ f = <<f[1], f[2]>>
BY DEF Flows

LEMMA QueueKept ==
  ASSUME EgressInv, EgressInv', NEW v \in VCs, NEW o \in Outputs,
         \A n : OnItsWay(v, o, n)' <=> OnItsWay(v, o, n)
  PROVE  Undelivered(v, o)' = Undelivered(v, o)
<1>1. \A n : n \in Undelivered(v, o) <=> OnItsWay(v, o, n)
  BY UndeliveredHere DEF EgressInv, UndeliveredIs
<1>2. \A n : n \in Undelivered(v, o)' <=> OnItsWay(v, o, n)'
  BY UndeliveredNext DEF EgressInv, UndeliveredIs
<1>3. \A n : n \in Undelivered(v, o)' <=> n \in Undelivered(v, o)
  BY <1>1, <1>2
<1>4. PICK U : U = Undelivered(v, o)
  OBVIOUS
<1>5. PICK V : V = Undelivered(v, o)'
  OBVIOUS
<1>6. U = V
  <2>1. U = {n \in U : TRUE} /\ V = {n \in V : TRUE}
    BY <1>4, <1>5 DEF Undelivered
  <2>2. QED
    BY <1>3, <1>4, <1>5, <2>1
<1>7. QED
  BY <1>4, <1>5, <1>6

LEMMA StutterStep ==
  ASSUME UNCHANGED <<numTx, received>>,
         \A v \in VCs, o \in Outputs : Undelivered(v, o)' = Undelivered(v, o)
  PROVE  UNCHANGED Channel!vars
<1>1. Queue' = Queue
  BY FlowParts DEF Queue
<1>2. Delivered' = Delivered
  BY DEF Delivered
<1>3. QED
  BY <1>1, <1>2 DEF Channel!vars, Queue, Delivered

LEMMA OnLineAppend ==
  ASSUME NEW S, NEW s \in Seq(S), NEW f \in S, NEW o, NEW n
  PROVE  OnLine(Append(s, f), o, n) <=> OnLine(s, o, n) \/ (f.tail /\ f.tid = o /\ f.id = n)
<1>1. PICK t \in Seq(S) : t = Append(s, f)
  <2>1. Append(s, f) \in Seq(S)
    OBVIOUS
  <2>2. QED
    BY <2>1
<1>2. /\ Len(s) \in Nat /\ Len(t) = Len(s) + 1 /\ t[Len(s) + 1] = f
      /\ \A i \in 1 .. Len(s) : i \in 1 .. Len(t) /\ t[i] = s[i]
  BY <1>1
<1>3. \A i \in 1 .. Len(t) : i \in 1 .. Len(s) \/ i = Len(s) + 1
  BY <1>2
<1>4. Len(s) + 1 \in 1 .. Len(t)
  BY <1>2
<1>5. QED
  BY <1>1, <1>2, <1>3, <1>4 DEF OnLine

LEMMA OnLineTail ==
  ASSUME NEW S, NEW s \in Seq(S), s # <<>>, NEW o, NEW n
  PROVE  OnLine(s, o, n)
           <=> OnLine(Tail(s), o, n) \/ (Head(s).tail /\ Head(s).tid = o /\ Head(s).id = n)
<1>1. PICK t : t = Tail(s)
  OBVIOUS
<1>2. /\ Len(s) \in Nat \ {0} /\ Len(t) = Len(s) - 1 /\ s[1] = Head(s)
      /\ \A k \in 1 .. Len(s) - 1 : t[k] = s[k + 1]
  BY <1>1, HeadTail
<1>3. \A k \in 1 .. Len(t) : k + 1 \in 1 .. Len(s) /\ t[k] = s[k + 1]
  BY <1>2
<1>4. ASSUME NEW i \in 1 .. Len(s), i # 1 PROVE i - 1 \in 1 .. Len(t) /\ t[i - 1] = s[i]
  <2>1. i - 1 \in 1 .. Len(t) /\ (i - 1) + 1 = i
    BY <1>2, <1>4
  <2>2. QED
    BY <1>3, <2>1
<1>5. 1 \in 1 .. Len(s)
  BY <1>2
<1>6. QED
  BY <1>1, <1>2, <1>3, <1>4, <1>5 DEF OnLine

LEMMA InFifoAppend ==
  ASSUME NEW S, NEW hs \in Seq(S), NEW h \in S, NEW v, NEW n
  PROVE  InFifo(v, Append(hs, h), n) <=> InFifo(v, hs, n) \/ (h.vc = v /\ h.id = n)
<1>1. PICK t \in Seq(S) : t = Append(hs, h)
  <2>1. Append(hs, h) \in Seq(S)
    OBVIOUS
  <2>2. QED
    BY <2>1
<1>2. /\ Len(hs) \in Nat /\ Len(t) = Len(hs) + 1 /\ t[Len(hs) + 1] = h
      /\ \A i \in 1 .. Len(hs) : i \in 1 .. Len(t) /\ t[i] = hs[i]
  BY <1>1
<1>3. \A i \in 1 .. Len(t) : i \in 1 .. Len(hs) \/ i = Len(hs) + 1
  BY <1>2
<1>4. Len(hs) + 1 \in 1 .. Len(t)
  BY <1>2
<1>5. QED
  BY <1>1, <1>2, <1>3, <1>4 DEF InFifo

LEMMA InFifoTail ==
  ASSUME NEW S, NEW hs \in Seq(S), hs # <<>>, NEW v, NEW n
  PROVE  InFifo(v, hs, n) <=> InFifo(v, Tail(hs), n) \/ (hs[1].vc = v /\ hs[1].id = n)
<1>1. PICK t : t = Tail(hs)
  OBVIOUS
<1>2. /\ Len(hs) \in Nat \ {0} /\ Len(t) = Len(hs) - 1
      /\ \A k \in 1 .. Len(hs) - 1 : t[k] = hs[k + 1]
  BY <1>1, HeadTail
<1>3. \A k \in 1 .. Len(t) : k + 1 \in 1 .. Len(hs) /\ t[k] = hs[k + 1]
  BY <1>2
<1>4. ASSUME NEW i \in 1 .. Len(hs), i # 1 PROVE i - 1 \in 1 .. Len(t) /\ t[i - 1] = hs[i]
  <2>1. i - 1 \in 1 .. Len(t) /\ (i - 1) + 1 = i
    BY <1>2, <1>4
  <2>2. QED
    BY <1>3, <2>1
<1>5. 1 \in 1 .. Len(hs)
  BY <1>2
<1>6. QED
  BY <1>1, <1>2, <1>3, <1>4, <1>5 DEF InFifo

LEMMA TakeStep ==
  ASSUME EgressInv, EgressInv', OutputDepacketization, NEW v, NEW f,
         TakesTail(v, f) \/ TakesOther(v, f)
  PROVE  UNCHANGED Channel!vars
<1>1. /\ TypeInv /\ PacketInv /\ OutputInv /\ OutputTypes /\ Takes(v, f)
      /\ UNCHANGED <<numTx, sending, received>>
  BY DEF EgressInv, TypeInv, TakesTail, TakesOther, OutputDepacketization,
         Master!OutputDepacketization, sourceVars
<1>2. SUFFICES ASSUME NEW w \in VCs, NEW o \in Outputs, NEW n
               PROVE  OnItsWay(w, o, n)' <=> OnItsWay(w, o, n)
  BY <1>1, QueueKept, StutterStep
<1>3. PICK s \in Seq(FlitsOn(w)) : s = Line(w)
  BY <1>1, LineParts
<1>4. PICK hs \in Seq(Flits) : hs = Heads(o)
  BY <1>1, HeadsType
<1>5. AtSender(w, o, n)' <=> AtSender(w, o, n)
  BY <1>1 DEF AtSender
<1>6. IF w = v THEN OnLine(s, o, n) <=> OnLine(Line(w)', o, n)
                                        \/ (f.tail /\ f.tid = o /\ f.id = n)
               ELSE Line(w)' = s
  <2>1. IF w = v THEN s # <<>> /\ f = Head(s) /\ Line(w)' = Tail(s) ELSE Line(w)' = s
    BY <1>1, <1>3, LineAtTake
  <2>2. s # <<>> => (OnLine(s, o, n) <=> OnLine(Tail(s), o, n)
                                         \/ (Head(s).tail /\ Head(s).tid = o /\ Head(s).id = n))
    BY OnLineTail
  <2>3. CASE w = v
    <3>1. PICK t : t = Line(w)'
      OBVIOUS
    <3>2. s # <<>> /\ Head(s) = f /\ Tail(s) = t
      BY <2>1, <2>3, <3>1
    <3>3. QED
      BY <2>2, <2>3, <3>1, <3>2
  <2>4. QED
    BY <2>1, <2>3
<1>7. OnLine(Line(w), o, n)' <=> OnLine(Line(w)', o, n)
  BY DEF OnLine
<1>8. InFifo(w, Heads(o), n)' <=> InFifo(w, Heads(o)', n)
  BY DEF InFifo
<1>9. CASE TakesOther(v, f)
  <2>1. ~f.tail /\ Heads(o)' = hs
    BY <1>4, <1>9 DEF TakesOther, Heads
  <2>2. QED
    BY <1>3, <1>4, <1>5, <1>6, <1>7, <1>8, <2>1 DEF OnItsWay
<1>10. CASE TakesTail(v, f)
  <2>1. f.tail
    BY <1>10 DEF TakesTail
  <2>2. CASE o # f.tid
    <3>1. Heads(o)' = hs
      BY <1>1, <1>4, <1>10, <2>2, HeadsAtTail
    <3>2. QED
      BY <1>3, <1>4, <1>5, <1>6, <1>7, <1>8, <2>2, <3>1 DEF OnItsWay
  <2>3. CASE o = f.tid
    <3>1. PICK h \in Flits : h.id = f.id /\ h.vc = v /\ Heads(o)' = Append(hs, h)
      BY <1>1, <1>4, <1>10, <2>3, HeadsAtTail
    <3>2. InFifo(w, Heads(o)', n) <=> InFifo(w, hs, n) \/ (v = w /\ f.id = n)
      BY <3>1, InFifoAppend
    <3>3. QED
      BY <1>3, <1>4, <1>5, <1>6, <1>7, <1>8, <2>1, <2>3, <3>2 DEF OnItsWay
  <2>4. QED
    BY <2>2, <2>3
<1>11. QED
  BY <1>9, <1>10

\* A flit is sent, of the packet that is being sent or of a new one.
LEMMA SentIsOnItsWay ==
  ASSUME EgressInv, Send, NEW v, NEW p, Sends(v, p), NEW w \in VCs, NEW o \in Outputs, NEW n
  PROVE  OnItsWay(w, o, n)' <=> OnItsWay(w, o, n) \/ (w = v /\ p.tid = o /\ p.id = n)
<1>1. /\ TypeInv /\ InjectInv /\ SenderTypes /\ inject = NoFlit
      /\ UNCHANGED outFifo
  BY InjectIsFree DEF EgressInv, TypeInv, Send, masterVars
<1>2. /\ v \in VCs /\ p \in Packets /\ inject' \in FlitsOn(v)
      /\ sending[v] = p \/ sending[v] = NoPacket
  BY DEF Sends
<1>3. PICK last \in BOOLEAN : /\ inject' = FlitOf(p, v, last)
                             /\ sending' = [sending EXCEPT ![v] = Remains(p, last)]
  BY DEF Sends
<1>4. PICK f \in FlitsOn(v) : f = inject'
  BY <1>2
<1>5. f.id = p.id /\ f.tid = p.tid /\ f.tail = last
  BY <1>3, <1>4 DEF FlitOf
<1>6. PICK s \in Seq(FlitsOn(w)) : s = Line(w)
  BY <1>1, LineParts
<1>7. Line(w)' = IF w = v THEN Append(s, f) ELSE s
  BY <1>1, <1>4, <1>6, LineAtSend
<1>8. OnLine(Line(w), o, n)' <=> OnLine(s, o, n) \/ (w = v /\ last /\ p.tid = o /\ p.id = n)
  <2>1. OnLine(Line(w), o, n)' <=> OnLine(Line(w)', o, n)
    BY DEF OnLine
  <2>2. CASE w = v
    <3>1. OnLine(Append(s, f), o, n) <=> OnLine(s, o, n) \/ (f.tail /\ f.tid = o /\ f.id = n)
      BY <2>2, OnLineAppend
    <3>2. PICK t : t = Append(s, f)
      OBVIOUS
    <3>3. Line(w)' = t
      BY <1>7, <2>2, <3>2
    <3>4. QED
      BY <1>5, <2>1, <2>2, <3>1, <3>2, <3>3
  <2>3. CASE w # v
    BY <1>7, <2>1, <2>3
  <2>4. QED
    BY <2>2, <2>3
<1>9. InFifo(w, Heads(o), n)' <=> InFifo(w, Heads(o), n)
  BY <1>1 DEF InFifo, Heads
<1>10. AtSender(w, o, n)' <=> IF w = v THEN ~last /\ p.tid = o /\ p.id = n ELSE AtSender(w, o, n)
  <2>1. CASE w = v
    <3>1. sending'[w] = Remains(p, last)
      BY <1>1, <1>2, <1>3, <2>1 DEF SenderTypes
    <3>2. CASE last
      BY <2>1, <3>1, <3>2 DEF Remains, AtSender
    <3>3. CASE ~last
      <4>1. sending'[w] = [p EXCEPT !.next = @ + 1]
        BY <3>1, <3>3 DEF Remains
      <4>2. [p EXCEPT !.next = @ + 1] \in Packets
        BY <1>2 DEF Packets
      <4>3. sending'[w] # NoPacket /\ sending'[w].id = p.id /\ sending'[w].tid = p.tid
        BY <1>2, <4>1, <4>2, Apart DEF Packets
      <4>4. QED
        BY <2>1, <3>3, <4>3 DEF AtSender
    <3>4. QED
      BY <3>2, <3>3
  <2>2. CASE w # v
    <3>1. sending'[w] = sending[w]
      BY <1>1, <1>3, <2>2 DEF SenderTypes
    <3>2. QED
      BY <2>2, <3>1 DEF AtSender
  <2>3. QED
    BY <2>1, <2>2
<1>11. w = v /\ AtSender(w, o, n) => p.tid = o /\ p.id = n
  BY <1>2 DEF AtSender
<1>12. PICK a \in BOOLEAN : a <=> (p.tid = o /\ p.id = n)
  OBVIOUS
<1>13. QED
  BY <1>6, <1>8, <1>9, <1>10, <1>11, <1>12 DEF OnItsWay

\* The flow of the flit that a step injects.
SentFlow == <<inject'.vc, inject'.tid>>

LEMMA SendStep ==
  ASSUME EgressInv, EgressInv', Send
  PROVE  UNCHANGED Channel!vars \/ (SentFlow \in Flows /\ Channel!Accept(SentFlow))
<1>1. /\ TypeInv /\ SenderTypes /\ KernelInv /\ UNCHANGED received
  BY DEF EgressInv, TypeInv, Send, masterVars
<1>2. CASE SendsNone
  <2>1. UNCHANGED <<inject, sending, numTx, outFifo, eject, rbuf, ejFifo>> /\ (Unread' <=> Unread)
    BY <1>1, <1>2, UnreadKept DEF SendsNone, sourceVars, Send, masterVars
  <2>2. \A w \in VCs : Line(w)' = Line(w)
    BY <2>1, LineKept
  <2>3. ASSUME NEW w \in VCs, NEW o \in Outputs, NEW n
        PROVE  OnItsWay(w, o, n)' <=> OnItsWay(w, o, n)
    <3>1. OnLine(Line(w), o, n)' <=> OnLine(Line(w), o, n)
      <4>1. OnLine(Line(w), o, n)' <=> OnLine(Line(w)', o, n)
        BY DEF OnLine
      <4>2. QED
        BY <2>2, <4>1
    <3>2. InFifo(w, Heads(o), n)' <=> InFifo(w, Heads(o), n)
      BY <2>1 DEF InFifo, Heads
    <3>3. AtSender(w, o, n)' <=> AtSender(w, o, n)
      BY <2>1 DEF AtSender
    <3>4. QED
      BY <3>1, <3>2, <3>3 DEF OnItsWay
  <2>4. QED
    BY <1>1, <2>1, <2>3, QueueKept, StutterStep
<1>3. ASSUME NEW v, NEW p, Sends(v, p)
      PROVE  UNCHANGED Channel!vars \/ (SentFlow \in Flows /\ Channel!Accept(SentFlow))
  <2>1. /\ v \in VCs /\ p \in Packets
        /\ \/ sending[v] = p /\ numTx' = numTx
           \/ p.id = numTx + 1 /\ numTx' = numTx + 1
    BY <1>3 DEF Sends
  <2>2. CASE sending[v] = p /\ numTx' = numTx
    <3>1. AtSender(v, p.tid, p.id)
      BY <2>1, <2>2, Apart DEF AtSender
    <3>2. ASSUME NEW w \in VCs, NEW o \in Outputs, NEW n
          PROVE  OnItsWay(w, o, n)' <=> OnItsWay(w, o, n)
      BY <1>3, <3>1, SentIsOnItsWay DEF OnItsWay
    <3>3. QED
      BY <1>1, <2>2, <3>2, QueueKept, StutterStep
  <2>3. CASE p.id = numTx + 1 /\ numTx' = numTx + 1
    <3>1. PICK g \in Flows : g = <<v, p.tid>>
      BY <2>1 DEF Flows, Packets
    <3>2. ASSUME NEW f \in Flows
          PROVE  Queue'[f] = IF f = g THEN Queue[f] \cup {numTx + 1} ELSE Queue[f]
      <4>1. f[1] \in VCs /\ f[2] \in Outputs /\ (f = g <=> f[1] = v /\ f[2] = p.tid)
        BY <3>1, FlowParts
      <4>2. \A n : OnItsWay(f[1], f[2], n)' <=> OnItsWay(f[1], f[2], n)
                                               \/ (f[1] = v /\ p.tid = f[2] /\ p.id = n)
        BY <1>3, <4>1, SentIsOnItsWay
      <4>3. \A n : /\ n \in Undelivered(f[1], f[2]) <=> OnItsWay(f[1], f[2], n)
                   /\ n \in Undelivered(f[1], f[2])' <=> OnItsWay(f[1], f[2], n)'
        BY <4>1, UndeliveredHere, UndeliveredNext DEF EgressInv, UndeliveredIs
      <4>4. CASE f # g
        <5>1. \A n : OnItsWay(f[1], f[2], n)' <=> OnItsWay(f[1], f[2], n)
          BY <4>1, <4>2, <4>4
        <5>2. Undelivered(f[1], f[2])' = Undelivered(f[1], f[2])
          BY <4>1, <5>1, QueueKept
        <5>3. QED
          BY <4>4, <5>2 DEF Queue
      <4>5. CASE f = g
        <5>1. PICK U : U = Undelivered(f[1], f[2])
          OBVIOUS
        <5>2. PICK V : V = Undelivered(f[1], f[2])'
          OBVIOUS
        <5>3. \A n : n \in V <=> n \in U \/ n = numTx + 1
          BY <2>3, <4>1, <4>2, <4>3, <4>5, <5>1, <5>2
        <5>4. V = {n \in V : TRUE}
          BY <5>2 DEF Undelivered
        <5>5. V = U \cup {numTx + 1}
          BY <5>3, <5>4
        <5>6. QED
          BY <4>5, <5>1, <5>2, <5>5 DEF Queue
      <4>6. QED
        BY <4>4, <4>5
    <3>3. Queue' = [Queue EXCEPT ![g] = @ \cup {numTx + 1}]
      <4>1. Queue = [f \in Flows |-> Queue[f]] /\ Queue' = [f \in Flows |-> Queue'[f]]
        BY DEF Queue
      <4>2. QED
        BY <3>2, <4>1
    <3>4. Delivered' = Delivered
      BY <1>1 DEF Delivered
    <3>5. Channel!Accept(g)
      BY <2>3, <3>3, <3>4 DEF Channel!Accept, Queue, Delivered
    <3>6. g = SentFlow
      <4>1. inject'.vc = v /\ inject'.tid = p.tid
        BY <1>3 DEF Sends, FlitOf
      <4>2. QED
        BY <3>1, <4>1 DEF SentFlow
    <3>7. QED
      BY <3>5, <3>6
  <2>4. QED
    BY <2>1, <2>2, <2>3
<1>4. QED
  BY <1>1, <1>2, <1>3, SendEffect

\* A packet that a module takes is the first of its flow.
LEMMA MinIs ==
  ASSUME NEW T, NEW m \in T, \A n \in T : n \in Nat /\ m <= n
  PROVE  Channel!Min(T) = m
<1>1. m \in T /\ \A n \in T : m <= n
  OBVIOUS
<1>2. PICK x : x = Channel!Min(T)
  OBVIOUS
<1>3. x \in T /\ \A n \in T : x <= n
  BY <1>1, <1>2 DEF Channel!Min
<1>4. x = m
  BY <1>1, <1>3
<1>5. QED
  BY <1>2, <1>4

LEMMA FirstOfItsFlow ==
  ASSUME EgressInv, OrderInv, NEW o \in Outputs, Heads(o) # <<>>, NEW v \in VCs, Heads(o)[1].vc = v
  PROVE  /\ Heads(o)[1].id \in Undelivered(v, o)
         /\ \A n \in Undelivered(v, o) : n \in Nat /\ Heads(o)[1].id <= n
         /\ Channel!Min(Undelivered(v, o)) = Heads(o)[1].id
         /\ \A n : n = Heads(o)[1].id =>
              ~InFifo(v, Tail(Heads(o)), n) /\ ~OnLine(Line(v), o, n) /\ ~AtSender(v, o, n)
<1>1. /\ TypeInv /\ SlotInv /\ OutputInv /\ OutputTypes /\ SenderTypes
  BY DEF EgressInv, TypeInv
<1>2. PICK hs \in Seq(Flits) : hs = Heads(o)
  BY <1>1, HeadsType
<1>3. Len(hs) \in Nat \ {0} /\ 1 \in 1 .. Len(hs) /\ hs[1] \in Flits
  BY <1>2
<1>4. PICK m \in Nat : m = hs[1].id
  BY <1>3 DEF Flits
<1>5. PICK s \in Seq(FlitsOn(v)) : s = Line(v)
  BY <1>1, LineParts
<1>6. Precedes(v, m) /\ \A l \in 1 .. Len(hs) : 1 < l /\ hs[l].vc = v => m < hs[l].id
  BY <1>2, <1>3, <1>4 DEF OrderInv, OrderAt, FifoOrder
<1>7. ASSUME NEW n, InFifo(v, hs, n) PROVE n \in Nat /\ m <= n
  <2>1. PICK k \in 1 .. Len(hs) : hs[k].vc = v /\ hs[k].id = n
    BY <1>7 DEF InFifo
  <2>2. n \in Nat
    <3>1. hs[k] \in Flits
      BY <2>1
    <3>2. QED
      BY <2>1, <3>1 DEF Flits
  <2>3. k = 1 \/ 1 < k
    BY <2>1
  <2>4. QED
    BY <1>4, <1>6, <2>1, <2>2, <2>3
<1>8. ASSUME NEW n, OnLine(s, o, n) PROVE n \in Nat /\ m < n
  <2>1. PICK k \in 1 .. Len(s) : s[k].id = n
    BY <1>8 DEF OnLine
  <2>2. n \in Nat
    BY <2>1 DEF FlitsOn, Flits
  <2>3. QED
    BY <1>5, <1>6, <2>1, <2>2 DEF Precedes, StartedAfter
<1>9. ASSUME NEW n, AtSender(v, o, n) PROVE n \in Nat /\ m < n
  <2>1. sending[v] \in Packets
    BY <1>1, <1>9 DEF AtSender, SenderTypes
  <2>2. QED
    BY <1>6, <1>9, <2>1 DEF AtSender, Precedes, Packets
<1>10. ASSUME NEW n, n = m PROVE ~InFifo(v, Tail(hs), n)
  <2>1. PICK t : t = Tail(hs)
    OBVIOUS
  <2>2. Len(t) = Len(hs) - 1 /\ \A k \in 1 .. Len(hs) - 1 : t[k] = hs[k + 1]
    BY <1>3, <2>1, HeadTail
  <2>3. \A k \in 1 .. Len(t) : k + 1 \in 1 .. Len(hs) /\ 1 < k + 1 /\ t[k] = hs[k + 1]
    BY <1>3, <2>2
  <2>4. \A k \in 1 .. Len(t) : t[k].vc = v => m < t[k].id
    BY <1>6, <2>3
  <2>5. QED
    BY <1>4, <1>10, <2>1, <2>4 DEF InFifo
<1>11. \A n : n \in Undelivered(v, o) <=> InFifo(v, hs, n) \/ OnLine(s, o, n) \/ AtSender(v, o, n)
  BY <1>1, <1>2, <1>5, UndeliveredHere DEF UndeliveredIs, OnItsWay
<1>12. m \in Undelivered(v, o)
  BY <1>2, <1>3, <1>4, <1>11 DEF InFifo
<1>13. \A n \in Undelivered(v, o) : n \in Nat /\ m <= n
  BY <1>7, <1>8, <1>9, <1>11
<1>14. Channel!Min(Undelivered(v, o)) = m
  BY <1>12, <1>13, MinIs
<1>15. QED
  BY <1>2, <1>4, <1>5, <1>8, <1>9, <1>10, <1>12, <1>13, <1>14

\* The flows whose first packet is taken.
Taken == {f \in Flows : Delivers(f[2]) /\ out[f[2]][1].vc = f[1]}

\* What a flow delivers was accepted behind everything that it has delivered.
Behind ==
  /\ numTx \in Nat
  /\ \A f \in Flows : Delivered[f] \in 0 .. numTx /\ Queue[f] \subseteq Delivered[f] + 1 .. numTx

LEMMA MinIsLeast ==
  ASSUME NEW T \in SUBSET Nat, T # {}
  PROVE  Channel!Min(T) \in T /\ \A n \in T : Channel!Min(T) <= n
<1>1. PICK m \in T : \A n \in T : m <= n
  BY SmallestElement
<1>2. Channel!Min(T) = m
  BY <1>1, MinIs
<1>3. QED
  BY <1>1, <1>2

LEMMA BehindInit == Channel!Init => Behind
BY DEF Channel!Init, Behind, Queue, Delivered

LEMMA BehindStep == Behind /\ [Channel!Next]_(Channel!vars) => Behind'
<1> SUFFICES ASSUME Behind, [Channel!Next]_(Channel!vars) PROVE Behind'
  OBVIOUS
<1>1. CASE UNCHANGED Channel!vars
  BY <1>1 DEF Channel!vars, Behind, Queue, Delivered
<1>2. ASSUME NEW g \in Flows, Channel!Accept(g) PROVE Behind'
  <2>1. /\ numTx \in Nat /\ numTx' = numTx + 1 /\ Delivered' = Delivered
        /\ Queue' = [Queue EXCEPT ![g] = @ \cup {numTx + 1}]
    BY <1>2 DEF Channel!Accept, Behind, Queue, Delivered
  <2>2. ASSUME NEW f \in Flows
        PROVE  Delivered'[f] \in 0 .. numTx' /\ Queue'[f] \subseteq Delivered'[f] + 1 .. numTx'
    <3>1. Delivered[f] \in 0 .. numTx /\ Queue[f] \subseteq Delivered[f] + 1 .. numTx
      BY DEF Behind
    <3>2. Queue'[f] \subseteq Queue[f] \cup {numTx + 1}
      BY <2>1 DEF Queue
    <3>3. QED
      BY <2>1, <3>1, <3>2
  <2>3. QED
    BY <2>1, <2>2 DEF Behind
<1>3. ASSUME NEW S \in (SUBSET Flows) \ {{}}, Channel!Deliver(S) PROVE Behind'
  <2>1. /\ numTx \in Nat /\ numTx' = numTx /\ \A f \in S : Queue[f] # {}
        /\ Delivered' = [f \in Flows |-> IF f \in S THEN Channel!Min(Queue[f]) ELSE Delivered[f]]
        /\ Queue' = [f \in Flows |-> IF f \in S THEN Queue[f] \ {Channel!Min(Queue[f])}
                                                ELSE Queue[f]]
    BY <1>3 DEF Channel!Deliver, Behind, Queue, Delivered
  <2>2. ASSUME NEW f \in Flows
        PROVE  Delivered'[f] \in 0 .. numTx' /\ Queue'[f] \subseteq Delivered'[f] + 1 .. numTx'
    <3>1. Delivered[f] \in 0 .. numTx /\ Queue[f] \subseteq Delivered[f] + 1 .. numTx
      BY DEF Behind
    <3>2. CASE f \in S
      <4>1. PICK U \in SUBSET Nat : U = Queue[f]
        BY <2>1, <3>1
      <4>2. PICK m \in U : m = Channel!Min(U) /\ \A n \in U : m <= n
        BY <2>1, <3>2, <4>1, MinIsLeast
      <4>3. Delivered'[f] = m /\ Queue'[f] = U \ {m}
        BY <2>1, <3>2, <4>1, <4>2
      <4>4. U \subseteq 1 .. numTx
        BY <2>1, <3>1, <4>1
      <4>5. PICK V : V = U \ {m}
        OBVIOUS
      <4>6. m \in 0 .. numTx /\ \A n \in V : n \in m + 1 .. numTx
        BY <2>1, <4>2, <4>4, <4>5
      <4>7. QED
        BY <2>1, <4>3, <4>5, <4>6
    <3>3. CASE f \notin S
      BY <2>1, <3>1, <3>3
    <3>4. QED
      BY <3>2, <3>3
  <2>3. QED
    BY <2>1, <2>2 DEF Behind
<1>4. QED
  BY <1>1, <1>2, <1>3 DEF Channel!Next

LEMMA PortStep ==
  ASSUME EgressInv, OrderInv, EgressInv', Behind, OutputInterface
  PROVE  UNCHANGED Channel!vars \/ \E S \in (SUBSET Flows) \ {{}} : Channel!Deliver(S)
<1>1. /\ TypeInv /\ OutputInv /\ OutputTypes
      /\ UNCHANGED <<numTx, sending, eject, inject, rbuf, ejFifo>> /\ (Unread' <=> Unread)
  BY UnreadKept DEF EgressInv, TypeInv, OutputInterface, Master!OutputInterface, sourceVars
<1>2. \A w \in VCs : Line(w)' = Line(w)
  BY <1>1, LineKept
<1>3. ASSUME NEW v \in VCs, NEW o \in Outputs, NEW n
      PROVE  OnItsWay(v, o, n)' <=> InFifo(v, Heads(o)', n) \/ OnLine(Line(v), o, n) \/ AtSender(v, o, n)
  <2>1. OnLine(Line(v), o, n)' <=> OnLine(Line(v)', o, n)
    BY DEF OnLine
  <2>2. InFifo(v, Heads(o), n)' <=> InFifo(v, Heads(o)', n)
    BY DEF InFifo
  <2>3. AtSender(v, o, n)' <=> AtSender(v, o, n)
    BY <1>1 DEF AtSender
  <2>4. QED
    BY <1>2, <2>1, <2>2, <2>3 DEF OnItsWay
<1>4. ASSUME NEW v \in VCs, NEW o \in Outputs
      PROVE  /\ <<v, o>> \in Taken =>
                  /\ out[o][1].id = Channel!Min(Undelivered(v, o))
                  /\ Undelivered(v, o) # {}
                  /\ Undelivered(v, o)' = Undelivered(v, o) \ {out[o][1].id}
             /\ <<v, o>> \notin Taken => Undelivered(v, o)' = Undelivered(v, o)
  <2>1. <<v, o>> \in Taken <=> Delivers(o) /\ out[o][1].vc = v
    BY DEF Taken, Flows
  <2>2. PICK hs \in Seq(Flits) : hs = Heads(o)
    BY <1>1, HeadsType
  <2>3. CASE ~Delivers(o)
    <3>1. Heads(o)' = hs
      BY <1>1, <2>2, <2>3, HeadsAtPort
    <3>2. \A n : OnItsWay(v, o, n)' <=> OnItsWay(v, o, n)
      BY <1>3, <2>2, <3>1 DEF OnItsWay
    <3>3. QED
      BY <2>1, <2>3, <3>2, QueueKept
  <2>4. CASE Delivers(o)
    <3>1. hs # <<>> /\ Heads(o)' = Tail(hs) /\ out[o][1] = hs[1]
      BY <1>1, <2>2, <2>4, HeadsAtPort
    <3>2. \A n : InFifo(v, hs, n) <=> InFifo(v, Tail(hs), n) \/ (hs[1].vc = v /\ hs[1].id = n)
      BY <3>1, InFifoTail
    <3>3. CASE hs[1].vc # v
      <4>1. \A n : OnItsWay(v, o, n)' <=> OnItsWay(v, o, n)
        BY <1>3, <2>2, <3>1, <3>2, <3>3 DEF OnItsWay
      <4>2. QED
        BY <2>1, <3>1, <3>3, <4>1, QueueKept
    <3>4. CASE hs[1].vc = v
      <4>1. PICK m : m = hs[1].id
        OBVIOUS
      <4>2. /\ m \in Undelivered(v, o)
            /\ Channel!Min(Undelivered(v, o)) = m
            /\ ~InFifo(v, Tail(hs), m) /\ ~OnLine(Line(v), o, m) /\ ~AtSender(v, o, m)
        BY <2>2, <3>1, <3>4, <4>1, FirstOfItsFlow
      <4>3. \A n : OnItsWay(v, o, n)' <=> OnItsWay(v, o, n) /\ n # m
        BY <1>3, <2>2, <3>1, <3>2, <3>4, <4>1, <4>2 DEF OnItsWay
      <4>4. \A n : /\ n \in Undelivered(v, o) <=> OnItsWay(v, o, n)
                   /\ n \in Undelivered(v, o)' <=> OnItsWay(v, o, n)'
        BY UndeliveredHere, UndeliveredNext DEF EgressInv, UndeliveredIs
      <4>5. PICK U : U = Undelivered(v, o)
        OBVIOUS
      <4>6. PICK V : V = Undelivered(v, o)'
        OBVIOUS
      <4>7. V = {n \in V : TRUE}
        BY <4>6 DEF Undelivered
      <4>8. \A n : n \in V <=> n \in U /\ n # m
        BY <4>3, <4>4, <4>5, <4>6
      <4>9. V = U \ {m}
        BY <4>7, <4>8
      <4>10. QED
        BY <2>1, <2>4, <3>1, <3>4, <4>1, <4>2, <4>5, <4>6, <4>9
    <3>5. QED
      BY <3>3, <3>4
  <2>5. QED
    BY <2>3, <2>4
<1>5. ASSUME NEW f \in Flows
      PROVE  /\ f \in Taken => Queue[f] # {}
             /\ Queue'[f] = IF f \in Taken THEN Queue[f] \ {Channel!Min(Queue[f])} ELSE Queue[f]
             /\ Delivered'[f] = IF f \in Taken THEN Channel!Min(Queue[f]) ELSE Delivered[f]
  <2>1. f[1] \in VCs /\ f[2] \in Outputs /\ f = <<f[1], f[2]>>
    BY FlowParts
  <2>2. PICK v \in VCs : v = f[1]
    BY <2>1
  <2>3. PICK o \in Outputs : o = f[2]
    BY <2>1
  <2>4. f = <<v, o>> /\ Queue[f] = Undelivered(v, o) /\ Queue'[f] = Undelivered(v, o)'
    BY <2>1, <2>2, <2>3 DEF Queue
  <2>5. Delivered[f] = received[v][o] /\ Delivered'[f] = received'[v][o]
    BY <2>2, <2>3 DEF Delivered
  <2>6. received'[v][o] = IF Delivers(o) /\ out[o][1].vc = v THEN out[o][1].id ELSE received[v][o]
    BY Constants DEF OutputInterface, Master!OutputInterface, Delivers
  <2>7. f \in Taken <=> Delivers(o) /\ out[o][1].vc = v
    BY <2>2, <2>3 DEF Taken
  <2>8. QED
    BY <1>4, <2>4, <2>5, <2>6, <2>7
<1>6. /\ Queue' = [f \in Flows |-> Queue'[f]] /\ Queue = [f \in Flows |-> Queue[f]]
      /\ Delivered' = [f \in Flows |-> Delivered'[f]] /\ Delivered = [f \in Flows |-> Delivered[f]]
  BY DEF Queue, Delivered
<1>7. /\ \A f \in Taken : Queue[f] # {}
      /\ Delivered' = [f \in Flows |-> IF f \in Taken THEN Channel!Min(Queue[f]) ELSE Delivered[f]]
      /\ Queue' = [f \in Flows |-> IF f \in Taken THEN Queue[f] \ {Channel!Min(Queue[f])} ELSE Queue[f]]
  BY <1>5, <1>6 DEF Taken
<1>8. PICK T \in SUBSET Flows : T = Taken
  BY DEF Taken
<1>9. ASSUME T # {} PROVE Channel!Deliver(T)
  <2>1. PICK f \in T : f \in Flows
    BY <1>8, <1>9
  <2>2. PICK U : U = Queue[f]
    OBVIOUS
  <2>3. Delivered[f] \in Nat /\ U \in SUBSET Nat /\ U # {} /\ \A n \in U : Delivered[f] < n
    BY <1>7, <1>8, <2>1, <2>2 DEF Behind
  <2>4. Delivered'[f] = Channel!Min(U) /\ Channel!Min(U) \in U
    BY <1>7, <1>8, <2>1, <2>2, <2>3, MinIsLeast
  <2>5. Delivered' # Delivered
    BY <2>3, <2>4
  <2>6. QED
    BY <1>1, <1>7, <1>8, <2>5 DEF Channel!Deliver, Queue, Delivered
<1>10. CASE T = {}
  BY <1>1, <1>6, <1>7, <1>8, <1>10 DEF Channel!vars, Queue, Delivered
<1>11. CASE T # {}
  BY <1>9, <1>11
<1>12. QED
  BY <1>10, <1>11

LEMMA ChannelInit == Init => Channel!Init
<1> SUFFICES ASSUME Init PROVE Channel!Init
  OBVIOUS
<1>1. ASSUME NEW v \in VCs, NEW o \in Outputs PROVE Undelivered(v, o) = {}
  <2>1. /\ ejFifo[v] = <<>> /\ ejectReg = NoFlit /\ outFifo[o] = <<>>
        /\ rbuf[v] = <<>> /\ eject = NoFlit /\ inject = NoFlit /\ sending[v] = NoPacket
    BY Constants, Zenon DEF Init, Master!MasterInit, Noc!NocInit, Noc!EmptyBuffer
  <2>2. Range(<<>>) = {}
    <3>1. DOMAIN <<>> = {}
      OBVIOUS
    <3>2. QED
      BY <3>1 DEF Range
  <2>3. InTransit(v) = {}
    BY <2>1, <2>2 DEF InTransit
  <2>4. QED
    BY <2>1, <2>2, <2>3 DEF Undelivered
<1>2. Queue = [f \in Flows |-> {}]
  BY <1>1, FlowParts DEF Queue
<1>3. \A v \in VCs, o \in Outputs : received[v][o] = 0
  BY Constants, Zenon DEF Init, Master!MasterInit
<1>4. Delivered = [f \in Flows |-> 0]
  BY <1>3, FlowParts DEF Delivered
<1>5. numTx = 0
  BY DEF Init
<1>6. QED
  BY <1>2, <1>4, <1>5 DEF Channel!Init, Queue, Delivered

LEMMA ChannelStep ==
  FifosSuffice /\ EgressInv /\ EgressInv' /\ OrderInv /\ Behind /\ [Next]_vars
    => [Channel!Next]_(Channel!vars)
<1> SUFFICES ASSUME FifosSuffice, EgressInv, EgressInv', OrderInv, Behind, [Next]_vars
             PROVE  Channel!Next \/ UNCHANGED Channel!vars
  OBVIOUS
<1>1. TypeInv /\ SlotInv /\ KernelInv /\ FifoTypes
  BY DEF EgressInv, TypeInv
<1>2. ASSUME UNCHANGED <<numTx, received, outFifo, sending>>, \A w \in VCs : Line(w)' = Line(w)
      PROVE  UNCHANGED Channel!vars
  <2>1. ASSUME NEW w \in VCs, NEW o \in Outputs, NEW n
        PROVE  OnItsWay(w, o, n)' <=> OnItsWay(w, o, n)
    <3>1. OnLine(Line(w), o, n)' <=> OnLine(Line(w), o, n)
      <4>1. OnLine(Line(w), o, n)' <=> OnLine(Line(w)', o, n)
        BY DEF OnLine
      <4>2. QED
        BY <1>2, <4>1
    <3>2. InFifo(w, Heads(o), n)' <=> InFifo(w, Heads(o), n)
      BY <1>2 DEF InFifo, Heads
    <3>3. AtSender(w, o, n)' <=> AtSender(w, o, n)
      BY <1>2 DEF AtSender
    <3>4. QED
      BY <3>1, <3>2, <3>3 DEF OnItsWay
  <2>2. QED
    BY <1>2, <2>1, QueueKept, StutterStep
<1>3. ASSUME UNCHANGED <<numTx, received, outFifo, sending, eject, inject, rbuf, ejFifo>>,
             Unread' <=> Unread
      PROVE  UNCHANGED Channel!vars
  BY <1>2, <1>3, LineKept
<1>4. ASSUME NEW S \in SUBSET Clocks, ClockEdge(S) PROVE UNCHANGED Channel!vars
  BY <1>1, <1>3, <1>4, UnreadKept DEF ClockEdge, nocVars, masterVars, sourceVars
<1>5. CASE Settle
  BY <1>1, <1>3, <1>5, UnreadKept DEF Settle, nocVars, sourceVars
<1>6. CASE Send
  BY <1>6, SendStep DEF Channel!Next
<1>7. CASE Tick
  BY <1>1, <1>2, <1>7, LineAtTick DEF Tick, masterVars, sourceVars
<1>8. CASE OutputEjection
  BY <1>1, <1>2, <1>8, LineAtEjection DEF OutputEjection, Master!OutputEjection, sourceVars
<1>9. CASE OutputDepacketization
  <2>1. CASE TakesNone
    BY <1>1, <1>3, <1>9, <2>1, UnreadKept
       DEF OutputDepacketization, Master!OutputDepacketization, TakesNone, sourceVars
  <2>2. QED
    BY <1>1, <1>9, <2>1, TakeStep, DepacketizationEffect
<1>10. CASE OutputInterface
  BY <1>10, PortStep DEF Channel!Next
<1>11. CASE UNCHANGED vars
  BY <1>3, <1>11 DEF vars, kernelVars, nocVars, masterVars, sourceVars, Unread
<1>12. QED
  BY <1>4, <1>5, <1>6, <1>7, <1>8, <1>9, <1>10, <1>11 DEF Next

LEMMA BehindCorrect == FifosSuffice /\ Spec => []Behind
<1>1. Init => Behind
  BY ChannelInit, BehindInit
<1>2. FifosSuffice /\ EgressInv /\ EgressInv' /\ OrderInv /\ Behind /\ [Next]_vars => Behind'
  BY ChannelStep, BehindStep
<1>3. FifosSuffice => FifosSuffice'
  BY DEF FifosSuffice
<1>4. QED
  BY <1>1, <1>2, <1>3, OrderCorrect, PTL DEF Spec

\* Whatever packets the senders interleave on the VCs, whatever the clocks and
\* the modules behind the ports do: per VC and interface, every packet that is
\* delivered was sent, none is delivered twice and none overtakes another.
THEOREM WayOutImplementsChannel ==
  ASSUME FifosSuffice
  PROVE  Spec => ChannelSpec
<1>1. Init => Channel!Init
  BY ChannelInit
<1>2. FifosSuffice /\ EgressInv /\ EgressInv' /\ OrderInv /\ Behind /\ [Next]_vars
        => [Channel!Next]_(Channel!vars)
  BY ChannelStep
<1>3. FifosSuffice /\ Spec => [](EgressInv /\ OrderInv /\ Behind)
  BY OrderCorrect, BehindCorrect, PTL
<1>4. FifosSuffice => FifosSuffice'
  BY DEF FifosSuffice
<1>5. QED
  BY <1>1, <1>2, <1>3, <1>4, PTL DEF Spec, ChannelSpec, Channel!Spec
=============================================================================
