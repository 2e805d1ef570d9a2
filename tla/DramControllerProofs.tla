------------------------ MODULE DramControllerProofs ------------------------
(***************************************************************************)
(* The channel of DRAMsim3: the controller never comes to a command that   *)
(* its banks or its pending queues cannot take, the bursts never meet on   *)
(* the data bus, no read is overtaken by a write of its address, and a     *)
(* refresh is not put off by traffic.                                      *)
(***************************************************************************)
EXTENDS DramController, WellFoundedInduction, NaturalsInduction, TLAPS

(***************************************************************************)
(* The transactions on their way to the banks.                             *)
(***************************************************************************)
Transactions == [addr : Addresses, write : BOOLEAN]
Queued       == [type : Columns, addr : Addresses]

Buffers == {"read", "write", "unified"}

CtlFields ==
  {"banks", "faw", "refreshQ", "refreshIn", "nextRank", "queues", "queueIdx", "inRef",
   "waiting", "pendRd", "pendWr", "draining", "returnQ", "aborted"}

TransTypes(s) ==
  /\ s = [f \in CtlFields |-> s[f]]
  /\ s.queues \in [0 .. NumQueues - 1 -> Seq(Queued)]
  /\ s.waiting \in [Buffers -> Seq(Transactions)]
  /\ s.pendRd \in [Addresses -> Nat]
  /\ s.pendWr \in SUBSET Addresses
  /\ s.queueIdx \in Nat

\* A transaction is in the buffer of its kind, a command in the queue of its bank
\* or rank, and each of them is pending.
PlacesInv(s) ==
  /\ \A x \in Buffers : \A i \in 1 .. Len(s.waiting[x]) :
       LET t == s.waiting[x][i]
       IN  /\ x = QueueFor(t.write)
           /\ IF t.write THEN t.addr \in s.pendWr ELSE s.pendRd[t.addr] > 0
  /\ \A q \in 0 .. NumQueues - 1 : \A i \in 1 .. Len(s.queues[q]) :
       LET c == s.queues[q][i]
       IN  /\ q = GetQueueIndex(c.addr)
           /\ IF IsWrite(c.type) THEN c.addr \in s.pendWr ELSE s.pendRd[c.addr] > 0

SameTransaction(c, d) == c.addr = d.addr /\ (IsWrite(c.type) <=> IsWrite(d.type))

\* One command at most stands for all the reads that are pending for an address,
\* and one for the write.
OnceInv(s) ==
  /\ \A x \in Buffers : \A i, j \in 1 .. Len(s.waiting[x]) :
       s.waiting[x][i] = s.waiting[x][j] => i = j
  /\ \A q \in 0 .. NumQueues - 1 : \A i, j \in 1 .. Len(s.queues[q]) :
       SameTransaction(s.queues[q][i], s.queues[q][j]) => i = j
  /\ \A x \in Buffers : \A i \in 1 .. Len(s.waiting[x]) :
     \A q \in 0 .. NumQueues - 1 : \A j \in 1 .. Len(s.queues[q]) :
       s.waiting[x][i].addr = s.queues[q][j].addr
         => s.waiting[x][i].write # IsWrite(s.queues[q][j].type)

ReadWaits(s, a, n) ==
  \E i \in 1 .. n : s.waiting["unified"][i].addr = a /\ ~s.waiting["unified"][i].write

ReadQueued(s, a, n) ==
  \E i \in 1 .. n : LET c == s.queues[GetQueueIndex(a)][i] IN c.addr = a /\ IsRead(c.type)

\* In one queue the write of an address is behind the reads of it that are pending;
\* with two, it has not left its buffer before these.
ReadFirstInv(s) ==
  IF config.unified
  THEN /\ \A a \in Addresses : s.pendRd[a] > 0 =>
            \/ ReadWaits(s, a, Len(s.waiting["unified"]))
            \/ ReadQueued(s, a, Len(s.queues[GetQueueIndex(a)]))
       /\ \A i \in 1 .. Len(s.waiting["unified"]) :
            LET t == s.waiting["unified"][i]
            IN  t.write /\ s.pendRd[t.addr] > 0 =>
                  \/ ReadWaits(s, t.addr, i - 1)
                  \/ ReadQueued(s, t.addr, Len(s.queues[GetQueueIndex(t.addr)]))
       /\ \A q \in 0 .. NumQueues - 1 : \A i \in 1 .. Len(s.queues[q]) :
            LET c == s.queues[q][i]
            IN  IsWrite(c.type) /\ s.pendRd[c.addr] > 0 => ReadQueued(s, c.addr, i - 1)
  ELSE \A q \in 0 .. NumQueues - 1 : \A i \in 1 .. Len(s.queues[q]) :
         IsWrite(s.queues[q][i].type) => s.pendRd[s.queues[q][i].addr] = 0

TransInv(s) == TransTypes(s) /\ PlacesInv(s) /\ OnceInv(s) /\ ReadFirstInv(s)

(***************************************************************************)
(* The data bus.                                                           *)
(***************************************************************************)
FirstBeat(c) == IF IsRead(c) THEN T.RL ELSE T.WL

\* From when on a command c to a bank of rank r may have the bus after burst u.
BusFree(u, r, c) ==
  u.until + (IF u.cmd.addr.rank # r /\ (IsRead(u.cmd.type) \/ IsRead(c)) THEN T.tRTRS ELSE 0)

BankRecords == [open : Nat \cup {NoRow}, hits : Int, wait : [CommandType -> Nat]]

BankTypes(s) == s.banks \in [Banks -> BankRecords]

\* Each bank holds a column command back until the bus is free for it; after an
\* automatic precharge, by the activation that has to come first.
Kept(bank, r, u, c) ==
  \/ bank.wait[c] + FirstBeat(c) >= BusFree(u, r, c)
  \/ /\ bank.open = NoRow
     /\ bank.wait["ACTIVATE"] + T.tRCD - T.AL + FirstBeat(c) >= BusFree(u, r, c)

Exclusive(bursts) ==
  \A u, v \in bursts :
    LET idle == IF u.cmd.addr.rank # v.cmd.addr.rank /\ (IsRead(u.cmd.type) \/ IsRead(v.cmd.type))
                THEN T.tRTRS ELSE 0
    IN  u = v \/ u.until + idle <= v.from \/ v.until + idle <= u.from

BusOk(banks, bursts) ==
  /\ bursts \subseteq [cmd : Queued, from : Int, until : Int]
  /\ \A u \in bursts : \A b \in Banks : \A c \in Columns : Kept(banks[b], b.rank, u, c)
  /\ Exclusive(bursts)

BusInv == BusOk(ctl.banks, bus)

\* RL = AL + CL and WL = AL + CWL (configuration.cc); the last says that a read's
\* latency is not longer than a write's and the reopening of a row together.
BusTimings == /\ T.AL <= T.RL /\ T.AL <= T.WL
              /\ T.RL <= T.WL + T.tRTP + T.tRP + T.tRCD

(***************************************************************************)
(* Removing from sequences.                                                *)
(***************************************************************************)
LEMMA Smallest ==
  ASSUME NEW S \in SUBSET Nat, S # {}
  PROVE  Min(S) \in S /\ \A n \in S : Min(S) <= n
<1> DEFINE R == {ss \in Nat \X Nat : ss[1] < ss[2]}
<1>1. \E n \in S : \A m \in S : n <= m
  <2>1. IsWellFoundedOn(R, Nat)
    BY NatLessThanWellFounded, Zenon DEF OpToRel
  <2>2. PICK n \in S : \A m \in S : ~ (<<m, n>> \in R)
    <3> HIDE DEF R
    <3> QED
      BY <2>1, WFMin, Zenon
  <2>3. \A m \in S : ~(m < n)
    BY <2>2
  <2>4. QED
    BY <2>3
<1>2. QED
  BY <1>1 DEF Min

LEMMA Removed ==
  ASSUME NEW S, NEW q \in Seq(S), NEW i \in 1 .. Len(q)
  PROVE  /\ RemoveAt(q, i) \in Seq(S) /\ Len(RemoveAt(q, i)) = Len(q) - 1
         /\ \A j \in 1 .. i - 1 : RemoveAt(q, i)[j] = q[j]
         /\ \A j \in i .. Len(q) - 1 : RemoveAt(q, i)[j] = q[j + 1]
<1>1. PICK l \in Nat : l = Len(q)
  OBVIOUS
<1>2. PICK a, b : a = SubSeq(q, 1, i - 1) /\ b = SubSeq(q, i + 1, l)
  OBVIOUS
<1>3. a \in Seq(S) /\ Len(a) = i - 1 /\ \A j \in 1 .. i - 1 : a[j] = q[j]
  BY <1>1, <1>2
<1>4. b \in Seq(S) /\ Len(b) = l - i /\ \A j \in 1 .. l - i : b[j] = q[i + j]
  BY <1>1, <1>2
<1>5. /\ a \o b \in Seq(S) /\ Len(a \o b) = Len(a) + Len(b)
      /\ \A j \in 1 .. Len(a) : (a \o b)[j] = a[j]
      /\ \A j \in 1 .. Len(b) : (a \o b)[Len(a) + j] = b[j]
  <2>1. a \in Seq(S) /\ b \in Seq(S)
    BY <1>3, <1>4
  <2>2. QED
    BY <2>1
<1>6. ASSUME NEW j \in i .. l - 1 PROVE (a \o b)[j] = q[j + 1]
  <2>1. PICK k \in 1 .. l - i : i - 1 + k = j /\ i + k = j + 1
    <3>1. j - (i - 1) \in 1 .. l - i
      BY <1>1
    <3>2. QED
      BY <1>1, <3>1
  <2>2. (a \o b)[i - 1 + k] = b[k] /\ b[k] = q[i + k]
    BY <1>3, <1>4, <1>5
  <2>3. QED
    BY <2>1, <2>2
<1>7. RemoveAt(q, i) = a \o b
  BY <1>1, <1>2 DEF RemoveAt
<1>8. RemoveAt(q, i) \in Seq(S) /\ Len(RemoveAt(q, i)) = l - 1
  BY <1>1, <1>3, <1>4, <1>5, <1>7
<1>9. \A j \in 1 .. i - 1 : RemoveAt(q, i)[j] = q[j]
  BY <1>3, <1>5, <1>7
<1>10. QED
  BY <1>1, <1>6, <1>7, <1>8, <1>9

LEMMA FirstRemoved ==
  ASSUME NEW S, NEW q \in Seq(S), NEW i \in 1 .. Len(q), NEW e,
         \A j \in 1 .. Len(q) : q[j] = e <=> j = i
  PROVE  RemoveFirst(q, e) = RemoveAt(q, i)
<1>1. {j \in 1 .. Len(q) : q[j] = e} = {i}
  OBVIOUS
<1>2. Min({i}) = i
  BY DEF Min
<1>3. SelectInSeq(q, LAMBDA v : v = e) = i
  BY <1>1, <1>2 DEF SelectInSeq
<1>4. \E j \in 1 .. Len(q) : q[j] = e
  OBVIOUS
<1>5. QED
  BY <1>3, <1>4 DEF RemoveFirst

\* A transaction that waits and a command queued for its address are of opposite
\* directions, taken one pair at a time.
LEMMA OppositeDirections ==
  ASSUME NEW s, OnceInv(s),
         NEW x \in Buffers, NEW i \in 1 .. Len(s.waiting[x]),
         NEW q \in 0 .. NumQueues - 1, NEW j \in 1 .. Len(s.queues[q]),
         s.waiting[x][i].addr = s.queues[q][j].addr
  PROVE  s.waiting[x][i].write # IsWrite(s.queues[q][j].type)
<1>1. \A y \in Buffers : \A k \in 1 .. Len(s.waiting[y]) :
      \A p \in 0 .. NumQueues - 1 : \A m \in 1 .. Len(s.queues[p]) :
        s.waiting[y][k].addr = s.queues[p][m].addr
          => s.waiting[y][k].write # IsWrite(s.queues[p][m].type)
  BY Zenon DEF OnceInv
<1>2. QED
  BY <1>1


(***************************************************************************)
(* The choice of a command.                                                *)
(***************************************************************************)
LEMMA Given ==
  /\ NumRanks \in Nat \ {0} /\ BankGroups \in Nat \ {0} /\ BanksPerGroup \in Nat \ {0}
  /\ NoRow \notin Nat
  /\ \A a \in Addresses : /\ BankOf(a) \in Banks /\ a.rank \in Ranks /\ a.row \in Nat
                          /\ BankOf(a).rank = a.rank
  /\ \A b \in Banks : BankOf(b) = b /\ b.rank \in Ranks
<1>1. /\ NumRanks \in Nat \ {0} /\ BankGroups \in Nat \ {0} /\ BanksPerGroup \in Nat \ {0}
      /\ NoRow \notin Nat
  BY GeometryAssumption
<1>2. Addresses \subseteq [rank : Ranks, group : 0 .. BankGroups - 1,
                           bank : 0 .. BanksPerGroup - 1, row : Nat, column : Nat]
  BY ControllerAssumption
<1>3. \A a \in Addresses : /\ BankOf(a) \in Banks /\ a.rank \in Ranks /\ a.row \in Nat
                           /\ BankOf(a).rank = a.rank
  BY <1>2 DEF BankOf, Banks
<1>4. \A b \in Banks : BankOf(b) = b /\ b.rank \in Ranks
  BY DEF BankOf, Banks
<1>5. QED
  BY <1>1, <1>3, <1>4

LEMMA ColumnTypes ==
  /\ Columns \subseteq CommandType
  /\ \A c \in Columns : c # "ACTIVATE" /\ c # "PRECHARGE" /\ c # "REFRESH"
  /\ \A c \in Columns : IsRead(c) <=> ~IsWrite(c)
BY DEF Columns, CommandType, IsRead, IsWrite

LEMMA IsACommand ==
  ASSUME NEW t \in CommandType, NEW a \in Addresses \cup Banks \cup [rank : Ranks]
  PROVE  Command(t, a) # NoCommand /\ Command(t, a).type = t /\ Command(t, a).addr = a
BY ControllerAssumption DEF Command

\* What the rest of the controller sees of a choice.
SameState(s, u) ==
  /\ u = [f \in CtlFields |-> u[f]]
  /\ u.banks = s.banks /\ u.waiting = s.waiting
  /\ u.pendRd = s.pendRd /\ u.pendWr = s.pendWr /\ u.aborted = s.aborted
  /\ u.queueIdx \in Nat

\* A command that the bank is ready for and accepts.
BankTakes(s, cmd) ==
  LET b == BankOf(cmd.addr)
  IN  /\ cmd.type \in CommandType \ {"REFRESH"}
      /\ b \in Banks
      /\ s.banks[b].wait[cmd.type] = 0
      /\ Legal(s.banks[b], cmd)
      /\ cmd.type = "ACTIVATE" => cmd.addr.row \in Nat

ChoosesNone(s, n) == n.cmd = NoCommand /\ n.s.queues = s.queues

ChoosesRefresh(s, n) ==
  /\ n.cmd # NoCommand /\ n.s.queues = s.queues
  /\ n.cmd.type = "REFRESH"
  /\ \A b \in Banks : b.rank = n.cmd.addr.rank => s.banks[b].open = NoRow

ChoosesRow(s, n) ==
  /\ n.cmd # NoCommand /\ n.s.queues = s.queues
  /\ n.cmd.type \in {"ACTIVATE", "PRECHARGE"}
  /\ BankTakes(s, n.cmd)

Serves(s, n, q, i) ==
  /\ n.cmd # NoCommand /\ n.cmd = s.queues[q][i]
  /\ n.s.queues = [s.queues EXCEPT ![q] = RemoveFirst(@, n.cmd)]
  /\ BankTakes(s, n.cmd)
  /\ IsWrite(n.cmd.type) => ~HasRWDependency(s.queues[q], i)

ChoosesColumn(s, n) ==
  \E q \in 0 .. NumQueues - 1 : \E i \in 1 .. Len(s.queues[q]) : Serves(s, n, q, i)

Chooses(s, n) ==
  /\ SameState(s, n.s)
  /\ ChoosesNone(s, n) \/ ChoosesRefresh(s, n) \/ ChoosesRow(s, n) \/ ChoosesColumn(s, n)

LEMMA ReadyForBank ==
  ASSUME NEW s, BankTypes(s), NEW x \in Queued, NEW c, c = BankReady(s.banks, s.faw, x),
         c # NoCommand
  PROVE  /\ BankTakes(s, c) /\ c.addr = x.addr
         /\ c.type \in Columns \cup {"ACTIVATE", "PRECHARGE"}
         /\ c.type \in Columns => c = x
<1>1. x = [type |-> x.type, addr |-> x.addr] /\ x.type \in Columns /\ x.addr \in Addresses
  BY DEF Queued
<1>2. PICK b, t : b = BankOf(x.addr) /\ t = Required(s.banks[b], x)
  OBVIOUS
<1>3. b \in Banks /\ x.addr.row \in Nat
  BY <1>1, <1>2, Given
<1>4. t \in Columns \cup {"ACTIVATE", "PRECHARGE"} /\ (t \in Columns => t = x.type)
  BY <1>1, <1>2, ColumnTypes DEF Required
<1>5. c = Command(t, x.addr) /\ s.banks[b].wait[t] = 0
  BY <1>2 DEF BankReady, IsReady
<1>6. t \in CommandType \ {"REFRESH"}
  BY <1>4, ColumnTypes DEF CommandType
<1>7. c.type = t /\ c.addr = x.addr
  BY <1>5 DEF Command
<1>8. Legal(s.banks[b], c)
  <2>1. CASE s.banks[b].open = NoRow
    BY <1>1, <1>2, <1>7, <2>1 DEF Required, Legal
  <2>2. CASE s.banks[b].open # NoRow
    BY <1>1, <1>2, <1>4, <1>7, <2>2 DEF Required, Legal
  <2>3. QED
    BY <2>1, <2>2
<1>9. BankTakes(s, c)
  BY <1>2, <1>3, <1>5, <1>6, <1>7, <1>8 DEF BankTakes
<1>10. t \in Columns => c = x
  BY <1>1, <1>4, <1>5 DEF Command
<1>11. QED
  BY <1>4, <1>7, <1>9, <1>10

LEMMA FirstReady ==
  ASSUME NEW s, BankTypes(s), NEW queue \in Seq(Queued), NEW c,
         c = GetFirstReadyInQueue(s, queue), c # NoCommand
  PROVE  \E i \in 1 .. Len(queue) :
           /\ c = BankReady(s.banks, s.faw, queue[i])
           /\ IsWrite(c.type) => ~HasRWDependency(queue, i)
<1>1. PICK may : may = {i \in DOMAIN queue : MayIssue(s, queue, i)}
  OBVIOUS
<1>2. may # {} /\ c = BankReady(s.banks, s.faw, queue[Min(may)])
  BY <1>1 DEF GetFirstReadyInQueue
<1>3. may \in SUBSET Nat
  BY <1>1
<1>4. Min(may) \in may
  BY <1>2, <1>3, Smallest
<1>5. PICK i : i = Min(may)
  OBVIOUS
<1>6. i \in 1 .. Len(queue) /\ MayIssue(s, queue, i)
  BY <1>1, <1>4, <1>5
<1>7. c = BankReady(s.banks, s.faw, queue[i])
  BY <1>2, <1>5
<1>8. IsWrite(c.type) => ~HasRWDependency(queue, i)
  BY <1>6, <1>7 DEF MayIssue
<1>9. QED
  BY <1>6, <1>7, <1>8

LEMMA Queues == NumQueues \in Nat \ {0}
BY Given DEF NumQueues

LEMMA CommandToIssue ==
  ASSUME NEW s, TransTypes(s), BankTypes(s), NEW n, n = GetCommandToIssue(s)
  PROVE  Chooses(s, n)
<1> DEFINE Nth(k) == (s.queueIdx + k) % NumQueues
           ready  == [k \in 1 .. NumQueues |->
                        IF Skipped(s, Nth(k)) THEN NoCommand
                        ELSE GetFirstReadyInQueue(s, s.queues[Nth(k)])]
           found  == {k \in DOMAIN ready : ready[k] # NoCommand}
           cmd    == ready[Min(found)]
           q      == Nth(Min(found))
<1>1. n = IF found = {} THEN [cmd |-> NoCommand, s |-> s]
          ELSE [cmd |-> cmd,
                s   |-> [s EXCEPT !.queueIdx = q,
                                  !.queues[q] = IF cmd.type \in Columns
                                                THEN RemoveFirst(@, cmd) ELSE @]]
  BY DEF GetCommandToIssue
<1>2. s = [f \in CtlFields |-> s[f]] /\ s.queueIdx \in Nat
      /\ s.queues \in [0 .. NumQueues - 1 -> Seq(Queued)]
  BY DEF TransTypes
<1>3. CASE found = {}
  <2> HIDE DEF q, cmd, found, ready, Nth
  <2>1. n.cmd = NoCommand /\ n.s = s
    BY <1>1, <1>3
  <2>2. QED
    BY <1>2, <2>1 DEF Chooses, SameState, ChoosesNone
<1>4. CASE found # {}
  <2>1. n.cmd = cmd /\ n.s = [s EXCEPT !.queueIdx = q,
                                       !.queues[q] = IF cmd.type \in Columns
                                                     THEN RemoveFirst(@, cmd) ELSE @]
    <3> HIDE DEF q, cmd, found, ready, Nth
    <3> QED
      BY <1>1, <1>4
  <2>2. found \in SUBSET Nat
    BY Queues
  <2>3. PICK k \in 1 .. NumQueues : k = Min(found) /\ ready[k] # NoCommand
    BY <1>4, <2>2, Smallest
  <2>4. q \in 0 .. NumQueues - 1
    <3>1. PICK m \in Nat, o \in Nat \ {0} : m = s.queueIdx + k /\ o = NumQueues
      <4> HIDE DEF q, cmd, found, ready, Nth
      <4>1. s.queueIdx + k \in Nat /\ NumQueues \in Nat \ {0}
        BY <1>2, <2>3, Queues
      <4>2. QED
        BY <4>1
    <3>2. m % o \in 0 .. o - 1
      BY <3>1
    <3>3. q = m % o
      <4> HIDE DEF found
      <4> QED
        BY <2>3, <3>1
    <3>4. QED
      BY <3>1, <3>2, <3>3
  <2>5. cmd # NoCommand /\ cmd = GetFirstReadyInQueue(s, s.queues[q])
    BY <2>3
  <2> HIDE DEF q, cmd, found, ready, Nth
  <2>6. s.queues[q] \in Seq(Queued)
    BY <1>2, <2>4
  <2>7. PICK i \in 1 .. Len(s.queues[q]) :
          /\ cmd = BankReady(s.banks, s.faw, s.queues[q][i])
          /\ IsWrite(cmd.type) => ~HasRWDependency(s.queues[q], i)
    BY <2>5, <2>6, FirstReady
  <2>8. s.queues[q][i] \in Queued
    BY <2>6
  <2>9. /\ BankTakes(s, cmd) /\ cmd.type \in Columns \cup {"ACTIVATE", "PRECHARGE"}
        /\ cmd.type \in Columns => cmd = s.queues[q][i]
    BY <2>5, <2>7, <2>8, ReadyForBank
  <2>10. SameState(s, n.s)
    <3>1. q \in Nat
      BY <2>4
    <3>2. QED
      BY <1>2, <2>1, <3>1 DEF SameState, CtlFields
  <2>11. n.s.queues = [s.queues EXCEPT ![q] = IF cmd.type \in Columns
                                              THEN RemoveFirst(@, cmd) ELSE @]
    BY <1>2, <2>1 DEF CtlFields
  <2>12. CASE cmd.type \in Columns
    <3>1. n.s.queues = [s.queues EXCEPT ![q] = RemoveFirst(@, n.cmd)]
      BY <2>1, <2>11, <2>12
    <3>2. Serves(s, n, q, i)
      BY <2>1, <2>5, <2>7, <2>9, <2>12, <3>1 DEF Serves
    <3>3. QED
      BY <2>4, <2>10, <3>2 DEF Chooses, ChoosesColumn
  <2>13. CASE cmd.type \notin Columns
    <3>1. n.s.queues = s.queues
      BY <1>2, <2>4, <2>11, <2>13
    <3>2. QED
      BY <2>1, <2>5, <2>9, <2>10, <2>13, <3>1 DEF Chooses, ChoosesRow
  <2>14. QED
    BY <2>12, <2>13
<1>5. QED
  BY <1>3, <1>4

LEMMA RefreshFinished ==
  ASSUME NEW s, TransTypes(s), BankTypes(s), NEW r, r = FinishRefresh(s)
  PROVE  /\ TransTypes(r.s) /\ BankTypes(r.s) /\ SameState(s, r.s)
         /\ r.s.queues = s.queues
         /\ r.cmd # NoCommand => ChoosesRefresh(s, r) \/ ChoosesRow(s, r)
<1>1. PICK rank : rank = Head(s.refreshQ)
  OBVIOUS
<1>2. PICK cmd : cmd = Command("REFRESH", [rank |-> rank])
  OBVIOUS
<1>3. cmd.type = "REFRESH" /\ cmd.addr.rank = rank
  BY <1>2 DEF Command
<1>4. r.cmd = RefreshReady(s.banks, cmd)
  BY <1>1, <1>2 DEF FinishRefresh
<1>5. PICK x : r.s = [s EXCEPT !.inRef = x]
  BY DEF FinishRefresh
<1>6. /\ r.s = [f \in CtlFields |-> r.s[f]] /\ r.s.queues = s.queues /\ r.s.banks = s.banks
      /\ r.s.waiting = s.waiting /\ r.s.pendRd = s.pendRd /\ r.s.pendWr = s.pendWr
      /\ r.s.aborted = s.aborted /\ r.s.queueIdx = s.queueIdx
  BY <1>5 DEF TransTypes, CtlFields
<1>7. TransTypes(r.s) /\ BankTypes(r.s) /\ SameState(s, r.s)
  BY <1>6 DEF TransTypes, BankTypes, SameState
<1>8. ASSUME r.cmd # NoCommand PROVE ChoosesRefresh(s, r) \/ ChoosesRow(s, r)
  <2>1. PICK open : open = {b \in BanksOf(rank) : s.banks[b].open # NoRow
                                                  /\ IsReady(s.banks[b], cmd)}
    OBVIOUS
  <2>2. CASE open # {}
    <3>1. PICK S : S = {IndexOf(b) : b \in open}
      OBVIOUS
    <3>2. S \in SUBSET Nat /\ S # {}
      <4>1. ASSUME NEW b \in Banks PROVE IndexOf(b) \in Nat
        <5>1. /\ b.rank \in Nat /\ b.group \in Nat /\ b.bank \in Nat
              /\ BankGroups \in Nat /\ BanksPerGroup \in Nat
          BY Given DEF Banks, Ranks
        <5>2. PICK m \in Nat : m = BankGroups * BanksPerGroup
          BY <5>1
        <5>3. b.rank * m \in Nat /\ b.group * BanksPerGroup \in Nat
          BY <5>1
        <5>4. QED
          BY <5>1, <5>2, <5>3 DEF IndexOf
      <4>2. QED
        BY <2>1, <2>2, <3>1, <4>1 DEF BanksOf
    <3>3. \E b \in open : \A d \in open : IndexOf(b) <= IndexOf(d)
      <4>1. Min(S) \in S /\ \A n \in S : Min(S) <= n
        BY <3>2, Smallest
      <4>2. PICK b \in open : IndexOf(b) = Min(S)
        BY <3>1, <4>1
      <4>3. \A d \in open : Min(S) <= IndexOf(d)
        BY <3>1, <4>1
      <4>4. QED
        BY <4>2, <4>3
    <3>4. PICK b : b = CHOOSE e \in open : \A d \in open : IndexOf(e) <= IndexOf(d)
      OBVIOUS
    <3>5. b \in open
      BY <3>3, <3>4
    <3>6. b \in Banks /\ s.banks[b].open # NoRow /\ s.banks[b].wait["PRECHARGE"] = 0
      <4>1. Required(s.banks[b], cmd) = "PRECHARGE"
        BY <1>3, <2>1, <3>5, ColumnTypes DEF Required
      <4>2. QED
        BY <2>1, <3>5, <4>1 DEF BanksOf, IsReady
    <3>7. r.cmd = Command("PRECHARGE", b)
      BY <1>3, <1>4, <2>1, <2>2, <3>4 DEF RefreshReady
    <3>8. r.cmd.type = "PRECHARGE" /\ r.cmd.addr = b /\ BankOf(r.cmd.addr) = b
      BY <3>6, <3>7, Given DEF Command
    <3>9. BankTakes(s, r.cmd)
      BY <3>6, <3>8 DEF BankTakes, Legal, CommandType
    <3>10. QED
      BY <1>6, <1>8, <3>8, <3>9 DEF ChoosesRow
  <2>3. CASE open = {}
    <3>1. r.cmd = cmd /\ \A b \in BanksOf(rank) : IsReady(s.banks[b], cmd)
      BY <1>3, <1>4, <1>8, <2>1, <2>3 DEF RefreshReady
    <3>2. \A b \in Banks : b.rank = rank => s.banks[b].open = NoRow
      BY <2>1, <2>3, <3>1 DEF BanksOf
    <3>3. QED
      BY <1>3, <1>6, <1>8, <3>1, <3>2 DEF ChoosesRefresh
  <2>4. QED
    BY <2>2, <2>3
<1>9. QED
  BY <1>6, <1>7, <1>8

LEMMA CommandChosen ==
  ASSUME NEW s, TransTypes(s), BankTypes(s), NEW n, n = NextCommand(s)
  PROVE  Chooses(s, n)
<1>1. PICK r : r = FinishRefresh(s)
  OBVIOUS
<1>2. CASE s.refreshQ = <<>>
  BY <1>2, CommandToIssue DEF NextCommand
<1>3. CASE s.refreshQ # <<>> /\ r.cmd = NoCommand
  <2>1. n = GetCommandToIssue(r.s)
    BY <1>1, <1>3 DEF NextCommand
  <2>2. /\ TransTypes(r.s) /\ BankTypes(r.s) /\ SameState(s, r.s)
        /\ r.s.queues = s.queues
    BY <1>1, RefreshFinished
  <2>3. Chooses(r.s, n)
    BY <2>1, <2>2, CommandToIssue
  <2>4. r.s.banks = s.banks
    BY <2>2 DEF SameState
  <2>5. SameState(s, n.s)
    BY <2>2, <2>3 DEF Chooses, SameState
  <2>6. \A c : BankTakes(r.s, c) => BankTakes(s, c)
    BY <2>4 DEF BankTakes
  <2>7. QED
    BY <2>2, <2>3, <2>4, <2>5, <2>6
    DEF Chooses, ChoosesNone, ChoosesRefresh, ChoosesRow, ChoosesColumn, Serves
<1>4. CASE s.refreshQ # <<>> /\ r.cmd # NoCommand
  <2>1. n = r
    BY <1>1, <1>4 DEF NextCommand
  <2>2. QED
    BY <1>1, <1>4, <2>1, RefreshFinished DEF Chooses
<1>5. QED
  BY <1>2, <1>3, <1>4

(***************************************************************************)
(* A command is issued.                                                    *)
(***************************************************************************)
SameTrans(s, u) ==
  /\ u = [f \in CtlFields |-> u[f]] /\ u.queueIdx \in Nat
  /\ u.queues = s.queues /\ u.waiting = s.waiting
  /\ u.pendRd = s.pendRd /\ u.pendWr = s.pendWr

LEMMA TransKept ==
  ASSUME NEW s, NEW u, TransInv(s), SameTrans(s, u)
  PROVE  TransInv(u)
<1>1. /\ u.queues = s.queues /\ u.waiting = s.waiting
      /\ u.pendRd = s.pendRd /\ u.pendWr = s.pendWr
  BY DEF SameTrans
<1>2. TransTypes(s) /\ PlacesInv(s) /\ OnceInv(s) /\ ReadFirstInv(s)
  BY DEF TransInv
<1>3. TransTypes(u)
  BY <1>2 DEF SameTrans, TransTypes
<1>4. PlacesInv(u)
  BY <1>1, <1>2, Zenon DEF PlacesInv
<1>5. OnceInv(u)
  <2>1. \A x \in Buffers : \A i, j \in 1 .. Len(u.waiting[x]) :
          u.waiting[x][i] = u.waiting[x][j] => i = j
    BY <1>1, <1>2 DEF OnceInv
  <2>2. \A q \in 0 .. NumQueues - 1 : \A i, j \in 1 .. Len(u.queues[q]) :
          SameTransaction(u.queues[q][i], u.queues[q][j]) => i = j
    BY <1>1, <1>2 DEF OnceInv
  <2>3. \A x \in Buffers : \A i \in 1 .. Len(u.waiting[x]) :
        \A q \in 0 .. NumQueues - 1 : \A j \in 1 .. Len(u.queues[q]) :
          u.waiting[x][i].addr = u.queues[q][j].addr
            => u.waiting[x][i].write # IsWrite(u.queues[q][j].type)
    BY <1>1, <1>2 DEF OnceInv
  <2>4. QED
    BY <2>1, <2>2, <2>3 DEF OnceInv
<1>6. ReadFirstInv(u)
  <2>1. \A a, n : (ReadWaits(u, a, n) <=> ReadWaits(s, a, n))
                  /\ (ReadQueued(u, a, n) <=> ReadQueued(s, a, n))
    BY <1>1, Zenon DEF ReadWaits, ReadQueued
  <2>2. QED
    BY <1>1, <1>2, <2>1, Zenon DEF ReadFirstInv
<1>7. QED
  BY <1>3, <1>4, <1>5, <1>6 DEF TransInv

LEMMA ChosenIsLegal ==
  ASSUME NEW s, NEW n, Chooses(s, n), n.cmd # NoCommand
  PROVE  LegalCommand(n.s.banks, n.cmd)
<1>1. n.s.banks = s.banks
  BY DEF Chooses, SameState
<1>2. CASE ChoosesRefresh(s, n)
  BY <1>1, <1>2 DEF ChoosesRefresh, LegalCommand, Concerns, Legal
<1>3. CASE BankTakes(s, n.cmd)
  BY <1>1, <1>3 DEF BankTakes, LegalCommand, Concerns
<1>4. QED
  BY <1>2, <1>3 DEF Chooses, ChoosesNone, ChoosesRow, ChoosesColumn, Serves

\* Where the command at j of queue p is in the queues from which the command at i of
\* queue q has been removed, and where it was.
NowAt(q, i, p, j)  == IF p = q /\ j > i THEN j - 1 ELSE j
WasAt(q, i, p, j) == IF p = q /\ j >= i THEN j + 1 ELSE j

Shortened(I, qs, rs, q, i) ==
  /\ \A p \in I : \A j \in 1 .. Len(rs[p]) :
       /\ WasAt(q, i, p, j) \in 1 .. Len(qs[p])
       /\ rs[p][j] = qs[p][WasAt(q, i, p, j)]
       /\ p = q => WasAt(q, i, p, j) # i
  /\ \A p \in I : \A j \in 1 .. Len(qs[p]) :
       p # q \/ j # i => /\ NowAt(q, i, p, j) \in 1 .. Len(rs[p])
                         /\ rs[p][NowAt(q, i, p, j)] = qs[p][j]

LEMMA QueueShortened ==
  ASSUME NEW I, NEW S, NEW qs \in [I -> Seq(S)], NEW q \in I, NEW i \in 1 .. Len(qs[q]),
         NEW rs, rs = [qs EXCEPT ![q] = RemoveAt(@, i)]
  PROVE  rs \in [I -> Seq(S)] /\ Shortened(I, qs, rs, q, i)
<1>1. qs \in [I -> Seq(S)]
  OBVIOUS
<1>2. PICK a, b : a = qs[q] /\ b = RemoveAt(qs[q], i)
  OBVIOUS
<1>3. PICK l \in Nat : l = Len(a)
  BY <1>1, <1>2
<1>4. i \in 1 .. l
  BY <1>2, <1>3
<1>5. /\ b \in Seq(S) /\ Len(b) = l - 1
      /\ \A j \in 1 .. i - 1 : b[j] = a[j]
      /\ \A j \in i .. l - 1 : b[j] = a[j + 1]
  <2>1. a \in Seq(S) /\ i \in 1 .. Len(a) /\ b = RemoveAt(a, i)
    BY <1>1, <1>2, <1>3, <1>4
  <2>2. QED
    BY <1>3, <2>1, Removed
<1>6. rs[q] = b /\ \A p \in I : p # q => rs[p] = qs[p]
  BY <1>1, <1>2
<1>7. rs \in [I -> Seq(S)]
  BY <1>1, <1>2, <1>5
<1>8. ASSUME NEW p \in I, NEW j \in 1 .. Len(rs[p])
      PROVE  /\ WasAt(q, i, p, j) \in 1 .. Len(qs[p])
             /\ rs[p][j] = qs[p][WasAt(q, i, p, j)]
             /\ p = q => WasAt(q, i, p, j) # i
  <2>1. CASE p # q
    <3>1. WasAt(q, i, p, j) = j
      BY <2>1 DEF WasAt
    <3>2. QED
      BY <1>6, <2>1, <3>1
  <2>2. CASE p = q
    <3>1. j \in 1 .. l - 1
      BY <1>3, <1>5, <1>6, <2>2
    <3>2. PICK k : k = WasAt(q, i, p, j)
      OBVIOUS
    <3>3. k = IF j >= i THEN j + 1 ELSE j
      BY <2>2, <3>2 DEF WasAt
    <3>4. k \in 1 .. l /\ k # i
      BY <1>4, <3>1, <3>3
    <3>5. b[j] = a[k]
      <4>1. CASE j >= i
        <5>1. j \in i .. l - 1 /\ k = j + 1
          BY <1>4, <3>1, <3>3, <4>1
        <5>2. QED
          BY <1>5, <5>1
      <4>2. CASE ~(j >= i)
        <5>1. j \in 1 .. i - 1 /\ k = j
          BY <1>4, <3>1, <3>3, <4>2
        <5>2. QED
          BY <1>5, <5>1
      <4>3. QED
        BY <4>1, <4>2
    <3>6. QED
      BY <1>2, <1>3, <1>6, <2>2, <3>2, <3>4, <3>5
  <2>3. QED
    BY <2>1, <2>2
<1>9. ASSUME NEW p \in I, NEW j \in 1 .. Len(qs[p]), p # q \/ j # i
      PROVE  /\ NowAt(q, i, p, j) \in 1 .. Len(rs[p])
             /\ rs[p][NowAt(q, i, p, j)] = qs[p][j]
  <2>1. CASE p # q
    <3>1. NowAt(q, i, p, j) = j
      BY <2>1 DEF NowAt
    <3>2. QED
      BY <1>6, <2>1, <3>1
  <2>2. CASE p = q
    <3>1. j \in 1 .. l /\ j # i
      BY <1>2, <1>3, <1>9, <2>2
    <3>2. PICK k : k = NowAt(q, i, p, j)
      OBVIOUS
    <3>3. k = IF j > i THEN j - 1 ELSE j
      BY <2>2, <3>2 DEF NowAt
    <3>4. k \in 1 .. l - 1
      BY <1>4, <3>1, <3>3
    <3>5. b[k] = a[j]
      <4>1. CASE j > i
        <5>1. k \in i .. l - 1 /\ k + 1 = j
          BY <1>4, <3>1, <3>3, <4>1
        <5>2. QED
          BY <1>5, <5>1
      <4>2. CASE ~(j > i)
        <5>1. j \in 1 .. i - 1 /\ k = j
          BY <1>4, <3>1, <3>3, <4>2
        <5>2. QED
          BY <1>5, <5>1
      <4>3. QED
        BY <4>1, <4>2
    <3>6. QED
      BY <1>2, <1>5, <1>6, <2>2, <3>2, <3>4, <3>5
  <2>3. QED
    BY <2>1, <2>2
<1>10. QED
  BY <1>7, <1>8, <1>9 DEF Shortened

\* The queue of an address is one of the queues.
LEMMA QueueIndex == \A a \in Addresses : GetQueueIndex(a) \in 0 .. NumQueues - 1
<1>1. SUFFICES ASSUME NEW a \in Addresses PROVE GetQueueIndex(a) \in 0 .. NumQueues - 1
  OBVIOUS
<1>2. PICK R \in Nat, G \in Nat, B \in Nat : R = NumRanks /\ G = BankGroups /\ B = BanksPerGroup
  BY Given
<1>3. PICK r \in Nat, g \in Nat, b \in Nat : r = a.rank /\ g = a.group /\ b = a.bank
  BY ControllerAssumption DEF Ranks
<1>4. r < R /\ g < G /\ b < B
  BY <1>2, <1>3, ControllerAssumption DEF Ranks
<1>5. PICK M \in Nat : M = G * B
  BY <1>2
<1>6. g * B + B <= M /\ g * B \in Nat
  <2>1. (g + 1) * B <= G * B
    BY <1>4
  <2>2. QED
    BY <1>5, <2>1
<1>7. r * M + M <= R * M /\ r * M \in Nat /\ R * M \in Nat
  <2>1. (r + 1) * M <= R * M
    BY <1>4
  <2>2. QED
    BY <2>1
<1>8. PICK x \in Nat, y \in Nat, N \in Nat : x = r * M /\ y = g * B /\ N = R * M
  BY <1>6, <1>7
<1>9. x + y + b \in 0 .. N - 1
  BY <1>4, <1>6, <1>7, <1>8
<1>10. IndexOf(BankOf(a)) = x + y + b
  BY <1>2, <1>3, <1>5, <1>8 DEF IndexOf, BankOf
<1>11. NumRanks * BankGroups * BanksPerGroup = N
  <2>1. R * G * B = R * (G * B)
    OBVIOUS
  <2>2. QED
    BY <1>2, <1>5, <1>8, <2>1
<1>12. CASE config.perRank
  BY <1>2, <1>3, <1>4, <1>12 DEF GetQueueIndex, NumQueues
<1>13. CASE ~config.perRank
  BY <1>9, <1>10, <1>11, <1>13 DEF GetQueueIndex, NumQueues
<1>14. QED
  BY <1>12, <1>13

\* The command at i of queue q is issued, and what it stands for is no longer pending.
Served(s, u, q, i) ==
  LET c == s.queues[q][i]
  IN  /\ u = [f \in CtlFields |-> u[f]] /\ u.queueIdx \in Nat
      /\ u.waiting = s.waiting
      /\ u.queues = [s.queues EXCEPT ![q] = RemoveAt(@, i)]
      /\ u.pendRd = IF IsRead(c.type) THEN [s.pendRd EXCEPT ![c.addr] = 0] ELSE s.pendRd
      /\ u.pendWr = IF IsWrite(c.type) THEN s.pendWr \ {c.addr} ELSE s.pendWr

LEMMA ServedInv ==
  ASSUME NEW s, TransInv(s), NEW u, NEW q \in 0 .. NumQueues - 1,
         NEW i \in 1 .. Len(s.queues[q]), Served(s, u, q, i)
  PROVE  TransInv(u)
<1>1. PICK c : c = s.queues[q][i]
  OBVIOUS
<1>2. TransTypes(s) /\ PlacesInv(s) /\ OnceInv(s) /\ ReadFirstInv(s)
  BY DEF TransInv
<1>3. /\ u = [f \in CtlFields |-> u[f]] /\ u.queueIdx \in Nat
      /\ u.waiting = s.waiting
      /\ u.queues = [s.queues EXCEPT ![q] = RemoveAt(@, i)]
      /\ u.pendRd = IF IsRead(c.type) THEN [s.pendRd EXCEPT ![c.addr] = 0] ELSE s.pendRd
      /\ u.pendWr = IF IsWrite(c.type) THEN s.pendWr \ {c.addr} ELSE s.pendWr
  BY <1>1 DEF Served
<1>4. /\ s.queues \in [0 .. NumQueues - 1 -> Seq(Queued)]
      /\ s.waiting \in [Buffers -> Seq(Transactions)]
      /\ s.pendRd \in [Addresses -> Nat] /\ s.pendWr \in SUBSET Addresses
  BY <1>2 DEF TransTypes
<1>5. c \in Queued /\ c.addr \in Addresses /\ c.type \in Columns
  <2>1. s.queues[q] \in Seq(Queued)
    BY <1>4
  <2>2. c \in Queued
    BY <1>1, <2>1
  <2>3. QED
    BY <2>2 DEF Queued
<1>6. (IsRead(c.type) <=> ~IsWrite(c.type)) /\ q = GetQueueIndex(c.addr)
  BY <1>1, <1>2, <1>5, ColumnTypes DEF PlacesInv
<1>7. u.pendRd \in [Addresses -> Nat] /\ u.pendWr \in SUBSET Addresses
  <2>1. [s.pendRd EXCEPT ![c.addr] = 0] \in [Addresses -> Nat]
    BY <1>4
  <2>2. u.pendRd \in [Addresses -> Nat]
    BY <1>3, <1>4, <2>1, Zenon
  <2>3. QED
    BY <1>3, <1>4, <2>2
<1>8. ASSUME NEW a \in Addresses
      PROVE  /\ a # c.addr \/ IsWrite(c.type) => u.pendRd[a] = s.pendRd[a]
             /\ a # c.addr \/ IsRead(c.type) => (a \in u.pendWr <=> a \in s.pendWr)
             /\ u.pendRd[a] > 0 => /\ u.pendRd[a] = s.pendRd[a]
                                   /\ ~(a = c.addr /\ IsRead(c.type))
             /\ s.pendRd[a] = 0 => u.pendRd[a] = 0
  BY <1>3, <1>4, <1>5, <1>6
<1>9. /\ u.queues \in [0 .. NumQueues - 1 -> Seq(Queued)]
      /\ \A p \in 0 .. NumQueues - 1 : \A j \in 1 .. Len(u.queues[p]) :
           /\ WasAt(q, i, p, j) \in 1 .. Len(s.queues[p])
           /\ u.queues[p][j] = s.queues[p][WasAt(q, i, p, j)]
           /\ p = q => WasAt(q, i, p, j) # i
      /\ \A p \in 0 .. NumQueues - 1 : \A j \in 1 .. Len(s.queues[p]) :
           p # q \/ j # i => /\ NowAt(q, i, p, j) \in 1 .. Len(u.queues[p])
                             /\ u.queues[p][NowAt(q, i, p, j)] = s.queues[p][j]
  <2>1. PICK qs : qs = u.queues
    OBVIOUS
  <2>2. qs = [s.queues EXCEPT ![q] = RemoveAt(@, i)]
    BY <1>3, <2>1
  <2>3. qs \in [0 .. NumQueues - 1 -> Seq(Queued)]
    BY <1>4, <2>2, QueueShortened
  <2>4. Shortened(0 .. NumQueues - 1, s.queues, qs, q, i)
    BY <1>4, <2>2, QueueShortened
  <2>5. QED
    BY <2>1, <2>3, <2>4 DEF Shortened
<1>10. TransTypes(u)
  BY <1>3, <1>4, <1>7, <1>9 DEF TransTypes
\* The other commands and the transactions that wait stand for something else.
<1>11. ASSUME NEW p \in 0 .. NumQueues - 1, NEW j \in 1 .. Len(s.queues[p]), p # q \/ j # i,
              NEW d, d = s.queues[p][j]
       PROVE  /\ d \in Queued /\ d.addr \in Addresses /\ (IsRead(d.type) <=> ~IsWrite(d.type))
              /\ p = GetQueueIndex(d.addr)
              /\ d.addr = c.addr => (IsWrite(d.type) <=> ~IsWrite(c.type))
  <2>1. d \in Queued /\ d.addr \in Addresses /\ (IsRead(d.type) <=> ~IsWrite(d.type))
    <3>1. s.queues[p] \in Seq(Queued)
      BY <1>4
    <3>2. d \in Queued
      BY <1>11, <3>1
    <3>3. d.type \in Columns
      BY <3>2 DEF Queued
    <3>4. QED
      BY <3>2, <3>3, ColumnTypes DEF Queued
  <2>2. p = GetQueueIndex(d.addr)
    BY <1>2, <1>11 DEF PlacesInv
  <2>3. ASSUME d.addr = c.addr, ~(IsWrite(d.type) <=> ~IsWrite(c.type)) PROVE FALSE
    <3>1. p = q
      BY <1>6, <2>2, <2>3
    <3>2. SameTransaction(s.queues[q][j], s.queues[q][i])
      BY <1>1, <1>11, <2>3, <3>1 DEF SameTransaction
    <3>3. j = i
      BY <1>2, <3>1, <3>2 DEF OnceInv
    <3>4. QED
      BY <1>11, <3>1, <3>3
  <2>4. QED
    BY <2>1, <2>2, <2>3
<1>12. ASSUME NEW x \in Buffers, NEW j \in 1 .. Len(s.waiting[x]), NEW t, t = s.waiting[x][j]
       PROVE  /\ t.addr \in Addresses /\ t.write \in BOOLEAN
              /\ x = QueueFor(t.write)
              /\ IF t.write THEN t.addr \in s.pendWr ELSE s.pendRd[t.addr] > 0
              /\ t.addr = c.addr => (t.write <=> ~IsWrite(c.type))
  <2>1. t.addr \in Addresses /\ t.write \in BOOLEAN
    <3>1. s.waiting[x] \in Seq(Transactions)
      BY <1>4
    <3>2. t \in Transactions
      BY <1>12, <3>1
    <3>3. QED
      BY <3>2 DEF Transactions
  <2>2. x = QueueFor(t.write) /\ IF t.write THEN t.addr \in s.pendWr ELSE s.pendRd[t.addr] > 0
    BY <1>2, <1>12 DEF PlacesInv
  <2>3. t.addr = c.addr => t.write # IsWrite(c.type)
    BY <1>1, <1>2, <1>12 DEF OnceInv
  <2>4. IsWrite(c.type) \in BOOLEAN
    BY DEF IsWrite
  <2>5. QED
    BY <2>1, <2>2, <2>3, <2>4
<1>13. PlacesInv(u)
  <2>1. ASSUME NEW x \in Buffers, NEW j \in 1 .. Len(u.waiting[x]), NEW t, t = u.waiting[x][j]
        PROVE  /\ x = QueueFor(t.write)
               /\ IF t.write THEN t.addr \in u.pendWr ELSE u.pendRd[t.addr] > 0
    <3>1. /\ t.addr \in Addresses /\ t.write \in BOOLEAN /\ x = QueueFor(t.write)
          /\ IF t.write THEN t.addr \in s.pendWr ELSE s.pendRd[t.addr] > 0
          /\ t.addr = c.addr => (t.write <=> ~IsWrite(c.type))
      BY <1>3, <1>12, <2>1
    <3>2. QED
      BY <1>6, <1>8, <3>1
  <2>2. ASSUME NEW p \in 0 .. NumQueues - 1, NEW j \in 1 .. Len(u.queues[p]),
               NEW d, d = u.queues[p][j]
        PROVE  /\ p = GetQueueIndex(d.addr)
               /\ IF IsWrite(d.type) THEN d.addr \in u.pendWr ELSE u.pendRd[d.addr] > 0
    <3>1. PICK k \in 1 .. Len(s.queues[p]) : d = s.queues[p][k] /\ (p # q \/ k # i)
      BY <1>9, <2>2
    <3>2. /\ d.addr \in Addresses /\ p = GetQueueIndex(d.addr)
          /\ d.addr = c.addr => (IsWrite(d.type) <=> ~IsWrite(c.type))
      BY <1>11, <3>1
    <3>3. IF IsWrite(d.type) THEN d.addr \in s.pendWr ELSE s.pendRd[d.addr] > 0
      BY <1>2, <3>1 DEF PlacesInv
    <3>4. QED
      BY <1>6, <1>8, <3>2, <3>3
  <2>3. QED
    BY <2>1, <2>2 DEF PlacesInv
<1>14. OnceInv(u)
  <2>1. \A x \in Buffers : \A j, k \in 1 .. Len(u.waiting[x]) :
          u.waiting[x][j] = u.waiting[x][k] => j = k
    BY <1>2, <1>3 DEF OnceInv
  <2>2. ASSUME NEW p \in 0 .. NumQueues - 1,
               NEW j \in 1 .. Len(u.queues[p]), NEW k \in 1 .. Len(u.queues[p]),
               SameTransaction(u.queues[p][j], u.queues[p][k])
        PROVE  j = k
    <3>1. PICK v, w : v = WasAt(q, i, p, j) /\ w = WasAt(q, i, p, k)
      OBVIOUS
    <3>2. /\ v \in 1 .. Len(s.queues[p]) /\ w \in 1 .. Len(s.queues[p])
          /\ SameTransaction(s.queues[p][v], s.queues[p][w])
      BY <1>9, <2>2, <3>1
    <3>3. v = w
      BY <1>2, <3>2 DEF OnceInv
    <3>4. j \in Nat /\ k \in Nat /\ i \in Nat
      OBVIOUS
    <3>5. QED
      BY <3>1, <3>3, <3>4 DEF WasAt
  <2>3. ASSUME NEW x \in Buffers, NEW j \in 1 .. Len(u.waiting[x]),
               NEW p \in 0 .. NumQueues - 1, NEW k \in 1 .. Len(u.queues[p]),
               u.waiting[x][j].addr = u.queues[p][k].addr
        PROVE  u.waiting[x][j].write # IsWrite(u.queues[p][k].type)
    <3>1. PICK v \in 1 .. Len(s.queues[p]) : u.queues[p][k] = s.queues[p][v]
      BY <1>9
    <3>2. u.waiting[x][j] = s.waiting[x][j] /\ j \in 1 .. Len(s.waiting[x])
      BY <1>3
    <3>3. s.waiting[x][j].addr = s.queues[p][v].addr
      BY <2>3, <3>1, <3>2
    <3>4. s.waiting[x][j].write # IsWrite(s.queues[p][v].type)
      BY <1>2, <3>2, <3>3, OppositeDirections
    <3>5. QED
      BY <3>1, <3>2, <3>4
  <2>4. QED
    BY <2>1, <2>2, <2>3 DEF OnceInv
<1>15. ReadFirstInv(u)
  \* What makes a write wait is not what has been issued.
  <2>1. ASSUME NEW a \in Addresses, u.pendRd[a] > 0,
               NEW v, ReadQueued(s, a, v), v \in 0 .. Len(s.queues[GetQueueIndex(a)]),
               NEW p, p = GetQueueIndex(a)
        PROVE  \E k \in 1 .. v :
                 /\ ~(p = q /\ k = i)
                 /\ NowAt(q, i, p, k) \in 1 .. Len(u.queues[p])
                 /\ u.queues[p][NowAt(q, i, p, k)].addr = a
                 /\ IsRead(u.queues[p][NowAt(q, i, p, k)].type)
    <3>1. p = GetQueueIndex(a)
      BY <2>1
    <3>2. PICK k \in 1 .. v : s.queues[p][k].addr = a /\ IsRead(s.queues[p][k].type)
      BY <2>1, <3>1 DEF ReadQueued
    <3>3. ~(p = q /\ k = i)
      BY <1>1, <1>8, <2>1, <3>2
    <3>4. p \in 0 .. NumQueues - 1
      BY <3>1, QueueIndex
    <3>5. Len(s.queues[p]) \in Nat
      BY <1>4, <3>4
    <3>6. k \in 1 .. Len(s.queues[p])
      BY <2>1, <3>1, <3>5
    <3>7. /\ NowAt(q, i, p, k) \in 1 .. Len(u.queues[p])
          /\ u.queues[p][NowAt(q, i, p, k)] = s.queues[p][k]
      BY <1>9, <3>3, <3>4, <3>6
    <3>8. QED
      BY <3>1, <3>2, <3>3, <3>7
  <2>2. ASSUME NEW a \in Addresses, u.pendRd[a] > 0,
               ReadQueued(s, a, Len(s.queues[GetQueueIndex(a)]))
        PROVE  ReadQueued(u, a, Len(u.queues[GetQueueIndex(a)]))
    <3>1. Len(s.queues[GetQueueIndex(a)]) \in Nat
      BY <1>4, QueueIndex
    <3>2. Len(s.queues[GetQueueIndex(a)]) \in 0 .. Len(s.queues[GetQueueIndex(a)])
      BY <3>1
    <3>3. \E w \in 1 .. Len(u.queues[GetQueueIndex(a)]) :
            u.queues[GetQueueIndex(a)][w].addr = a
            /\ IsRead(u.queues[GetQueueIndex(a)][w].type)
      BY <2>1, <2>2, <3>2
    <3>4. QED
      BY <3>3 DEF ReadQueued
  <2>3. \A a, n : ReadWaits(u, a, n) <=> ReadWaits(s, a, n)
    BY <1>3 DEF ReadWaits
  <2>4. CASE config.unified
    <3>1. ASSUME NEW a \in Addresses, u.pendRd[a] > 0
          PROVE  \/ ReadWaits(u, a, Len(u.waiting["unified"]))
                 \/ ReadQueued(u, a, Len(u.queues[GetQueueIndex(a)]))
      <4>1. s.pendRd[a] > 0
        BY <1>8, <3>1
      <4>2. \/ ReadWaits(s, a, Len(s.waiting["unified"]))
            \/ ReadQueued(s, a, Len(s.queues[GetQueueIndex(a)]))
        BY <1>2, <2>4, <4>1 DEF ReadFirstInv
      <4>3. QED
        BY <1>3, <2>2, <2>3, <3>1, <4>2
    <3>2. ASSUME NEW j \in 1 .. Len(u.waiting["unified"]), NEW t, t = u.waiting["unified"][j],
                 t.write, u.pendRd[t.addr] > 0
          PROVE  \/ ReadWaits(u, t.addr, j - 1)
                 \/ ReadQueued(u, t.addr, Len(u.queues[GetQueueIndex(t.addr)]))
      <4>1. t = s.waiting["unified"][j] /\ j \in 1 .. Len(s.waiting["unified"])
        BY <1>3, <3>2
      <4>2. "unified" \in Buffers
        BY DEF Buffers
      <4>3. t.addr \in Addresses
        BY <1>12, <4>1, <4>2
      <4>4. s.pendRd[t.addr] > 0
        BY <1>8, <3>2, <4>3
      <4>5. \/ ReadWaits(s, t.addr, j - 1)
            \/ ReadQueued(s, t.addr, Len(s.queues[GetQueueIndex(t.addr)]))
        BY <1>2, <2>4, <3>2, <4>1, <4>4 DEF ReadFirstInv
      <4>6. QED
        BY <2>2, <2>3, <3>2, <4>3, <4>5
    <3>3. ASSUME NEW p \in 0 .. NumQueues - 1, NEW j \in 1 .. Len(u.queues[p]),
                 NEW d, d = u.queues[p][j], IsWrite(d.type), u.pendRd[d.addr] > 0
          PROVE  ReadQueued(u, d.addr, j - 1)
      <4>1. PICK o : o = WasAt(q, i, p, j)
        OBVIOUS
      <4>2. /\ o \in 1 .. Len(s.queues[p]) /\ d = s.queues[p][o] /\ (p # q \/ o # i)
        BY <1>9, <3>3, <4>1
      <4>3. d.addr \in Addresses /\ p = GetQueueIndex(d.addr)
        BY <1>11, <4>2
      <4>4. s.pendRd[d.addr] > 0
        BY <1>8, <3>3, <4>3
      <4>5. ReadQueued(s, d.addr, o - 1)
        BY <1>2, <2>4, <3>3, <4>2, <4>4 DEF ReadFirstInv
      <4>6. o - 1 \in 0 .. Len(s.queues[p])
        BY <1>4, <4>2
      <4>7. PICK k \in 1 .. o - 1 :
                 /\ ~(p = q /\ k = i)
                 /\ NowAt(q, i, p, k) \in 1 .. Len(u.queues[p])
                 /\ u.queues[p][NowAt(q, i, p, k)].addr = d.addr
                 /\ IsRead(u.queues[p][NowAt(q, i, p, k)].type)
        <5>1. PICK a \in Addresses : a = d.addr
          BY <4>3
        <5>2. u.pendRd[a] > 0 /\ p = GetQueueIndex(a) /\ ReadQueued(s, a, o - 1)
          BY <3>3, <4>3, <4>5, <5>1
        <5>3. QED
          BY <2>1, <4>3, <4>6, <5>1, <5>2
      <4>8. PICK w : w = NowAt(q, i, p, k)
        OBVIOUS
      <4>9. w \in 1 .. j - 1
        <5>1. /\ w = IF p = q /\ k > i THEN k - 1 ELSE k
              /\ o = IF p = q /\ j >= i THEN j + 1 ELSE j
          BY <4>1, <4>8 DEF NowAt, WasAt
        <5>2. i \in Nat \ {0} /\ j \in Nat \ {0} /\ k \in Nat \ {0} /\ k < o
          BY <4>2
        <5>3. ~(p = q /\ k = i)
          BY <4>7
        <5>4. QED
          BY <5>1, <5>2, <5>3
      <4>10. QED
        BY <4>3, <4>7, <4>8, <4>9 DEF ReadQueued
    <3>4. QED
      BY <2>4, <3>1, <3>2, <3>3 DEF ReadFirstInv
  <2>5. CASE ~config.unified
    <3>1. ASSUME NEW p \in 0 .. NumQueues - 1, NEW j \in 1 .. Len(u.queues[p]),
                 NEW d, d = u.queues[p][j], IsWrite(d.type)
          PROVE  u.pendRd[d.addr] = 0
      <4>1. PICK o \in 1 .. Len(s.queues[p]) : d = s.queues[p][o] /\ (p # q \/ o # i)
        BY <1>9, <3>1
      <4>2. s.pendRd[d.addr] = 0 /\ d.addr \in Addresses
        BY <1>2, <1>11, <2>5, <3>1, <4>1 DEF ReadFirstInv
      <4>3. QED
        BY <1>8, <4>2
    <3>2. QED
      BY <2>5, <3>1 DEF ReadFirstInv
  <2>6. QED
    BY <2>4, <2>5
<1>16. QED
  BY <1>10, <1>13, <1>14, <1>15 DEF TransInv

\* The writes that are no longer pending had no read before them.
OldDataRead(s, u) == \A a \in s.pendWr \ u.pendWr : s.pendRd[a] = 0

\* What issuing the chosen command means for the transactions.
LEMMA CommandServed ==
  ASSUME NEW s, TransInv(s), s.aborted = FALSE,
         NEW n, SameState(s, n.s), NEW q \in 0 .. NumQueues - 1, NEW i \in 1 .. Len(s.queues[q]),
         Serves(s, n, q, i), LegalCommand(n.s.banks, n.cmd),
         NEW u, u = IssueCommand(n.s, n.cmd)
  PROVE  /\ Served(s, u, q, i) /\ u.aborted = FALSE
         /\ u.banks = UpdateTimingAndStates(s.banks, n.cmd)
         /\ OldDataRead(s, u)
<1>1. PICK c : c = s.queues[q][i]
  OBVIOUS
<1>2. TransTypes(s) /\ PlacesInv(s) /\ OnceInv(s) /\ ReadFirstInv(s)
  BY DEF TransInv
<1>3. /\ s.queues \in [0 .. NumQueues - 1 -> Seq(Queued)]
      /\ s.pendRd \in [Addresses -> Nat] /\ s.pendWr \in SUBSET Addresses
  BY <1>2 DEF TransTypes
<1>4. c \in Queued /\ c.addr \in Addresses /\ c.type \in Columns
  <2>1. s.queues[q] \in Seq(Queued)
    BY <1>3
  <2>2. c \in Queued
    BY <1>1, <2>1
  <2>3. QED
    BY <2>2 DEF Queued
<1>5. /\ q = GetQueueIndex(c.addr) /\ (IsRead(c.type) <=> ~IsWrite(c.type))
      /\ IF IsWrite(c.type) THEN c.addr \in s.pendWr ELSE s.pendRd[c.addr] > 0
  BY <1>1, <1>2, <1>4, ColumnTypes DEF PlacesInv
<1>6. n.cmd = c /\ c.type # "REFRESH"
  BY <1>1, <1>4, ColumnTypes DEF Serves
<1>7. RemoveFirst(s.queues[q], c) = RemoveAt(s.queues[q], i)
  <2>1. ASSUME NEW j \in 1 .. Len(s.queues[q]), s.queues[q][j] = c PROVE j = i
    <3>1. SameTransaction(s.queues[q][j], s.queues[q][i])
      BY <1>1, <2>1 DEF SameTransaction
    <3>2. QED
      BY <1>2, <3>1 DEF OnceInv
  <2>2. s.queues[q] \in Seq(Queued)
    BY <1>3
  <2>3. QED
    BY <1>1, <2>1, <2>2, FirstRemoved
<1>8. /\ n.s = [f \in CtlFields |-> n.s[f]] /\ n.s.queueIdx \in Nat
      /\ n.s.banks = s.banks /\ n.s.waiting = s.waiting /\ n.s.aborted = FALSE
      /\ n.s.pendRd = s.pendRd /\ n.s.pendWr = s.pendWr
      /\ n.s.queues = [s.queues EXCEPT ![q] = RemoveAt(@, i)]
  <2>1. n.s.queues = [s.queues EXCEPT ![q] = RemoveFirst(@, c)]
    BY <1>6 DEF Serves
  <2>2. n.s.queues = [s.queues EXCEPT ![q] = RemoveAt(@, i)]
    BY <1>3, <1>7, <2>1
  <2>3. QED
    BY <2>2 DEF SameState
<1>9. PICK r : /\ r = IF IsRead(c.type) THEN ReadIssued(n.s, c.addr) ELSE WriteIssued(n.s, c.addr)
               /\ u = [r EXCEPT !.banks = UpdateTimingAndStates(@, c),
                                !.faw = UpdateActivationTimes(@, c),
                                !.refreshQ = @]
  BY <1>5, <1>6 DEF IssueCommand
<1>10. CASE IsRead(c.type)
  <2>1. /\ r = [f \in CtlFields |-> r[f]] /\ r.queueIdx = n.s.queueIdx
        /\ r.banks = n.s.banks /\ r.waiting = n.s.waiting /\ r.queues = n.s.queues
        /\ r.pendRd = [n.s.pendRd EXCEPT ![c.addr] = 0] /\ r.pendWr = n.s.pendWr
        /\ r.aborted = (n.s.aborted \/ n.s.pendRd[c.addr] = 0)
    BY <1>8, <1>9, <1>10 DEF ReadIssued, CtlFields
  <2>2. r.aborted = FALSE
    <3>1. n.s.pendRd[c.addr] # 0
      BY <1>3, <1>4, <1>5, <1>8, <1>10
    <3>2. n.s.aborted = FALSE
      BY <1>8
    <3>3. QED
      BY <2>1, <3>1, <3>2, Zenon
  <2>3. /\ u = [f \in CtlFields |-> u[f]] /\ u.queueIdx = r.queueIdx /\ u.waiting = r.waiting
        /\ u.queues = r.queues /\ u.pendRd = r.pendRd /\ u.pendWr = r.pendWr
        /\ u.aborted = r.aborted /\ u.banks = UpdateTimingAndStates(r.banks, c)
    BY <1>9, <2>1 DEF CtlFields
  <2>4. Served(s, u, q, i)
    BY <1>1, <1>5, <1>8, <1>10, <2>1, <2>3 DEF Served
  <2>5. QED
    BY <1>6, <1>8, <2>1, <2>2, <2>3, <2>4 DEF OldDataRead
<1>11. CASE ~IsRead(c.type)
  <2>1. /\ r = [f \in CtlFields |-> r[f]] /\ r.queueIdx = n.s.queueIdx
        /\ r.banks = n.s.banks /\ r.waiting = n.s.waiting /\ r.queues = n.s.queues
        /\ r.pendRd = n.s.pendRd /\ r.pendWr = n.s.pendWr \ {c.addr}
        /\ r.aborted = (n.s.aborted \/ c.addr \notin n.s.pendWr)
    BY <1>8, <1>9, <1>11 DEF WriteIssued, CtlFields
  <2>2. r.aborted = FALSE
    BY <1>5, <1>8, <1>11, <2>1
  <2>3. /\ u = [f \in CtlFields |-> u[f]] /\ u.queueIdx = r.queueIdx /\ u.waiting = r.waiting
        /\ u.queues = r.queues /\ u.pendRd = r.pendRd /\ u.pendWr = r.pendWr
        /\ u.aborted = r.aborted /\ u.banks = UpdateTimingAndStates(r.banks, c)
    BY <1>9, <2>1 DEF CtlFields
  <2>4. Served(s, u, q, i)
    BY <1>1, <1>5, <1>8, <1>11, <2>1, <2>3 DEF Served
  <2>5. s.pendRd[c.addr] = 0
    <3>1. CASE config.unified /\ s.pendRd[c.addr] > 0
      <4>1. ReadQueued(s, c.addr, i - 1)
        BY <1>1, <1>2, <1>5, <1>11, <3>1 DEF ReadFirstInv
      <4>2. PICK j \in 1 .. i - 1 : s.queues[q][j].addr = c.addr /\ IsRead(s.queues[q][j].type)
        BY <1>5, <4>1 DEF ReadQueued
      <4>3. HasRWDependency(s.queues[q], i)
        BY <1>1, <4>2 DEF HasRWDependency
      <4>4. QED
        BY <1>5, <1>6, <1>11, <4>3 DEF Serves
    <3>2. CASE ~config.unified
      BY <1>1, <1>2, <1>5, <1>11, <3>2 DEF ReadFirstInv
    <3>3. QED
      BY <1>3, <1>4, <3>1, <3>2
  <2>6. OldDataRead(s, u)
    BY <1>8, <2>1, <2>3, <2>5 DEF OldDataRead
  <2>7. QED
    BY <1>6, <1>8, <2>1, <2>2, <2>3, <2>4, <2>6
<1>12. QED
  BY <1>10, <1>11

LEMMA CommandIssued ==
  ASSUME NEW s, TransInv(s), s.aborted = FALSE, NEW n, Chooses(s, n), NEW u, u = Issued(n)
  PROVE  /\ TransInv(u) /\ u.aborted = FALSE
         /\ u.banks = IF n.cmd = NoCommand THEN s.banks
                      ELSE UpdateTimingAndStates(s.banks, n.cmd)
         /\ OldDataRead(s, u)
<1>1. /\ SameState(s, n.s)
      /\ n.cmd # NoCommand => LegalCommand(n.s.banks, n.cmd)
  BY ChosenIsLegal DEF Chooses
<1>2. CASE ChoosesNone(s, n)
  <2>1. u = n.s
    BY <1>2 DEF ChoosesNone, Issued
  <2>2. SameTrans(s, u)
    BY <1>1, <1>2, <2>1 DEF SameState, SameTrans, ChoosesNone
  <2>3. QED
    BY <1>1, <1>2, <2>1, <2>2, TransKept DEF SameState, ChoosesNone, OldDataRead
<1>3. CASE ChoosesRefresh(s, n) \/ ChoosesRow(s, n)
  <2>1. /\ n.cmd # NoCommand /\ n.s.queues = s.queues
        /\ ~IsRead(n.cmd.type) /\ ~IsWrite(n.cmd.type)
    BY <1>3 DEF ChoosesRefresh, ChoosesRow, IsRead, IsWrite
  <2>2. PICK x, y : u = [n.s EXCEPT !.banks = UpdateTimingAndStates(n.s.banks, n.cmd),
                                    !.faw = x, !.refreshQ = y]
    BY <1>1, <2>1 DEF Issued, IssueCommand
  <2>3. /\ u = [f \in CtlFields |-> u[f]] /\ u.queueIdx = n.s.queueIdx
        /\ u.waiting = n.s.waiting /\ u.queues = n.s.queues
        /\ u.pendRd = n.s.pendRd /\ u.pendWr = n.s.pendWr /\ u.aborted = n.s.aborted
        /\ u.banks = UpdateTimingAndStates(n.s.banks, n.cmd)
    <3>1. n.s = [f \in CtlFields |-> n.s[f]]
      BY <1>1 DEF SameState
    <3>2. QED
      BY <2>2, <3>1 DEF CtlFields
  <2>4. SameTrans(s, u)
    BY <1>1, <2>1, <2>3 DEF SameState, SameTrans
  <2>5. QED
    BY <1>1, <2>1, <2>3, <2>4, TransKept DEF SameState, OldDataRead
<1>4. CASE ChoosesColumn(s, n)
  <2>1. PICK q \in 0 .. NumQueues - 1 : \E i \in 1 .. Len(s.queues[q]) : Serves(s, n, q, i)
    BY <1>4 DEF ChoosesColumn
  <2>2. PICK i \in 1 .. Len(s.queues[q]) : Serves(s, n, q, i)
    BY <2>1
  <2>3. n.cmd # NoCommand /\ u = IssueCommand(n.s, n.cmd)
    BY <2>2 DEF Serves, Issued
  <2>4. Served(s, u, q, i)
    BY <1>1, <2>2, <2>3, CommandServed
  <2>5. u.aborted = FALSE /\ u.banks = UpdateTimingAndStates(s.banks, n.cmd)
    BY <1>1, <2>2, <2>3, CommandServed
  <2>6. OldDataRead(s, u)
    BY <1>1, <2>2, <2>3, CommandServed
  <2>7. TransInv(u)
    BY <2>4, ServedInv
  <2>8. QED
    BY <2>3, <2>5, <2>6, <2>7
<1>5. QED
  BY <1>2, <1>3, <1>4 DEF Chooses

(***************************************************************************)
(* A transaction is scheduled.                                             *)
(***************************************************************************)
\* The transaction at i of buffer x becomes the last command of its queue.  It is
\* the first of its address in the buffer.
Scheduled(s, u, x, i) ==
  LET t == s.waiting[x][i]
  IN  /\ u = [f \in CtlFields |-> u[f]] /\ u.queueIdx \in Nat
      /\ u.pendRd = s.pendRd /\ u.pendWr = s.pendWr
      /\ u.queues = [s.queues EXCEPT ![GetQueueIndex(t.addr)] = Append(@, TransToCommand(t))]
      /\ u.waiting = [s.waiting EXCEPT ![x] = RemoveAt(@, i)]
      /\ ~Held(s, t)
      /\ \A k \in 1 .. i - 1 : s.waiting[x][k].addr # t.addr

LEMMA TransCommand ==
  ASSUME NEW t \in Transactions
  PROVE  /\ TransToCommand(t) \in Queued /\ TransToCommand(t).addr = t.addr
         /\ IsWrite(TransToCommand(t).type) <=> t.write
<1>1. t.addr \in Addresses /\ t.write \in BOOLEAN
  BY DEF Transactions
<1>2. CASE t.write /\ config.closePage
  BY <1>1, <1>2 DEF TransToCommand, Command, Queued, Columns, IsWrite
<1>3. CASE t.write /\ ~config.closePage
  BY <1>1, <1>3 DEF TransToCommand, Command, Queued, Columns, IsWrite
<1>4. CASE ~t.write /\ config.closePage
  BY <1>1, <1>4 DEF TransToCommand, Command, Queued, Columns, IsWrite
<1>5. CASE ~t.write /\ ~config.closePage
  BY <1>1, <1>5 DEF TransToCommand, Command, Queued, Columns, IsWrite
<1>6. QED
  BY <1>1, <1>2, <1>3, <1>4, <1>5

\* The queues with the command c at the end of queue q.
Extended(I, qs, rs, q, c) ==
  /\ \A p \in I : \A j \in 1 .. Len(rs[p]) :
       \/ j \in 1 .. Len(qs[p]) /\ rs[p][j] = qs[p][j]
       \/ p = q /\ j = Len(qs[p]) + 1 /\ rs[p][j] = c
  /\ \A p \in I : \A j \in 1 .. Len(qs[p]) :
       j \in 1 .. Len(rs[p]) /\ rs[p][j] = qs[p][j]
  /\ Len(qs[q]) + 1 \in 1 .. Len(rs[q]) /\ rs[q][Len(qs[q]) + 1] = c

Appends(I, S, qs, rs, q, c) ==
  /\ qs \in [I -> Seq(S)] /\ q \in I /\ c \in S
  /\ rs = [qs EXCEPT ![q] = Append(@, c)]

LEMMA QueueExtended ==
  ASSUME NEW I, NEW S, NEW qs, NEW rs, NEW q, NEW c, Appends(I, S, qs, rs, q, c)
  PROVE  rs \in [I -> Seq(S)] /\ Extended(I, qs, rs, q, c)
<1> SUFFICES ASSUME NEW ps \in [I -> Seq(S)], NEW i \in I, NEW d \in S, NEW us,
                    ps = qs, i = q, d = c, us = rs, us = [ps EXCEPT ![i] = Append(@, d)]
             PROVE  us \in [I -> Seq(S)] /\ Extended(I, ps, us, i, d)
  BY DEF Appends
<1>1. PICK a, b : a = ps[i] /\ b = Append(ps[i], d)
  OBVIOUS
<1>2. a \in Seq(S)
  BY <1>1
<1>3. PICK l \in Nat : l = Len(a)
  BY <1>2
<1>4. /\ b \in Seq(S) /\ Len(b) = l + 1 /\ b[l + 1] = d
      /\ \A j \in 1 .. l : b[j] = a[j]
  BY <1>1, <1>2, <1>3
<1>5. us[i] = b /\ \A p \in I : p # i => us[p] = ps[p]
  BY <1>1
<1>6. us \in [I -> Seq(S)]
  BY <1>1, <1>4
<1>7. ASSUME NEW p \in I, NEW j \in 1 .. Len(us[p])
      PROVE  \/ j \in 1 .. Len(ps[p]) /\ us[p][j] = ps[p][j]
             \/ p = i /\ j = Len(ps[p]) + 1 /\ us[p][j] = d
  <2>1. CASE p # i
    BY <1>5, <2>1
  <2>2. CASE p = i
    <3>1. j \in 1 .. l + 1
      BY <1>4, <1>5, <2>2
    <3>2. j \in 1 .. l \/ j = l + 1
      BY <3>1
    <3>3. QED
      BY <1>1, <1>3, <1>4, <1>5, <2>2, <3>2
  <2>3. QED
    BY <2>1, <2>2
<1>8. ASSUME NEW p \in I, NEW j \in 1 .. Len(ps[p])
      PROVE  j \in 1 .. Len(us[p]) /\ us[p][j] = ps[p][j]
  <2>1. CASE p # i
    BY <1>5, <2>1
  <2>2. CASE p = i
    <3>1. j \in 1 .. l
      BY <1>1, <1>3, <2>2
    <3>2. j \in 1 .. l + 1
      BY <3>1
    <3>3. QED
      BY <1>1, <1>3, <1>4, <1>5, <2>2, <3>1, <3>2
  <2>3. QED
    BY <2>1, <2>2
<1>9. Len(ps[i]) + 1 \in 1 .. Len(us[i]) /\ us[i][Len(ps[i]) + 1] = d
  BY <1>1, <1>3, <1>4, <1>5
<1>10. QED
  BY <1>6, <1>7, <1>8, <1>9 DEF Extended

LEMMA ScheduledInv ==
  ASSUME NEW s, TransInv(s), NEW u, NEW x \in Buffers, NEW i \in 1 .. Len(s.waiting[x]),
         Scheduled(s, u, x, i)
  PROVE  TransInv(u)
<1>1. PICK t, c, q : /\ t = s.waiting[x][i] /\ c = TransToCommand(t)
                     /\ q = GetQueueIndex(t.addr)
  OBVIOUS
<1>2. TransTypes(s) /\ PlacesInv(s) /\ OnceInv(s) /\ ReadFirstInv(s)
  BY DEF TransInv
<1>3. /\ u = [f \in CtlFields |-> u[f]] /\ u.queueIdx \in Nat
      /\ u.pendRd = s.pendRd /\ u.pendWr = s.pendWr
      /\ u.queues = [s.queues EXCEPT ![q] = Append(@, c)]
      /\ u.waiting = [s.waiting EXCEPT ![x] = RemoveAt(@, i)]
      /\ ~Held(s, t)
      /\ \A k \in 1 .. i - 1 : s.waiting[x][k].addr # t.addr
  BY <1>1 DEF Scheduled
<1>4. /\ s.queues \in [0 .. NumQueues - 1 -> Seq(Queued)]
      /\ s.waiting \in [Buffers -> Seq(Transactions)]
      /\ s.pendRd \in [Addresses -> Nat] /\ s.pendWr \in SUBSET Addresses
  BY <1>2 DEF TransTypes
<1>5. ASSUME NEW y \in Buffers, NEW j \in 1 .. Len(s.waiting[y]), NEW v, v = s.waiting[y][j]
      PROVE  /\ v \in Transactions /\ v.addr \in Addresses /\ v.write \in BOOLEAN
             /\ v = [addr |-> v.addr, write |-> v.write]
             /\ y = QueueFor(v.write)
             /\ IF v.write THEN v.addr \in s.pendWr ELSE s.pendRd[v.addr] > 0
  <2>1. s.waiting[y] \in Seq(Transactions)
    BY <1>4
  <2>2. v \in Transactions
    BY <1>5, <2>1
  <2>3. v.addr \in Addresses /\ v.write \in BOOLEAN /\ v = [addr |-> v.addr, write |-> v.write]
    BY <2>2 DEF Transactions
  <2>4. y = QueueFor(v.write) /\ IF v.write THEN v.addr \in s.pendWr ELSE s.pendRd[v.addr] > 0
    BY <1>2, <1>5 DEF PlacesInv
  <2>5. QED
    BY <2>2, <2>3, <2>4
<1>6. /\ t \in Transactions /\ t.addr \in Addresses /\ t.write \in BOOLEAN
      /\ t = [addr |-> t.addr, write |-> t.write] /\ x = QueueFor(t.write)
      /\ IF t.write THEN t.addr \in s.pendWr ELSE s.pendRd[t.addr] > 0
  BY <1>1, <1>5
<1>7. c \in Queued /\ c.addr = t.addr /\ (IsWrite(c.type) <=> t.write)
  BY <1>1, <1>6, TransCommand
<1>8. (IsRead(c.type) <=> ~t.write) /\ q \in 0 .. NumQueues - 1 /\ q = GetQueueIndex(c.addr)
  BY <1>1, <1>6, <1>7, ColumnTypes, QueueIndex DEF Queued
<1>9. /\ u.queues \in [0 .. NumQueues - 1 -> Seq(Queued)]
      /\ Extended(0 .. NumQueues - 1, s.queues, u.queues, q, c)
  <2>1. PICK qs \in [0 .. NumQueues - 1 -> Seq(Queued)] : qs = s.queues
    BY <1>4
  <2>2. u.queues = [qs EXCEPT ![q] = Append(@, c)]
    BY <1>3, <2>1
  <2>3. Appends(0 .. NumQueues - 1, Queued, qs, u.queues, q, c)
    BY <1>7, <1>8, <2>2 DEF Appends
  <2>4. QED
    BY <2>1, <2>3, QueueExtended
<1>10. /\ u.waiting \in [Buffers -> Seq(Transactions)]
       /\ Shortened(Buffers, s.waiting, u.waiting, x, i)
  BY <1>3, <1>4, QueueShortened
<1>11. TransTypes(u)
  BY <1>3, <1>4, <1>9, <1>10 DEF TransTypes
<1>12. \A p \in 0 .. NumQueues - 1 : \A j \in 1 .. Len(u.queues[p]) :
         \/ j \in 1 .. Len(s.queues[p]) /\ u.queues[p][j] = s.queues[p][j]
         \/ p = q /\ j = Len(s.queues[p]) + 1 /\ u.queues[p][j] = c
  BY <1>9 DEF Extended
<1>13. ASSUME NEW y \in Buffers, NEW j \in 1 .. Len(u.waiting[y])
       PROVE  /\ WasAt(x, i, y, j) \in 1 .. Len(s.waiting[y])
              /\ u.waiting[y][j] = s.waiting[y][WasAt(x, i, y, j)]
              /\ y = x => WasAt(x, i, y, j) # i
  BY <1>10 DEF Shortened
<1>14. PlacesInv(u)
  <2>1. ASSUME NEW y \in Buffers, NEW j \in 1 .. Len(u.waiting[y]), NEW v, v = u.waiting[y][j]
        PROVE  /\ y = QueueFor(v.write)
               /\ IF v.write THEN v.addr \in u.pendWr ELSE u.pendRd[v.addr] > 0
    <3>1. PICK o \in 1 .. Len(s.waiting[y]) : v = s.waiting[y][o]
      BY <1>13, <2>1
    <3>2. QED
      BY <1>3, <1>5, <3>1
  <2>2. ASSUME NEW p \in 0 .. NumQueues - 1, NEW j \in 1 .. Len(u.queues[p]),
               NEW d, d = u.queues[p][j]
        PROVE  /\ p = GetQueueIndex(d.addr)
               /\ IF IsWrite(d.type) THEN d.addr \in u.pendWr ELSE u.pendRd[d.addr] > 0
    <3>1. CASE j \in 1 .. Len(s.queues[p]) /\ d = s.queues[p][j]
      BY <1>2, <1>3, <3>1 DEF PlacesInv
    <3>2. CASE p = q /\ d = c
      BY <1>3, <1>6, <1>7, <1>8, <3>2
    <3>3. QED
      BY <1>12, <2>2, <3>1, <3>2
  <2>3. QED
    BY <2>1, <2>2 DEF PlacesInv
<1>15. OnceInv(u)
  <2>1. ASSUME NEW y \in Buffers, NEW j \in 1 .. Len(u.waiting[y]), NEW k \in 1 .. Len(u.waiting[y]),
               u.waiting[y][j] = u.waiting[y][k]
        PROVE  j = k
    <3>1. PICK v, w : v = WasAt(x, i, y, j) /\ w = WasAt(x, i, y, k)
      OBVIOUS
    <3>2. /\ v \in 1 .. Len(s.waiting[y]) /\ w \in 1 .. Len(s.waiting[y])
          /\ s.waiting[y][v] = s.waiting[y][w]
      BY <1>13, <2>1, <3>1
    <3>3. v = w
      BY <1>2, <3>2 DEF OnceInv
    <3>4. j \in Nat /\ k \in Nat /\ i \in Nat
      OBVIOUS
    <3>5. QED
      BY <3>1, <3>3, <3>4 DEF WasAt
  \* What waits stands for something else than the command that is scheduled.
  <2>2. ASSUME NEW y \in Buffers, NEW o \in 1 .. Len(s.waiting[y]), ~(y = x /\ o = i),
               s.waiting[y][o].addr = t.addr
        PROVE  s.waiting[y][o].write = ~t.write
    <3>1. PICK v : v = s.waiting[y][o]
      OBVIOUS
    <3>2. ASSUME v.write = t.write PROVE FALSE
      <4>1. /\ v = [addr |-> v.addr, write |-> v.write] /\ y = QueueFor(v.write)
        BY <1>5, <3>1
      <4>2. v = t /\ y = x
        BY <1>6, <2>2, <3>1, <3>2, <4>1
      <4>3. o = i
        BY <1>1, <1>2, <3>1, <4>2 DEF OnceInv
      <4>4. QED
        BY <2>2, <4>2, <4>3
    <3>3. v.write \in BOOLEAN
      BY <1>5, <3>1
    <3>4. QED
      BY <1>6, <3>1, <3>2, <3>3
  <2>3. ASSUME NEW p \in 0 .. NumQueues - 1,
               NEW j \in 1 .. Len(u.queues[p]), NEW k \in 1 .. Len(u.queues[p]),
               SameTransaction(u.queues[p][j], u.queues[p][k])
        PROVE  j = k
    <3>1. ASSUME NEW m \in 1 .. Len(s.queues[q]), SameTransaction(s.queues[q][m], c)
          PROVE  FALSE
      <4>1. t.addr = s.queues[q][m].addr /\ (t.write <=> IsWrite(s.queues[q][m].type))
        BY <1>7, <3>1 DEF SameTransaction
      <4>2. t.write # IsWrite(s.queues[q][m].type)
        <5>1. s.waiting[x][i].addr = s.queues[q][m].addr
          BY <1>1, <4>1
        <5>2. s.waiting[x][i].write # IsWrite(s.queues[q][m].type)
          BY <1>2, <1>8, <5>1, OppositeDirections
        <5>3. QED
          BY <1>1, <5>2
      <4>3. IsWrite(s.queues[q][m].type) \in BOOLEAN
        BY DEF IsWrite
      <4>4. QED
        BY <1>6, <4>1, <4>2, <4>3
    <3>2. /\ \/ j \in 1 .. Len(s.queues[p]) /\ u.queues[p][j] = s.queues[p][j]
             \/ p = q /\ j = Len(s.queues[p]) + 1 /\ u.queues[p][j] = c
          /\ \/ k \in 1 .. Len(s.queues[p]) /\ u.queues[p][k] = s.queues[p][k]
             \/ p = q /\ k = Len(s.queues[p]) + 1 /\ u.queues[p][k] = c
      BY <1>12
    <3>3. CASE j \in 1 .. Len(s.queues[p]) /\ u.queues[p][j] = s.queues[p][j]
               /\ k \in 1 .. Len(s.queues[p]) /\ u.queues[p][k] = s.queues[p][k]
      BY <1>2, <2>3, <3>3 DEF OnceInv
    <3>4. CASE p = q /\ u.queues[p][j] = c
               /\ k \in 1 .. Len(s.queues[p]) /\ u.queues[p][k] = s.queues[p][k]
      <4>1. SameTransaction(s.queues[q][k], c)
        BY <2>3, <3>4 DEF SameTransaction
      <4>2. QED
        BY <3>1, <3>4, <4>1
    <3>5. CASE p = q /\ u.queues[p][k] = c
               /\ j \in 1 .. Len(s.queues[p]) /\ u.queues[p][j] = s.queues[p][j]
      <4>1. SameTransaction(s.queues[q][j], c)
        BY <2>3, <3>5 DEF SameTransaction
      <4>2. QED
        BY <3>1, <3>5, <4>1
    <3>6. QED
      BY <3>2, <3>3, <3>4, <3>5
  <2>4. ASSUME NEW y \in Buffers, NEW j \in 1 .. Len(u.waiting[y]),
               NEW p \in 0 .. NumQueues - 1, NEW k \in 1 .. Len(u.queues[p]),
               u.waiting[y][j].addr = u.queues[p][k].addr
        PROVE  u.waiting[y][j].write # IsWrite(u.queues[p][k].type)
    <3>1. PICK o \in 1 .. Len(s.waiting[y]) :
            u.waiting[y][j] = s.waiting[y][o] /\ ~(y = x /\ o = i)
      BY <1>13
    <3>2. CASE k \in 1 .. Len(s.queues[p]) /\ u.queues[p][k] = s.queues[p][k]
      <4>1. s.waiting[y][o].addr = s.queues[p][k].addr
        BY <2>4, <3>1, <3>2
      <4>2. s.waiting[y][o].write # IsWrite(s.queues[p][k].type)
        BY <1>2, <3>2, <4>1, OppositeDirections
      <4>3. QED
        BY <3>1, <3>2, <4>2
    <3>3. CASE u.queues[p][k] = c
      <4>1. s.waiting[y][o].write = ~t.write
        BY <1>7, <2>2, <2>4, <3>1, <3>3
      <4>2. QED
        BY <1>6, <1>7, <3>1, <3>3, <4>1
    <3>4. QED
      BY <1>12, <3>2, <3>3
  <2>5. QED
    BY <2>1, <2>3, <2>4 DEF OnceInv
<1>16. ReadFirstInv(u)
  <2>1. CASE config.unified
    <3>1. x = "unified"
      BY <1>6, <2>1 DEF QueueFor
    <3>2. ASSUME NEW a \in Addresses, ReadQueued(s, a, Len(s.queues[GetQueueIndex(a)]))
          PROVE  ReadQueued(u, a, Len(u.queues[GetQueueIndex(a)]))
      <4>1. PICK p \in 0 .. NumQueues - 1 : p = GetQueueIndex(a)
        BY QueueIndex
      <4>2. PICK k \in 1 .. Len(s.queues[p]) : s.queues[p][k].addr = a /\ IsRead(s.queues[p][k].type)
        BY <3>2, <4>1 DEF ReadQueued
      <4>3. k \in 1 .. Len(u.queues[p]) /\ u.queues[p][k] = s.queues[p][k]
        BY <1>9 DEF Extended
      <4>4. QED
        BY <4>1, <4>2, <4>3 DEF ReadQueued
    \* A read that waits may be what is scheduled.
    <3>3. ASSUME NEW a \in Addresses, NEW o, o \in 0 .. Len(s.waiting["unified"]), ReadWaits(s, a, o)
          PROVE  \/ ReadQueued(u, a, Len(u.queues[GetQueueIndex(a)]))
                 \/ \E k \in 1 .. o :
                      /\ k # i
                      /\ NowAt(x, i, x, k) \in 1 .. Len(u.waiting["unified"])
                      /\ u.waiting["unified"][NowAt(x, i, x, k)].addr = a
                      /\ ~u.waiting["unified"][NowAt(x, i, x, k)].write
      <4>1. PICK k \in 1 .. o : /\ s.waiting["unified"][k].addr = a
                                /\ ~s.waiting["unified"][k].write
        BY <3>3 DEF ReadWaits
      <4>2. CASE k = i
        <5>1. a = t.addr /\ IsRead(c.type)
          BY <1>1, <1>8, <3>1, <4>1, <4>2
        <5>2. /\ Len(s.queues[q]) + 1 \in 1 .. Len(u.queues[q])
              /\ u.queues[q][Len(s.queues[q]) + 1] = c
          BY <1>9 DEF Extended
        <5>3. QED
          BY <1>1, <1>7, <5>1, <5>2 DEF ReadQueued
      <4>3. CASE k # i
        <5>1. k \in 1 .. Len(s.waiting[x])
          BY <1>4, <3>1, <3>3
        <5>2. /\ NowAt(x, i, x, k) \in 1 .. Len(u.waiting[x])
              /\ u.waiting[x][NowAt(x, i, x, k)] = s.waiting[x][k]
          BY <1>10, <4>3, <5>1 DEF Shortened
        <5>3. QED
          BY <3>1, <4>1, <4>3, <5>2
      <4>4. QED
        BY <4>2, <4>3
    <3>4. "unified" \in Buffers
      BY DEF Buffers
    <3>5. Len(s.waiting["unified"]) \in Nat /\ Len(u.waiting["unified"]) \in Nat
      BY <1>4, <1>10, <3>4
    <3>6. ASSUME NEW a \in Addresses, u.pendRd[a] > 0
          PROVE  \/ ReadWaits(u, a, Len(u.waiting["unified"]))
                 \/ ReadQueued(u, a, Len(u.queues[GetQueueIndex(a)]))
      <4>1. \/ ReadWaits(s, a, Len(s.waiting["unified"]))
            \/ ReadQueued(s, a, Len(s.queues[GetQueueIndex(a)]))
        BY <1>2, <1>3, <2>1, <3>6 DEF ReadFirstInv
      <4>2. CASE ReadWaits(s, a, Len(s.waiting["unified"]))
        <5>1. Len(s.waiting["unified"]) \in 0 .. Len(s.waiting["unified"])
          BY <3>5
        <5>2. PICK o : o = Len(s.waiting["unified"])
          OBVIOUS
        <5>3. \/ ReadQueued(u, a, Len(u.queues[GetQueueIndex(a)]))
              \/ \E k \in 1 .. o :
                      /\ k # i
                      /\ NowAt(x, i, x, k) \in 1 .. Len(u.waiting["unified"])
                      /\ u.waiting["unified"][NowAt(x, i, x, k)].addr = a
                      /\ ~u.waiting["unified"][NowAt(x, i, x, k)].write
          BY <3>3, <4>2, <5>1, <5>2
        <5>4. QED
          BY <5>3 DEF ReadWaits
      <4>3. QED
        BY <3>2, <4>1, <4>2
    <3>7. ASSUME NEW j \in 1 .. Len(u.waiting["unified"]), NEW v, v = u.waiting["unified"][j],
                 v.write, u.pendRd[v.addr] > 0
          PROVE  \/ ReadWaits(u, v.addr, j - 1)
                 \/ ReadQueued(u, v.addr, Len(u.queues[GetQueueIndex(v.addr)]))
      <4>1. PICK n : n = WasAt(x, i, x, j)
        OBVIOUS
      <4>2. n \in 1 .. Len(s.waiting["unified"]) /\ v = s.waiting["unified"][n] /\ n # i
        BY <1>13, <3>1, <3>7, <4>1
      <4>3. v.addr \in Addresses
        BY <1>5, <3>4, <4>2
      <4>4. \/ ReadWaits(s, v.addr, n - 1)
            \/ ReadQueued(s, v.addr, Len(s.queues[GetQueueIndex(v.addr)]))
        BY <1>2, <1>3, <2>1, <3>7, <4>2 DEF ReadFirstInv
      <4>5. CASE ReadWaits(s, v.addr, n - 1)
        <5>1. PICK o : o = n - 1
          OBVIOUS
        <5>2. o \in 0 .. Len(s.waiting["unified"])
          BY <3>5, <4>2, <5>1
        <5>3. PICK a \in Addresses : a = v.addr
          BY <4>3
        <5>4. ReadWaits(s, a, o)
          BY <4>5, <5>1, <5>3
        <5>5. \/ ReadQueued(u, a, Len(u.queues[GetQueueIndex(a)]))
              \/ \E k \in 1 .. o :
                      /\ k # i
                      /\ NowAt(x, i, x, k) \in 1 .. Len(u.waiting["unified"])
                      /\ u.waiting["unified"][NowAt(x, i, x, k)].addr = a
                      /\ ~u.waiting["unified"][NowAt(x, i, x, k)].write
          BY <3>3, <5>2, <5>4
        <5>6. ASSUME NEW k \in 1 .. o, k # i, NowAt(x, i, x, k) \in 1 .. Len(u.waiting["unified"])
              PROVE  NowAt(x, i, x, k) \in 1 .. j - 1
          <6>1. PICK w : w = NowAt(x, i, x, k)
            OBVIOUS
          <6>2. w = (IF k > i THEN k - 1 ELSE k) /\ n = IF j >= i THEN j + 1 ELSE j
            BY <4>1, <6>1 DEF NowAt, WasAt
          <6>3. i \in Nat \ {0} /\ j \in Nat \ {0} /\ k \in Nat \ {0} /\ k < n
            BY <4>2, <5>1
          <6>4. w \in 1 .. j - 1
            BY <5>6, <6>2, <6>3
          <6>5. QED
            BY <6>1, <6>4
        <5>7. QED
          BY <5>3, <5>5, <5>6 DEF ReadWaits
      <4>6. QED
        BY <3>2, <4>3, <4>4, <4>5
    <3>8. ASSUME NEW p \in 0 .. NumQueues - 1, NEW j \in 1 .. Len(u.queues[p]),
                 NEW d, d = u.queues[p][j], IsWrite(d.type), u.pendRd[d.addr] > 0
          PROVE  ReadQueued(u, d.addr, j - 1)
      <4>1. CASE j \in 1 .. Len(s.queues[p]) /\ d = s.queues[p][j]
        <5>1. ReadQueued(s, d.addr, j - 1) /\ p = GetQueueIndex(d.addr)
          BY <1>2, <1>3, <2>1, <3>8, <4>1 DEF ReadFirstInv, PlacesInv
        <5>2. PICK k \in 1 .. j - 1 : s.queues[p][k].addr = d.addr /\ IsRead(s.queues[p][k].type)
          BY <5>1 DEF ReadQueued
        <5>3. k \in 1 .. Len(s.queues[p])
          BY <1>4, <4>1
        <5>4. u.queues[p][k] = s.queues[p][k]
          BY <1>9, <5>3 DEF Extended
        <5>5. QED
          BY <5>1, <5>2, <5>4 DEF ReadQueued
      <4>2. CASE p = q /\ j = Len(s.queues[p]) + 1 /\ d = c
        <5>1. t.write /\ s.pendRd[t.addr] > 0
          BY <1>3, <1>7, <3>8, <4>2
        <5>2. \/ ReadWaits(s, t.addr, i - 1)
              \/ ReadQueued(s, t.addr, Len(s.queues[GetQueueIndex(t.addr)]))
          BY <1>1, <1>2, <2>1, <3>1, <5>1 DEF ReadFirstInv
        <5>3. ~ReadWaits(s, t.addr, i - 1)
          BY <1>3, <3>1 DEF ReadWaits
        <5>4. PICK k \in 1 .. Len(s.queues[q]) : /\ s.queues[q][k].addr = t.addr
                                                 /\ IsRead(s.queues[q][k].type)
          BY <1>1, <5>2, <5>3 DEF ReadQueued
        <5>5. u.queues[q][k] = s.queues[q][k]
          BY <1>8, <1>9, <5>4 DEF Extended
        <5>6. k \in 1 .. j - 1
          <6>1. Len(s.queues[q]) \in Nat
            BY <1>4, <1>8
          <6>2. QED
            BY <4>2, <6>1
        <5>7. q = GetQueueIndex(d.addr) /\ d.addr = t.addr
          BY <1>7, <1>8, <4>2
        <5>8. QED
          BY <5>4, <5>5, <5>6, <5>7 DEF ReadQueued
      <4>3. QED
        BY <1>12, <3>8, <4>1, <4>2
    <3>9. QED
      BY <2>1, <3>6, <3>7, <3>8 DEF ReadFirstInv
  <2>2. CASE ~config.unified
    <3>1. ASSUME NEW p \in 0 .. NumQueues - 1, NEW j \in 1 .. Len(u.queues[p]),
                 NEW d, d = u.queues[p][j], IsWrite(d.type)
          PROVE  u.pendRd[d.addr] = 0
      <4>1. CASE j \in 1 .. Len(s.queues[p]) /\ d = s.queues[p][j]
        BY <1>2, <1>3, <2>2, <3>1, <4>1 DEF ReadFirstInv
      <4>2. CASE d = c
        <5>1. ~(s.pendRd[t.addr] > 0)
          BY <1>3, <1>7, <2>2, <3>1, <4>2 DEF Held
        <5>2. QED
          BY <1>3, <1>4, <1>6, <1>7, <4>2, <5>1
      <4>3. QED
        BY <1>12, <3>1, <4>1, <4>2
    <3>2. QED
      BY <2>2, <3>1 DEF ReadFirstInv
  <2>3. QED
    BY <2>1, <2>2
<1>17. QED
  BY <1>11, <1>14, <1>15, <1>16 DEF TransInv

LEMMA TransScheduled ==
  ASSUME NEW s0, TransInv(s0), NEW u, u = ScheduleTransaction(s0)
  PROVE  /\ TransInv(u) /\ u.aborted = s0.aborted /\ u.banks = s0.banks
         /\ u.pendRd = s0.pendRd /\ u.pendWr = s0.pendWr
<1>1. PICK s : s = StartDraining(s0)
  OBVIOUS
<1>2. /\ SameTrans(s0, s) /\ s.aborted = s0.aborted /\ s.banks = s0.banks
      /\ s.pendRd = s0.pendRd /\ s.pendWr = s0.pendWr
  <2>1. s0 = [f \in CtlFields |-> s0[f]] /\ s0.queueIdx \in Nat
    BY DEF TransInv, TransTypes
  <2>2. s = s0 \/ \E n : s = [s0 EXCEPT !.draining = n]
    BY <1>1 DEF StartDraining
  <2>3. QED
    BY <2>1, <2>2 DEF SameTrans, CtlFields
<1>3. TransInv(s)
  BY <1>2, TransKept
<1>4. /\ s = [f \in CtlFields |-> s[f]] /\ s.queueIdx \in Nat
      /\ s.queues \in [0 .. NumQueues - 1 -> Seq(Queued)]
      /\ s.waiting \in [Buffers -> Seq(Transactions)]
  BY <1>3 DEF TransInv, TransTypes
<1>5. PICK x, queue : x = QueueFor(s.draining > 0) /\ queue = s.waiting[x]
  OBVIOUS
<1>6. PICK i : i = Min(Fitting(s, queue))
  OBVIOUS
<1>7. u = IF Fitting(s, queue) = {} THEN s
          ELSE IF Held(s, queue[i]) THEN [s EXCEPT !.draining = 0]
          ELSE [s EXCEPT !.draining = IF x = "write" THEN @ - 1 ELSE @,
                         !.queues[GetQueueIndex(queue[i].addr)] =
                            Append(@, TransToCommand(queue[i])),
                         !.waiting[x] = RemoveAt(@, i)]
  BY <1>1, <1>5, <1>6 DEF ScheduleTransaction
<1>8. x \in Buffers
  BY <1>5 DEF QueueFor, Buffers
<1>9. CASE Fitting(s, queue) = {}
  BY <1>2, <1>3, <1>7, <1>9
<1>10. CASE Fitting(s, queue) # {} /\ Held(s, queue[i])
  <2>1. u = [s EXCEPT !.draining = 0]
    BY <1>7, <1>10
  <2>2. SameTrans(s, u) /\ u.aborted = s.aborted /\ u.banks = s.banks
    BY <1>4, <2>1 DEF SameTrans, CtlFields
  <2>3. QED
    BY <1>2, <1>3, <2>2, TransKept DEF SameTrans
<1>11. CASE Fitting(s, queue) # {} /\ ~Held(s, queue[i])
  <2>1. PICK n : u = [s EXCEPT !.draining = n,
                         !.queues[GetQueueIndex(queue[i].addr)] =
                            Append(@, TransToCommand(queue[i])),
                         !.waiting[x] = RemoveAt(@, i)]
    BY <1>7, <1>11
  <2>2. queue \in Seq(Transactions)
    BY <1>4, <1>5, <1>8
  <2>3. PICK F \in SUBSET Nat : F = Fitting(s, queue) /\ F \subseteq 1 .. Len(queue)
    <3>1. Fitting(s, queue) \subseteq 1 .. Len(queue)
      BY <2>2 DEF Fitting
    <3>2. QED
      BY <2>2, <3>1
  <2>4. i \in F /\ \A k \in F : i <= k
    BY <1>6, <1>11, <2>3, Smallest
  <2>5. i \in 1 .. Len(queue) /\ WillAcceptCommand(s, queue[i].addr)
    BY <2>2, <2>3, <2>4 DEF Fitting
  <2>6. ASSUME NEW k \in 1 .. i - 1, queue[k].addr = queue[i].addr PROVE FALSE
    <3>1. k \in 1 .. Len(queue)
      BY <2>2, <2>5
    <3>2. k \in F
      BY <2>2, <2>3, <2>5, <2>6, <3>1 DEF Fitting
    <3>3. QED
      BY <2>4, <2>5, <3>2
  <2>7. /\ u = [f \in CtlFields |-> u[f]] /\ u.queueIdx \in Nat
        /\ u.pendRd = s.pendRd /\ u.pendWr = s.pendWr
        /\ u.aborted = s.aborted /\ u.banks = s.banks
        /\ u.queues = [s.queues EXCEPT ![GetQueueIndex(queue[i].addr)] =
                                          Append(@, TransToCommand(queue[i]))]
        /\ u.waiting = [s.waiting EXCEPT ![x] = RemoveAt(@, i)]
    BY <1>4, <2>1 DEF CtlFields
  <2>8. Scheduled(s, u, x, i)
    BY <1>5, <1>11, <2>6, <2>7 DEF Scheduled
  <2>9. TransInv(u)
    BY <1>3, <1>5, <1>8, <2>5, <2>8, ScheduledInv
  <2>10. QED
    BY <1>2, <2>7, <2>9
<1>12. QED
  BY <1>9, <1>10, <1>11

(***************************************************************************)
(* A transaction is added.                                                 *)
(***************************************************************************)
\* A transaction that none of its kind and address is pending for.
Added(s, u, a, w) ==
  /\ u = [f \in CtlFields |-> u[f]] /\ u.queueIdx \in Nat
  /\ u.queues = s.queues
  /\ u.waiting = [s.waiting EXCEPT ![QueueFor(w)] = Append(@, [addr |-> a, write |-> w])]
  /\ u.pendRd = IF w THEN s.pendRd ELSE [s.pendRd EXCEPT ![a] = 1]
  /\ u.pendWr = IF w THEN s.pendWr \cup {a} ELSE s.pendWr
  /\ a \notin s.pendWr
  /\ ~w => s.pendRd[a] = 0

LEMMA AddedInv ==
  ASSUME NEW s, TransInv(s), NEW u, NEW a \in Addresses, NEW w \in BOOLEAN, Added(s, u, a, w)
  PROVE  TransInv(u)
<1>1. PICK t, x : t = [addr |-> a, write |-> w] /\ x = QueueFor(w)
  OBVIOUS
<1>2. TransTypes(s) /\ PlacesInv(s) /\ OnceInv(s) /\ ReadFirstInv(s)
  BY DEF TransInv
<1>3. /\ u = [f \in CtlFields |-> u[f]] /\ u.queueIdx \in Nat /\ u.queues = s.queues
      /\ u.waiting = [s.waiting EXCEPT ![x] = Append(@, t)]
      /\ u.pendRd = IF w THEN s.pendRd ELSE [s.pendRd EXCEPT ![a] = 1]
      /\ u.pendWr = IF w THEN s.pendWr \cup {a} ELSE s.pendWr
      /\ a \notin s.pendWr
      /\ ~w => s.pendRd[a] = 0
  BY <1>1 DEF Added
<1>4. /\ s.queues \in [0 .. NumQueues - 1 -> Seq(Queued)]
      /\ s.waiting \in [Buffers -> Seq(Transactions)]
      /\ s.pendRd \in [Addresses -> Nat] /\ s.pendWr \in SUBSET Addresses
  BY <1>2 DEF TransTypes
<1>5. t \in Transactions /\ t.addr = a /\ t.write = w /\ x \in Buffers
  BY <1>1 DEF Transactions, QueueFor, Buffers
<1>6. /\ u.waiting \in [Buffers -> Seq(Transactions)]
      /\ Extended(Buffers, s.waiting, u.waiting, x, t)
  <2>1. PICK qs \in [Buffers -> Seq(Transactions)] : qs = s.waiting
    BY <1>4
  <2>2. u.waiting = [qs EXCEPT ![x] = Append(@, t)]
    BY <1>3, <2>1
  <2>3. Appends(Buffers, Transactions, qs, u.waiting, x, t)
    BY <1>5, <2>2 DEF Appends
  <2>4. QED
    BY <2>1, <2>3, QueueExtended
<1>7. u.pendRd \in [Addresses -> Nat] /\ u.pendWr \in SUBSET Addresses
  <2>1. [s.pendRd EXCEPT ![a] = 1] \in [Addresses -> Nat]
    BY <1>4
  <2>2. u.pendRd \in [Addresses -> Nat]
    BY <1>3, <1>4, <2>1, Zenon
  <2>3. QED
    BY <1>3, <1>4, <2>2
<1>8. TransTypes(u)
  BY <1>3, <1>4, <1>6, <1>7 DEF TransTypes
<1>9. ASSUME NEW b \in Addresses
      PROVE  /\ b \in u.pendWr <=> b \in s.pendWr \/ (b = a /\ w)
             /\ u.pendRd[b] > 0 <=> s.pendRd[b] > 0 \/ (b = a /\ ~w)
             /\ u.pendRd[b] = 0 <=> s.pendRd[b] = 0 /\ ~(b = a /\ ~w)
  BY <1>3, <1>4
<1>10. \A y \in Buffers : \A j \in 1 .. Len(u.waiting[y]) :
         \/ j \in 1 .. Len(s.waiting[y]) /\ u.waiting[y][j] = s.waiting[y][j]
         \/ y = x /\ j = Len(s.waiting[y]) + 1 /\ u.waiting[y][j] = t
  BY <1>6 DEF Extended
<1>11. ASSUME NEW y \in Buffers, NEW j \in 1 .. Len(s.waiting[y]), NEW v, v = s.waiting[y][j]
       PROVE  /\ v.addr \in Addresses /\ v.write \in BOOLEAN /\ y = QueueFor(v.write)
              /\ IF v.write THEN v.addr \in s.pendWr ELSE s.pendRd[v.addr] > 0
  <2>1. s.waiting[y] \in Seq(Transactions)
    BY <1>4
  <2>2. v \in Transactions
    BY <1>11, <2>1
  <2>3. v.addr \in Addresses /\ v.write \in BOOLEAN
    BY <2>2 DEF Transactions
  <2>4. y = QueueFor(v.write) /\ IF v.write THEN v.addr \in s.pendWr ELSE s.pendRd[v.addr] > 0
    BY <1>2, <1>11 DEF PlacesInv
  <2>5. QED
    BY <2>3, <2>4
<1>12. ASSUME NEW p \in 0 .. NumQueues - 1, NEW j \in 1 .. Len(s.queues[p]),
              NEW d, d = s.queues[p][j]
       PROVE  /\ d.addr \in Addresses /\ p = GetQueueIndex(d.addr)
              /\ IF IsWrite(d.type) THEN d.addr \in s.pendWr ELSE s.pendRd[d.addr] > 0
  <2>1. s.queues[p] \in Seq(Queued)
    BY <1>4
  <2>2. d \in Queued
    BY <1>12, <2>1
  <2>3. p = GetQueueIndex(d.addr)
        /\ IF IsWrite(d.type) THEN d.addr \in s.pendWr ELSE s.pendRd[d.addr] > 0
    BY <1>2, <1>12 DEF PlacesInv
  <2>4. QED
    BY <2>2, <2>3 DEF Queued
<1>13. PlacesInv(u)
  <2>1. ASSUME NEW y \in Buffers, NEW j \in 1 .. Len(u.waiting[y]), NEW v, v = u.waiting[y][j]
        PROVE  /\ y = QueueFor(v.write)
               /\ IF v.write THEN v.addr \in u.pendWr ELSE u.pendRd[v.addr] > 0
    <3>1. CASE j \in 1 .. Len(s.waiting[y]) /\ v = s.waiting[y][j]
      BY <1>9, <1>11, <3>1
    <3>2. CASE y = x /\ v = t
      BY <1>1, <1>5, <1>9, <3>2
    <3>3. QED
      BY <1>10, <2>1, <3>1, <3>2
  <2>2. ASSUME NEW p \in 0 .. NumQueues - 1, NEW j \in 1 .. Len(u.queues[p]),
               NEW d, d = u.queues[p][j]
        PROVE  /\ p = GetQueueIndex(d.addr)
               /\ IF IsWrite(d.type) THEN d.addr \in u.pendWr ELSE u.pendRd[d.addr] > 0
    BY <1>3, <1>9, <1>12, <2>2
  <2>3. QED
    BY <2>1, <2>2 DEF PlacesInv
<1>14. OnceInv(u)
  <2>1. ASSUME NEW j \in 1 .. Len(s.waiting[x]), s.waiting[x][j] = t PROVE FALSE
    BY <1>3, <1>4, <1>5, <1>11, <2>1
  <2>2. ASSUME NEW y \in Buffers, NEW j \in 1 .. Len(u.waiting[y]), NEW k \in 1 .. Len(u.waiting[y]),
               u.waiting[y][j] = u.waiting[y][k]
        PROVE  j = k
    <3>1. /\ \/ j \in 1 .. Len(s.waiting[y]) /\ u.waiting[y][j] = s.waiting[y][j]
             \/ y = x /\ j = Len(s.waiting[y]) + 1 /\ u.waiting[y][j] = t
          /\ \/ k \in 1 .. Len(s.waiting[y]) /\ u.waiting[y][k] = s.waiting[y][k]
             \/ y = x /\ k = Len(s.waiting[y]) + 1 /\ u.waiting[y][k] = t
      BY <1>10
    <3>2. CASE j \in 1 .. Len(s.waiting[y]) /\ u.waiting[y][j] = s.waiting[y][j]
               /\ k \in 1 .. Len(s.waiting[y]) /\ u.waiting[y][k] = s.waiting[y][k]
      BY <1>2, <2>2, <3>2 DEF OnceInv
    <3>3. QED
      BY <2>1, <2>2, <3>1, <3>2
  <2>3. \A q \in 0 .. NumQueues - 1 : \A i, j \in 1 .. Len(u.queues[q]) :
          SameTransaction(u.queues[q][i], u.queues[q][j]) => i = j
    BY <1>2, <1>3 DEF OnceInv
  <2>4. ASSUME NEW y \in Buffers, NEW j \in 1 .. Len(u.waiting[y]),
               NEW p \in 0 .. NumQueues - 1, NEW k \in 1 .. Len(u.queues[p]),
               u.waiting[y][j].addr = u.queues[p][k].addr
        PROVE  u.waiting[y][j].write # IsWrite(u.queues[p][k].type)
    <3>1. PICK d : d = u.queues[p][k]
      OBVIOUS
    <3>2. k \in 1 .. Len(s.queues[p]) /\ d = s.queues[p][k]
      BY <1>3, <3>1
    <3>3. CASE j \in 1 .. Len(s.waiting[y]) /\ u.waiting[y][j] = s.waiting[y][j]
      <4>1. s.waiting[y][j].addr = s.queues[p][k].addr
        BY <2>4, <3>1, <3>2, <3>3
      <4>2. s.waiting[y][j].write # IsWrite(s.queues[p][k].type)
        BY <1>2, <3>2, <3>3, <4>1, OppositeDirections
      <4>3. QED
        BY <3>1, <3>2, <3>3, <4>2
    <3>4. CASE u.waiting[y][j] = t
      <4>1. /\ d.addr = a
            /\ IF IsWrite(d.type) THEN a \in s.pendWr ELSE s.pendRd[a] > 0
        BY <1>5, <1>12, <2>4, <3>1, <3>2, <3>4
      <4>2. ASSUME w = IsWrite(d.type) PROVE FALSE
        BY <1>3, <1>4, <4>1, <4>2
      <4>3. QED
        BY <1>5, <3>1, <3>4, <4>2
    <3>5. QED
      BY <1>10, <3>3, <3>4
  <2>5. QED
    BY <2>2, <2>3, <2>4 DEF OnceInv
<1>15. ReadFirstInv(u)
  <2>1. \A b, n : ReadQueued(u, b, n) <=> ReadQueued(s, b, n)
    BY <1>3, Zenon DEF ReadQueued
  <2>2. CASE config.unified
    <3>1. x = "unified" /\ "unified" \in Buffers
      BY <1>1, <2>2 DEF QueueFor, Buffers
    <3>2. PICK l \in Nat : l = Len(s.waiting["unified"])
      BY <1>4, <3>1
    <3>3. Len(u.waiting["unified"]) = l + 1
      <4>1. l + 1 \in 1 .. Len(u.waiting["unified"]) /\ Len(u.waiting["unified"]) \in Nat
        BY <1>6, <3>1, <3>2 DEF Extended
      <4>2. Len(u.waiting["unified"]) \in 1 .. Len(u.waiting["unified"])
        BY <4>1
      <4>3. \/ Len(u.waiting["unified"]) \in 1 .. l
            \/ Len(u.waiting["unified"]) = l + 1
        BY <1>10, <3>1, <3>2, <4>2
      <4>4. QED
        BY <4>1, <4>3
    <3>4. \A k \in 1 .. l : u.waiting["unified"][k] = s.waiting["unified"][k]
      BY <1>6, <3>1, <3>2 DEF Extended
    <3>5. u.waiting["unified"][l + 1] = t
      BY <1>6, <3>1, <3>2 DEF Extended
    <3>6. ASSUME NEW b, NEW n \in 0 .. l
          PROVE  ReadWaits(s, b, n) => ReadWaits(u, b, n)
      <4>1. \A k \in 1 .. n : u.waiting["unified"][k] = s.waiting["unified"][k]
        BY <3>2, <3>4
      <4>2. QED
        BY <4>1 DEF ReadWaits
    <3>7. ASSUME NEW b \in Addresses, s.pendRd[b] > 0
          PROVE  \/ ReadWaits(u, b, l)
                 \/ ReadQueued(u, b, Len(u.queues[GetQueueIndex(b)]))
      <4>1. \/ ReadWaits(s, b, l)
            \/ ReadQueued(s, b, Len(s.queues[GetQueueIndex(b)]))
        BY <1>2, <2>2, <3>2, <3>7 DEF ReadFirstInv
      <4>2. l \in 0 .. l
        BY <3>2
      <4>3. QED
        BY <1>3, <2>1, <3>6, <4>1, <4>2
    <3>8. ASSUME NEW b \in Addresses, u.pendRd[b] > 0
          PROVE  \/ ReadWaits(u, b, Len(u.waiting["unified"]))
                 \/ ReadQueued(u, b, Len(u.queues[GetQueueIndex(b)]))
      <4>1. CASE s.pendRd[b] > 0
        <5>1. ReadWaits(u, b, l) => ReadWaits(u, b, l + 1)
          BY <3>2 DEF ReadWaits
        <5>2. QED
          BY <3>3, <3>7, <4>1, <5>1
      <4>2. CASE b = a /\ ~w
        <5>1. l + 1 \in 1 .. l + 1
          BY <3>2
        <5>2. QED
          BY <1>5, <3>3, <3>5, <4>2, <5>1 DEF ReadWaits
      <4>3. QED
        BY <1>9, <3>8, <4>1, <4>2
    <3>9. ASSUME NEW j \in 1 .. Len(u.waiting["unified"]), NEW v, v = u.waiting["unified"][j],
                 v.write, u.pendRd[v.addr] > 0
          PROVE  \/ ReadWaits(u, v.addr, j - 1)
                 \/ ReadQueued(u, v.addr, Len(u.queues[GetQueueIndex(v.addr)]))
      <4>1. CASE j \in 1 .. l /\ v = s.waiting["unified"][j]
        <5>1. v.addr \in Addresses /\ v.addr \in s.pendWr
          BY <1>11, <3>1, <3>2, <3>9, <4>1
        <5>2. s.pendRd[v.addr] > 0
          BY <1>3, <1>9, <3>9, <5>1
        <5>3. \/ ReadWaits(s, v.addr, j - 1)
              \/ ReadQueued(s, v.addr, Len(s.queues[GetQueueIndex(v.addr)]))
          BY <1>2, <2>2, <3>2, <3>9, <4>1, <5>2 DEF ReadFirstInv
        <5>4. j - 1 \in 0 .. l
          BY <3>2, <4>1
        <5>5. QED
          BY <1>3, <2>1, <3>6, <5>3, <5>4
      <4>2. CASE j = l + 1 /\ v = t
        <5>1. v.addr = a /\ w /\ j - 1 = l
          BY <1>5, <3>2, <3>9, <4>2
        <5>2. s.pendRd[a] > 0
          BY <1>9, <3>9, <5>1
        <5>3. QED
          BY <3>7, <5>1, <5>2
      <4>3. QED
        BY <1>10, <3>1, <3>2, <3>9, <4>1, <4>2
    <3>10. ASSUME NEW p \in 0 .. NumQueues - 1, NEW j \in 1 .. Len(u.queues[p]),
                  NEW d, d = u.queues[p][j], IsWrite(d.type), u.pendRd[d.addr] > 0
           PROVE  ReadQueued(u, d.addr, j - 1)
      <4>1. j \in 1 .. Len(s.queues[p]) /\ d = s.queues[p][j]
        BY <1>3, <3>10
      <4>2. d.addr \in Addresses /\ d.addr \in s.pendWr
        BY <1>12, <3>10, <4>1
      <4>3. s.pendRd[d.addr] > 0
        BY <1>3, <1>9, <3>10, <4>2
      <4>4. ReadQueued(s, d.addr, j - 1)
        BY <1>2, <2>2, <3>10, <4>1, <4>3 DEF ReadFirstInv
      <4>5. QED
        BY <2>1, <4>4
    <3>11. QED
      BY <2>2, <3>8, <3>9, <3>10 DEF ReadFirstInv
  <2>3. CASE ~config.unified
    <3>1. ASSUME NEW p \in 0 .. NumQueues - 1, NEW j \in 1 .. Len(u.queues[p]),
                 NEW d, d = u.queues[p][j], IsWrite(d.type)
          PROVE  u.pendRd[d.addr] = 0
      <4>1. j \in 1 .. Len(s.queues[p]) /\ d = s.queues[p][j]
        BY <1>3, <3>1
      <4>2. d.addr \in Addresses /\ d.addr \in s.pendWr
        BY <1>12, <3>1, <4>1
      <4>3. s.pendRd[d.addr] = 0
        BY <1>2, <2>3, <3>1, <4>1 DEF ReadFirstInv
      <4>4. QED
        BY <1>3, <1>9, <4>2, <4>3
    <3>2. QED
      BY <2>3, <3>1 DEF ReadFirstInv
  <2>4. QED
    BY <2>2, <2>3
<1>16. QED
  BY <1>8, <1>13, <1>14, <1>15 DEF TransInv

\* One more read of an address that a read is pending for.
LEMMA MergedInv ==
  ASSUME NEW s, TransInv(s), NEW a \in Addresses, s.pendRd[a] > 0,
         NEW u, u = [s EXCEPT !.pendRd[a] = @ + 1]
  PROVE  TransInv(u) /\ u.aborted = s.aborted /\ u.banks = s.banks /\ u.pendWr = s.pendWr
<1>1. TransTypes(s) /\ PlacesInv(s) /\ OnceInv(s) /\ ReadFirstInv(s)
  BY DEF TransInv
<1>2. s = [f \in CtlFields |-> s[f]] /\ s.pendRd \in [Addresses -> Nat]
  BY <1>1 DEF TransTypes
<1>3. /\ u = [f \in CtlFields |-> u[f]] /\ u.queueIdx = s.queueIdx
      /\ u.queues = s.queues /\ u.waiting = s.waiting /\ u.pendWr = s.pendWr
      /\ u.aborted = s.aborted /\ u.banks = s.banks
      /\ u.pendRd = [s.pendRd EXCEPT ![a] = @ + 1]
  BY <1>2 DEF CtlFields
<1>4. /\ u.pendRd \in [Addresses -> Nat]
      /\ \A b \in Addresses : u.pendRd[b] > 0 <=> s.pendRd[b] > 0
      /\ \A b \in Addresses : u.pendRd[b] = 0 <=> s.pendRd[b] = 0
  BY <1>2, <1>3
<1>5. TransTypes(u)
  BY <1>1, <1>3, <1>4 DEF TransTypes
<1>6. \A x \in Buffers : \A i \in 1 .. Len(s.waiting[x]) : s.waiting[x][i].addr \in Addresses
  <2>1. SUFFICES ASSUME NEW x \in Buffers, NEW i \in 1 .. Len(s.waiting[x])
                 PROVE  s.waiting[x][i].addr \in Addresses
    OBVIOUS
  <2>2. s.waiting[x] \in Seq(Transactions)
    BY <1>1 DEF TransTypes
  <2>3. s.waiting[x][i] \in Transactions
    BY <2>2
  <2>4. QED
    BY <2>3 DEF Transactions
<1>7. \A q \in 0 .. NumQueues - 1 : \A i \in 1 .. Len(s.queues[q]) :
        s.queues[q][i].addr \in Addresses
  <2>1. SUFFICES ASSUME NEW q \in 0 .. NumQueues - 1, NEW i \in 1 .. Len(s.queues[q])
                 PROVE  s.queues[q][i].addr \in Addresses
    OBVIOUS
  <2>2. s.queues[q] \in Seq(Queued)
    BY <1>1 DEF TransTypes
  <2>3. s.queues[q][i] \in Queued
    BY <2>2
  <2>4. QED
    BY <2>3 DEF Queued
<1>8. PlacesInv(u)
  <2>1. \A x \in Buffers : \A i \in 1 .. Len(u.waiting[x]) :
          LET t == u.waiting[x][i]
          IN  /\ x = QueueFor(t.write)
              /\ IF t.write THEN t.addr \in u.pendWr ELSE u.pendRd[t.addr] > 0
    BY <1>1, <1>3, <1>4, <1>6 DEF PlacesInv
  <2>2. \A q \in 0 .. NumQueues - 1 : \A i \in 1 .. Len(u.queues[q]) :
          LET c == u.queues[q][i]
          IN  /\ q = GetQueueIndex(c.addr)
              /\ IF IsWrite(c.type) THEN c.addr \in u.pendWr ELSE u.pendRd[c.addr] > 0
    BY <1>1, <1>3, <1>4, <1>7 DEF PlacesInv
  <2>3. QED
    BY <2>1, <2>2 DEF PlacesInv
<1>9. OnceInv(u)
  <2>1. \A x \in Buffers : \A i, j \in 1 .. Len(u.waiting[x]) :
          u.waiting[x][i] = u.waiting[x][j] => i = j
    BY <1>1, <1>3 DEF OnceInv
  <2>2. \A q \in 0 .. NumQueues - 1 : \A i, j \in 1 .. Len(u.queues[q]) :
          SameTransaction(u.queues[q][i], u.queues[q][j]) => i = j
    BY <1>1, <1>3 DEF OnceInv
  <2>3. \A x \in Buffers : \A i \in 1 .. Len(u.waiting[x]) :
        \A q \in 0 .. NumQueues - 1 : \A j \in 1 .. Len(u.queues[q]) :
          u.waiting[x][i].addr = u.queues[q][j].addr
            => u.waiting[x][i].write # IsWrite(u.queues[q][j].type)
    BY <1>1, <1>3 DEF OnceInv
  <2>4. QED
    BY <2>1, <2>2, <2>3 DEF OnceInv
<1>10. ReadFirstInv(u)
  <2>1. \A b, n : (ReadWaits(u, b, n) <=> ReadWaits(s, b, n))
                  /\ (ReadQueued(u, b, n) <=> ReadQueued(s, b, n))
    BY <1>3, Zenon DEF ReadWaits, ReadQueued
  <2>2. CASE config.unified
    <3>1. \A b \in Addresses : u.pendRd[b] > 0 =>
            \/ ReadWaits(u, b, Len(u.waiting["unified"]))
            \/ ReadQueued(u, b, Len(u.queues[GetQueueIndex(b)]))
      BY <1>1, <1>3, <1>4, <2>1, <2>2 DEF ReadFirstInv
    <3>2. "unified" \in Buffers
      BY DEF Buffers
    <3>3. \A i \in 1 .. Len(u.waiting["unified"]) :
            LET t == u.waiting["unified"][i]
            IN  t.write /\ u.pendRd[t.addr] > 0 =>
                  \/ ReadWaits(u, t.addr, i - 1)
                  \/ ReadQueued(u, t.addr, Len(u.queues[GetQueueIndex(t.addr)]))
      BY <1>1, <1>3, <1>4, <1>6, <2>1, <2>2, <3>2 DEF ReadFirstInv
    <3>4. \A q \in 0 .. NumQueues - 1 : \A i \in 1 .. Len(u.queues[q]) :
            LET c == u.queues[q][i]
            IN  IsWrite(c.type) /\ u.pendRd[c.addr] > 0 => ReadQueued(u, c.addr, i - 1)
      BY <1>1, <1>3, <1>4, <1>7, <2>1, <2>2 DEF ReadFirstInv
    <3>5. QED
      BY <2>2, <3>1, <3>3, <3>4 DEF ReadFirstInv
  <2>3. CASE ~config.unified
    BY <1>1, <1>3, <1>4, <1>7, <2>3 DEF ReadFirstInv
  <2>4. QED
    BY <2>2, <2>3
<1>11. QED
  BY <1>3, <1>5, <1>8, <1>9, <1>10 DEF TransInv

LEMMA WriteAdded ==
  ASSUME NEW s, TransInv(s), NEW a \in Addresses, NEW u, u = AddWrite(s, a)
  PROVE  TransInv(u) /\ u.aborted = s.aborted /\ u.banks = s.banks /\ s.pendWr \subseteq u.pendWr
<1>1. s = [f \in CtlFields |-> s[f]] /\ s.queueIdx \in Nat
  BY DEF TransInv, TransTypes
<1>2. PICK v : v = IF a \in s.pendWr THEN s
                   ELSE [Enqueued(s, a, TRUE) EXCEPT !.pendWr = @ \cup {a}]
  OBVIOUS
<1>3. u = DoneNext(v, a, TRUE)
  BY <1>2 DEF AddWrite
<1>4. /\ TransInv(v) /\ v.aborted = s.aborted /\ v.banks = s.banks
      /\ s.pendWr \subseteq v.pendWr
  <2>1. CASE a \in s.pendWr
    BY <1>2, <2>1
  <2>2. CASE a \notin s.pendWr
    <3>1. PICK e : e = Enqueued(s, a, TRUE)
      OBVIOUS
    <3>2. /\ e = [f \in CtlFields |-> e[f]] /\ e.queueIdx = s.queueIdx
          /\ e.queues = s.queues /\ e.pendRd = s.pendRd /\ e.pendWr = s.pendWr
          /\ e.aborted = s.aborted /\ e.banks = s.banks
          /\ e.waiting = [s.waiting EXCEPT ![QueueFor(TRUE)] =
                            Append(@, [addr |-> a, write |-> TRUE])]
      BY <1>1, <3>1 DEF Enqueued, CtlFields
    <3>3. v = [e EXCEPT !.pendWr = @ \cup {a}]
      BY <1>2, <2>2, <3>1
    <3>4. /\ v = [f \in CtlFields |-> v[f]] /\ v.queueIdx = e.queueIdx
          /\ v.queues = e.queues /\ v.pendRd = e.pendRd /\ v.pendWr = e.pendWr \cup {a}
          /\ v.aborted = e.aborted /\ v.banks = e.banks /\ v.waiting = e.waiting
      BY <3>2, <3>3 DEF CtlFields
    <3>5. Added(s, v, a, TRUE)
      BY <1>1, <2>2, <3>2, <3>4 DEF Added
    <3>6. TransInv(v)
      BY <3>5, AddedInv
    <3>7. QED
      BY <3>2, <3>4, <3>6
  <2>3. QED
    BY <2>1, <2>2
<1>5. SameTrans(v, u) /\ u.aborted = v.aborted /\ u.banks = v.banks /\ u.pendWr = v.pendWr
  <2>1. v = [f \in CtlFields |-> v[f]] /\ v.queueIdx \in Nat
    BY <1>4 DEF TransInv, TransTypes
  <2>2. QED
    BY <1>3, <2>1 DEF DoneNext, SameTrans, CtlFields
<1>6. QED
  BY <1>4, <1>5, TransKept

LEMMA ReadAdded ==
  ASSUME NEW s, TransInv(s), NEW a \in Addresses, NEW u, u = AddRead(s, a)
  PROVE  TransInv(u) /\ u.aborted = s.aborted /\ u.banks = s.banks /\ u.pendWr = s.pendWr
<1>1. s = [f \in CtlFields |-> s[f]] /\ s.queueIdx \in Nat /\ s.pendRd \in [Addresses -> Nat]
  BY DEF TransInv, TransTypes
<1>2. CASE a \in s.pendWr
  <2>1. u = DoneNext(s, a, FALSE)
    BY <1>2 DEF AddRead
  <2>2. SameTrans(s, u) /\ u.aborted = s.aborted /\ u.banks = s.banks /\ u.pendWr = s.pendWr
    BY <1>1, <2>1 DEF DoneNext, SameTrans, CtlFields
  <2>3. QED
    BY <2>2, TransKept
<1>3. CASE a \notin s.pendWr /\ s.pendRd[a] = 0
  <2>1. PICK e : e = Enqueued(s, a, FALSE)
    OBVIOUS
  <2>2. /\ e = [f \in CtlFields |-> e[f]] /\ e.queueIdx = s.queueIdx
        /\ e.queues = s.queues /\ e.pendRd = s.pendRd /\ e.pendWr = s.pendWr
        /\ e.aborted = s.aborted /\ e.banks = s.banks
        /\ e.waiting = [s.waiting EXCEPT ![QueueFor(FALSE)] =
                          Append(@, [addr |-> a, write |-> FALSE])]
    BY <1>1, <2>1 DEF Enqueued, CtlFields
  <2>3. u = [e EXCEPT !.pendRd[a] = @ + 1]
    BY <1>3, <2>1 DEF AddRead
  <2>4. /\ u = [f \in CtlFields |-> u[f]] /\ u.queueIdx = e.queueIdx
        /\ u.queues = e.queues /\ u.pendWr = e.pendWr
        /\ u.aborted = e.aborted /\ u.banks = e.banks /\ u.waiting = e.waiting
        /\ u.pendRd = [e.pendRd EXCEPT ![a] = e.pendRd[a] + 1]
    BY <2>2, <2>3 DEF CtlFields
  <2>5. u.pendRd = [s.pendRd EXCEPT ![a] = 1]
    <3>1. e.pendRd[a] + 1 = 1
      BY <1>3, <2>2
    <3>2. QED
      BY <2>2, <2>4, <3>1
  <2>6. Added(s, u, a, FALSE)
    BY <1>1, <1>3, <2>2, <2>4, <2>5 DEF Added
  <2>7. TransInv(u)
    BY <2>6, AddedInv
  <2>8. QED
    BY <2>2, <2>4, <2>7
<1>4. CASE a \notin s.pendWr /\ s.pendRd[a] # 0
  <2>1. u = [s EXCEPT !.pendRd[a] = @ + 1]
    BY <1>4 DEF AddRead
  <2>2. s.pendRd[a] > 0
    BY <1>1, <1>4
  <2>3. QED
    BY <2>1, <2>2, MergedInv
<1>5. QED
  BY <1>2, <1>3, <1>4

(***************************************************************************)
(* The timing tables and the banks.                                        *)
(***************************************************************************)
LEMMA TimingGiven ==
  /\ T.RL \in Nat /\ T.WL \in Nat /\ T.AL \in Nat /\ T.burst_cycle \in Nat
  /\ T.tCCD_S \in Nat /\ T.tCCD_L \in Nat /\ T.tRTRS \in Nat /\ T.tRTP \in Nat /\ T.tRP \in Nat
  /\ T.tWTR_S \in Nat /\ T.tWTR_L \in Nat /\ T.tWR \in Nat /\ T.tRAS \in Nat /\ T.tRC \in Nat
  /\ T.tRCD \in Nat /\ T.tRRD_S \in Nat /\ T.tRRD_L \in Nat /\ T.tRFC \in Nat
BY TimingAssumption

LEMMA DelaysFor ==
  /\ LongCCD \in Nat /\ LongWTR \in Nat /\ LongRRD \in Nat
  /\ read_delay \in Nat /\ write_delay \in Nat
  /\ read_to_precharge \in Nat /\ write_to_precharge \in Nat
BY TimingGiven DEF LongCCD, LongWTR, LongRRD, read_delay, write_delay, read_to_precharge,
                   write_to_precharge

\* What a table delays.
Table(d) == DOMAIN d \subseteq CommandType /\ \A c \in DOMAIN d : d[c] \in Int

LEMMA ColumnTables ==
  ASSUME NEW f \in Columns, NEW ccd \in Nat, NEW wtr \in Nat
  PROVE  /\ DOMAIN ColumnToColumn(f, ccd, wtr) = Columns
         /\ DOMAIN ColumnToOtherRank(f) = Columns
         /\ \A c \in Columns :
              /\ ColumnToColumn(f, ccd, wtr)[c] \in Int
              /\ ColumnToColumn(f, ccd, wtr)[c] + FirstBeat(c) >= FirstBeat(f) + T.burst_cycle
              /\ ColumnToOtherRank(f)[c] \in Int
              /\ ColumnToOtherRank(f)[c] + FirstBeat(c) >=
                   FirstBeat(f) + T.burst_cycle + (IF IsRead(f) \/ IsRead(c) THEN T.tRTRS ELSE 0)
<1>1. DOMAIN ColumnToColumn(f, ccd, wtr) = Columns /\ DOMAIN ColumnToOtherRank(f) = Columns
  BY DEF ColumnToColumn, ColumnToOtherRank
<1>2. SUFFICES ASSUME NEW c \in Columns
               PROVE  /\ ColumnToColumn(f, ccd, wtr)[c] \in Int
                      /\ ColumnToColumn(f, ccd, wtr)[c] + FirstBeat(c) >= FirstBeat(f) + T.burst_cycle
                      /\ ColumnToOtherRank(f)[c] \in Int
                      /\ ColumnToOtherRank(f)[c] + FirstBeat(c) >=
                           FirstBeat(f) + T.burst_cycle
                             + (IF IsRead(f) \/ IsRead(c) THEN T.tRTRS ELSE 0)
  BY <1>1
<1>3. PICK RL \in Nat, WL \in Nat, burst \in Nat, rtrs \in Nat :
        RL = T.RL /\ WL = T.WL /\ burst = T.burst_cycle /\ rtrs = T.tRTRS
  BY TimingGiven
<1>4. PICK x, y : x = ColumnToColumn(f, ccd, wtr)[c] /\ y = ColumnToOtherRank(f)[c]
  OBVIOUS
<1>5. (IsRead(f) <=> ~IsWrite(f)) /\ (IsRead(c) <=> ~IsWrite(c))
  BY ColumnTypes
<1>6. CASE IsRead(f) /\ IsRead(c)
  <2>1. x = Later(burst, ccd) /\ y = burst + rtrs
    BY <1>3, <1>4, <1>5, <1>6 DEF ColumnToColumn, ColumnToOtherRank
  <2>2. FirstBeat(f) = RL /\ FirstBeat(c) = RL
    BY <1>3, <1>6 DEF FirstBeat
  <2>3. QED
    BY <1>3, <1>4, <1>6, <2>1, <2>2 DEF Later
<1>7. CASE IsRead(f) /\ IsWrite(c)
  <2>1. x = RL + burst - WL + rtrs /\ y = RL + burst + burst + rtrs - (WL + burst)
    BY <1>3, <1>4, <1>5, <1>7 DEF ColumnToColumn, ColumnToOtherRank, read_delay, write_delay
  <2>2. FirstBeat(f) = RL /\ FirstBeat(c) = WL
    BY <1>3, <1>5, <1>7 DEF FirstBeat
  <2>3. QED
    BY <1>3, <1>4, <1>7, <2>1, <2>2
<1>8. CASE IsWrite(f) /\ IsRead(c)
  <2>1. x = WL + burst + wtr /\ y = WL + burst + burst + rtrs - (RL + burst)
    BY <1>3, <1>4, <1>5, <1>8 DEF ColumnToColumn, ColumnToOtherRank, read_delay, write_delay
  <2>2. FirstBeat(f) = WL /\ FirstBeat(c) = RL
    BY <1>3, <1>5, <1>8 DEF FirstBeat
  <2>3. QED
    BY <1>3, <1>4, <1>8, <2>1, <2>2
<1>9. CASE IsWrite(f) /\ IsWrite(c)
  <2>1. x = Later(burst, ccd) /\ y = burst
    <3>1. ~IsRead(f) /\ ~IsRead(c) /\ IsRead(f) = IsRead(c)
      BY <1>5, <1>9 DEF IsRead
    <3>2. x = Later(burst, ccd)
      BY <1>3, <1>4, <3>1 DEF ColumnToColumn
    <3>3. y = burst
      BY <1>3, <1>4, <1>9, <3>1 DEF ColumnToOtherRank
    <3>4. QED
      BY <3>2, <3>3
  <2>2. FirstBeat(f) = WL /\ FirstBeat(c) = WL
    BY <1>3, <1>5, <1>9 DEF FirstBeat
  <2>3. QED
    BY <1>3, <1>4, <1>5, <1>9, <2>1, <2>2 DEF Later
<1>10. QED
  BY <1>5, <1>6, <1>7, <1>8, <1>9

LEMMA Tables ==
  ASSUME NEW cmd, cmd.type \in CommandType, NEW b
  PROVE  Table(Delays(cmd, b))
<1>1. /\ Columns \subseteq CommandType /\ CommandType = BankCommands \cup {"REFRESH"}
      /\ BankCommands = Columns \cup {"ACTIVATE", "PRECHARGE"}
      /\ {"ACTIVATE", "PRECHARGE", "REFRESH"} \subseteq CommandType
  BY DEF CommandType, BankCommands, Columns
<1>2. Table(Nothing)
  BY DEF Table, Nothing
<1>3. Table(same_rank)
  BY <1>1, TimingGiven DEF Table, same_rank
<1>4. ASSUME NEW f \in Columns, NEW ccd \in Nat, NEW wtr \in Nat
      PROVE  Table(ColumnToColumn(f, ccd, wtr)) /\ Table(ColumnToOtherRank(f))
  BY <1>1, ColumnTables DEF Table
<1>5. ASSUME NEW t \in BankCommands PROVE Table(other_ranks[t])
  BY <1>2, <1>4, TimingGiven DEF other_ranks
<1>6. ASSUME NEW t \in BankCommands PROVE Table(other_bankgroups_same_rank[t])
  <2>1. CASE t \in Columns
    <3>1. other_bankgroups_same_rank[t] = ColumnToColumn(t, T.tCCD_S, T.tWTR_S)
      BY <2>1, ColumnTypes DEF other_bankgroups_same_rank
    <3>2. QED
      BY <1>4, <2>1, <3>1, TimingGiven
  <2>2. CASE t = "ACTIVATE"
    <3>1. other_bankgroups_same_rank[t] = [ACTIVATE |-> T.tRRD_S]
      BY <2>2, ColumnTypes DEF other_bankgroups_same_rank
    <3>2. QED
      BY <1>1, <3>1, TimingGiven DEF Table
  <2>3. CASE t = "PRECHARGE"
    <3>1. other_bankgroups_same_rank[t] = Nothing
      BY <2>3, ColumnTypes DEF other_bankgroups_same_rank
    <3>2. QED
      BY <1>2, <3>1
  <2>4. QED
    BY <1>1, <2>1, <2>2, <2>3
<1>7. ASSUME NEW t \in BankCommands PROVE Table(other_banks_same_bankgroup[t])
  <2>1. CASE t \in Columns
    <3>1. other_banks_same_bankgroup[t] = ColumnToColumn(t, LongCCD, LongWTR)
      BY <2>1, ColumnTypes DEF other_banks_same_bankgroup
    <3>2. QED
      BY <1>4, <2>1, <3>1, DelaysFor
  <2>2. CASE t = "ACTIVATE"
    <3>1. other_banks_same_bankgroup[t] = [ACTIVATE |-> LongRRD]
      BY <2>2, ColumnTypes DEF other_banks_same_bankgroup
    <3>2. QED
      BY <1>1, <3>1, DelaysFor DEF Table
  <2>3. CASE t = "PRECHARGE"
    <3>1. other_banks_same_bankgroup[t] = Nothing
      BY <2>3, ColumnTypes DEF other_banks_same_bankgroup
    <3>2. QED
      BY <1>2, <3>1
  <2>4. QED
    BY <1>1, <2>1, <2>2, <2>3
<1>8. ASSUME NEW t \in BankCommands PROVE Table(same_bank[t])
  <2>1. CASE t \in {"READ", "WRITE"}
    <3>1. same_bank[t] = [c \in Columns \cup {"PRECHARGE"} |->
            IF c \in Columns     THEN ColumnToColumn(t, LongCCD, LongWTR)[c]
            ELSE IF IsRead(t)  THEN read_to_precharge ELSE write_to_precharge]
      BY <2>1 DEF same_bank
    <3>2. \A c \in Columns : ColumnToColumn(t, LongCCD, LongWTR)[c] \in Int
      BY <2>1, ColumnTables, DelaysFor DEF Columns
    <3>3. QED
      BY <1>1, <3>1, <3>2, DelaysFor DEF Table
  <2>2. CASE t = "READ_PRECHARGE"
    <3>1. same_bank[t] = [ACTIVATE |-> T.AL + T.burst_cycle + T.tRTP + T.tRP,
                          REFRESH  |-> read_to_precharge + T.tRP]
      BY <2>2 DEF same_bank
    <3>2. QED
      BY <1>1, <3>1, DelaysFor, TimingGiven DEF Table
  <2>3. CASE t = "WRITE_PRECHARGE"
    <3>1. same_bank[t] = [c \in {"ACTIVATE", "REFRESH"} |-> write_to_precharge + T.tRP]
      BY <2>3 DEF same_bank
    <3>2. QED
      BY <1>1, <3>1, DelaysFor, TimingGiven DEF Table
  <2>4. CASE t = "ACTIVATE"
    <3>1. same_bank[t] = [c \in Columns \cup {"ACTIVATE", "PRECHARGE"} |->
            CASE c = "ACTIVATE"  -> T.tRC
              [] c = "PRECHARGE" -> T.tRAS
              [] OTHER           -> T.tRCD - T.AL]
      BY <2>4 DEF same_bank
    <3>2. /\ DOMAIN same_bank[t] \subseteq CommandType
          /\ DOMAIN same_bank[t] = Columns \cup {"ACTIVATE", "PRECHARGE"}
      BY <1>1, <3>1
    <3>3. same_bank[t]["ACTIVATE"] \in Int /\ same_bank[t]["PRECHARGE"] \in Int
      BY <3>1, TimingGiven
    <3>4. \A c \in Columns : same_bank[t][c] = T.tRCD - T.AL
      BY <3>1, ColumnTypes
    <3>5. \A c \in Columns : same_bank[t][c] \in Int
      BY <3>4, TimingGiven
    <3>6. QED
      BY <3>2, <3>3, <3>5 DEF Table
  <2>5. CASE t = "PRECHARGE"
    <3>1. same_bank[t] = [c \in {"ACTIVATE", "REFRESH"} |-> T.tRP]
      BY <2>5 DEF same_bank
    <3>2. QED
      BY <1>1, <3>1, TimingGiven DEF Table
  <2>6. QED
    BY <1>1, <2>1, <2>2, <2>3, <2>4, <2>5 DEF Columns
<1>9. QED
  BY <1>1, <1>2, <1>3, <1>5, <1>6, <1>7, <1>8 DEF Delays

\* A command moves the waits of every bank up only.
LEMMA BankUpdated ==
  ASSUME NEW banks \in [Banks -> BankRecords], NEW cmd, cmd.type \in CommandType,
         cmd.type = "ACTIVATE" => cmd.addr.row \in Nat, NEW b \in Banks,
         NEW bank, bank = UpdateTimingAndStates(banks, cmd)[b]
  PROVE  /\ bank \in BankRecords
         /\ bank.open = IF Concerns(cmd, b) THEN UpdateState(banks[b], cmd).open ELSE banks[b].open
         /\ bank.wait = [c \in CommandType |->
                           IF c \in DOMAIN Delays(cmd, b)
                           THEN Later(banks[b].wait[c], Delays(cmd, b)[c]) ELSE banks[b].wait[c]]
<1>1. PICK v : v = IF Concerns(cmd, b) THEN UpdateState(banks[b], cmd) ELSE banks[b]
  OBVIOUS
<1>2. PICK w : w = banks[b]
  OBVIOUS
<1>3. w \in BankRecords
  BY <1>2
<1>4. /\ w = [open |-> w.open, hits |-> w.hits, wait |-> w.wait] /\ w.open \in Nat \cup {NoRow}
      /\ w.hits \in Int /\ w.wait \in [CommandType -> Nat]
  BY <1>3 DEF BankRecords
<1>5. UpdateState(w, cmd) \in BankRecords /\ UpdateState(w, cmd).wait = w.wait
  <2>1. CASE cmd.type = "ACTIVATE"
    <3>1. UpdateState(w, cmd) = [w EXCEPT !.open = cmd.addr.row]
      BY <2>1 DEF UpdateState
    <3>2. QED
      BY <1>4, <2>1, <3>1 DEF BankRecords
  <2>2. CASE cmd.type \in {"READ", "WRITE"}
    <3>1. UpdateState(w, cmd) = [w EXCEPT !.hits = @ + 1]
      BY <2>2 DEF UpdateState
    <3>2. QED
      BY <1>4, <2>2, <3>1 DEF BankRecords
  <2>3. CASE cmd.type \in {"READ_PRECHARGE", "WRITE_PRECHARGE", "PRECHARGE"}
    <3>1. UpdateState(w, cmd) = [w EXCEPT !.open = NoRow, !.hits = 0]
      BY <2>3 DEF UpdateState
    <3>2. PICK y : y = UpdateState(w, cmd)
      OBVIOUS
    <3>3. DOMAIN w = {"open", "hits", "wait"}
      BY <1>4
    <3>4. /\ DOMAIN y = {"open", "hits", "wait"} /\ y = [f \in DOMAIN y |-> y[f]]
          /\ y.open = NoRow /\ y.hits = 0 /\ y.wait = w.wait
      BY <3>1, <3>2, <3>3
    <3>5. y = [open |-> y.open, hits |-> y.hits, wait |-> y.wait]
      BY <3>4
    <3>6. QED
      BY <1>4, <3>2, <3>4, <3>5 DEF BankRecords
  <2>4. CASE cmd.type = "REFRESH"
    <3>1. UpdateState(w, cmd) = w
      BY <2>4 DEF UpdateState
    <3>2. QED
      BY <1>3, <3>1
  <2>5. QED
    BY <2>1, <2>2, <2>3, <2>4 DEF CommandType, Columns
<1>6. v \in BankRecords /\ v.wait = w.wait
  BY <1>1, <1>2, <1>3, <1>5
<1>7. PICK d : d = Delays(cmd, b)
  OBVIOUS
<1>8. DOMAIN d \subseteq CommandType /\ \A c \in DOMAIN d : d[c] \in Int
  BY <1>7, Tables DEF Table
<1>9. PICK x : x = [c \in CommandType |-> IF c \in DOMAIN d THEN Later(w.wait[c], d[c]) ELSE w.wait[c]]
  OBVIOUS
<1>10. x \in [CommandType -> Nat]
  <2>1. ASSUME NEW c \in CommandType
        PROVE  (IF c \in DOMAIN d THEN Later(w.wait[c], d[c]) ELSE w.wait[c]) \in Nat
    BY <1>4, <1>8 DEF Later
  <2>2. QED
    BY <1>9, <2>1
<1>11. bank = [v EXCEPT !.wait = x]
  <2>1. bank = UpdateTiming(v, d)
    BY <1>1, <1>7 DEF UpdateTimingAndStates
  <2>2. QED
    BY <1>6, <1>9, <2>1 DEF UpdateTiming
<1>12. bank \in BankRecords /\ bank.open = v.open /\ bank.wait = x
  BY <1>6, <1>10, <1>11 DEF BankRecords
<1>13. QED
  BY <1>1, <1>2, <1>7, <1>9, <1>12

(***************************************************************************)
(* The bursts on the data bus.                                             *)
(***************************************************************************)
LEMMA Raised ==
  ASSUME NEW a \in Nat, NEW b \in Int PROVE Later(a, b) \in Nat /\ Later(a, b) >= a /\ Later(a, b) >= b
BY DEF Later

LEMMA BurstTypes ==
  ASSUME NEW u \in [cmd : Queued, from : Int, until : Int], NEW r, NEW c
  PROVE  /\ u.until \in Int /\ u.from \in Int /\ u.cmd.type \in Columns /\ u.cmd.addr \in Addresses
         /\ BusFree(u, r, c) \in Int /\ FirstBeat(c) \in Nat
<1>1. u.until \in Int /\ u.from \in Int /\ u.cmd \in Queued
  OBVIOUS
<1>2. u.cmd.type \in Columns /\ u.cmd.addr \in Addresses
  BY <1>1 DEF Queued
<1>3. BusFree(u, r, c) \in Int /\ FirstBeat(c) \in Nat
  BY <1>1, TimingGiven DEF BusFree, FirstBeat
<1>4. QED
  BY <1>1, <1>2, <1>3

\* A command leaves the banks to wait for the bursts that are on the bus.
LEMMA OldBurstsKept ==
  ASSUME NEW banks \in [Banks -> BankRecords], NEW cmd, cmd.type \in CommandType,
         cmd.type = "ACTIVATE" => cmd.addr.row \in Nat,
         cmd.type # "REFRESH" => /\ banks[BankOf(cmd.addr)].wait[cmd.type] = 0
                                 /\ Legal(banks[BankOf(cmd.addr)], cmd),
         NEW b \in Banks, NEW u \in [cmd : Queued, from : Int, until : Int], NEW c \in Columns,
         Kept(banks[b], b.rank, u, c),
         NEW bank, bank = UpdateTimingAndStates(banks, cmd)[b]
  PROVE  Kept(bank, b.rank, u, c)
<1>1. PICK w, d : w = banks[b] /\ d = Delays(cmd, b)
  OBVIOUS
<1>2. /\ w \in BankRecords /\ w.wait \in [CommandType -> Nat]
  BY <1>1 DEF BankRecords
<1>3. /\ bank.open = IF Concerns(cmd, b) THEN UpdateState(w, cmd).open ELSE w.open
      /\ bank.wait = [x \in CommandType |->
                        IF x \in DOMAIN d THEN Later(w.wait[x], d[x]) ELSE w.wait[x]]
  BY <1>1, BankUpdated
<1>4. DOMAIN d \subseteq CommandType /\ \A x \in DOMAIN d : d[x] \in Int
  BY <1>1, Tables DEF Table
<1>5. ASSUME NEW x \in CommandType
      PROVE  /\ bank.wait[x] \in Nat /\ w.wait[x] \in Nat /\ bank.wait[x] >= w.wait[x]
             /\ x \in DOMAIN d => d[x] \in Int /\ bank.wait[x] >= d[x]
  <2>1. w.wait[x] \in Nat
    BY <1>2
  <2>2. CASE x \in DOMAIN d
    <3>1. bank.wait[x] = Later(w.wait[x], d[x]) /\ d[x] \in Int
      BY <1>3, <1>4, <2>2
    <3>2. QED
      BY <2>1, <3>1, Raised
  <2>3. CASE x \notin DOMAIN d
    BY <1>3, <2>1, <2>3
  <2>4. QED
    BY <2>2, <2>3
<1>6. c \in CommandType /\ "ACTIVATE" \in CommandType
  BY DEF CommandType
<1>7. PICK free \in Int, first \in Nat : free = BusFree(u, b.rank, c) /\ first = FirstBeat(c)
  BY BurstTypes
<1>8. CASE w.wait[c] + first >= free
  <2>1. bank.wait[c] + first >= free
    BY <1>5, <1>6, <1>8
  <2>2. QED
    BY <1>7, <2>1 DEF Kept
<1>9. CASE w.open = NoRow /\ w.wait["ACTIVATE"] + T.tRCD - T.AL + first >= free
  <2>1. PICK rcd \in Nat, al \in Nat : rcd = T.tRCD /\ al = T.AL
    BY TimingGiven
  <2>2. PICK m \in Nat, n \in Nat : m = w.wait["ACTIVATE"] /\ n = bank.wait["ACTIVATE"]
    BY <1>5, <1>6
  <2>3. n >= m /\ m + rcd - al + first >= free
    BY <1>5, <1>6, <1>9, <2>1, <2>2
  <2>4. CASE bank.open = NoRow
    <3>1. n + rcd - al + first >= free
      BY <2>3
    <3>2. QED
      BY <1>7, <2>1, <2>2, <2>4, <3>1 DEF Kept
  <2>5. CASE bank.open # NoRow
    <3>1. Concerns(cmd, b) /\ cmd.type # "REFRESH"
      BY <1>3, <1>9, <2>5 DEF UpdateState
    <3>2. b = BankOf(cmd.addr)
      BY <3>1 DEF Concerns
    <3>3. cmd.type = "ACTIVATE"
      BY <1>1, <1>9, <3>1, <3>2 DEF Legal
    <3>4. d = same_bank["ACTIVATE"]
      <4>1. b.rank = cmd.addr.rank /\ b.group = cmd.addr.group /\ b.bank = cmd.addr.bank
        BY <3>2 DEF BankOf
      <4>2. QED
        BY <1>1, <3>3, <4>1 DEF Delays
    <3>5. c \in DOMAIN d /\ d[c] = rcd - al
      <4>1. "ACTIVATE" \in BankCommands
        BY DEF BankCommands, CommandType
      <4>2. same_bank["ACTIVATE"] = [x \in Columns \cup {"ACTIVATE", "PRECHARGE"} |->
              CASE x = "ACTIVATE"  -> T.tRC
                [] x = "PRECHARGE" -> T.tRAS
                [] OTHER           -> T.tRCD - T.AL]
        BY <4>1 DEF same_bank
      <4>3. QED
        BY <2>1, <3>4, <4>2, ColumnTypes
    <3>6. m = 0
      BY <1>1, <2>2, <3>2, <3>3
    <3>7. PICK l \in Nat : l = bank.wait[c]
      BY <1>5, <1>6
    <3>8. l >= rcd - al
      BY <1>5, <1>6, <3>5, <3>7
    <3>9. l + first >= free
      BY <2>3, <3>6, <3>8
    <3>10. QED
      BY <1>7, <3>7, <3>9 DEF Kept
  <2>6. QED
    BY <2>4, <2>5
<1>10. QED
  BY <1>1, <1>7, <1>8, <1>9 DEF Kept

\* A column command makes them wait for its own burst.
LEMMA NewBurstKept ==
  ASSUME BusTimings, NEW banks \in [Banks -> BankRecords], NEW cmd \in Queued,
         NEW b \in Banks, NEW c \in Columns, NEW u, u = Burst(cmd),
         NEW bank, bank = UpdateTimingAndStates(banks, cmd)[b]
  PROVE  Kept(bank, b.rank, u, c)
<1>1. PICK w, d, f : w = banks[b] /\ d = Delays(cmd, b) /\ f = cmd.type
  OBVIOUS
<1>2. f \in Columns /\ f \in CommandType /\ f \in BankCommands /\ f # "REFRESH" /\ f # "ACTIVATE"
  <2>1. f \in Columns
    BY <1>1 DEF Queued
  <2>2. QED
    BY <2>1, ColumnTypes DEF BankCommands
<1>3. w \in BankRecords /\ w.wait \in [CommandType -> Nat]
  BY <1>1 DEF BankRecords
<1>4. /\ bank.open = IF Concerns(cmd, b) THEN UpdateState(w, cmd).open ELSE w.open
      /\ bank.wait = [x \in CommandType |->
                        IF x \in DOMAIN d THEN Later(w.wait[x], d[x]) ELSE w.wait[x]]
  BY <1>1, <1>2, BankUpdated
<1>5. DOMAIN d \subseteq CommandType /\ \A x \in DOMAIN d : d[x] \in Int
  BY <1>1, <1>2, Tables DEF Table
<1>6. ASSUME NEW x \in DOMAIN d
      PROVE  bank.wait[x] \in Nat /\ d[x] \in Int /\ bank.wait[x] >= d[x]
  <2>1. w.wait[x] \in Nat /\ d[x] \in Int /\ x \in CommandType
    BY <1>3, <1>5
  <2>2. bank.wait[x] = Later(w.wait[x], d[x])
    BY <1>4, <2>1
  <2>3. QED
    BY <2>1, <2>2, Raised
<1>7. PICK F \in Nat, C \in Nat, burst \in Nat, rtrs \in Nat :
        F = FirstBeat(f) /\ C = FirstBeat(c) /\ burst = T.burst_cycle /\ rtrs = T.tRTRS
  BY TimingGiven DEF FirstBeat
<1>8. u.cmd = cmd /\ u.until = F + burst
  BY <1>1, <1>7 DEF Burst, FirstBeat
<1>9. BusFree(u, b.rank, c) =
        F + burst + (IF cmd.addr.rank # b.rank /\ (IsRead(f) \/ IsRead(c)) THEN rtrs ELSE 0)
  BY <1>1, <1>7, <1>8 DEF BusFree
<1>10. CASE b.rank # cmd.addr.rank
  <2>1. d = ColumnToOtherRank(f)
    BY <1>1, <1>2, <1>10 DEF Delays, other_ranks
  <2>2. /\ DOMAIN ColumnToOtherRank(f) = Columns
        /\ ColumnToOtherRank(f)[c] \in Int
        /\ ColumnToOtherRank(f)[c] + FirstBeat(c) >=
             FirstBeat(f) + T.burst_cycle + (IF IsRead(f) \/ IsRead(c) THEN T.tRTRS ELSE 0)
    BY <1>2, ColumnTables, TimingGiven
  <2>3. c \in DOMAIN d /\ d[c] + C >= F + burst + (IF IsRead(f) \/ IsRead(c) THEN rtrs ELSE 0)
    BY <1>7, <2>1, <2>2
  <2>4. bank.wait[c] + C >= F + burst + (IF IsRead(f) \/ IsRead(c) THEN rtrs ELSE 0)
    BY <1>6, <2>3
  <2>5. QED
    BY <1>7, <1>9, <1>10, <2>4 DEF Kept
<1>11. ASSUME b.rank = cmd.addr.rank, c \in DOMAIN d, d[c] + C >= F + burst
       PROVE  Kept(bank, b.rank, u, c)
  <2>1. bank.wait[c] + C >= F + burst
    BY <1>6, <1>11
  <2>2. BusFree(u, b.rank, c) = F + burst
    BY <1>9, <1>11
  <2>3. QED
    BY <1>7, <2>1, <2>2 DEF Kept
<1>12. ASSUME NEW ccd \in Nat, NEW wtr \in Nat
       PROVE  /\ DOMAIN ColumnToColumn(f, ccd, wtr) = Columns
              /\ ColumnToColumn(f, ccd, wtr)[c] + C >= F + burst
  BY <1>2, <1>7, ColumnTables
<1>13. CASE b.rank = cmd.addr.rank /\ b.group # cmd.addr.group
  <2>1. d = ColumnToColumn(f, T.tCCD_S, T.tWTR_S)
    <3>1. other_bankgroups_same_rank[f] = ColumnToColumn(f, T.tCCD_S, T.tWTR_S)
      BY <1>2, ColumnTypes DEF other_bankgroups_same_rank
    <3>2. d = other_bankgroups_same_rank[f]
      BY <1>1, <1>2, <1>13 DEF Delays
    <3>3. QED
      BY <3>1, <3>2
  <2>2. c \in DOMAIN d /\ d[c] + C >= F + burst
    BY <1>12, <2>1, TimingGiven
  <2>3. QED
    BY <1>11, <1>13, <2>2
<1>14. CASE b.rank = cmd.addr.rank /\ b.group = cmd.addr.group /\ b.bank # cmd.addr.bank
  <2>1. d = ColumnToColumn(f, LongCCD, LongWTR)
    <3>1. other_banks_same_bankgroup[f] = ColumnToColumn(f, LongCCD, LongWTR)
      BY <1>2, ColumnTypes DEF other_banks_same_bankgroup
    <3>2. d = other_banks_same_bankgroup[f]
      BY <1>1, <1>2, <1>14 DEF Delays
    <3>3. QED
      BY <3>1, <3>2
  <2>2. c \in DOMAIN d /\ d[c] + C >= F + burst
    BY <1>12, <2>1, DelaysFor
  <2>3. QED
    BY <1>11, <1>14, <2>2
<1>15. CASE b.rank = cmd.addr.rank /\ b.group = cmd.addr.group /\ b.bank = cmd.addr.bank
  <2>1. d = same_bank[f]
    BY <1>1, <1>2, <1>15 DEF Delays
  <2>2. Concerns(cmd, b)
    <3>1. b = BankOf(cmd.addr)
      BY <1>15 DEF BankOf, Banks
    <3>2. QED
      BY <1>1, <1>2, <3>1 DEF Concerns
  <2>3. CASE f \in {"READ", "WRITE"}
    <3>1. d = [x \in Columns \cup {"PRECHARGE"} |->
                 IF x \in Columns     THEN ColumnToColumn(f, LongCCD, LongWTR)[x]
                 ELSE IF IsRead(f)  THEN read_to_precharge ELSE write_to_precharge]
      BY <1>2, <2>1, <2>3 DEF same_bank
    <3>2. c \in DOMAIN d /\ d[c] = ColumnToColumn(f, LongCCD, LongWTR)[c]
      BY <3>1
    <3>3. QED
      BY <1>11, <1>12, <1>15, <3>2, DelaysFor
  \* The bank has to be activated first.
  <2>4. ASSUME f \in {"READ_PRECHARGE", "WRITE_PRECHARGE"}, "ACTIVATE" \in DOMAIN d,
               d["ACTIVATE"] + T.tRCD - T.AL + C >= F + burst
        PROVE  Kept(bank, b.rank, u, c)
    <3>1. bank.open = NoRow
      <4>1. UpdateState(w, cmd) = [w EXCEPT !.open = NoRow, !.hits = 0]
        BY <1>1, <2>4 DEF UpdateState
      <4>2. w = [open |-> w.open, hits |-> w.hits, wait |-> w.wait]
        BY <1>3 DEF BankRecords
      <4>3. UpdateState(w, cmd).open = NoRow
        BY <4>1, <4>2
      <4>4. QED
        BY <1>4, <2>2, <4>3
    <3>2. PICK rcd \in Nat, al \in Nat, m \in Nat, e \in Int :
            rcd = T.tRCD /\ al = T.AL /\ m = bank.wait["ACTIVATE"] /\ e = d["ACTIVATE"]
      BY <1>6, <2>4, TimingGiven
    <3>3. m >= e /\ e + rcd - al + C >= F + burst
      BY <1>6, <2>4, <3>2
    <3>4. m + rcd - al + C >= F + burst
      BY <3>3
    <3>5. BusFree(u, b.rank, c) = F + burst
      BY <1>9, <1>15
    <3>6. QED
      BY <1>7, <3>1, <3>2, <3>4, <3>5 DEF Kept
  <2>5. PICK RL \in Nat, WL \in Nat, AL \in Nat, rtp \in Nat, rp \in Nat, rcd \in Nat, wr \in Nat :
          /\ RL = T.RL /\ WL = T.WL /\ AL = T.AL /\ rtp = T.tRTP /\ rp = T.tRP
          /\ rcd = T.tRCD /\ wr = T.tWR
    BY TimingGiven
  <2>6. AL <= RL /\ AL <= WL /\ RL <= WL + rtp + rp + rcd
    BY <2>5 DEF BusTimings
  <2>7. C = RL \/ C = WL
    BY <1>7, <2>5 DEF FirstBeat
  <2>8. CASE f = "READ_PRECHARGE"
    <3>1. d = [ACTIVATE |-> T.AL + T.burst_cycle + T.tRTP + T.tRP,
               REFRESH  |-> read_to_precharge + T.tRP]
      BY <1>2, <2>1, <2>8 DEF same_bank
    <3>2. "ACTIVATE" \in DOMAIN d /\ d["ACTIVATE"] = AL + burst + rtp + rp
      BY <1>7, <2>5, <3>1
    <3>3. F = RL
      BY <1>7, <2>5, <2>8 DEF FirstBeat, IsRead
    <3>4. AL + burst + rtp + rp + rcd - AL + C >= F + burst
      BY <2>6, <2>7, <3>3
    <3>5. QED
      BY <2>4, <2>5, <2>8, <3>2, <3>4
  <2>9. CASE f = "WRITE_PRECHARGE"
    <3>1. d = [x \in {"ACTIVATE", "REFRESH"} |-> write_to_precharge + T.tRP]
      BY <1>2, <2>1, <2>9 DEF same_bank
    <3>2. "ACTIVATE" \in DOMAIN d /\ d["ACTIVATE"] = WL + burst + wr + rp
      BY <1>7, <2>5, <3>1 DEF write_to_precharge
    <3>3. F = WL
      BY <1>7, <2>5, <2>9 DEF FirstBeat, IsRead
    <3>4. WL + burst + wr + rp + rcd - AL + C >= F + burst
      BY <2>6, <2>7, <3>3
    <3>5. QED
      BY <2>4, <2>5, <2>9, <3>2, <3>4
  <2>10. QED
    BY <1>2, <2>3, <2>8, <2>9 DEF Columns
<1>16. QED
  BY <1>10, <1>13, <1>14, <1>15

LEMMA BusIssued ==
  ASSUME BusTimings, NEW banks \in [Banks -> BankRecords], NEW cmd, cmd.type \in CommandType,
         cmd.type = "ACTIVATE" => cmd.addr.row \in Nat,
         cmd.type # "REFRESH" => /\ banks[BankOf(cmd.addr)].wait[cmd.type] = 0
                                 /\ Legal(banks[BankOf(cmd.addr)], cmd),
         cmd.type \in Columns => cmd \in Queued,
         NEW bursts, BusOk(banks, bursts),
         NEW new, new = bursts \cup (IF cmd.type \in Columns THEN {Burst(cmd)} ELSE {})
  PROVE  BusOk(UpdateTimingAndStates(banks, cmd), new)
<1>1. PICK ub : ub = UpdateTimingAndStates(banks, cmd)
  OBVIOUS
<1>2. /\ bursts \subseteq [cmd : Queued, from : Int, until : Int]
      /\ \A u \in bursts : \A b \in Banks : \A c \in Columns : Kept(banks[b], b.rank, u, c)
      /\ Exclusive(bursts)
  BY DEF BusOk
<1>3. \A u \in new : u \in bursts \/ (cmd.type \in Columns /\ u = Burst(cmd))
  OBVIOUS
<1>4. cmd.type \in Columns => Burst(cmd) \in [cmd : Queued, from : Int, until : Int]
  BY TimingGiven DEF Burst
<1>5. new \subseteq [cmd : Queued, from : Int, until : Int]
  BY <1>2, <1>4
<1>6. ASSUME NEW u \in new, NEW b \in Banks, NEW c \in Columns PROVE Kept(ub[b], b.rank, u, c)
  <2>1. CASE u \in bursts
    <3>1. PICK bank : bank = UpdateTimingAndStates(banks, cmd)[b]
      OBVIOUS
    <3>2. u \in [cmd : Queued, from : Int, until : Int] /\ Kept(banks[b], b.rank, u, c)
      BY <1>2, <2>1
    <3>3. Kept(bank, b.rank, u, c)
      BY <3>1, <3>2, OldBurstsKept
    <3>4. QED
      BY <1>1, <3>1, <3>3
  <2>2. CASE cmd.type \in Columns /\ u = Burst(cmd)
    <3>1. PICK bank : bank = UpdateTimingAndStates(banks, cmd)[b]
      OBVIOUS
    <3>2. cmd \in Queued
      BY <2>2
    <3>3. Kept(bank, b.rank, u, c)
      BY <2>2, <3>1, <3>2, NewBurstKept
    <3>4. QED
      BY <1>1, <3>1, <3>3
  <2>3. QED
    BY <1>3, <2>1, <2>2
\* The bank of a column command has waited for the bursts on the bus.
<1>7. ASSUME cmd.type \in Columns, NEW u \in bursts
      PROVE  LET v == Burst(cmd)
                 idle == IF u.cmd.addr.rank # cmd.addr.rank
                            /\ (IsRead(u.cmd.type) \/ IsRead(cmd.type))
                         THEN T.tRTRS ELSE 0
             IN  u.until + idle <= v.from /\ v.cmd = cmd
  <2>1. PICK b, f : b = BankOf(cmd.addr) /\ f = cmd.type
    OBVIOUS
  <2>2. b \in Banks /\ b.rank = cmd.addr.rank /\ f \in Columns
    BY <1>7, <2>1, Given DEF Queued
  <2>3. Kept(banks[b], b.rank, u, f)
    BY <1>2, <2>2
  <2>4. banks[b].wait[f] = 0 /\ banks[b].open # NoRow
    BY <1>7, <2>1, ColumnTypes DEF Legal
  <2>5. PICK free \in Int, first \in Nat : free = BusFree(u, b.rank, f) /\ first = FirstBeat(f)
    BY <1>2, BurstTypes
  <2>6. free <= first
    BY <2>3, <2>4, <2>5 DEF Kept
  <2>7. free = u.until + (IF u.cmd.addr.rank # cmd.addr.rank
                              /\ (IsRead(u.cmd.type) \/ IsRead(cmd.type))
                          THEN T.tRTRS ELSE 0)
    BY <2>1, <2>2, <2>5 DEF BusFree
  <2>8. Burst(cmd).from = first /\ Burst(cmd).cmd = cmd
    BY <2>1, <2>5 DEF Burst, FirstBeat
  <2>9. QED
    BY <2>6, <2>7, <2>8
<1>8. Exclusive(new)
  <2>1. SUFFICES ASSUME NEW u \in new, NEW v \in new
                 PROVE  LET idle == IF u.cmd.addr.rank # v.cmd.addr.rank
                                       /\ (IsRead(u.cmd.type) \/ IsRead(v.cmd.type))
                                    THEN T.tRTRS ELSE 0
                        IN  u = v \/ u.until + idle <= v.from \/ v.until + idle <= u.from
    BY DEF Exclusive
  <2>2. CASE u \in bursts /\ v \in bursts
    BY <1>2, <2>2 DEF Exclusive
  <2>3. CASE u \in bursts /\ v = Burst(cmd) /\ cmd.type \in Columns
    BY <1>7, <2>3
  <2>4. CASE v \in bursts /\ u = Burst(cmd) /\ cmd.type \in Columns
    <3>1. v.until + (IF v.cmd.addr.rank # u.cmd.addr.rank
                        /\ (IsRead(v.cmd.type) \/ IsRead(u.cmd.type))
                     THEN T.tRTRS ELSE 0) <= u.from
      BY <1>7, <2>4
    <3>2. QED
      BY <3>1
  <2>5. QED
    BY <1>3, <2>2, <2>3, <2>4
<1>9. QED
  BY <1>1, <1>5, <1>6, <1>8 DEF BusOk

\* A cycle passes for the banks and for the bus.
Shifted(bursts) ==
  {[b EXCEPT !.from = @ - 1, !.until = @ - 1] : b \in {c \in bursts : c.until > -T.tRTRS}}

LEMMA BusElapsed ==
  ASSUME NEW banks \in [Banks -> BankRecords], NEW bursts, BusOk(banks, bursts),
         NEW new, new = Shifted(bursts)
  PROVE  BusOk(Elapsed(banks), new)
<1>1. /\ bursts \subseteq [cmd : Queued, from : Int, until : Int]
      /\ \A u \in bursts : \A b \in Banks : \A c \in Columns : Kept(banks[b], b.rank, u, c)
      /\ Exclusive(bursts)
  BY DEF BusOk
<1>2. ASSUME NEW v \in new
      PROVE  \E u \in bursts : /\ v \in [cmd : Queued, from : Int, until : Int]
                               /\ u \in [cmd : Queued, from : Int, until : Int]
                               /\ v.cmd = u.cmd /\ v.from = u.from - 1 /\ v.until = u.until - 1
  <2>1. PICK u \in bursts : v = [u EXCEPT !.from = @ - 1, !.until = @ - 1]
    BY DEF Shifted
  <2>2. u \in [cmd : Queued, from : Int, until : Int]
    BY <1>1
  <2>3. u.from \in Int /\ u.until \in Int /\ u.cmd \in Queued
    BY <2>2
  <2>4. PICK x \in Int, y \in Int : x = u.from - 1 /\ y = u.until - 1
    BY <2>3
  <2>5. DOMAIN v = {"cmd", "from", "until"} /\ v.cmd = u.cmd /\ v.from = x /\ v.until = y
        /\ v = [f \in DOMAIN v |-> v[f]]
    BY <2>1, <2>2, <2>4
  <2>6. v \in [cmd : Queued, from : Int, until : Int]
    BY <2>3, <2>4, <2>5
  <2>7. QED
    BY <2>2, <2>4, <2>5, <2>6
<1>3. ASSUME NEW v \in new, NEW b \in Banks, NEW c \in Columns
      PROVE  Kept(Elapsed(banks)[b], b.rank, v, c)
  <2>1. PICK u \in bursts : /\ v \in [cmd : Queued, from : Int, until : Int]
                            /\ u \in [cmd : Queued, from : Int, until : Int]
                            /\ v.cmd = u.cmd /\ v.from = u.from - 1 /\ v.until = u.until - 1
    BY <1>2
  <2>2. PICK free \in Int, first \in Nat : free = BusFree(u, b.rank, c) /\ first = FirstBeat(c)
    BY <2>1, BurstTypes
  <2>3. BusFree(v, b.rank, c) = free - 1
    <3>1. PICK x \in Int, k \in Int :
            x = u.until /\ k = (IF u.cmd.addr.rank # b.rank /\ (IsRead(u.cmd.type) \/ IsRead(c))
                                THEN T.tRTRS ELSE 0)
      BY <2>1, TimingGiven
    <3>2. free = x + k
      BY <2>2, <3>1 DEF BusFree
    <3>3. BusFree(v, b.rank, c) = x - 1 + k
      BY <2>1, <3>1 DEF BusFree
    <3>4. QED
      BY <3>2, <3>3
  <2>4. PICK w, e : w = banks[b] /\ e = Elapsed(banks)[b]
    OBVIOUS
  <2>5. w = [open |-> w.open, hits |-> w.hits, wait |-> w.wait] /\ w.wait \in [CommandType -> Nat]
    BY <2>4 DEF BankRecords
  <2>6. e.open = w.open /\ e.wait = [x \in CommandType |-> Later(w.wait[x] - 1, 0)]
    <3>1. e = [w EXCEPT !.wait = [x \in CommandType |-> Later(@[x] - 1, 0)]]
      BY <2>4 DEF Elapsed
    <3>2. QED
      BY <2>5, <3>1
  <2>7. ASSUME NEW x \in CommandType
        PROVE  w.wait[x] \in Nat /\ e.wait[x] \in Nat /\ e.wait[x] >= w.wait[x] - 1
    <3>1. w.wait[x] \in Nat /\ e.wait[x] = Later(w.wait[x] - 1, 0)
      BY <2>5, <2>6
    <3>2. QED
      BY <3>1 DEF Later
  <2>8. c \in CommandType /\ "ACTIVATE" \in CommandType
    BY DEF CommandType
  <2>9. Kept(w, b.rank, u, c)
    BY <1>1, <2>4
  <2>10. CASE w.wait[c] + first >= free
    <3>1. e.wait[c] + first >= free - 1
      BY <2>7, <2>8, <2>10
    <3>2. QED
      BY <2>2, <2>3, <2>4, <3>1 DEF Kept
  <2>11. CASE w.open = NoRow /\ w.wait["ACTIVATE"] + T.tRCD - T.AL + first >= free
    <3>1. PICK rcd \in Nat, al \in Nat, m \in Nat, n \in Nat :
            rcd = T.tRCD /\ al = T.AL /\ m = w.wait["ACTIVATE"] /\ n = e.wait["ACTIVATE"]
      BY <2>7, <2>8, TimingGiven
    <3>2. n >= m - 1 /\ m + rcd - al + first >= free
      BY <2>7, <2>8, <2>11, <3>1
    <3>3. n + rcd - al + first >= free - 1
      BY <3>2
    <3>4. QED
      BY <2>2, <2>3, <2>4, <2>6, <2>11, <3>1, <3>3 DEF Kept
  <2>12. QED
    BY <2>2, <2>9, <2>10, <2>11 DEF Kept
<1>4. Exclusive(new)
  <2>1. SUFFICES ASSUME NEW p \in new, NEW q \in new
                 PROVE  LET idle == IF p.cmd.addr.rank # q.cmd.addr.rank
                                       /\ (IsRead(p.cmd.type) \/ IsRead(q.cmd.type))
                                    THEN T.tRTRS ELSE 0
                        IN  p = q \/ p.until + idle <= q.from \/ q.until + idle <= p.from
    BY DEF Exclusive
  <2>2. PICK u \in bursts : /\ p \in [cmd : Queued, from : Int, until : Int]
                            /\ u \in [cmd : Queued, from : Int, until : Int]
                            /\ p.cmd = u.cmd /\ p.from = u.from - 1 /\ p.until = u.until - 1
    BY <1>2
  <2>3. PICK v \in bursts : /\ q \in [cmd : Queued, from : Int, until : Int]
                            /\ v \in [cmd : Queued, from : Int, until : Int]
                            /\ q.cmd = v.cmd /\ q.from = v.from - 1 /\ q.until = v.until - 1
    BY <1>2
  <2>4. PICK k \in Int : k = (IF p.cmd.addr.rank # q.cmd.addr.rank
                                 /\ (IsRead(p.cmd.type) \/ IsRead(q.cmd.type))
                              THEN T.tRTRS ELSE 0)
    BY TimingGiven
  <2>5. u = v \/ u.until + k <= v.from \/ v.until + k <= u.from
    BY <1>1, <2>2, <2>3, <2>4 DEF Exclusive
  <2>6. u.from \in Int /\ u.until \in Int /\ v.from \in Int /\ v.until \in Int
    BY <2>2, <2>3
  <2>7. CASE u = v
    <3>1. p = [cmd |-> p.cmd, from |-> p.from, until |-> p.until]
          /\ q = [cmd |-> q.cmd, from |-> q.from, until |-> q.until]
      BY <2>2, <2>3
    <3>2. p = q
      BY <2>2, <2>3, <2>7, <3>1
    <3>3. QED
      BY <3>2
  <2>8. CASE u.until + k <= v.from
    <3>1. p.until + k <= q.from
      BY <2>2, <2>3, <2>6, <2>8
    <3>2. QED
      BY <2>4, <3>1
  <2>9. CASE v.until + k <= u.from
    <3>1. q.until + k <= p.from
      BY <2>2, <2>3, <2>6, <2>9
    <3>2. QED
      BY <2>4, <3>1
  <2>10. QED
    BY <2>5, <2>7, <2>8, <2>9
<1>5. new \subseteq [cmd : Queued, from : Int, until : Int]
  BY <1>2
<1>6. QED
  BY <1>3, <1>4, <1>5 DEF BusOk

(***************************************************************************)
(* The channel.                                                            *)
(***************************************************************************)
ChannelInv == TransInv(ctl) /\ BankTypes(ctl) /\ ctl.aborted = FALSE

LEMMA ChosenTypes ==
  ASSUME NEW s, TransTypes(s), NEW n, Chooses(s, n), n.cmd # NoCommand
  PROVE  /\ n.cmd.type \in CommandType
         /\ n.cmd.type = "ACTIVATE" => n.cmd.addr.row \in Nat
         /\ n.cmd.type # "REFRESH" => /\ s.banks[BankOf(n.cmd.addr)].wait[n.cmd.type] = 0
                                      /\ Legal(s.banks[BankOf(n.cmd.addr)], n.cmd)
         /\ n.cmd.type \in Columns => n.cmd \in Queued
<1>1. CASE ChoosesRefresh(s, n)
  <2>1. n.cmd.type = "REFRESH"
    BY <1>1 DEF ChoosesRefresh
  <2>2. QED
    BY <2>1, ColumnTypes DEF CommandType
<1>2. CASE ChoosesRow(s, n)
  <2>1. n.cmd.type \notin Columns
    BY <1>2, ColumnTypes DEF ChoosesRow
  <2>2. QED
    BY <1>2, <2>1 DEF ChoosesRow, BankTakes
<1>3. CASE ChoosesColumn(s, n)
  <2>1. PICK q \in 0 .. NumQueues - 1 : \E i \in 1 .. Len(s.queues[q]) : Serves(s, n, q, i)
    BY <1>3 DEF ChoosesColumn
  <2>2. PICK i \in 1 .. Len(s.queues[q]) : Serves(s, n, q, i)
    BY <2>1
  <2>3. n.cmd = s.queues[q][i] /\ BankTakes(s, n.cmd)
    BY <2>2 DEF Serves
  <2>4. s.queues[q] \in Seq(Queued)
    BY DEF TransTypes
  <2>5. n.cmd \in Queued
    BY <2>3, <2>4
  <2>6. QED
    BY <2>3, <2>5 DEF BankTakes
<1>4. QED
  BY <1>1, <1>2, <1>3 DEF Chooses, ChoosesNone

LEMMA BanksIssued ==
  ASSUME NEW banks \in [Banks -> BankRecords], NEW cmd, cmd.type \in CommandType,
         cmd.type = "ACTIVATE" => cmd.addr.row \in Nat
  PROVE  UpdateTimingAndStates(banks, cmd) \in [Banks -> BankRecords]
<1>1. PICK ub : ub = UpdateTimingAndStates(banks, cmd)
  OBVIOUS
<1>2. DOMAIN ub = Banks /\ ub = [b \in Banks |-> ub[b]]
  BY <1>1 DEF UpdateTimingAndStates
<1>3. ASSUME NEW b \in Banks PROVE ub[b] \in BankRecords
  <2>1. PICK bank : bank = UpdateTimingAndStates(banks, cmd)[b]
    OBVIOUS
  <2>2. bank \in BankRecords
    BY <2>1, BankUpdated
  <2>3. QED
    BY <1>1, <2>1, <2>2
<1>4. QED
  BY <1>1, <1>2, <1>3

LEMMA BanksElapsed ==
  ASSUME NEW banks \in [Banks -> BankRecords]
  PROVE  Elapsed(banks) \in [Banks -> BankRecords]
<1>1. ASSUME NEW b \in Banks
      PROVE  [banks[b] EXCEPT !.wait = [c \in CommandType |-> Later(@[c] - 1, 0)]] \in BankRecords
  <2>1. PICK w, x : w = banks[b] /\ x = [c \in CommandType |-> Later(w.wait[c] - 1, 0)]
    OBVIOUS
  <2>2. w \in BankRecords
    BY <2>1
  <2>3. w.wait \in [CommandType -> Nat]
    BY <2>2 DEF BankRecords
  <2>4. \A c \in CommandType : Later(w.wait[c] - 1, 0) \in Nat
    BY <2>3 DEF Later
  <2>5. x \in [CommandType -> Nat]
    BY <2>1, <2>4
  <2>6. [w EXCEPT !.wait = x] \in BankRecords
    BY <2>2, <2>5 DEF BankRecords
  <2>7. [banks[b] EXCEPT !.wait = [c \in CommandType |-> Later(@[c] - 1, 0)]]
          = [w EXCEPT !.wait = x]
    BY <2>1
  <2>8. QED
    BY <2>6, <2>7
<1>2. QED
  BY <1>1 DEF Elapsed

LEMMA BeforeChoice ==
  ASSUME NEW s, TransInv(s), NEW x, NEW u, u = RefreshTick([s EXCEPT !.returnQ = x])
  PROVE  SameTrans(s, u) /\ u.aborted = s.aborted /\ u.banks = s.banks
<1>1. s = [f \in CtlFields |-> s[f]] /\ s.queueIdx \in Nat
  BY DEF TransInv, TransTypes
<1>2. PICK v : v = [s EXCEPT !.returnQ = x]
  OBVIOUS
<1>3. /\ v = [f \in CtlFields |-> v[f]] /\ v.queueIdx = s.queueIdx
      /\ v.queues = s.queues /\ v.waiting = s.waiting /\ v.pendRd = s.pendRd
      /\ v.pendWr = s.pendWr /\ v.aborted = s.aborted /\ v.banks = s.banks
  BY <1>1, <1>2 DEF CtlFields
<1>4. u = v \/ u = [v EXCEPT !.refreshQ  = Append(v.refreshQ, v.nextRank),
                             !.nextRank  = (v.nextRank + 1) % NumRanks,
                             !.refreshIn = refresh_interval]
  BY <1>2 DEF RefreshTick
<1>5. /\ u = [f \in CtlFields |-> u[f]] /\ u.queueIdx = v.queueIdx
      /\ u.queues = v.queues /\ u.waiting = v.waiting /\ u.pendRd = v.pendRd
      /\ u.pendWr = v.pendWr /\ u.aborted = v.aborted /\ u.banks = v.banks
  BY <1>3, <1>4 DEF CtlFields
<1>6. QED
  BY <1>1, <1>3, <1>5 DEF SameTrans

LEMMA AfterCycle ==
  ASSUME NEW s, TransInv(s), NEW u, u = OneCycle(s)
  PROVE  SameTrans(s, u) /\ u.aborted = s.aborted /\ u.banks = Elapsed(s.banks)
<1>1. s = [f \in CtlFields |-> s[f]] /\ s.queueIdx \in Nat
  BY DEF TransInv, TransTypes
<1>2. PICK x, y, z : u = [s EXCEPT !.banks = Elapsed(s.banks), !.faw = x, !.refreshIn = y,
                                   !.returnQ = z]
  BY DEF OneCycle
<1>3. QED
  BY <1>1, <1>2 DEF SameTrans, CtlFields

\* A tick up to the transaction that is added after it.
Ticked(s0, n, i, s) ==
  /\ SameTrans(ctl, s0) /\ s0.banks = ctl.banks
  /\ Chooses(s0, n)
  /\ i.banks = IF n.cmd = NoCommand THEN ctl.banks ELSE UpdateTimingAndStates(ctl.banks, n.cmd)
  /\ TransInv(s) /\ s.aborted = FALSE
  /\ s.banks = Elapsed(i.banks)
  /\ OldDataRead(ctl, s)

LEMMA TickTaken ==
  ASSUME ChannelInv,
         NEW s0, s0 = RefreshTick([ctl EXCEPT !.returnQ = NotDone]),
         NEW n, n = NextCommand(s0), NEW i, i = Issued(n),
         NEW s, s = OneCycle(ScheduleTransaction(i))
  PROVE  Ticked(s0, n, i, s)
<1>1. TransInv(ctl) /\ BankTypes(ctl) /\ ctl.aborted = FALSE
  BY DEF ChannelInv
<1>2. SameTrans(ctl, s0) /\ s0.aborted = FALSE /\ s0.banks = ctl.banks
  BY <1>1, BeforeChoice
<1>3. TransInv(s0)
  BY <1>1, <1>2, TransKept
<1>4. BankTypes(s0)
  BY <1>1, <1>2 DEF BankTypes
<1>5. Chooses(s0, n)
  BY <1>3, <1>4, CommandChosen DEF TransInv
<1>6. /\ TransInv(i) /\ i.aborted = FALSE
      /\ i.banks = IF n.cmd = NoCommand THEN s0.banks ELSE UpdateTimingAndStates(s0.banks, n.cmd)
  BY <1>2, <1>3, <1>5, CommandIssued
<1>7. OldDataRead(s0, i)
  BY <1>2, <1>3, <1>5, CommandIssued
<1>8. PICK t : t = ScheduleTransaction(i)
  OBVIOUS
<1>9. TransInv(t) /\ t.aborted = FALSE /\ t.banks = i.banks /\ t.pendWr = i.pendWr
  BY <1>6, <1>8, TransScheduled
<1>10. SameTrans(t, s) /\ s.aborted = FALSE /\ s.banks = Elapsed(i.banks)
  BY <1>8, <1>9, AfterCycle
<1>11. TransInv(s)
  BY <1>9, <1>10, TransKept
<1>12. OldDataRead(ctl, s)
  BY <1>2, <1>7, <1>9, <1>10 DEF OldDataRead, SameTrans
<1>13. QED
  BY <1>2, <1>5, <1>6, <1>10, <1>11, <1>12 DEF Ticked

\* The transaction that is added.
LEMMA TickCompleted ==
  ASSUME NEW s0, NEW n, NEW i, NEW s, Ticked(s0, n, i, s),
         Pause(s) \/ \E a \in Addresses, write \in BOOLEAN : AddTransaction(s, a, write)
  PROVE  /\ TransInv(ctl') /\ ctl'.aborted = FALSE /\ ctl'.banks = s.banks
         /\ \A a \in ctl.pendWr \ ctl'.pendWr : ctl.pendRd[a] = 0
<1>1. TransInv(s) /\ s.aborted = FALSE /\ OldDataRead(ctl, s)
  BY DEF Ticked
<1>2. PICK u : u = ctl'
  OBVIOUS
<1>3. TransInv(u) /\ u.aborted = FALSE /\ u.banks = s.banks /\ s.pendWr \subseteq u.pendWr
  <2>1. CASE Pause(s)
    BY <1>1, <1>2, <2>1 DEF Pause
  <2>2. CASE \E a \in Addresses, write \in BOOLEAN : AddTransaction(s, a, write)
    <3>1. PICK a \in Addresses, write \in BOOLEAN : AddTransaction(s, a, write)
      BY <2>2
    <3>2. CASE write
      <4>1. u = AddWrite(s, a)
        BY <1>2, <3>1, <3>2 DEF AddTransaction
      <4>2. QED
        BY <1>1, <4>1, WriteAdded
    <3>3. CASE ~write
      <4>1. u = AddRead(s, a)
        BY <1>2, <3>1, <3>3 DEF AddTransaction
      <4>2. TransInv(u) /\ u.aborted = s.aborted /\ u.banks = s.banks /\ u.pendWr = s.pendWr
        BY <1>1, <4>1, ReadAdded
      <4>3. QED
        BY <1>1, <4>2
    <3>4. QED
      BY <3>2, <3>3
  <2>3. QED
    BY <2>1, <2>2
<1>4. \A a \in ctl.pendWr \ u.pendWr : ctl.pendRd[a] = 0
  BY <1>1, <1>3 DEF OldDataRead
<1>5. QED
  BY <1>2, <1>3, <1>4

LEMMA ConfigKept ==
  ASSUME config' = config, TransInv(ctl') PROVE TransInv(ctl)'
<1>1. TransTypes(ctl') /\ PlacesInv(ctl') /\ OnceInv(ctl') /\ ReadFirstInv(ctl')
  BY DEF TransInv
<1>2. NumQueues' = NumQueues
  BY DEF NumQueues
<1>3. \A a : GetQueueIndex(a)' = GetQueueIndex(a)
  BY DEF GetQueueIndex
<1>4. \A w : QueueFor(w)' = QueueFor(w)
  BY DEF QueueFor
<1>5. TransTypes(ctl)'
  BY <1>1, <1>2 DEF TransTypes
<1>6. PlacesInv(ctl)'
  BY <1>1, <1>2, <1>3, <1>4 DEF PlacesInv
<1>7. OnceInv(ctl)'
  BY <1>1, <1>2 DEF OnceInv
<1>8. ReadFirstInv(ctl)'
  BY <1>1, <1>2, <1>3 DEF ReadFirstInv, ReadQueued, ReadWaits
<1>9. QED
  BY <1>5, <1>6, <1>7, <1>8 DEF TransInv

LEMMA InitChannel == Init => ChannelInv
<1>1. SUFFICES ASSUME Init PROVE ChannelInv
  OBVIOUS
<1>2. PICK first : ctl =
           [banks      |-> NewChannel,
            faw        |-> [r \in Ranks |-> <<>>],
            refreshQ   |-> <<>>,
            refreshIn  |-> first,
            nextRank   |-> 0,
            queues     |-> [q \in 0 .. NumQueues - 1 |-> <<>>],
            queueIdx   |-> 0,
            inRef      |-> FALSE,
            waiting    |-> [read |-> <<>>, write |-> <<>>, unified |-> <<>>],
            pendRd     |-> [a \in Addresses |-> 0],
            pendWr     |-> {},
            draining   |-> 0,
            returnQ    |-> <<>>,
            aborted    |-> FALSE]
  BY <1>1 DEF Init
<1>3. PICK s : s = ctl
  OBVIOUS
<1>4. /\ s = [f \in CtlFields |-> s[f]] /\ s.banks = NewChannel /\ s.queueIdx = 0
      /\ s.queues = [q \in 0 .. NumQueues - 1 |-> <<>>]
      /\ s.waiting = [read |-> <<>>, write |-> <<>>, unified |-> <<>>]
      /\ s.pendRd = [a \in Addresses |-> 0] /\ s.pendWr = {} /\ s.aborted = FALSE
  BY <1>2, <1>3 DEF CtlFields
<1>5. \A q \in 0 .. NumQueues - 1 : s.queues[q] = <<>> /\ Len(s.queues[q]) = 0
  <2>1. PICK qs : qs = s.queues
    OBVIOUS
  <2>2. qs = [q \in 0 .. NumQueues - 1 |-> <<>>]
    BY <1>4, <2>1
  <2>3. \A q \in 0 .. NumQueues - 1 : qs[q] = <<>>
    BY <2>2
  <2>4. Len(<<>>) = 0
    OBVIOUS
  <2>5. QED
    BY <2>1, <2>3, <2>4, Zenon
<1>6. \A x \in Buffers : s.waiting[x] = <<>> /\ Len(s.waiting[x]) = 0
  BY <1>4 DEF Buffers
<1>7. TransTypes(s)
  <2>1. s.queues \in [0 .. NumQueues - 1 -> Seq(Queued)]
    <3>1. PICK qs, e : qs = s.queues /\ e = <<>>
      OBVIOUS
    <3>2. e \in Seq(Queued)
      BY <3>1
    <3>3. qs = [q \in 0 .. NumQueues - 1 |-> e]
      BY <1>4, <3>1, Zenon
    <3>4. qs \in [0 .. NumQueues - 1 -> Seq(Queued)]
      BY <3>2, <3>3
    <3>5. QED
      BY <3>1, <3>4
  <2>2. DOMAIN s.waiting = Buffers /\ s.waiting = [x \in Buffers |-> s.waiting[x]]
    BY <1>4 DEF Buffers
  <2>3. s.waiting \in [Buffers -> Seq(Transactions)]
    <3>1. PICK ws : ws = s.waiting
      OBVIOUS
    <3>2. ws = [x \in Buffers |-> ws[x]] /\ \A x \in Buffers : ws[x] = <<>>
      BY <1>6, <2>2, <3>1
    <3>3. <<>> \in Seq(Transactions)
      OBVIOUS
    <3>4. \A x \in Buffers : ws[x] \in Seq(Transactions)
      BY <3>2, <3>3, Zenon
    <3>5. ws \in [Buffers -> Seq(Transactions)]
      BY <3>2, <3>4, Zenon
    <3>6. QED
      BY <3>1, <3>5
  <2>4. s.pendRd \in [Addresses -> Nat] /\ s.pendWr \in SUBSET Addresses
    <3>1. PICK p : p = s.pendRd
      OBVIOUS
    <3>2. p = [a \in Addresses |-> 0]
      BY <1>4, <3>1
    <3>3. p \in [Addresses -> Nat]
      BY <3>2
    <3>4. s.pendWr \in SUBSET Addresses
      BY <1>4
    <3>5. QED
      BY <3>1, <3>3, <3>4
  <2>5. QED
    BY <1>4, <2>1, <2>3, <2>4 DEF TransTypes
<1>8. PlacesInv(s) /\ OnceInv(s)
  BY <1>5, <1>6 DEF PlacesInv, OnceInv
<1>9. ReadFirstInv(s)
  <2>1. "unified" \in Buffers
    BY DEF Buffers
  <2>2. \A a \in Addresses : ~(s.pendRd[a] > 0)
    BY <1>4
  <2>3. QED
    BY <1>5, <1>6, <2>1, <2>2 DEF ReadFirstInv
<1>10. BankTypes(s)
  <2>1. NewBank \in BankRecords
    BY DEF NewBank, BankRecords
  <2>2. QED
    BY <1>4, <2>1 DEF BankTypes, NewChannel
<1>11. QED
  BY <1>3, <1>4, <1>7, <1>8, <1>9, <1>10 DEF ChannelInv, TransInv

LEMMA InitBus == Init => BusInv
<1>1. SUFFICES ASSUME Init PROVE BusInv
  OBVIOUS
<1>2. bus = {}
  BY <1>1 DEF Init
<1>3. QED
  BY <1>2 DEF BusInv, BusOk, Exclusive

LEMMA TickParts ==
  ASSUME ChannelInv, MemTick
  PROVE  \E s0, n, i, s :
           /\ Ticked(s0, n, i, s)
           /\ Pause(s) \/ \E a \in Addresses, write \in BOOLEAN : AddTransaction(s, a, write)
           /\ bus' = Shifted(Bursts(n))
           /\ config' = config
<1>1. PICK n \in TheChoice : \E i \in {Issued(n)} : \E s \in {OneCycle(ScheduleTransaction(i))} :
        /\ \/ Pause(s)
           \/ \E a \in Addresses, write \in BOOLEAN : AddTransaction(s, a, write)
        /\ bus' = Shifted(Bursts(n))
  BY DEF MemTick, Shifted
<1>2. PICK i, s : /\ i = Issued(n) /\ s = OneCycle(ScheduleTransaction(i))
                  /\ \/ Pause(s)
                     \/ \E a \in Addresses, write \in BOOLEAN : AddTransaction(s, a, write)
                  /\ bus' = Shifted(Bursts(n))
  BY <1>1
<1>3. PICK s0 : s0 = RefreshTick([ctl EXCEPT !.returnQ = NotDone])
  OBVIOUS
<1>4. n = NextCommand(s0)
  BY <1>3 DEF TheChoice
<1>5. Ticked(s0, n, i, s)
  BY <1>2, <1>3, <1>4, TickTaken
<1>6. config' = config
  BY DEF MemTick
<1>7. QED
  BY <1>2, <1>5, <1>6

LEMMA ChannelKept ==
  ChannelInv /\ [Next]_vars =>
    ChannelInv' /\ [\A a \in ctl.pendWr \ ctl'.pendWr : ctl.pendRd[a] = 0]_vars
<1>1. SUFFICES ASSUME ChannelInv, [Next]_vars
               PROVE  ChannelInv' /\ [\A a \in ctl.pendWr \ ctl'.pendWr : ctl.pendRd[a] = 0]_vars
  OBVIOUS
<1>2. CASE UNCHANGED vars
  <2>1. ctl' = ctl /\ config' = config
    BY <1>2 DEF vars
  <2>2. TransInv(ctl') /\ BankTypes(ctl') /\ ctl'.aborted = FALSE
    BY <1>1, <2>1 DEF ChannelInv
  <2>3. TransInv(ctl)'
    BY <2>1, <2>2, ConfigKept
  <2>4. ChannelInv'
    BY <2>2, <2>3 DEF ChannelInv, BankTypes
  <2>5. QED
    BY <1>2, <2>4
<1>3. CASE MemTick
  <2>1. PICK s0, n, i, s :
           /\ Ticked(s0, n, i, s)
           /\ Pause(s) \/ \E a \in Addresses, write \in BOOLEAN : AddTransaction(s, a, write)
           /\ bus' = Shifted(Bursts(n))
           /\ config' = config
    BY <1>1, <1>3, TickParts
  <2>2. TransInv(ctl') /\ ctl'.aborted = FALSE /\ ctl'.banks = s.banks
    BY <2>1, TickCompleted
  <2>3. \A a \in ctl.pendWr \ ctl'.pendWr : ctl.pendRd[a] = 0
    <3>1. SUFFICES ASSUME NEW a \in ctl.pendWr \ ctl'.pendWr PROVE ctl.pendRd[a] = 0
      OBVIOUS
    <3>2. QED
      BY <2>1, TickCompleted
  <2>4. TransInv(ctl)'
    BY <2>1, <2>2, ConfigKept
  <2>5. ctl'.banks \in [Banks -> BankRecords]
    <3>1. ctl.banks \in [Banks -> BankRecords] /\ TransInv(ctl)
      BY <1>1 DEF ChannelInv, BankTypes
    <3>2. SameTrans(ctl, s0) /\ s0.banks = ctl.banks /\ Chooses(s0, n) /\ s.banks = Elapsed(i.banks)
      BY <2>1 DEF Ticked
    <3>3. TransTypes(s0)
      BY <3>1, <3>2, TransKept DEF TransInv
    <3>4. i.banks \in [Banks -> BankRecords]
      <4>1. CASE n.cmd = NoCommand
        BY <2>1, <3>1, <4>1 DEF Ticked
      <4>2. CASE n.cmd # NoCommand
        <5>1. i.banks = UpdateTimingAndStates(ctl.banks, n.cmd)
          BY <2>1, <4>2 DEF Ticked
        <5>2. /\ n.cmd.type \in CommandType
              /\ n.cmd.type = "ACTIVATE" => n.cmd.addr.row \in Nat
          BY <3>2, <3>3, <4>2, ChosenTypes
        <5>3. UpdateTimingAndStates(ctl.banks, n.cmd) \in [Banks -> BankRecords]
          BY <3>1, <5>2, BanksIssued
        <5>4. QED
          BY <5>1, <5>3
      <4>3. QED
        BY <4>1, <4>2
    <3>5. Elapsed(i.banks) \in [Banks -> BankRecords]
      BY <3>4, BanksElapsed
    <3>6. QED
      BY <2>2, <3>2, <3>5
  <2>6. QED
    BY <2>2, <2>3, <2>4, <2>5 DEF ChannelInv, BankTypes
<1>4. QED
  BY <1>1, <1>2, <1>3 DEF Next

\* The inductive invariant of the channel: what waits and what is queued is what is
\* pending, once, and no write is ahead of a read of its address that came before it.
THEOREM ChannelIsConsistent == Spec => []ChannelInv
<1>1. Init => ChannelInv
  BY InitChannel
<1>2. ChannelInv /\ [Next]_vars => ChannelInv'
  BY ChannelKept
<1>3. QED
  BY <1>1, <1>2, PTL DEF Spec

\* The exits of IssueCommand (controller.cc) and of UpdateState (bankstate.cc) are
\* never reached, whatever the addresses, the settings and the timing of the device.
THEOREM ExitsAreUnreachable == Spec => []NoAbort
<1>1. ChannelInv => NoAbort
  BY DEF ChannelInv, NoAbort
<1>2. QED
  BY <1>1, ChannelIsConsistent, PTL

\* A write is issued only when the reads of its address that came before it have
\* been: the scheduler's dependency check with two buffers, the command queue's
\* with one (ScheduleTransaction, HasRWDependency).
THEOREM ReadsAreNotOvertaken == Spec => ReadsSeeOldData
<1>1. Init => ChannelInv
  BY InitChannel
<1>2. ChannelInv /\ [Next]_vars =>
        ChannelInv' /\ [\A a \in ctl.pendWr \ ctl'.pendWr : ctl.pendRd[a] = 0]_vars
  BY ChannelKept
<1>3. QED
  BY <1>1, <1>2, PTL DEF Spec, ReadsSeeOldData

LEMMA BusKept ==
  ASSUME BusTimings, ChannelInv, BusInv, [Next]_vars PROVE BusInv'
<1>1. CASE UNCHANGED vars
  BY <1>1 DEF vars, BusInv, BusOk, Exclusive, Kept, BusFree
<1>2. CASE MemTick
  <2>1. PICK s0, n, i, s :
           /\ Ticked(s0, n, i, s)
           /\ Pause(s) \/ \E a \in Addresses, write \in BOOLEAN : AddTransaction(s, a, write)
           /\ bus' = Shifted(Bursts(n))
           /\ config' = config
    BY <1>2, TickParts
  <2>2. ctl'.banks = s.banks
    BY <2>1, TickCompleted
  <2>3. ctl.banks \in [Banks -> BankRecords] /\ TransInv(ctl)
    BY DEF ChannelInv, BankTypes
  <2>4. SameTrans(ctl, s0) /\ s0.banks = ctl.banks /\ Chooses(s0, n) /\ s.banks = Elapsed(i.banks)
    BY <2>1 DEF Ticked
  <2>5. TransTypes(s0)
    BY <2>3, <2>4, TransKept DEF TransInv
  <2>6. PICK bursts : bursts = Bursts(n)
    OBVIOUS
  <2>7. BusOk(ctl.banks, bus)
    BY DEF BusInv
  <2>8. BusOk(i.banks, bursts) /\ i.banks \in [Banks -> BankRecords]
    <3>1. CASE n.cmd = NoCommand
      <4>1. i.banks = ctl.banks /\ bursts = bus
        BY <2>1, <2>6, <3>1 DEF Ticked, Bursts
      <4>2. QED
        BY <2>3, <2>7, <4>1
    <3>2. CASE n.cmd # NoCommand
      <4>1. i.banks = UpdateTimingAndStates(ctl.banks, n.cmd)
        BY <2>1, <3>2 DEF Ticked
      <4>2. bursts = bus \cup (IF n.cmd.type \in Columns THEN {Burst(n.cmd)} ELSE {})
        BY <2>6, <3>2 DEF Bursts
      <4>3. /\ n.cmd.type \in CommandType
            /\ n.cmd.type = "ACTIVATE" => n.cmd.addr.row \in Nat
            /\ n.cmd.type # "REFRESH" => /\ ctl.banks[BankOf(n.cmd.addr)].wait[n.cmd.type] = 0
                                         /\ Legal(ctl.banks[BankOf(n.cmd.addr)], n.cmd)
            /\ n.cmd.type \in Columns => n.cmd \in Queued
        BY <2>4, <2>5, <3>2, ChosenTypes
      <4>4. BusOk(UpdateTimingAndStates(ctl.banks, n.cmd), bursts)
        BY <2>3, <2>7, <4>2, <4>3, BusIssued
      <4>5. UpdateTimingAndStates(ctl.banks, n.cmd) \in [Banks -> BankRecords]
        BY <2>3, <4>3, BanksIssued
      <4>6. QED
        BY <4>1, <4>4, <4>5
    <3>3. QED
      BY <3>1, <3>2
  <2>9. BusOk(Elapsed(i.banks), Shifted(bursts))
    BY <2>8, BusElapsed
  <2>10. BusOk(ctl'.banks, bus')
    BY <2>1, <2>2, <2>4, <2>6, <2>9
  <2>11. QED
    BY <2>10 DEF BusInv, BusOk, Exclusive, Kept, BusFree
<1>3. QED
  BY <1>1, <1>2 DEF Next

\* Two bursts never meet on the data bus, and between ranks it is idle for tRTRS:
\* the pairwise entries of Timing (timing.cc) suffice for all the commands that are
\* under way, on every device whose latencies are what configuration.cc makes them
\* and whose row takes longer to reopen than a read lasts longer than a write.
THEOREM BurstsNeverMeet ==
  ASSUME BusTimings PROVE Spec => []DataBusExclusive
<1>1. Init => ChannelInv /\ BusInv
  BY InitChannel, InitBus
<1>2. ChannelInv /\ BusInv /\ [Next]_vars => (ChannelInv /\ BusInv)'
  BY ChannelKept, BusKept
<1>3. ChannelInv /\ BusInv => DataBusExclusive
  BY DEF BusInv, BusOk, Exclusive, DataBusExclusive
<1>4. QED
  BY <1>1, <1>2, <1>3, PTL DEF Spec
(***************************************************************************)
(* Refreshes.  While a rank waits for its refresh, the queues of the rank  *)
(* are skipped; each cycle brings it closer to the refresh, by the waits   *)
(* of its banks and then by the precharge of one bank in each cycle.       *)
(***************************************************************************)
\* The longest wait of an open bank for its precharge.
LastPrecharge == Later(T.tRAS, write_to_precharge)

RefreshDelay == LastPrecharge + T.tRP + BankGroups * BanksPerGroup

\* A row can be closed after a read no later than after an activation or a write,
\* and a rank is ready again long before the next refresh.
RefreshFits == /\ read_to_precharge <= LastPrecharge
               /\ RefreshDelay + T.tRFC < refresh_interval

\* The place of a bank in its rank, in which order the banks are precharged.
Place(b) == b.group * BanksPerGroup + b.bank

\* A bank of a rank that is not due is ready for the next refresh when this comes.
Spaced(bank, in) == bank.wait["REFRESH"] <= Later(LastPrecharge + T.tRP, in)

\* A bank of the rank that is due for age cycles; turn is 1 when the command of the
\* cycle has been issued.
BankDue(b, bank, age, turn) ==
  /\ bank.wait["REFRESH"] <= RefreshDelay - age
  /\ bank.open # NoRow => /\ bank.wait["PRECHARGE"] <= Later(LastPrecharge - age, 0)
                          /\ Place(b) >= age + turn - LastPrecharge

Age(in) == refresh_interval - in

RefreshOk(banks, queue, in, turn) ==
  /\ in \in turn .. refresh_interval
  /\ \A b \in Banks : banks[b].wait["PRECHARGE"] <= LastPrecharge
  /\ \/ queue = <<>> /\ \A b \in Banks : Spaced(banks[b], in)
     \/ \E r \in Ranks :
          /\ queue = <<r>> /\ Age(in) + turn <= RefreshDelay
          /\ \A b \in Banks : IF b.rank = r THEN BankDue(b, banks[b], Age(in), turn)
                                            ELSE Spaced(banks[b], in)

RefreshInv ==
  RefreshOk(ctl.banks, ctl.refreshQ, ctl.refreshIn, 0) /\ ctl.nextRank \in Ranks

LEMMA RefreshGiven ==
  /\ LastPrecharge \in Nat /\ RefreshDelay \in Nat /\ refresh_interval \in Nat
  /\ T.tRP \in Nat /\ T.tRFC \in Nat /\ BankGroups * BanksPerGroup \in Nat
  /\ RefreshDelay = LastPrecharge + T.tRP + BankGroups * BanksPerGroup
<1>1. LastPrecharge \in Nat
  BY TimingGiven, DelaysFor DEF LastPrecharge, Later
<1>2. BankGroups * BanksPerGroup \in Nat
  BY Given
<1>3. refresh_interval \in Nat
  <2>1. PICK n \in Nat, m \in Nat \ {0} : n = T.tREFI /\ m = NumRanks
    BY TimingAssumption, Given
  <2>2. n \div m \in Nat
    BY <2>1
  <2>3. QED
    BY <2>1, <2>2 DEF refresh_interval
<1>4. RefreshDelay = LastPrecharge + T.tRP + BankGroups * BanksPerGroup
  BY DEF RefreshDelay
<1>5. QED
  BY <1>1, <1>2, <1>3, <1>4, TimingGiven

LEMMA Places ==
  /\ \A b \in Banks : /\ Place(b) \in 0 .. BankGroups * BanksPerGroup - 1
                      /\ b.rank \in Nat
                      /\ IndexOf(b) = b.rank * (BankGroups * BanksPerGroup) + Place(b)
  /\ \A b, d \in Banks : b.rank = d.rank /\ Place(b) = Place(d) => b = d
<1>1. PICK G \in Nat, B \in Nat : G = BankGroups /\ B = BanksPerGroup
  BY Given
<1>2. ASSUME NEW b \in Banks
      PROVE  /\ b.rank \in Nat /\ b.group \in Nat /\ b.bank \in Nat
             /\ b.group < G /\ b.bank < B
             /\ b = [rank |-> b.rank, group |-> b.group, bank |-> b.bank]
             /\ Place(b) = b.group * B + b.bank
  BY <1>1, Given DEF Banks, Ranks, Place
<1>3. ASSUME NEW b \in Banks
      PROVE  /\ Place(b) \in 0 .. G * B - 1
             /\ IndexOf(b) = b.rank * (G * B) + Place(b)
  <2>1. PICK g \in Nat, x \in Nat, r \in Nat : g = b.group /\ x = b.bank /\ r = b.rank
    BY <1>2
  <2>2. g < G /\ x < B /\ Place(b) = g * B + x
    BY <1>2, <2>1
  <2>3. (g + 1) * B <= G * B
    BY <2>2
  <2>4. g * B + x \in 0 .. G * B - 1
    BY <2>2, <2>3
  <2>5. PICK y \in Nat, z \in Nat : y = g * B /\ z = r * (G * B)
    BY <2>1
  <2>6. IndexOf(b) = z + y + x
    BY <1>1, <2>1, <2>5 DEF IndexOf
  <2>7. QED
    BY <2>1, <2>2, <2>4, <2>5, <2>6
<1>4. ASSUME NEW b \in Banks, NEW d \in Banks, b.rank = d.rank, Place(b) = Place(d)
      PROVE  b = d
  <2>1. PICK g \in Nat, x \in Nat, h \in Nat, y \in Nat :
          g = b.group /\ x = b.bank /\ h = d.group /\ y = d.bank
    BY <1>2
  <2>2. g * B + x = h * B + y /\ x < B /\ y < B
    BY <1>2, <1>4, <2>1
  <2>3. ~(g < h)
    <3>1. SUFFICES ASSUME g < h PROVE FALSE
      OBVIOUS
    <3>2. (g + 1) * B <= h * B
      BY <3>1
    <3>3. QED
      BY <2>2, <3>2
  <2>4. ~(h < g)
    <3>1. SUFFICES ASSUME h < g PROVE FALSE
      OBVIOUS
    <3>2. (h + 1) * B <= g * B
      BY <3>1
    <3>3. QED
      BY <2>2, <3>2
  <2>5. g = h /\ x = y
    BY <2>2, <2>3, <2>4
  <2>6. QED
    BY <1>2, <1>4, <2>1, <2>5
<1>5. QED
  BY <1>1, <1>2, <1>3, <1>4

LEMMA Quotient ==
  ASSUME NEW x \in Nat, NEW M \in Nat \ {0}, NEW r \in Nat, r * M <= x, x < r * M + M
  PROVE  x \div M = r
<1>1. PICK q \in Nat : q = x \div M
  OBVIOUS
<1>2. M * (x \div M) <= x /\ x < M * (x \div M) + M
  OBVIOUS
<1>3. q * M <= x /\ x < q * M + M
  BY <1>1, <1>2
<1>4. ~(q < r)
  <2>1. SUFFICES ASSUME q < r PROVE FALSE
    OBVIOUS
  <2>2. (q + 1) * M <= r * M
    BY <2>1
  <2>3. QED
    BY <1>3, <2>2
<1>5. ~(r < q)
  <2>1. SUFFICES ASSUME r < q PROVE FALSE
    OBVIOUS
  <2>2. (r + 1) * M <= q * M
    BY <2>1
  <2>3. QED
    BY <1>3, <2>2
<1>6. QED
  BY <1>1, <1>4, <1>5

LEMMA QueueOfRank ==
  ASSUME NEW a \in Addresses PROVE RankOfQueue(GetQueueIndex(a)) = a.rank
<1>1. CASE config.perRank
  BY <1>1 DEF RankOfQueue, GetQueueIndex
<1>2. CASE ~config.perRank
  <2>1. PICK b : b = BankOf(a)
    OBVIOUS
  <2>2. b \in Banks /\ b.rank = a.rank
    BY <2>1, Given
  <2>3. PICK r \in Nat, p \in Nat, M \in Nat \ {0} :
          r = b.rank /\ p = Place(b) /\ M = BankGroups * BanksPerGroup /\ p < M
    <3>1. BankGroups * BanksPerGroup \in Nat
      BY Given
    <3>2. QED
      BY <2>2, <3>1, Places
  <2>4. IndexOf(b) = r * M + p
    BY <2>2, <2>3, Places
  <2>5. (r * M + p) \div M = r
    <3>1. r * M \in Nat
      OBVIOUS
    <3>2. PICK x \in Nat : x = r * M + p
      BY <3>1
    <3>3. QED
      BY <2>3, <3>1, <3>2, Quotient
  <2>6. QED
    BY <1>2, <2>1, <2>2, <2>3, <2>4, <2>5 DEF RankOfQueue, GetQueueIndex
<1>3. QED
  BY <1>1, <1>2

(***************************************************************************)
(* What a command adds to the waits for a precharge and a refresh.         *)
(***************************************************************************)
LEMMA DelayBounds ==
  ASSUME RefreshFits, NEW cmd, cmd.type \in CommandType, NEW b, NEW d, d = Delays(cmd, b)
  PROVE  /\ "PRECHARGE" \in DOMAIN d => /\ d["PRECHARGE"] <= LastPrecharge
                                       /\ cmd.type \notin {"PRECHARGE", "REFRESH"}
                                       /\ b.rank = cmd.addr.rank
         /\ "REFRESH" \in DOMAIN d =>
              /\ b.rank = cmd.addr.rank
              /\ d["REFRESH"] = T.tRFC \/ cmd.type # "REFRESH"
              /\ d["REFRESH"] <= LastPrecharge + T.tRP \/ cmd.type = "REFRESH"
              /\ d["REFRESH"] = T.tRP \/ cmd.type # "PRECHARGE"
<1>1. PICK K \in Nat : K = LastPrecharge
  BY RefreshGiven
<1>2. /\ read_to_precharge <= K /\ write_to_precharge <= K /\ T.tRAS <= K
      /\ read_to_precharge \in Nat /\ write_to_precharge \in Nat /\ T.tRAS \in Nat
      /\ T.tRP \in Nat
  BY <1>1, TimingGiven, DelaysFor DEF RefreshFits, LastPrecharge, Later
<1>3. CASE cmd.type = "REFRESH"
  <2>1. d = IF b.rank = cmd.addr.rank THEN same_rank ELSE Nothing
    BY <1>3 DEF Delays
  <2>2. CASE b.rank = cmd.addr.rank
    BY <1>3, <2>1, <2>2 DEF same_rank
  <2>3. CASE b.rank # cmd.addr.rank
    BY <1>3, <2>1, <2>3 DEF Nothing
  <2>4. QED
    BY <2>2, <2>3
<1>4. CASE cmd.type \in Columns
  <2>1. cmd.type \in BankCommands /\ cmd.type # "REFRESH" /\ cmd.type # "PRECHARGE"
    BY <1>4 DEF Columns, CommandType, BankCommands
  <2>2. /\ \A x \in Nat, y \in Nat : DOMAIN ColumnToColumn(cmd.type, x, y) = Columns
        /\ DOMAIN ColumnToOtherRank(cmd.type) = Columns
    BY DEF ColumnToColumn, ColumnToOtherRank
  <2>3. "PRECHARGE" \notin Columns /\ "REFRESH" \notin Columns
    BY ColumnTypes
  <2>4. CASE b.rank # cmd.addr.rank
    <3>1. d = ColumnToOtherRank(cmd.type)
      BY <1>4, <2>1, <2>4 DEF Delays, other_ranks
    <3>2. QED
      BY <2>2, <2>3, <3>1
  <2>5. CASE b.rank = cmd.addr.rank /\ b.group # cmd.addr.group
    <3>1. d = ColumnToColumn(cmd.type, T.tCCD_S, T.tWTR_S)
      BY <1>4, <2>1, <2>5, ColumnTypes DEF Delays, other_bankgroups_same_rank
    <3>2. QED
      BY <2>2, <2>3, <3>1, TimingGiven
  <2>6. CASE b.rank = cmd.addr.rank /\ b.group = cmd.addr.group /\ b.bank # cmd.addr.bank
    <3>1. d = ColumnToColumn(cmd.type, LongCCD, LongWTR)
      BY <1>4, <2>1, <2>6, ColumnTypes DEF Delays, other_banks_same_bankgroup
    <3>2. QED
      BY <2>2, <2>3, <3>1, DelaysFor
  <2>7. CASE b.rank = cmd.addr.rank /\ b.group = cmd.addr.group /\ b.bank = cmd.addr.bank
    <3>1. d = same_bank[cmd.type]
      BY <2>1, <2>7 DEF Delays
    <3>2. CASE cmd.type \in {"READ", "WRITE"}
      <4>1. d = [c \in Columns \cup {"PRECHARGE"} |->
                   IF c \in Columns THEN ColumnToColumn(cmd.type, LongCCD, LongWTR)[c]
                   ELSE IF IsRead(cmd.type) THEN read_to_precharge ELSE write_to_precharge]
        BY <2>1, <3>1, <3>2 DEF same_bank
      <4>2. /\ DOMAIN d = Columns \cup {"PRECHARGE"}
            /\ d["PRECHARGE"] = IF IsRead(cmd.type) THEN read_to_precharge ELSE write_to_precharge
        BY <2>3, <4>1
      <4>3. QED
        BY <1>1, <1>2, <2>1, <2>3, <2>7, <4>2
    <3>3. CASE cmd.type = "READ_PRECHARGE"
      <4>1. d = [ACTIVATE |-> T.AL + T.burst_cycle + T.tRTP + T.tRP,
                 REFRESH  |-> read_to_precharge + T.tRP]
        BY <2>1, <3>1, <3>3 DEF same_bank
      <4>2. QED
        BY <1>1, <1>2, <2>1, <2>7, <4>1
    <3>4. CASE cmd.type = "WRITE_PRECHARGE"
      <4>1. d = [c \in {"ACTIVATE", "REFRESH"} |-> write_to_precharge + T.tRP]
        BY <2>1, <3>1, <3>4 DEF same_bank
      <4>2. QED
        BY <1>1, <1>2, <2>1, <2>7, <4>1
    <3>5. QED
      BY <1>4, <3>2, <3>3, <3>4 DEF Columns
  <2>8. QED
    BY <2>4, <2>5, <2>6, <2>7
<1>5. CASE cmd.type = "ACTIVATE"
  <2>1. cmd.type \in BankCommands /\ cmd.type \notin Columns
    BY <1>5 DEF Columns, CommandType, BankCommands
  <2>2. CASE b.rank # cmd.addr.rank
    <3>1. d = Nothing
      BY <1>5, <2>1, <2>2 DEF Delays, other_ranks
    <3>2. QED
      BY <3>1 DEF Nothing
  <2>3. CASE b.rank = cmd.addr.rank /\ b.group # cmd.addr.group
    <3>1. d = [ACTIVATE |-> T.tRRD_S]
      BY <1>5, <2>1, <2>3 DEF Delays, other_bankgroups_same_rank
    <3>2. QED
      BY <3>1
  <2>4. CASE b.rank = cmd.addr.rank /\ b.group = cmd.addr.group /\ b.bank # cmd.addr.bank
    <3>1. d = [ACTIVATE |-> LongRRD]
      BY <1>5, <2>1, <2>4 DEF Delays, other_banks_same_bankgroup
    <3>2. QED
      BY <3>1
  <2>5. CASE b.rank = cmd.addr.rank /\ b.group = cmd.addr.group /\ b.bank = cmd.addr.bank
    <3>1. d = same_bank["ACTIVATE"]
      BY <1>5, <2>5 DEF Delays
    <3>2. d = [c \in Columns \cup {"ACTIVATE", "PRECHARGE"} |->
                 CASE c = "ACTIVATE"  -> T.tRC
                   [] c = "PRECHARGE" -> T.tRAS
                   [] OTHER           -> T.tRCD - T.AL]
      BY <1>5, <2>1, <3>1 DEF same_bank
    <3>3. d["PRECHARGE"] = T.tRAS /\ DOMAIN d = Columns \cup {"ACTIVATE", "PRECHARGE"}
      BY <3>2
    <3>4. "REFRESH" \notin DOMAIN d
      BY <3>3 DEF Columns
    <3>5. QED
      BY <1>1, <1>2, <1>5, <2>5, <3>3, <3>4
  <2>6. QED
    BY <2>2, <2>3, <2>4, <2>5
<1>6. CASE cmd.type = "PRECHARGE"
  <2>1. cmd.type \in BankCommands /\ cmd.type \notin Columns
    BY <1>6 DEF Columns, CommandType, BankCommands
  <2>2. CASE ~(b.rank = cmd.addr.rank /\ b.group = cmd.addr.group /\ b.bank = cmd.addr.bank)
    <3>1. other_ranks["PRECHARGE"] = Nothing
      BY <1>6, <2>1 DEF other_ranks
    <3>2. other_bankgroups_same_rank["PRECHARGE"] = Nothing
      BY <1>6, <2>1 DEF other_bankgroups_same_rank
    <3>3. other_banks_same_bankgroup["PRECHARGE"] = Nothing
      BY <1>6, <2>1 DEF other_banks_same_bankgroup
    <3>4. d = Nothing
      BY <1>6, <2>2, <3>1, <3>2, <3>3 DEF Delays
    <3>5. QED
      BY <3>4 DEF Nothing
  <2>3. CASE b.rank = cmd.addr.rank /\ b.group = cmd.addr.group /\ b.bank = cmd.addr.bank
    <3>1. d = same_bank["PRECHARGE"]
      BY <1>6, <2>3 DEF Delays
    <3>2. d = [c \in {"ACTIVATE", "REFRESH"} |-> T.tRP]
      BY <1>6, <2>1, <3>1 DEF same_bank
    <3>3. QED
      BY <1>1, <1>2, <1>6, <2>3, <3>2
  <2>4. QED
    BY <2>2, <2>3
<1>7. QED
  BY <1>3, <1>4, <1>5, <1>6 DEF CommandType

\* The same, for a bank.
LEMMA BankRaised ==
  ASSUME RefreshFits, NEW banks \in [Banks -> BankRecords], NEW cmd, cmd.type \in CommandType,
         cmd.type = "ACTIVATE" => cmd.addr.row \in Nat, NEW b \in Banks,
         NEW bank, bank = UpdateTimingAndStates(banks, cmd)[b], NEW old, old = banks[b],
         old.wait["PRECHARGE"] <= LastPrecharge
  PROVE  /\ old.wait["PRECHARGE"] \in Nat /\ old.wait["REFRESH"] \in Nat
         /\ bank.wait["PRECHARGE"] \in Nat /\ bank.wait["REFRESH"] \in Nat
         /\ bank.wait["PRECHARGE"] <= LastPrecharge
         /\ cmd.type # "REFRESH" =>
              bank.wait["REFRESH"] <= Later(old.wait["REFRESH"], LastPrecharge + T.tRP)
         /\ cmd.type # "REFRESH" /\ b.rank # cmd.addr.rank =>
              /\ bank.open = old.open
              /\ bank.wait["PRECHARGE"] = old.wait["PRECHARGE"]
              /\ bank.wait["REFRESH"] = old.wait["REFRESH"]
         /\ cmd.type = "PRECHARGE" =>
              /\ bank.open = IF b = BankOf(cmd.addr) THEN NoRow ELSE old.open
              /\ bank.wait["PRECHARGE"] = old.wait["PRECHARGE"]
              /\ bank.wait["REFRESH"] <= Later(old.wait["REFRESH"], T.tRP)
         /\ cmd.type = "REFRESH" =>
              /\ bank.wait["REFRESH"] <= Later(old.wait["REFRESH"], T.tRFC)
              /\ b.rank # cmd.addr.rank => bank.wait["REFRESH"] = old.wait["REFRESH"]
<1>1. PICK d : d = Delays(cmd, b)
  OBVIOUS
<1>2. "PRECHARGE" \in CommandType /\ "REFRESH" \in CommandType
  BY DEF CommandType
<1>3. /\ bank.open = IF Concerns(cmd, b) THEN UpdateState(old, cmd).open ELSE old.open
      /\ bank.wait = [c \in CommandType |->
                        IF c \in DOMAIN d THEN Later(old.wait[c], d[c]) ELSE old.wait[c]]
      /\ bank \in BankRecords /\ old \in BankRecords
  BY <1>1, BankUpdated
<1>4. /\ old.wait["PRECHARGE"] \in Nat /\ old.wait["REFRESH"] \in Nat
      /\ bank.wait["PRECHARGE"] \in Nat /\ bank.wait["REFRESH"] \in Nat
      /\ old.hits \in Int /\ DOMAIN old = {"open", "hits", "wait"}
  BY <1>2, <1>3 DEF BankRecords
<1>5. /\ "PRECHARGE" \in DOMAIN d => d["PRECHARGE"] \in Int
      /\ "REFRESH" \in DOMAIN d => d["REFRESH"] \in Int
  BY <1>1, Tables DEF Table
<1>6. /\ bank.wait["PRECHARGE"] = IF "PRECHARGE" \in DOMAIN d
                                  THEN Later(old.wait["PRECHARGE"], d["PRECHARGE"])
                                  ELSE old.wait["PRECHARGE"]
      /\ bank.wait["REFRESH"] = IF "REFRESH" \in DOMAIN d
                                THEN Later(old.wait["REFRESH"], d["REFRESH"])
                                ELSE old.wait["REFRESH"]
  BY <1>2, <1>3
<1>7. /\ "PRECHARGE" \in DOMAIN d => /\ d["PRECHARGE"] <= LastPrecharge
                                    /\ cmd.type \notin {"PRECHARGE", "REFRESH"}
                                    /\ b.rank = cmd.addr.rank
      /\ "REFRESH" \in DOMAIN d =>
           /\ b.rank = cmd.addr.rank
           /\ d["REFRESH"] = T.tRFC \/ cmd.type # "REFRESH"
           /\ d["REFRESH"] <= LastPrecharge + T.tRP \/ cmd.type = "REFRESH"
           /\ d["REFRESH"] = T.tRP \/ cmd.type # "PRECHARGE"
  BY <1>1, DelayBounds
<1>8. bank.wait["PRECHARGE"] <= LastPrecharge
  BY <1>4, <1>5, <1>6, <1>7, RefreshGiven DEF Later
<1>9. ASSUME cmd.type # "REFRESH"
      PROVE  bank.wait["REFRESH"] <= Later(old.wait["REFRESH"], LastPrecharge + T.tRP)
  BY <1>4, <1>5, <1>6, <1>7, <1>9, RefreshGiven DEF Later
<1>10. ASSUME cmd.type # "REFRESH", b.rank # cmd.addr.rank
       PROVE  bank.open = old.open
  <2>1. ~Concerns(cmd, b)
    BY <1>10 DEF Concerns, BankOf
  <2>2. QED
    BY <1>3, <2>1
<1>11. ASSUME cmd.type = "PRECHARGE"
       PROVE  /\ bank.open = IF b = BankOf(cmd.addr) THEN NoRow ELSE old.open
              /\ bank.wait["PRECHARGE"] = old.wait["PRECHARGE"]
              /\ bank.wait["REFRESH"] <= Later(old.wait["REFRESH"], T.tRP)
  <2>1. Concerns(cmd, b) <=> b = BankOf(cmd.addr)
    BY <1>11 DEF Concerns
  <2>2. UpdateState(old, cmd) = [old EXCEPT !.open = NoRow, !.hits = 0]
    BY <1>11 DEF UpdateState
  <2>3. UpdateState(old, cmd).open = NoRow
    BY <1>4, <2>2
  <2>4. QED
    BY <1>3, <1>4, <1>5, <1>6, <1>7, <1>11, <2>1, <2>3, RefreshGiven DEF Later
<1>12. ASSUME cmd.type = "REFRESH"
       PROVE  /\ bank.wait["REFRESH"] <= Later(old.wait["REFRESH"], T.tRFC)
              /\ b.rank # cmd.addr.rank => bank.wait["REFRESH"] = old.wait["REFRESH"]
  BY <1>4, <1>5, <1>6, <1>7, <1>12, RefreshGiven DEF Later
<1>13. QED
  BY <1>4, <1>6, <1>7, <1>8, <1>9, <1>10, <1>11, <1>12
(***************************************************************************)
(* Which command is chosen, with and without a refresh that is due.        *)
(***************************************************************************)
SameRefresh(s, u) ==
  u.refreshQ = s.refreshQ /\ u.refreshIn = s.refreshIn /\ u.nextRank = s.nextRank

LEMMA CommandSource ==
  ASSUME NEW s, TransTypes(s), BankTypes(s), NEW n, n = GetCommandToIssue(s)
  PROVE  /\ SameRefresh(s, n.s)
         /\ n.cmd # NoCommand =>
              /\ n.cmd.type # "REFRESH"
              /\ \E q \in 0 .. NumQueues - 1 :
                   /\ ~Skipped(s, q)
                   /\ \E i \in 1 .. Len(s.queues[q]) : n.cmd.addr = s.queues[q][i].addr
<1> DEFINE Nth(k) == (s.queueIdx + k) % NumQueues
           ready  == [k \in 1 .. NumQueues |->
                        IF Skipped(s, Nth(k)) THEN NoCommand
                        ELSE GetFirstReadyInQueue(s, s.queues[Nth(k)])]
           found  == {k \in DOMAIN ready : ready[k] # NoCommand}
           cmd    == ready[Min(found)]
           q      == Nth(Min(found))
<1>1. n = IF found = {} THEN [cmd |-> NoCommand, s |-> s]
          ELSE [cmd |-> cmd,
                s   |-> [s EXCEPT !.queueIdx = q,
                                  !.queues[q] = IF cmd.type \in Columns
                                                THEN RemoveFirst(@, cmd) ELSE @]]
  BY DEF GetCommandToIssue
<1>2. s = [f \in CtlFields |-> s[f]] /\ s.queueIdx \in Nat
      /\ s.queues \in [0 .. NumQueues - 1 -> Seq(Queued)]
  BY DEF TransTypes
<1>3. CASE found = {}
  <2> HIDE DEF q, cmd, found, ready, Nth
  <2>1. n.cmd = NoCommand /\ n.s = s
    BY <1>1, <1>3
  <2>2. QED
    BY <2>1 DEF SameRefresh
<1>4. CASE found # {}
  <2>1. n.cmd = cmd /\ n.s = [s EXCEPT !.queueIdx = q,
                                       !.queues[q] = IF cmd.type \in Columns
                                                     THEN RemoveFirst(@, cmd) ELSE @]
    <3> HIDE DEF q, cmd, found, ready, Nth
    <3> QED
      BY <1>1, <1>4
  <2>2. found \in SUBSET Nat
    BY Queues
  <2>3. PICK k \in 1 .. NumQueues : k = Min(found) /\ ready[k] # NoCommand
    BY <1>4, <2>2, Smallest
  <2>4. q \in 0 .. NumQueues - 1
    <3>1. PICK m \in Nat, o \in Nat \ {0} : m = s.queueIdx + k /\ o = NumQueues
      <4> HIDE DEF q, cmd, found, ready, Nth
      <4>1. s.queueIdx + k \in Nat /\ NumQueues \in Nat \ {0}
        BY <1>2, <2>3, Queues
      <4>2. QED
        BY <4>1
    <3>2. m % o \in 0 .. o - 1
      BY <3>1
    <3>3. q = m % o
      <4> HIDE DEF found
      <4> QED
        BY <2>3, <3>1
    <3>4. QED
      BY <3>1, <3>2, <3>3
  <2>5. cmd # NoCommand /\ cmd = GetFirstReadyInQueue(s, s.queues[q]) /\ ~Skipped(s, q)
    BY <2>3
  <2> HIDE DEF q, cmd, found, ready, Nth
  <2>6. s.queues[q] \in Seq(Queued)
    BY <1>2, <2>4
  <2>7. PICK i \in 1 .. Len(s.queues[q]) : cmd = BankReady(s.banks, s.faw, s.queues[q][i])
    BY <2>5, <2>6, FirstReady
  <2>8. s.queues[q][i] \in Queued
    BY <2>6
  <2>9. cmd.addr = s.queues[q][i].addr /\ cmd.type \in Columns \cup {"ACTIVATE", "PRECHARGE"}
    BY <2>5, <2>7, <2>8, ReadyForBank
  <2>10. SameRefresh(s, n.s)
    BY <1>2, <2>1 DEF SameRefresh, CtlFields
  <2>11. QED
    BY <2>1, <2>4, <2>5, <2>9, <2>10, ColumnTypes
<1>5. QED
  BY <1>3, <1>4

\* No bank of the rank that is open can be precharged, and one is not ready.
RankBlocked(banks, r) ==
  /\ \A b \in BanksOf(r) : banks[b].open # NoRow => banks[b].wait["PRECHARGE"] # 0
  /\ \E b \in BanksOf(r) : \/ banks[b].open = NoRow /\ banks[b].wait["REFRESH"] # 0
                           \/ banks[b].open # NoRow

\* The first bank of the rank that can be precharged.
FirstToPrecharge(banks, r, b) ==
  /\ b \in BanksOf(r) /\ banks[b].open # NoRow /\ banks[b].wait["PRECHARGE"] = 0
  /\ \A d \in BanksOf(r) : banks[d].open # NoRow /\ banks[d].wait["PRECHARGE"] = 0
                             => Place(b) <= Place(d)

LEMMA RefreshStep ==
  ASSUME NEW s, TransTypes(s), BankTypes(s), NEW r \in Ranks, s.refreshQ = <<r>>,
         NEW x, x = FinishRefresh(s)
  PROVE  \/ x.cmd = NoCommand /\ RankBlocked(s.banks, r) /\ x.s = [s EXCEPT !.inRef = TRUE]
         \/ \E b : x.cmd = Command("PRECHARGE", b) /\ FirstToPrecharge(s.banks, r, b)
         \/ /\ x.cmd = Command("REFRESH", [rank |-> r])
            /\ \A b \in BanksOf(r) : s.banks[b].open = NoRow /\ s.banks[b].wait["REFRESH"] = 0
<1>1. PICK cmd : cmd = Command("REFRESH", [rank |-> r])
  OBVIOUS
<1>2. cmd.type = "REFRESH" /\ cmd.addr.rank = r
  BY <1>1 DEF Command
<1>3. x.cmd = RefreshReady(s.banks, cmd)
      /\ x.s = [s EXCEPT !.inRef = x.cmd = NoCommand \/ x.cmd.type # "REFRESH"]
  BY <1>1 DEF FinishRefresh
<1>4. PICK open : open = {b \in BanksOf(r) : s.banks[b].open # NoRow /\ IsReady(s.banks[b], cmd)}
  OBVIOUS
<1>5. \A b \in BanksOf(r) :
        IsReady(s.banks[b], cmd) <=> IF s.banks[b].open = NoRow THEN s.banks[b].wait["REFRESH"] = 0
                                     ELSE s.banks[b].wait["PRECHARGE"] = 0
  BY <1>2, ColumnTypes DEF IsReady, Required
<1>6. \A b \in BanksOf(r) : b \in Banks /\ b.rank = r
  BY DEF BanksOf
<1>7. CASE open # {}
  <2>1. PICK S : S = {Place(b) : b \in open}
    OBVIOUS
  <2>2. S \in SUBSET Nat /\ S # {}
    BY <1>4, <1>6, <1>7, <2>1, Places
  <2>3. Min(S) \in S /\ \A n \in S : Min(S) <= n
    BY <2>2, Smallest
  <2>4. PICK e \in open : \A d \in open : Place(e) <= Place(d)
    BY <2>1, <2>3
  <2>5. ASSUME NEW b \in open, NEW d \in open
        PROVE  IndexOf(b) <= IndexOf(d) <=> Place(b) <= Place(d)
    <3>1. b \in Banks /\ d \in Banks /\ b.rank = r /\ d.rank = r
      BY <1>4, <1>6
    <3>2. PICK z \in Nat : z = r * (BankGroups * BanksPerGroup)
      BY <3>1, Places, RefreshGiven
    <3>3. IndexOf(b) = z + Place(b) /\ IndexOf(d) = z + Place(d)
      BY <3>1, <3>2, Places
    <3>4. Place(b) \in Nat /\ Place(d) \in Nat
      BY <3>1, Places
    <3>5. QED
      BY <3>3, <3>4
  <2>6. \A d \in open : IndexOf(e) <= IndexOf(d)
    BY <2>4, <2>5
  <2>7. PICK b : b = CHOOSE a \in open : \A d \in open : IndexOf(a) <= IndexOf(d)
    OBVIOUS
  <2>8. b \in open /\ \A d \in open : IndexOf(b) <= IndexOf(d)
    BY <2>6, <2>7
  <2>9. \A d \in open : Place(b) <= Place(d)
    BY <2>5, <2>8
  <2>10. x.cmd = Command("PRECHARGE", b)
    BY <1>2, <1>3, <1>4, <1>7, <2>7 DEF RefreshReady
  <2>11. FirstToPrecharge(s.banks, r, b)
    BY <1>4, <1>5, <2>8, <2>9 DEF FirstToPrecharge
  <2>12. QED
    BY <2>10, <2>11
<1>8. CASE open = {} /\ \A b \in BanksOf(r) : IsReady(s.banks[b], cmd)
  <2>1. x.cmd = cmd
    BY <1>2, <1>3, <1>4, <1>8 DEF RefreshReady
  <2>2. QED
    BY <1>1, <1>4, <1>5, <1>8, <2>1
<1>9. CASE open = {} /\ ~\A b \in BanksOf(r) : IsReady(s.banks[b], cmd)
  <2>1. x.cmd = NoCommand
    BY <1>2, <1>3, <1>4, <1>9 DEF RefreshReady
  <2>2. RankBlocked(s.banks, r)
    BY <1>4, <1>5, <1>9 DEF RankBlocked
  <2>3. (x.cmd = NoCommand \/ x.cmd.type # "REFRESH") = TRUE
    BY <2>1
  <2>4. x.s = [s EXCEPT !.inRef = TRUE]
    BY <1>3, <2>3
  <2>5. QED
    BY <2>1, <2>2, <2>4
<1>10. QED
  BY <1>7, <1>8, <1>9

\* A refresh is due.
LEMMA ChoiceWhenDue ==
  ASSUME NEW s, TransInv(s), BankTypes(s), NEW r \in Ranks, s.refreshQ = <<r>>,
         NEW n, n = NextCommand(s)
  PROVE  /\ SameRefresh(s, n.s)
         /\ \/ /\ RankBlocked(s.banks, r)
               /\ n.cmd # NoCommand => n.cmd.type # "REFRESH" /\ n.cmd.addr.rank # r
            \/ \E b : n.cmd = Command("PRECHARGE", b) /\ FirstToPrecharge(s.banks, r, b)
            \/ /\ n.cmd = Command("REFRESH", [rank |-> r])
               /\ \A b \in BanksOf(r) : s.banks[b].open = NoRow /\ s.banks[b].wait["REFRESH"] = 0
<1>1. PICK x : x = FinishRefresh(s)
  OBVIOUS
<1>2. TransTypes(s) /\ PlacesInv(s)
  BY DEF TransInv
<1>3. SameRefresh(s, x.s)
  <2>1. PICK v : x.s = [s EXCEPT !.inRef = v]
    BY <1>1 DEF FinishRefresh
  <2>2. s = [f \in CtlFields |-> s[f]]
    BY <1>2 DEF TransTypes
  <2>3. QED
    BY <2>1, <2>2 DEF SameRefresh, CtlFields
<1>4. \/ x.cmd = NoCommand /\ RankBlocked(s.banks, r) /\ x.s = [s EXCEPT !.inRef = TRUE]
      \/ \E b : x.cmd = Command("PRECHARGE", b) /\ FirstToPrecharge(s.banks, r, b)
      \/ /\ x.cmd = Command("REFRESH", [rank |-> r])
         /\ \A b \in BanksOf(r) : s.banks[b].open = NoRow /\ s.banks[b].wait["REFRESH"] = 0
  BY <1>1, <1>2, RefreshStep
<1>5. s.refreshQ # <<>>
  OBVIOUS
<1>6. CASE x.cmd # NoCommand
  <2>1. n = x
    BY <1>1, <1>5, <1>6 DEF NextCommand
  <2>2. QED
    BY <1>3, <1>4, <1>6, <2>1
<1>7. CASE x.cmd = NoCommand
  <2>1. n = GetCommandToIssue(x.s)
    BY <1>1, <1>5, <1>7 DEF NextCommand
  <2>2. TransTypes(x.s) /\ BankTypes(x.s) /\ x.s.queues = s.queues
    BY <1>1, <1>2, RefreshFinished
  <2>3. RankBlocked(s.banks, r) /\ x.s = [s EXCEPT !.inRef = TRUE]
    <3>1. ASSUME NEW b, x.cmd = Command("PRECHARGE", b), FirstToPrecharge(s.banks, r, b)
          PROVE  FALSE
      <4>1. b \in Banks
        BY <3>1 DEF FirstToPrecharge, BanksOf
      <4>2. "PRECHARGE" \in CommandType
        BY DEF CommandType
      <4>3. QED
        BY <1>7, <3>1, <4>1, <4>2, IsACommand
    <3>2. x.cmd # Command("REFRESH", [rank |-> r])
      <4>1. "REFRESH" \in CommandType /\ [rank |-> r] \in [rank : Ranks]
        BY DEF CommandType
      <4>2. QED
        BY <1>7, <4>1, IsACommand
    <3>3. QED
      BY <1>4, <3>1, <3>2
  <2>4. x.s.inRef = TRUE /\ x.s.refreshQ = <<r>>
    <3>1. s = [f \in CtlFields |-> s[f]]
      BY <1>2 DEF TransTypes
    <3>2. QED
      BY <2>3, <3>1 DEF CtlFields
  <2>5. SameRefresh(x.s, n.s)
    BY <2>1, <2>2, CommandSource
  <2>6. ASSUME n.cmd # NoCommand PROVE n.cmd.type # "REFRESH" /\ n.cmd.addr.rank # r
    <3>1. n.cmd.type # "REFRESH"
      BY <2>1, <2>2, <2>6, CommandSource
    <3>2. PICK q \in 0 .. NumQueues - 1 :
            /\ ~Skipped(x.s, q)
            /\ \E i \in 1 .. Len(s.queues[q]) : n.cmd.addr = s.queues[q][i].addr
      BY <2>1, <2>2, <2>6, CommandSource
    <3>3. PICK i \in 1 .. Len(s.queues[q]) : n.cmd.addr = s.queues[q][i].addr
      BY <3>2
    <3>4. q = GetQueueIndex(n.cmd.addr)
      BY <1>2, <3>3 DEF PlacesInv
    <3>5. n.cmd.addr \in Addresses
      <4>1. s.queues[q] \in Seq(Queued)
        BY <1>2 DEF TransTypes
      <4>2. s.queues[q][i] \in Queued
        BY <4>1
      <4>3. QED
        BY <3>3, <4>2 DEF Queued
    <3>6. RankOfQueue(q) = n.cmd.addr.rank
      BY <3>4, <3>5, QueueOfRank
    <3>7. RankOfQueue(q) # r
      BY <2>4, <3>2 DEF Skipped
    <3>8. QED
      BY <3>1, <3>6, <3>7
  <2>7. SameRefresh(s, n.s)
    BY <1>3, <2>5 DEF SameRefresh
  <2>8. QED
    BY <2>3, <2>6, <2>7
<1>8. QED
  BY <1>6, <1>7

(***************************************************************************)
(* What the parts of a tick do to it.                                      *)
(***************************************************************************)
LEMMA DueMeans ==
  ASSUME NEW banks, NEW r \in Ranks, NEW in, NEW turn
  PROVE  RefreshOk(banks, <<r>>, in, turn) <=>
           /\ in \in turn .. refresh_interval
           /\ \A b \in Banks : banks[b].wait["PRECHARGE"] <= LastPrecharge
           /\ Age(in) + turn <= RefreshDelay
           /\ \A b \in Banks : IF b.rank = r THEN BankDue(b, banks[b], Age(in), turn)
                                             ELSE Spaced(banks[b], in)
<1>1. <<r>> # <<>> /\ \A d : <<r>> = <<d>> => r = d
  OBVIOUS
<1>2. QED
  BY <1>1 DEF RefreshOk

LEMMA UndueMeans ==
  ASSUME NEW banks, NEW in, NEW turn
  PROVE  RefreshOk(banks, <<>>, in, turn) <=>
           /\ in \in turn .. refresh_interval
           /\ \A b \in Banks : banks[b].wait["PRECHARGE"] <= LastPrecharge
           /\ \A b \in Banks : Spaced(banks[b], in)
<1>1. \A d : <<>> # <<d>>
  OBVIOUS
<1>2. QED
  BY <1>1 DEF RefreshOk

LEMMA WaitTypes ==
  ASSUME NEW banks \in [Banks -> BankRecords], NEW b \in Banks
  PROVE  banks[b].wait["PRECHARGE"] \in Nat /\ banks[b].wait["REFRESH"] \in Nat
<1>1. "PRECHARGE" \in CommandType /\ "REFRESH" \in CommandType
  BY DEF CommandType
<1>2. PICK w : w = banks[b]
  OBVIOUS
<1>3. w \in BankRecords
  BY <1>2
<1>4. QED
  BY <1>1, <1>2, <1>3 DEF BankRecords

\* A refresh becomes due only when the one before it has been issued.
LEMMA RefreshBegins ==
  ASSUME RefreshFits, NEW banks \in [Banks -> BankRecords], NEW queue, NEW rank \in Ranks,
         RefreshOk(banks, queue, 0, 0)
  PROVE  RefreshOk(banks, Append(queue, rank), refresh_interval, 0) /\ refresh_interval >= 1
<1>1. Age(0) = refresh_interval /\ Age(0) > RefreshDelay /\ Age(refresh_interval) = 0
      /\ refresh_interval >= 1
  BY RefreshGiven DEF Age, RefreshFits
<1>2. queue = <<>>
  BY <1>1, RefreshGiven DEF RefreshOk
<1>3. Append(queue, rank) = <<rank>>
  BY <1>2
<1>4. /\ \A b \in Banks : banks[b].wait["PRECHARGE"] <= LastPrecharge
      /\ \A b \in Banks : Spaced(banks[b], 0)
  BY <1>2, UndueMeans
<1>5. ASSUME NEW b \in Banks
      PROVE  BankDue(b, banks[b], 0, 0) /\ Spaced(banks[b], refresh_interval)
  <2>1. PICK w, v : w = banks[b].wait["REFRESH"] /\ v = banks[b].wait["PRECHARGE"]
    OBVIOUS
  <2>2. w \in Nat /\ v \in Nat /\ v <= LastPrecharge /\ w <= LastPrecharge + T.tRP
    BY <1>4, <2>1, WaitTypes, RefreshGiven DEF Spaced, Later
  <2>3. Place(b) \in Nat
    BY Places
  <2>4. BankDue(b, banks[b], 0, 0)
    BY <2>1, <2>2, <2>3, RefreshGiven DEF BankDue, Later
  <2>5. Spaced(banks[b], refresh_interval)
    BY <2>1, <2>2, RefreshGiven DEF Spaced, Later
  <2>6. QED
    BY <2>4, <2>5
<1>6. RefreshOk(banks, <<rank>>, refresh_interval, 0)
  BY <1>1, <1>4, <1>5, DueMeans, RefreshGiven
<1>7. QED
  BY <1>1, <1>3, <1>6

\* A rank that is due and cannot be precharged is waiting for a bank to be ready.
LEMMA RankWaits ==
  ASSUME RefreshFits, NEW banks \in [Banks -> BankRecords], NEW r \in Ranks, NEW in,
         in >= 1, RefreshOk(banks, <<r>>, in, 0), RankBlocked(banks, r)
  PROVE  RefreshOk(banks, <<r>>, in, 1)
<1>1. /\ in \in 0 .. refresh_interval
      /\ \A b \in Banks : banks[b].wait["PRECHARGE"] <= LastPrecharge
      /\ Age(in) + 0 <= RefreshDelay
      /\ \A b \in Banks : IF b.rank = r THEN BankDue(b, banks[b], Age(in), 0)
                                        ELSE Spaced(banks[b], in)
  BY DueMeans
<1>2. PICK age \in Nat : age = Age(in)
  BY <1>1, RefreshGiven DEF Age
<1>3. ASSUME NEW b \in Banks, b.rank = r
      PROVE  /\ BankDue(b, banks[b], age, 1)
             /\ banks[b].wait["REFRESH"] # 0 \/ banks[b].open # NoRow => age < RefreshDelay
  <2>1. PICK w, v : w = banks[b].wait["REFRESH"] /\ v = banks[b].wait["PRECHARGE"]
    OBVIOUS
  <2>2. w \in Nat /\ v \in Nat
    BY <2>1, WaitTypes
  <2>3. BankDue(b, banks[b], age, 0)
    BY <1>1, <1>2, <1>3
  <2>4. banks[b].open # NoRow => v # 0
    BY <1>3, <2>1 DEF RankBlocked, BanksOf
  <2>5. Place(b) \in Nat
    BY Places
  <2>6. banks[b].open # NoRow => age < LastPrecharge
    BY <2>1, <2>2, <2>3, <2>4, RefreshGiven DEF BankDue, Later
  <2>7. BankDue(b, banks[b], age, 1)
    BY <2>1, <2>2, <2>3, <2>5, <2>6, RefreshGiven DEF BankDue
  <2>8. w # 0 => age < RefreshDelay
    BY <2>1, <2>2, <2>3, RefreshGiven DEF BankDue
  <2>9. QED
    BY <2>1, <2>6, <2>7, <2>8, RefreshGiven
<1>4. age < RefreshDelay
  BY <1>3 DEF RankBlocked, BanksOf
<1>5. Age(in) + 1 <= RefreshDelay /\ in \in 1 .. refresh_interval
  BY <1>1, <1>2, <1>4, RefreshGiven
<1>6. QED
  BY <1>1, <1>2, <1>3, <1>5, DueMeans

\* A command for a bank that is not in the rank that is due, if any.
LEMMA IssuedElsewhere ==
  ASSUME RefreshFits, NEW banks \in [Banks -> BankRecords], NEW queue, NEW in,
         RefreshOk(banks, queue, in, 1),
         NEW cmd, cmd.type \in CommandType, cmd.type = "ACTIVATE" => cmd.addr.row \in Nat,
         cmd.type # "REFRESH", \A r \in Ranks : queue = <<r>> => cmd.addr.rank # r
  PROVE  RefreshOk(UpdateTimingAndStates(banks, cmd), queue, in, 1)
<1>1. PICK ub : ub = UpdateTimingAndStates(banks, cmd)
  OBVIOUS
<1>2. in \in 1 .. refresh_interval /\ \A b \in Banks : banks[b].wait["PRECHARGE"] <= LastPrecharge
  BY DEF RefreshOk
<1>3. ASSUME NEW b \in Banks
      PROVE  /\ ub[b].wait["PRECHARGE"] <= LastPrecharge
             /\ Spaced(banks[b], in) => Spaced(ub[b], in)
             /\ b.rank # cmd.addr.rank =>
                  \A age, turn : BankDue(b, banks[b], age, turn) => BankDue(b, ub[b], age, turn)
  <2>1. PICK old, bank : old = banks[b] /\ bank = UpdateTimingAndStates(banks, cmd)[b]
    OBVIOUS
  <2>2. old.wait["PRECHARGE"] <= LastPrecharge
    BY <1>2, <2>1
  <2>3. /\ old.wait["REFRESH"] \in Nat /\ bank.wait["REFRESH"] \in Nat
        /\ bank.wait["PRECHARGE"] <= LastPrecharge
        /\ bank.wait["REFRESH"] <= Later(old.wait["REFRESH"], LastPrecharge + T.tRP)
        /\ b.rank # cmd.addr.rank =>
              /\ bank.open = old.open
              /\ bank.wait["PRECHARGE"] = old.wait["PRECHARGE"]
              /\ bank.wait["REFRESH"] = old.wait["REFRESH"]
    BY <2>1, <2>2, BankRaised
  <2>4. Spaced(old, in) => Spaced(bank, in)
    BY <1>2, <2>3, RefreshGiven DEF Spaced, Later
  <2>5. b.rank # cmd.addr.rank =>
          \A age, turn : BankDue(b, old, age, turn) => BankDue(b, bank, age, turn)
    BY <2>3 DEF BankDue
  <2>6. QED
    BY <1>1, <2>1, <2>3, <2>4, <2>5
<1>4. CASE queue = <<>>
  <2>1. \A b \in Banks : Spaced(banks[b], in)
    BY <1>4, UndueMeans
  <2>2. RefreshOk(ub, <<>>, in, 1)
    BY <1>2, <1>3, <2>1, UndueMeans
  <2>3. QED
    BY <1>1, <1>4, <2>2
<1>5. ASSUME NEW r \in Ranks, queue = <<r>> PROVE RefreshOk(ub, queue, in, 1)
  <2>1. /\ Age(in) + 1 <= RefreshDelay
        /\ \A b \in Banks : IF b.rank = r THEN BankDue(b, banks[b], Age(in), 1)
                                          ELSE Spaced(banks[b], in)
    BY <1>5, DueMeans
  <2>2. cmd.addr.rank # r
    BY <1>5
  <2>3. RefreshOk(ub, <<r>>, in, 1)
    BY <1>2, <1>3, <2>1, <2>2, DueMeans
  <2>4. QED
    BY <1>5, <2>3
<1>6. QED
  BY <1>1, <1>4, <1>5 DEF RefreshOk

\* One more bank of the rank is closed.
LEMMA BankPrecharged ==
  ASSUME RefreshFits, NEW banks \in [Banks -> BankRecords], NEW r \in Ranks, NEW in,
         in >= 1, RefreshOk(banks, <<r>>, in, 0),
         NEW p, FirstToPrecharge(banks, r, p), NEW cmd, cmd = Command("PRECHARGE", p)
  PROVE  RefreshOk(UpdateTimingAndStates(banks, cmd), <<r>>, in, 1)
<1>1. PICK ub : ub = UpdateTimingAndStates(banks, cmd)
  OBVIOUS
<1>2. cmd.type = "PRECHARGE" /\ cmd.addr = p /\ cmd.type \in CommandType
  BY DEF Command, CommandType
<1>3. /\ p \in Banks /\ p.rank = r /\ banks[p].open # NoRow /\ banks[p].wait["PRECHARGE"] = 0
      /\ BankOf(cmd.addr) = p
  BY <1>2, Given DEF FirstToPrecharge, BanksOf
<1>4. /\ in \in 1 .. refresh_interval
      /\ \A b \in Banks : banks[b].wait["PRECHARGE"] <= LastPrecharge
      /\ Age(in) <= RefreshDelay
      /\ \A b \in Banks : IF b.rank = r THEN BankDue(b, banks[b], Age(in), 0)
                                        ELSE Spaced(banks[b], in)
  BY DueMeans, RefreshGiven DEF Age
<1>5. PICK age \in Nat : age = Age(in)
  BY <1>4, RefreshGiven DEF Age
<1>6. /\ Place(p) \in 0 .. BankGroups * BanksPerGroup - 1
      /\ Place(p) >= age - LastPrecharge
  BY <1>3, <1>4, <1>5, Places, RefreshGiven DEF BankDue
<1>7. RefreshDelay - age > T.tRP
  BY <1>6, RefreshGiven
<1>8. ASSUME NEW b \in Banks
      PROVE  /\ ub[b].wait["PRECHARGE"] <= LastPrecharge
             /\ b.rank = r => BankDue(b, ub[b], age, 1)
             /\ b.rank # r => Spaced(ub[b], in)
  <2>1. PICK old, bank : old = banks[b] /\ bank = UpdateTimingAndStates(banks, cmd)[b]
    OBVIOUS
  <2>2. old.wait["PRECHARGE"] <= LastPrecharge
    BY <1>4, <2>1
  <2>3. /\ old.wait["REFRESH"] \in Nat /\ bank.wait["REFRESH"] \in Nat
        /\ old.wait["PRECHARGE"] \in Nat
        /\ bank.wait["PRECHARGE"] <= LastPrecharge
        /\ b.rank # cmd.addr.rank => bank.wait["REFRESH"] = old.wait["REFRESH"]
        /\ bank.open = IF b = p THEN NoRow ELSE old.open
        /\ bank.wait["PRECHARGE"] = old.wait["PRECHARGE"]
        /\ bank.wait["REFRESH"] <= Later(old.wait["REFRESH"], T.tRP)
    BY <1>2, <1>3, <2>1, <2>2, BankRaised
  <2>4. ASSUME b.rank # r PROVE Spaced(bank, in)
    BY <1>2, <1>3, <1>4, <2>1, <2>3, <2>4 DEF Spaced
  <2>5. ASSUME b.rank = r PROVE BankDue(b, bank, age, 1)
    <3>1. BankDue(b, old, age, 0)
      BY <1>4, <1>5, <2>1, <2>5
    <3>2. bank.wait["REFRESH"] <= RefreshDelay - age
      BY <1>7, <2>3, <3>1, RefreshGiven DEF BankDue, Later
    <3>3. ASSUME bank.open # NoRow
          PROVE  /\ bank.wait["PRECHARGE"] <= Later(LastPrecharge - age, 0)
                 /\ Place(b) >= age + 1 - LastPrecharge
      <4>1. b # p /\ old.open # NoRow
        BY <2>3, <3>3
      <4>2. Place(b) \in Nat /\ Place(b) # Place(p)
        BY <1>3, <2>5, <4>1, Places
      <4>3. old.wait["PRECHARGE"] <= Later(LastPrecharge - age, 0)
        BY <3>1, <4>1 DEF BankDue
      <4>4. old.wait["PRECHARGE"] = 0 => Place(p) <= Place(b)
        BY <2>1, <2>5, <4>1 DEF FirstToPrecharge, BanksOf
      <4>5. CASE age < LastPrecharge
        BY <2>3, <4>2, <4>3, <4>5, RefreshGiven
      <4>6. CASE age >= LastPrecharge
        <5>1. old.wait["PRECHARGE"] = 0
          BY <2>3, <4>3, <4>6, RefreshGiven DEF Later
        <5>2. Place(p) \in Nat /\ Place(p) <= Place(b)
          BY <1>6, <4>4, <5>1, RefreshGiven
        <5>3. Place(b) >= age + 1 - LastPrecharge
          BY <1>6, <4>2, <5>2, RefreshGiven
        <5>4. QED
          BY <2>3, <4>3, <5>3
      <4>7. QED
        BY <4>5, <4>6, RefreshGiven
    <3>4. QED
      BY <3>2, <3>3 DEF BankDue
  <2>6. QED
    BY <1>1, <2>1, <2>3, <2>4, <2>5
<1>9. Age(in) + 1 <= RefreshDelay
  BY <1>5, <1>7, RefreshGiven
<1>10. RefreshOk(ub, <<r>>, in, 1)
  BY <1>4, <1>5, <1>8, <1>9, DueMeans
<1>11. QED
  BY <1>1, <1>10

\* The rank is refreshed, and its banks wait for tRFC only.
LEMMA RankRefreshed ==
  ASSUME RefreshFits, NEW banks \in [Banks -> BankRecords], NEW r \in Ranks, NEW in,
         in >= 1, RefreshOk(banks, <<r>>, in, 0),
         \A b \in BanksOf(r) : banks[b].open = NoRow /\ banks[b].wait["REFRESH"] = 0,
         NEW cmd, cmd = Command("REFRESH", [rank |-> r])
  PROVE  RefreshOk(UpdateTimingAndStates(banks, cmd), <<>>, in, 1)
<1>1. PICK ub : ub = UpdateTimingAndStates(banks, cmd)
  OBVIOUS
<1>2. cmd.type = "REFRESH" /\ cmd.addr.rank = r /\ cmd.type \in CommandType
  BY DEF Command, CommandType
<1>3. /\ in \in 1 .. refresh_interval
      /\ \A b \in Banks : banks[b].wait["PRECHARGE"] <= LastPrecharge
      /\ Age(in) <= RefreshDelay
      /\ \A b \in Banks : b.rank # r => Spaced(banks[b], in)
  BY DueMeans, RefreshGiven DEF Age
<1>4. in > T.tRFC
  BY <1>3, RefreshGiven DEF Age, RefreshFits
<1>5. ASSUME NEW b \in Banks
      PROVE  ub[b].wait["PRECHARGE"] <= LastPrecharge /\ Spaced(ub[b], in)
  <2>1. PICK old, bank : old = banks[b] /\ bank = UpdateTimingAndStates(banks, cmd)[b]
    OBVIOUS
  <2>2. old.wait["PRECHARGE"] <= LastPrecharge
    BY <1>3, <2>1
  <2>3. /\ old.wait["REFRESH"] \in Nat /\ bank.wait["REFRESH"] \in Nat
        /\ bank.wait["PRECHARGE"] <= LastPrecharge
        /\ bank.wait["REFRESH"] <= Later(old.wait["REFRESH"], T.tRFC)
        /\ b.rank # r => bank.wait["REFRESH"] = old.wait["REFRESH"]
    BY <1>2, <2>1, <2>2, BankRaised
  <2>4. CASE b.rank # r
    BY <1>1, <1>3, <2>1, <2>3, <2>4 DEF Spaced
  <2>5. CASE b.rank = r
    <3>1. old.wait["REFRESH"] = 0
      BY <2>1, <2>5 DEF BanksOf
    <3>2. bank.wait["REFRESH"] <= in
      BY <1>3, <1>4, <2>3, <3>1, RefreshGiven DEF Later
    <3>3. Spaced(bank, in)
      BY <1>3, <2>3, <3>2, RefreshGiven DEF Spaced, Later
    <3>4. QED
      BY <1>1, <2>1, <2>3, <3>3
  <2>6. QED
    BY <2>4, <2>5
<1>6. RefreshOk(ub, <<>>, in, 1)
  BY <1>3, <1>5, UndueMeans
<1>7. QED
  BY <1>1, <1>6

\* A cycle passes.
LEMMA RefreshElapsed ==
  ASSUME RefreshFits, NEW banks \in [Banks -> BankRecords], NEW queue, NEW in,
         RefreshOk(banks, queue, in, 1)
  PROVE  RefreshOk(Elapsed(banks), queue, in - 1, 0)
<1>1. PICK eb : eb = Elapsed(banks)
  OBVIOUS
<1>2. in \in 1 .. refresh_interval /\ \A b \in Banks : banks[b].wait["PRECHARGE"] <= LastPrecharge
  BY DEF RefreshOk
<1>3. Age(in - 1) = Age(in) + 1 /\ Age(in) \in Nat /\ in - 1 \in 0 .. refresh_interval
  BY <1>2, RefreshGiven DEF Age
<1>4. ASSUME NEW b \in Banks
      PROVE  /\ eb[b].wait["PRECHARGE"] <= LastPrecharge
             /\ Spaced(banks[b], in) => Spaced(eb[b], in - 1)
             /\ BankDue(b, banks[b], Age(in), 1) /\ Age(in) + 1 <= RefreshDelay
                  => BankDue(b, eb[b], Age(in) + 1, 0)
  <2>1. PICK old, bank : old = banks[b] /\ bank = eb[b]
    OBVIOUS
  <2>2. "PRECHARGE" \in CommandType /\ "REFRESH" \in CommandType
    BY DEF CommandType
  <2>3. /\ bank.open = old.open
        /\ bank.wait["PRECHARGE"] = Later(old.wait["PRECHARGE"] - 1, 0)
        /\ bank.wait["REFRESH"] = Later(old.wait["REFRESH"] - 1, 0)
    <3>1. PICK x : x = [c \in CommandType |-> Later(old.wait[c] - 1, 0)]
      OBVIOUS
    <3>2. bank = [old EXCEPT !.wait = x]
      BY <1>1, <2>1, <3>1 DEF Elapsed
    <3>3. old \in BankRecords
      BY <2>1
    <3>4. bank.open = old.open /\ bank.wait = x
      BY <3>2, <3>3 DEF BankRecords
    <3>5. QED
      BY <2>2, <3>1, <3>4
  <2>4. /\ old.wait["PRECHARGE"] \in Nat /\ old.wait["REFRESH"] \in Nat
        /\ old.wait["PRECHARGE"] <= LastPrecharge
    BY <1>2, <2>1, WaitTypes
  <2>5. bank.wait["PRECHARGE"] <= LastPrecharge
    BY <2>3, <2>4, RefreshGiven DEF Later
  <2>6. Spaced(old, in) => Spaced(bank, in - 1)
    BY <1>2, <2>3, <2>4, RefreshGiven DEF Spaced, Later
  <2>7. ASSUME BankDue(b, old, Age(in), 1), Age(in) + 1 <= RefreshDelay
        PROVE  BankDue(b, bank, Age(in) + 1, 0)
    <3>1. bank.wait["REFRESH"] <= RefreshDelay - (Age(in) + 1)
      BY <1>3, <2>3, <2>4, <2>7, RefreshGiven DEF BankDue, Later
    <3>2. ASSUME bank.open # NoRow
          PROVE  /\ bank.wait["PRECHARGE"] <= Later(LastPrecharge - (Age(in) + 1), 0)
                 /\ Place(b) >= Age(in) + 1 + 0 - LastPrecharge
      BY <1>3, <2>3, <2>4, <2>7, <3>2, RefreshGiven DEF BankDue, Later
    <3>3. QED
      BY <3>1, <3>2 DEF BankDue
  <2>8. QED
    BY <2>1, <2>5, <2>6, <2>7
<1>5. CASE queue = <<>>
  <2>1. \A b \in Banks : Spaced(banks[b], in)
    BY <1>5, UndueMeans
  <2>2. RefreshOk(eb, <<>>, in - 1, 0)
    BY <1>3, <1>4, <2>1, UndueMeans
  <2>3. QED
    BY <1>1, <1>5, <2>2
<1>6. ASSUME NEW r \in Ranks, queue = <<r>> PROVE RefreshOk(eb, queue, in - 1, 0)
  <2>1. /\ Age(in) + 1 <= RefreshDelay
        /\ \A b \in Banks : IF b.rank = r THEN BankDue(b, banks[b], Age(in), 1)
                                          ELSE Spaced(banks[b], in)
    BY <1>6, DueMeans
  <2>2. Age(in - 1) + 0 <= RefreshDelay
    BY <1>3, <2>1, RefreshGiven
  <2>3. \A b \in Banks : IF b.rank = r THEN BankDue(b, eb[b], Age(in - 1), 0)
                                       ELSE Spaced(eb[b], in - 1)
    BY <1>3, <1>4, <2>1
  <2>4. RefreshOk(eb, <<r>>, in - 1, 0)
    BY <1>3, <1>4, <2>2, <2>3, DueMeans
  <2>5. QED
    BY <1>6, <2>4
<1>7. QED
  BY <1>1, <1>5, <1>6 DEF RefreshOk

(***************************************************************************)
(* The rest of a tick leaves the refreshes alone.                          *)
(***************************************************************************)
LEMMA FieldsIssued ==
  ASSUME NEW s, TransInv(s), NEW n, Chooses(s, n), SameRefresh(s, n.s), NEW u, u = Issued(n)
  PROVE  /\ u.refreshIn = s.refreshIn /\ u.nextRank = s.nextRank
         /\ u.refreshQ = IF n.cmd # NoCommand /\ n.cmd.type = "REFRESH"
                         THEN RemoveFirst(s.refreshQ, n.cmd.addr.rank) ELSE s.refreshQ
<1>1. /\ n.s = [f \in CtlFields |-> n.s[f]]
      /\ n.s.refreshQ = s.refreshQ /\ n.s.refreshIn = s.refreshIn /\ n.s.nextRank = s.nextRank
  BY DEF Chooses, SameState, SameRefresh
<1>2. CASE n.cmd = NoCommand
  BY <1>1, <1>2 DEF Issued
<1>3. CASE n.cmd # NoCommand
  <2>1. u = IssueCommand(n.s, n.cmd) /\ LegalCommand(n.s.banks, n.cmd)
    BY <1>3, ChosenIsLegal DEF Issued
  <2>2. PICK r : r = CASE IsRead(n.cmd.type)  -> ReadIssued(n.s, n.cmd.addr)
                       [] IsWrite(n.cmd.type) -> WriteIssued(n.s, n.cmd.addr)
                       [] OTHER               -> n.s
    OBVIOUS
  <2>3. /\ r = [f \in CtlFields |-> r[f]]
        /\ r.refreshQ = n.s.refreshQ /\ r.refreshIn = n.s.refreshIn /\ r.nextRank = n.s.nextRank
    <3>1. CASE IsRead(n.cmd.type)
      <4>1. r = ReadIssued(n.s, n.cmd.addr)
        BY <2>2, <3>1 DEF IsRead, IsWrite
      <4>2. PICK x, y, z : r = [n.s EXCEPT !.returnQ = x, !.pendRd = y, !.aborted = z]
        BY <4>1 DEF ReadIssued
      <4>3. QED
        BY <1>1, <4>2 DEF CtlFields
    <3>2. CASE ~IsRead(n.cmd.type) /\ IsWrite(n.cmd.type)
      <4>1. r = WriteIssued(n.s, n.cmd.addr)
        BY <2>2, <3>2
      <4>2. PICK y, z : r = [n.s EXCEPT !.pendWr = y, !.aborted = z]
        BY <4>1 DEF WriteIssued
      <4>3. QED
        BY <1>1, <4>2 DEF CtlFields
    <3>3. CASE ~IsRead(n.cmd.type) /\ ~IsWrite(n.cmd.type)
      <4>1. r = n.s
        BY <2>2, <3>3
      <4>2. QED
        BY <1>1, <4>1
    <3>4. QED
      BY <3>1, <3>2, <3>3
  <2>4. PICK x, y : u = [r EXCEPT !.banks = x, !.faw = y,
                                  !.refreshQ = IF n.cmd.type = "REFRESH"
                                               THEN RemoveFirst(r.refreshQ, n.cmd.addr.rank)
                                               ELSE r.refreshQ]
    <3>1. u = [r EXCEPT !.banks = UpdateTimingAndStates(r.banks, n.cmd),
                        !.faw = UpdateActivationTimes(r.faw, n.cmd),
                        !.refreshQ = IF n.cmd.type = "REFRESH"
                                     THEN RemoveFirst(r.refreshQ, n.cmd.addr.rank)
                                     ELSE r.refreshQ]
      BY <2>1, <2>2 DEF IssueCommand
    <3>2. QED
      BY <3>1
  <2>5. /\ u.refreshIn = r.refreshIn /\ u.nextRank = r.nextRank
        /\ u.refreshQ = IF n.cmd.type = "REFRESH"
                        THEN RemoveFirst(r.refreshQ, n.cmd.addr.rank) ELSE r.refreshQ
    BY <2>3, <2>4 DEF CtlFields
  <2>6. QED
    BY <1>1, <1>3, <2>3, <2>5
<1>4. QED
  BY <1>2, <1>3

LEMMA FieldsScheduled ==
  ASSUME NEW s0, TransInv(s0) PROVE SameRefresh(s0, ScheduleTransaction(s0))
<1>1. PICK s : s = StartDraining(s0)
  OBVIOUS
<1>2. s0 = [f \in CtlFields |-> s0[f]]
  BY DEF TransInv, TransTypes
<1>3. s = s0 \/ \E x : s = [s0 EXCEPT !.draining = x]
  BY <1>1 DEF StartDraining
<1>4. s = [f \in CtlFields |-> s[f]] /\ SameRefresh(s0, s)
  BY <1>2, <1>3 DEF CtlFields, SameRefresh
<1>5. PICK u : u = ScheduleTransaction(s0)
  OBVIOUS
<1>6. \/ u = s \/ \E x : u = [s EXCEPT !.draining = x]
      \/ \E x, y, z : u = [s EXCEPT !.draining = x, !.queues = y, !.waiting = z]
  BY <1>1, <1>5 DEF ScheduleTransaction
<1>7. SameRefresh(s, u)
  BY <1>4, <1>6 DEF CtlFields, SameRefresh
<1>8. QED
  BY <1>4, <1>5, <1>7 DEF SameRefresh

LEMMA FieldsElapsed ==
  ASSUME NEW s, TransInv(s), NEW u, u = OneCycle(s)
  PROVE  u.refreshQ = s.refreshQ /\ u.nextRank = s.nextRank /\ u.refreshIn = s.refreshIn - 1
<1>1. s = [f \in CtlFields |-> s[f]]
  BY DEF TransInv, TransTypes
<1>2. PICK x, y, z : u = [s EXCEPT !.banks = x, !.faw = y, !.refreshIn = s.refreshIn - 1,
                                   !.returnQ = z]
  BY DEF OneCycle
<1>3. QED
  BY <1>1, <1>2 DEF CtlFields

LEMMA FieldsAdded ==
  ASSUME NEW s, TransInv(s),
         Pause(s) \/ \E a \in Addresses, write \in BOOLEAN : AddTransaction(s, a, write)
  PROVE  SameRefresh(s, ctl')
<1>1. s = [f \in CtlFields |-> s[f]]
  BY DEF TransInv, TransTypes
<1>2. CASE Pause(s)
  BY <1>2 DEF Pause, SameRefresh
<1>3. CASE \E a \in Addresses, write \in BOOLEAN : AddTransaction(s, a, write)
  <2>1. PICK a \in Addresses, write \in BOOLEAN : AddTransaction(s, a, write)
    BY <1>3
  <2>2. PICK u : u = ctl'
    OBVIOUS
  <2>3. u = IF write THEN AddWrite(s, a) ELSE AddRead(s, a)
    BY <2>1, <2>2 DEF AddTransaction
  <2>4. ASSUME NEW v, v = [f \in CtlFields |-> v[f]], NEW w
        PROVE  /\ Enqueued(v, a, w) = [f \in CtlFields |-> Enqueued(v, a, w)[f]]
               /\ SameRefresh(v, Enqueued(v, a, w)) /\ SameRefresh(v, DoneNext(v, a, w))
    BY <2>4 DEF Enqueued, DoneNext, CtlFields, SameRefresh
  <2>5. PICK e : e \in {Enqueued(s, a, TRUE), Enqueued(s, a, FALSE), s}
                 /\ (u = DoneNext(s, a, FALSE)
                      \/ (\E y : u = DoneNext([e EXCEPT !.pendWr = y], a, TRUE))
                      \/ u = DoneNext(e, a, TRUE)
                      \/ \E y : u = [e EXCEPT !.pendRd = y])
    <3>1. CASE write
      <4>1. u = AddWrite(s, a)
        BY <2>3, <3>1
      <4>2. QED
        BY <4>1 DEF AddWrite
    <3>2. CASE ~write
      <4>1. u = AddRead(s, a)
        BY <2>3, <3>2
      <4>2. QED
        BY <4>1 DEF AddRead
    <3>3. QED
      BY <3>1, <3>2
  <2>6. e = [f \in CtlFields |-> e[f]] /\ SameRefresh(s, e)
    <3>1. \A w : /\ Enqueued(s, a, w) = [f \in CtlFields |-> Enqueued(s, a, w)[f]]
                /\ SameRefresh(s, Enqueued(s, a, w))
      BY <1>1, <2>4
    <3>2. SameRefresh(s, s)
      BY DEF SameRefresh
    <3>3. CASE e = s
      BY <1>1, <3>2, <3>3
    <3>4. CASE e = Enqueued(s, a, TRUE)
      BY <3>1, <3>4
    <3>5. CASE e = Enqueued(s, a, FALSE)
      BY <3>1, <3>5
    <3>6. QED
      BY <2>5, <3>3, <3>4, <3>5
  <2>7. ASSUME NEW y, u = DoneNext([e EXCEPT !.pendWr = y], a, TRUE)
        PROVE  SameRefresh(e, u)
    <3>1. PICK v : v = [e EXCEPT !.pendWr = y]
      OBVIOUS
    <3>2. v = [f \in CtlFields |-> v[f]] /\ SameRefresh(e, v)
      BY <2>6, <3>1 DEF CtlFields, SameRefresh
    <3>3. QED
      BY <2>4, <2>7, <3>1, <3>2 DEF SameRefresh
  <2>8. ASSUME NEW y, u = [e EXCEPT !.pendRd = y]
        PROVE  SameRefresh(e, u)
    BY <2>6, <2>8 DEF CtlFields, SameRefresh
  <2>9. SameRefresh(s, u)
    <3>1. SameRefresh(s, DoneNext(s, a, FALSE)) /\ SameRefresh(e, DoneNext(e, a, TRUE))
      BY <1>1, <2>4, <2>6
    <3>2. SameRefresh(s, u) \/ SameRefresh(e, u)
      BY <2>5, <2>7, <2>8, <3>1
    <3>3. QED
      BY <2>6, <3>2 DEF SameRefresh
  <2>10. QED
    BY <2>2, <2>9
<1>4. QED
  BY <1>2, <1>3

(***************************************************************************)
(* A tick, in its three steps: a refresh that falls due, the command of    *)
(* the cycle, and the passing of the cycle.                                *)
(***************************************************************************)
LEMMA RefreshFallsDue ==
  ASSUME RefreshFits, ChannelInv, RefreshInv, NEW x,
         NEW s, s = RefreshTick([ctl EXCEPT !.returnQ = x])
  PROVE  /\ RefreshOk(s.banks, s.refreshQ, s.refreshIn, 0)
         /\ s.refreshIn >= 1 /\ s.nextRank \in Ranks
<1>1. /\ ctl = [f \in CtlFields |-> ctl[f]] /\ ctl.banks \in [Banks -> BankRecords]
      /\ TransInv(ctl)
  BY DEF ChannelInv, TransInv, TransTypes, BankTypes
<1>2. /\ RefreshOk(ctl.banks, ctl.refreshQ, ctl.refreshIn, 0) /\ ctl.nextRank \in Ranks
      /\ ctl.refreshIn \in 0 .. refresh_interval
  BY DEF RefreshInv, RefreshOk
<1>3. PICK v : v = [ctl EXCEPT !.returnQ = x]
  OBVIOUS
<1>4. /\ v = [f \in CtlFields |-> v[f]] /\ v.banks = ctl.banks /\ SameRefresh(ctl, v)
  BY <1>1, <1>3 DEF CtlFields, SameRefresh
<1>5. s.banks = ctl.banks
  BY <1>1, BeforeChoice
<1>6. CASE v.refreshIn > 0
  <2>1. s = v
    BY <1>3, <1>6 DEF RefreshTick
  <2>2. QED
    BY <1>2, <1>4, <1>6, <2>1, RefreshGiven DEF SameRefresh
<1>7. CASE ~(v.refreshIn > 0)
  <2>1. s = [v EXCEPT !.refreshQ  = Append(v.refreshQ, v.nextRank),
                      !.nextRank  = (v.nextRank + 1) % NumRanks,
                      !.refreshIn = refresh_interval]
    BY <1>3, <1>7 DEF RefreshTick
  <2>2. /\ s.refreshQ = Append(ctl.refreshQ, ctl.nextRank)
        /\ s.nextRank = (ctl.nextRank + 1) % NumRanks /\ s.refreshIn = refresh_interval
    BY <1>4, <2>1 DEF CtlFields, SameRefresh
  <2>3. ctl.refreshIn = 0
    BY <1>2, <1>4, <1>7, RefreshGiven DEF SameRefresh
  <2>4. /\ RefreshOk(ctl.banks, Append(ctl.refreshQ, ctl.nextRank), refresh_interval, 0)
        /\ refresh_interval >= 1
    BY <1>1, <1>2, <2>3, RefreshBegins
  <2>5. s.nextRank \in Ranks
    <3>1. PICK m \in Nat \ {0}, k \in Nat : m = NumRanks /\ k = ctl.nextRank
      BY <1>2, Given DEF Ranks
    <3>2. (k + 1) % m \in 0 .. m - 1
      BY <3>1
    <3>3. QED
      BY <2>2, <3>1, <3>2 DEF Ranks
  <2>6. QED
    BY <1>5, <2>2, <2>4, <2>5
<1>8. QED
  BY <1>6, <1>7

\* One rank is due at most, and a refresh leaves none.
LEMMA OneDue ==
  ASSUME NEW r PROVE RemoveFirst(<<r>>, r) = <<>>
<1>1. RemoveFirst(<<r>>, r) = RemoveAt(<<r>>, 1)
  <2>1. <<r>> \in Seq({r}) /\ 1 \in 1 .. Len(<<r>>)
        /\ \A j \in 1 .. Len(<<r>>) : <<r>>[j] = r <=> j = 1
    OBVIOUS
  <2>2. QED
    BY <2>1, FirstRemoved
<1>2. RemoveAt(<<r>>, 1) \in Seq({r}) /\ Len(RemoveAt(<<r>>, 1)) = 0
  <2>1. <<r>> \in Seq({r}) /\ 1 \in 1 .. Len(<<r>>) /\ Len(<<r>>) = 1
    OBVIOUS
  <2>2. /\ RemoveAt(<<r>>, 1) \in Seq({r})
        /\ Len(RemoveAt(<<r>>, 1)) = Len(<<r>>) - 1
    BY <2>1, Removed
  <2>3. QED
    BY <2>1, <2>2
<1>3. \A q \in Seq({r}) : Len(q) = 0 => q = <<>>
  OBVIOUS
<1>4. QED
  BY <1>1, <1>2, <1>3

LEMMA RefreshIssued ==
  ASSUME RefreshFits, NEW s, TransInv(s), BankTypes(s), s.aborted = FALSE,
         RefreshOk(s.banks, s.refreshQ, s.refreshIn, 0), s.refreshIn >= 1,
         NEW n, n = NextCommand(s), NEW u, u = Issued(n)
  PROVE  /\ RefreshOk(u.banks, u.refreshQ, u.refreshIn, 1)
         /\ u.nextRank = s.nextRank /\ u.banks \in [Banks -> BankRecords]
<1>1. s.banks \in [Banks -> BankRecords] /\ TransTypes(s)
  BY DEF BankTypes, TransInv
<1>2. Chooses(s, n)
  BY <1>1, CommandChosen
<1>3. u.banks = IF n.cmd = NoCommand THEN s.banks ELSE UpdateTimingAndStates(s.banks, n.cmd)
  BY <1>2, CommandIssued
<1>4. n.cmd # NoCommand => /\ n.cmd.type \in CommandType
                           /\ n.cmd.type = "ACTIVATE" => n.cmd.addr.row \in Nat
  BY <1>1, <1>2, ChosenTypes
<1>5. u.banks \in [Banks -> BankRecords]
  BY <1>1, <1>3, <1>4, BanksIssued
<1>6. ASSUME RefreshOk(s.banks, s.refreshQ, s.refreshIn, 1), SameRefresh(s, n.s),
             n.cmd # NoCommand => /\ n.cmd.type # "REFRESH"
                                  /\ \A r \in Ranks : s.refreshQ = <<r>> => n.cmd.addr.rank # r
      PROVE  RefreshOk(u.banks, u.refreshQ, u.refreshIn, 1) /\ u.nextRank = s.nextRank
  <2>1. u.refreshQ = s.refreshQ /\ u.refreshIn = s.refreshIn /\ u.nextRank = s.nextRank
    BY <1>2, <1>6, FieldsIssued
  <2>2. n.cmd # NoCommand => RefreshOk(UpdateTimingAndStates(s.banks, n.cmd), s.refreshQ,
                                       s.refreshIn, 1)
    BY <1>1, <1>4, <1>6, IssuedElsewhere
  <2>3. QED
    BY <1>3, <1>6, <2>1, <2>2
<1>7. CASE s.refreshQ = <<>>
  <2>1. n = GetCommandToIssue(s)
    BY <1>7 DEF NextCommand
  <2>2. SameRefresh(s, n.s) /\ (n.cmd # NoCommand => n.cmd.type # "REFRESH")
    BY <1>1, <2>1, CommandSource
  <2>3. RefreshOk(s.banks, s.refreshQ, s.refreshIn, 1)
    <3>1. RefreshOk(s.banks, <<>>, s.refreshIn, 0)
      BY <1>7
    <3>2. RefreshOk(s.banks, <<>>, s.refreshIn, 1)
      BY <3>1, UndueMeans, RefreshGiven
    <3>3. QED
      BY <1>7, <3>2
  <2>4. \A r \in Ranks : s.refreshQ # <<r>>
    BY <1>7
  <2>5. QED
    BY <1>5, <1>6, <2>2, <2>3, <2>4
<1>8. ASSUME NEW r \in Ranks, s.refreshQ = <<r>>
      PROVE  RefreshOk(u.banks, u.refreshQ, u.refreshIn, 1) /\ u.nextRank = s.nextRank
  <2>1. SameRefresh(s, n.s)
    BY <1>8, ChoiceWhenDue
  <2>2. RefreshOk(s.banks, <<r>>, s.refreshIn, 0)
    BY <1>8
  <2>3. ASSUME RankBlocked(s.banks, r),
               n.cmd # NoCommand => n.cmd.type # "REFRESH" /\ n.cmd.addr.rank # r
        PROVE  RefreshOk(u.banks, u.refreshQ, u.refreshIn, 1) /\ u.nextRank = s.nextRank
    <3>1. RefreshOk(s.banks, <<r>>, s.refreshIn, 1)
      BY <1>1, <2>2, <2>3, RankWaits
    <3>2. \A t \in Ranks : s.refreshQ = <<t>> => t = r
      BY <1>8
    <3>3. QED
      BY <1>6, <1>8, <2>1, <2>3, <3>1, <3>2
  <2>4. ASSUME NEW b, n.cmd = Command("PRECHARGE", b), FirstToPrecharge(s.banks, r, b)
        PROVE  RefreshOk(u.banks, u.refreshQ, u.refreshIn, 1) /\ u.nextRank = s.nextRank
    <3>1. PICK cmd : cmd = Command("PRECHARGE", b)
      OBVIOUS
    <3>2. RefreshOk(UpdateTimingAndStates(s.banks, cmd), <<r>>, s.refreshIn, 1)
      BY <1>1, <2>2, <2>4, <3>1, BankPrecharged
    <3>3. n.cmd.type = "PRECHARGE" /\ n.cmd # NoCommand
      <4>1. b \in Banks /\ "PRECHARGE" \in CommandType
        BY <2>4 DEF FirstToPrecharge, BanksOf, CommandType
      <4>2. QED
        BY <2>4, <4>1, IsACommand
    <3>4. u.refreshQ = s.refreshQ /\ u.refreshIn = s.refreshIn /\ u.nextRank = s.nextRank
      BY <1>2, <2>1, <3>3, FieldsIssued
    <3>5. QED
      BY <1>3, <1>8, <2>4, <3>1, <3>2, <3>3, <3>4
  <2>5. ASSUME n.cmd = Command("REFRESH", [rank |-> r]),
               \A b \in BanksOf(r) : s.banks[b].open = NoRow /\ s.banks[b].wait["REFRESH"] = 0
        PROVE  RefreshOk(u.banks, u.refreshQ, u.refreshIn, 1) /\ u.nextRank = s.nextRank
    <3>1. PICK cmd : cmd = Command("REFRESH", [rank |-> r])
      OBVIOUS
    <3>2. RefreshOk(UpdateTimingAndStates(s.banks, cmd), <<>>, s.refreshIn, 1)
      BY <1>1, <2>2, <2>5, <3>1, RankRefreshed
    <3>3. n.cmd.type = "REFRESH" /\ n.cmd.addr.rank = r /\ n.cmd # NoCommand
      <4>1. [rank |-> r] \in [rank : Ranks] /\ "REFRESH" \in CommandType
        BY DEF CommandType
      <4>2. /\ n.cmd # NoCommand /\ n.cmd.type = "REFRESH" /\ n.cmd.addr = [rank |-> r]
        BY <2>5, <4>1, IsACommand
      <4>3. QED
        BY <4>2
    <3>4. /\ u.refreshQ = RemoveFirst(<<r>>, r)
          /\ u.refreshIn = s.refreshIn /\ u.nextRank = s.nextRank
      BY <1>2, <1>8, <2>1, <3>3, FieldsIssued
    <3>5. u.refreshQ = <<>>
      BY <3>4, OneDue
    <3>6. QED
      BY <1>3, <2>5, <3>1, <3>2, <3>3, <3>4, <3>5
  <2>6. QED
    BY <1>8, <2>3, <2>4, <2>5, ChoiceWhenDue
<1>9. s.refreshQ = <<>> \/ \E r \in Ranks : s.refreshQ = <<r>>
  BY DEF RefreshOk
<1>10. QED
  BY <1>5, <1>7, <1>8, <1>9

LEMMA RefreshTicks ==
  ASSUME RefreshFits, ChannelInv, RefreshInv, MemTick PROVE RefreshInv'
<1>1. PICK n \in TheChoice : \E i \in {Issued(n)} : \E s \in {OneCycle(ScheduleTransaction(i))} :
        Pause(s) \/ \E a \in Addresses, write \in BOOLEAN : AddTransaction(s, a, write)
  BY DEF MemTick
<1>2. PICK i, s : /\ i = Issued(n) /\ s = OneCycle(ScheduleTransaction(i))
                  /\ \/ Pause(s)
                     \/ \E a \in Addresses, write \in BOOLEAN : AddTransaction(s, a, write)
  BY <1>1
<1>3. PICK s0 : s0 = RefreshTick([ctl EXCEPT !.returnQ = NotDone])
  OBVIOUS
<1>4. n = NextCommand(s0)
  BY <1>3 DEF TheChoice
<1>5. PICK t : t = ScheduleTransaction(i)
  OBVIOUS
<1>6. Ticked(s0, n, i, s)
  BY <1>2, <1>3, <1>4, TickTaken
<1>7. TransInv(ctl) /\ BankTypes(ctl) /\ ctl.aborted = FALSE
  BY DEF ChannelInv
<1>8. SameTrans(ctl, s0) /\ s0.aborted = FALSE /\ s0.banks = ctl.banks
  BY <1>3, <1>7, BeforeChoice
<1>9. TransInv(s0) /\ BankTypes(s0)
  BY <1>7, <1>8, TransKept DEF BankTypes
<1>10. /\ RefreshOk(s0.banks, s0.refreshQ, s0.refreshIn, 0)
       /\ s0.refreshIn >= 1 /\ s0.nextRank \in Ranks
  BY <1>3, RefreshFallsDue
<1>11. /\ RefreshOk(i.banks, i.refreshQ, i.refreshIn, 1)
       /\ i.nextRank = s0.nextRank /\ i.banks \in [Banks -> BankRecords]
  BY <1>2, <1>4, <1>8, <1>9, <1>10, RefreshIssued
<1>12. TransInv(i)
  <2>1. Chooses(s0, n)
    BY <1>6 DEF Ticked
  <2>2. QED
    BY <1>2, <1>8, <1>9, <2>1, CommandIssued
<1>13. SameRefresh(i, t) /\ TransInv(t)
  BY <1>5, <1>12, FieldsScheduled, TransScheduled
<1>14. s.refreshQ = i.refreshQ /\ s.nextRank = i.nextRank /\ s.refreshIn = i.refreshIn - 1
  <2>1. s.refreshQ = t.refreshQ /\ s.nextRank = t.nextRank /\ s.refreshIn = t.refreshIn - 1
    BY <1>2, <1>5, <1>13, FieldsElapsed
  <2>2. QED
    BY <1>13, <2>1 DEF SameRefresh
<1>15. s.banks = Elapsed(i.banks) /\ TransInv(s)
  BY <1>6 DEF Ticked
<1>16. RefreshOk(Elapsed(i.banks), i.refreshQ, i.refreshIn - 1, 0)
  BY <1>11, RefreshElapsed
<1>17. SameRefresh(s, ctl') /\ ctl'.banks = s.banks
  BY <1>2, <1>6, <1>15, FieldsAdded, TickCompleted
<1>18. RefreshOk(ctl'.banks, ctl'.refreshQ, ctl'.refreshIn, 0) /\ ctl'.nextRank \in Ranks
  BY <1>10, <1>11, <1>14, <1>15, <1>16, <1>17 DEF SameRefresh
<1>19. QED
  BY <1>18 DEF RefreshInv, RefreshOk, Spaced, BankDue, Age, Place, LastPrecharge, RefreshDelay,
               refresh_interval, read_to_precharge

LEMMA InitRefresh == Init => RefreshInv
<1>1. SUFFICES ASSUME Init PROVE RefreshInv
  OBVIOUS
<1>2. PICK first \in FirstRefresh :
        /\ ctl.banks = NewChannel /\ ctl.refreshQ = <<>> /\ ctl.refreshIn = first
        /\ ctl.nextRank = 0
  BY <1>1 DEF Init
<1>3. first \in 0 .. refresh_interval
  BY ControllerAssumption DEF refresh_interval
<1>4. \A b \in Banks : \A c \in CommandType : ctl.banks[b].wait[c] = 0
  BY <1>2 DEF NewChannel, NewBank
<1>5. /\ \A b \in Banks : ctl.banks[b].wait["PRECHARGE"] <= LastPrecharge
      /\ \A b \in Banks : Spaced(ctl.banks[b], first)
  BY <1>3, <1>4, RefreshGiven DEF CommandType, Spaced, Later
<1>6. RefreshOk(ctl.banks, <<>>, first, 0)
  BY <1>3, <1>5, UndueMeans
<1>7. 0 \in Ranks
  BY Given DEF Ranks
<1>8. QED
  BY <1>2, <1>6, <1>7 DEF RefreshInv

\* A refresh is not put off by more than the commands issued before it was due need
\* for the precharges of its banks (FinishRefresh, GetCommandToIssue), for any number
\* of ranks and banks, any transactions and any setting of the queues, on every device
\* whose refreshes are further apart than that delay and the refresh itself.
THEOREM RefreshesAreInTime ==
  ASSUME RefreshFits PROVE Spec => []RefreshInTime
<1>1. Init => ChannelInv /\ RefreshInv
  BY InitChannel, InitRefresh
<1>2. ChannelInv /\ RefreshInv /\ [Next]_vars => (ChannelInv /\ RefreshInv)'
  <2>1. SUFFICES ASSUME ChannelInv, RefreshInv, [Next]_vars PROVE (ChannelInv /\ RefreshInv)'
    OBVIOUS
  <2>2. ChannelInv'
    BY <2>1, ChannelKept
  <2>3. CASE MemTick
    BY <2>1, <2>2, <2>3, RefreshTicks
  <2>4. CASE UNCHANGED vars
    <3>1. ctl' = ctl
      BY <2>4 DEF vars
    <3>2. RefreshInv'
      BY <2>1, <3>1 DEF RefreshInv, RefreshOk, Spaced, BankDue, Age
    <3>3. QED
      BY <2>2, <3>2
  <2>5. QED
    BY <2>1, <2>3, <2>4 DEF Next
<1>3. RefreshInv => RefreshInTime
  <2>1. SUFFICES ASSUME RefreshInv, ctl.refreshQ # <<>>
                 PROVE  /\ Len(ctl.refreshQ) = 1
                        /\ refresh_interval - ctl.refreshIn <= RefreshDelay
    BY DEF RefreshInTime, RefreshDelay, LastPrecharge
  <2>2. PICK r \in Ranks : ctl.refreshQ = <<r>> /\ Age(ctl.refreshIn) + 0 <= RefreshDelay
    BY <2>1 DEF RefreshInv, RefreshOk
  <2>3. ctl.refreshIn \in 0 .. refresh_interval
    BY <2>1 DEF RefreshInv, RefreshOk
  <2>4. QED
    BY <2>2, <2>3, RefreshGiven DEF Age
<1>4. QED
  BY <1>1, <1>2, <1>3, PTL DEF Spec
=============================================================================
