--------------------------- MODULE DramController ---------------------------
(***************************************************************************)
(* One channel of DRAMsim3: the Controller with its CommandQueue, its      *)
(* Refresh and its ChannelState, as JedecDRAMSystem drives it.  A clock    *)
(* tick calls back the transactions that are done, issues at most one      *)
(* command (refreshes come first) and schedules at most one transaction    *)
(* into the command queues.  Between two ticks the front end adds one      *)
(* transaction at most (mem_controller::MemTick).                          *)
(*                                                                         *)
(* Not modelled: self-refresh (off in the code's default), two commands a  *)
(* cycle (HBM), refreshes of single banks, statistics.                     *)
(***************************************************************************)
EXTENDS DramChannel, SequencesExt, FiniteSetsExt

CONSTANTS
  Addresses,       \* the addresses of the front end, as AddressMapping splits them
  Configs,         \* the settings to consider
  TransQueueSize,
  DrainThreshold,  \* writes that are drained once the command queues are empty; 8 in the code
  FirstRefresh,    \* bound of the model: ticks from the first transaction to a refresh
  MaxTransactions, \* bound of the model: transactions the front end adds
  MaxGap           \* bound of the model: ticks the front end may pause between two of them

ASSUME ControllerAssumption ==
  /\ Addresses \subseteq [rank : Ranks, group : 0 .. BankGroups - 1,
                          bank : 0 .. BanksPerGroup - 1, row : Nat, column : Nat]
  /\ Configs \subseteq [closePage : BOOLEAN, unified : BOOLEAN, perRank : BOOLEAN,
                         cmdQueueSize : Nat \ {0}]
  /\ NoCommand \notin [type : CommandType, addr : Addresses \cup Banks \cup [rank : Ranks]]
  /\ {TransQueueSize, DrainThreshold, MaxTransactions} \subseteq Nat \ {0}
  /\ FirstRefresh \subseteq 0 .. T.tREFI \div NumRanks /\ MaxGap \in Nat

VARIABLES
  config,      \* the setting of this run
  ctl,         \* the channel: a record, see Init
  bus,         \* history: the bursts the data bus is committed to
  unanswered,  \* history: transactions added and not yet called back
  added,       \* their number, up to the bound
  gap,         \* ticks since the last of them, up to the bound
  clk          \* clk_, its lowest bit

vars == <<config, ctl, bus, unanswered, added, gap, clk>>

NumQueues == IF config.perRank THEN NumRanks ELSE NumRanks * BankGroups * BanksPerGroup
GetQueueIndex(a) == IF config.perRank THEN a.rank ELSE IndexOf(BankOf(a))
RankOfQueue(q)   == IF config.perRank THEN q ELSE q \div (BankGroups * BanksPerGroup)

refresh_interval == T.tREFI \div NumRanks

Init ==
  /\ config \in Configs
  /\ \E first \in FirstRefresh : ctl =
           [banks      |-> NewChannel,
            faw        |-> [r \in Ranks |-> <<>>],
            refreshQ   |-> <<>>,               \* the ranks that need a refresh
            refreshIn  |-> first,              \* ticks to the next one
            nextRank   |-> 0,
            queues     |-> [q \in 0 .. NumQueues - 1 |-> <<>>],
            queueIdx   |-> 0,
            inRef      |-> FALSE,              \* is_in_ref_, for the rank at the head of refreshQ
            waiting    |-> [read |-> <<>>, write |-> <<>>, unified |-> <<>>],
            pendRd     |-> [a \in Addresses |-> 0],
            pendWr     |-> {},
            draining   |-> 0,
            returnQ    |-> <<>>,
            aborted    |-> FALSE]              \* exit(1) or AbruptExit
  /\ bus = {}
  /\ unanswered = [a \in Addresses, w \in BOOLEAN |-> 0]
  /\ added = 0
  /\ gap = 0
  /\ clk = 0

(***************************************************************************)
(* AddTransaction.                                                         *)
(***************************************************************************)
QueueFor(write) ==
  CASE config.unified             -> "unified"
    [] ~config.unified /\ write   -> "write"
    [] ~config.unified /\ ~write  -> "read"

WillAcceptTransaction(s, write) == Len(s.waiting[QueueFor(write)]) < TransQueueSize

Enqueued(s, a, write) ==
  [s EXCEPT !.waiting[QueueFor(write)] = Append(@, [addr |-> a, write |-> write])]

DoneNext(s, a, write) ==
  [s EXCEPT !.returnQ = Append(@, [addr |-> a, write |-> write, wait |-> 1])]

AddWrite(s, a) ==
  DoneNext(IF a \in s.pendWr THEN s
           ELSE [Enqueued(s, a, TRUE) EXCEPT !.pendWr = @ \cup {a}], a, TRUE)

\* Mutant: a second read of an address gets a command of its own.
NotMerged(s, a) ==
  IF a \in s.pendWr THEN DoneNext(s, a, FALSE)
  ELSE [Enqueued(s, a, FALSE) EXCEPT !.pendRd[a] = @ + 1]

AddRead(s, a) ==
  IF a \in s.pendWr THEN DoneNext(s, a, FALSE)
  ELSE [(IF s.pendRd[a] = 0 THEN Enqueued(s, a, FALSE) ELSE s) EXCEPT !.pendRd[a] = @ + 1]

(***************************************************************************)
(* CommandQueue::GetCommandToIssue.                                        *)
(***************************************************************************)
\* A row is closed for the first command of its bank only, and not while other
\* commands hit it, four hits at most.
ArbitratePrecharge(s, queue, i) ==
  LET bank == s.banks[BankOf(queue[i].addr)]
      same == {j \in DOMAIN queue : BankOf(queue[j].addr) = BankOf(queue[i].addr)}
  IN  /\ \A j \in same : j >= i
      /\ (\E j \in same : queue[j].addr.row = bank.open) => bank.hits >= 4

\* The rank is not compared.
HasRWDependency(queue, i) ==
  LET Cell(a) == <<a.group, a.bank, a.row, a.column>>
  IN  \E j \in 1 .. i - 1 : IsRead(queue[j].type) /\ Cell(queue[j].addr) = Cell(queue[i].addr)

MayIssue(s, queue, i) ==
  LET cmd == BankReady(s.banks, s.faw, queue[i])
  IN  /\ cmd # NoCommand
      /\ cmd.type = "PRECHARGE" => ArbitratePrecharge(s, queue, i)
      /\ IsWrite(cmd.type) => ~HasRWDependency(queue, i)

GetFirstReadyInQueue(s, queue) ==
  LET may == {i \in DOMAIN queue : MayIssue(s, queue, i)}
  IN  IF may = {} THEN NoCommand ELSE BankReady(s.banks, s.faw, queue[Min(may)])

\* Mutant: the queues of a rank being refreshed are not skipped.
NeverSkipped(s, q) == FALSE

Skipped(s, q) == s.inRef /\ RankOfQueue(q) = Head(s.refreshQ)

\* The queues after the one served last, round robin.
GetCommandToIssue(s) ==
  LET Nth(k) == (s.queueIdx + k) % NumQueues
      ready  == [k \in 1 .. NumQueues |->
                   IF Skipped(s, Nth(k)) THEN NoCommand
                   ELSE GetFirstReadyInQueue(s, s.queues[Nth(k)])]
      found  == {k \in DOMAIN ready : ready[k] # NoCommand}
      cmd    == ready[Min(found)]
      q      == Nth(Min(found))
  IN  IF found = {} THEN [cmd |-> NoCommand, s |-> s]
      ELSE [cmd |-> cmd,
            s   |-> [s EXCEPT !.queueIdx = q,
                              !.queues[q] = IF cmd.type \in Columns THEN RemoveFirst(@, cmd) ELSE @]]

(***************************************************************************)
(* The refreshes.                                                          *)
(***************************************************************************)
RefreshTick(s) ==
  IF s.refreshIn > 0 THEN s
  ELSE [s EXCEPT !.refreshQ  = Append(@, s.nextRank),
                 !.nextRank  = (@ + 1) % NumRanks,
                 !.refreshIn = refresh_interval]

FinishRefresh(s) ==
  LET cmd == RefreshReady(s.banks, Command("REFRESH", [rank |-> Head(s.refreshQ)]))
  IN  [cmd |-> cmd, s |-> [s EXCEPT !.inRef = cmd = NoCommand \/ cmd.type # "REFRESH"]]

NextCommand(s) ==
  LET r == FinishRefresh(s)
  IN  IF s.refreshQ = <<>> THEN GetCommandToIssue(s)
      ELSE IF r.cmd = NoCommand THEN GetCommandToIssue(r.s)
      ELSE r

(***************************************************************************)
(* IssueCommand.                                                           *)
(***************************************************************************)
\* Mutant: one of the reads pending for the address is answered.
OneAnswered(s, a) ==
  [s EXCEPT !.returnQ = Append(@, [addr |-> a, write |-> FALSE, wait |-> read_delay]),
            !.pendRd[a] = @ - 1,
            !.aborted = @ \/ s.pendRd[a] = 0]

\* Every read pending for the address is answered.
ReadIssued(s, a) ==
  [s EXCEPT !.returnQ = @ \o [i \in 1 .. s.pendRd[a] |->
                                [addr |-> a, write |-> FALSE, wait |-> read_delay]],
            !.pendRd[a] = 0,
            !.aborted = @ \/ s.pendRd[a] = 0]

WriteIssued(s, a) ==
  [s EXCEPT !.pendWr = @ \ {a}, !.aborted = @ \/ a \notin s.pendWr]

IssueCommand(s, cmd) ==
  LET r == CASE IsRead(cmd.type)  -> ReadIssued(s, cmd.addr)
             [] IsWrite(cmd.type) -> WriteIssued(s, cmd.addr)
             [] OTHER             -> s
  IN  IF ~LegalCommand(s.banks, cmd) THEN [r EXCEPT !.aborted = TRUE]
      ELSE [r EXCEPT !.banks = UpdateTimingAndStates(@, cmd),
                     !.faw = UpdateActivationTimes(@, cmd),
                     !.refreshQ = IF cmd.type = "REFRESH" THEN RemoveFirst(@, cmd.addr.rank) ELSE @]

\* When the burst of a column command is on the data bus.
Burst(cmd) ==
  LET first == IF IsRead(cmd.type) THEN T.RL ELSE T.WL
  IN  [cmd |-> cmd, from |-> first, until |-> first + T.burst_cycle]

(***************************************************************************)
(* ScheduleTransaction.                                                    *)
(***************************************************************************)
TransToCommand(t) ==
  Command(CASE t.write /\ config.closePage   -> "WRITE_PRECHARGE"
            [] t.write /\ ~config.closePage  -> "WRITE"
            [] ~t.write /\ config.closePage  -> "READ_PRECHARGE"
            [] ~t.write /\ ~config.closePage -> "READ", t.addr)

WillAcceptCommand(s, a) == Len(s.queues[GetQueueIndex(a)]) < config.cmdQueueSize

StartDraining(s) ==
  LET size == Len(s.waiting.write)
  IN  IF /\ s.draining = 0 /\ ~config.unified
         /\ \/ size >= TransQueueSize
            \/ size > DrainThreshold /\ \A q \in DOMAIN s.queues : s.queues[q] = <<>>
      THEN [s EXCEPT !.draining = size]
      ELSE s

\* Mutant: writes are scheduled ahead of the reads of their address.
NeverHeld(s, t) == FALSE

\* A write does not leave the buffer before the reads of its address.
Held(s, t) == ~config.unified /\ t.write /\ s.pendRd[t.addr] > 0

\* The transactions whose command queue has room.
Fitting(s, queue) == {i \in DOMAIN queue : WillAcceptCommand(s, queue[i].addr)}

\* The first of them leaves the buffer that is served.
ScheduleTransaction(s0) ==
  LET s == StartDraining(s0)
      from == QueueFor(s.draining > 0)
      queue == s.waiting[from]
      i == Min(Fitting(s, queue))
  IN  IF Fitting(s, queue) = {} THEN s
      ELSE IF Held(s, queue[i]) THEN [s EXCEPT !.draining = 0]
      ELSE [s EXCEPT !.draining = IF from = "write" THEN @ - 1 ELSE @,
                     !.queues[GetQueueIndex(queue[i].addr)] =
                        Append(@, TransToCommand(queue[i])),
                     !.waiting[from] = RemoveAt(@, i)]

(***************************************************************************)
(* The actions.                                                            *)
(***************************************************************************)
OneCycle(s) ==
  [s EXCEPT !.banks = Elapsed(@),
            !.faw = [r \in Ranks |-> [i \in DOMAIN @[r] |-> Later(@[r][i] - 1, 0)]],
            !.refreshIn = @ - 1,
            !.returnQ = [i \in DOMAIN @ |-> [@[i] EXCEPT !.wait = Later(@ - 1, 0)]]]

IsDone(t) == t.wait = 0

NotDone == SelectSeq(ctl.returnQ, LAMBDA t : ~IsDone(t))

\* JedecDRAMSystem::ClockTick and Controller::ClockTick: n is the choice of a
\* command, made after the transactions that are done are called back.
TheChoice == {NextCommand(RefreshTick([ctl EXCEPT !.returnQ = NotDone]))}

Issued(n) == IF n.cmd = NoCommand THEN n.s ELSE IssueCommand(n.s, n.cmd)

Bursts(n) ==
  bus \cup (IF n.cmd # NoCommand /\ n.cmd.type \in Columns THEN {Burst(n.cmd)} ELSE {})

Called(a, write) ==
  Len(SelectSeq(ctl.returnQ, LAMBDA t : IsDone(t) /\ t.addr = a /\ t.write = write))

\* mem_controller::MemTick: a tick of the memory, then a transaction at most.  The
\* front end pauses when a queue is full, when it has added all, and within its bound.
Pause(s) ==
  /\ \/ added = MaxTransactions \/ gap < MaxGap
     \/ \E w \in BOOLEAN : ~WillAcceptTransaction(s, w)
  /\ gap' = IF added = MaxTransactions \/ gap = MaxGap THEN gap ELSE gap + 1
  /\ ctl' = s
  /\ unanswered' = [a \in Addresses, w \in BOOLEAN |-> unanswered[a, w] - Called(a, w)]
  /\ UNCHANGED added

AddTransaction(s, a, write) ==
  /\ added < MaxTransactions
  /\ WillAcceptTransaction(s, write)
  /\ added' = added + 1
  /\ gap' = 0
  /\ ctl' = IF write THEN AddWrite(s, a) ELSE AddRead(s, a)
  /\ unanswered' = [b \in Addresses, w \in BOOLEAN |->
                      unanswered[b, w] - Called(b, w) + (IF b = a /\ w = write THEN 1 ELSE 0)]

ClockRuns == ~ctl.aborted /\ clk' = 1 - clk

MemTick ==
  /\ ClockRuns
  /\ \E n \in TheChoice : \E i \in {Issued(n)} : \E s \in {OneCycle(ScheduleTransaction(i))} :
       /\ \/ Pause(s)
          \/ \E a \in Addresses, write \in BOOLEAN : AddTransaction(s, a, write)
       /\ bus' = {[b EXCEPT !.from = @ - 1, !.until = @ - 1] :
                    b \in {c \in Bursts(n) : c.until > -T.tRTRS}}
  /\ UNCHANGED config

Next == MemTick

Spec == Init /\ [][Next]_vars

\* The clock of the memory never stops.  Every step is a tick, so the fairness of
\* ClockRuns is that of MemTick.
FairSpec == Spec /\ WF_clk(ClockRuns)

(***************************************************************************)
(* Properties.                                                             *)
(***************************************************************************)

\* No sequence of transactions and refreshes leads the controller to a command
\* its banks or its pending queues cannot take: the exits of IssueCommand
\* (controller.cc) and UpdateState (bankstate.cc) are not reached.
NoAbort == ~ctl.aborted

\* The bursts of the column commands never meet on the data bus, and between a
\* read and a burst of another rank the bus is idle for tRTRS: the entries of
\* the timing tables that bind pairs of commands suffice for all of them.
DataBusExclusive ==
  \A b, c \in bus :
    LET idle == IF b.cmd.addr.rank # c.cmd.addr.rank /\ (IsRead(b.cmd.type) \/ IsRead(c.cmd.type))
                THEN T.tRTRS ELSE 0
    IN  b = c \/ b.until + idle <= c.from \/ c.until + idle <= b.from

\* Traffic delays a refresh by no more than the commands issued before it was due
\* need for the precharges of its banks, however much is queued: the queues of
\* its rank are held until it is issued (FinishRefresh, GetCommandToIssue).
RefreshInTime ==
  ctl.refreshQ # <<>> =>
    /\ Len(ctl.refreshQ) = 1
    /\ refresh_interval - ctl.refreshIn <=
         Later(T.tRAS, write_to_precharge) + T.tRP + BankGroups * BanksPerGroup

\* A write command is issued only when no older read of its address is pending,
\* so that no read sees what was written after it.  In the unified queue the
\* command queue keeps the order (HasRWDependency), in the two others the
\* scheduler does.
ReadsSeeOldData ==
  [][\A a \in ctl.pendWr \ ctl'.pendWr : ctl.pendRd[a] = 0]_vars

\* The write buffer asks to be drained in every cycle, its first write that could
\* go waits for a read of its address, and that read is behind it in the
\* read queue.
Stuck ==
  /\ Len(ctl.waiting.write) >= TransQueueSize \/ Len(ctl.waiting.write) > DrainThreshold
  /\ \E i \in DOMAIN ctl.waiting.write, j \in DOMAIN ctl.waiting.read :
       ctl.waiting.write[i].addr = ctl.waiting.read[j].addr

AllAnswered == \A a \in Addresses, w \in BOOLEAN : unanswered[a, w] = 0

\* Once the front end stops, every transaction has been called back exactly once,
\* unless the write buffer is stuck on a read that is still queued.
EveryTransactionReturns == <>[](AllAnswered \/ Stuck)

\* As the interface has it: a transaction that was added is called back.
CallbackComes == <>[]AllAnswered
=============================================================================
