---------------------------- MODULE DramChannel ----------------------------
(***************************************************************************)
(* DRAMsim3's BankState and ChannelState: the banks of a channel, the      *)
(* commands they are ready for and what a command does to them.  Times are *)
(* what is left of them, so that the state space is finite: Elapsed is the *)
(* passing of a cycle.  There is no behaviour here; DramController drives  *)
(* these operators.                                                        *)
(***************************************************************************)
EXTENDS DramTiming, Sequences, FiniteSets

CONSTANTS
  NumRanks, BanksPerGroup,
  NoRow,       \* open_row_ = -1
  NoCommand    \* an invalid Command

ASSUME GeometryAssumption ==
  /\ NumRanks \in Nat \ {0} /\ BankGroups \in Nat \ {0} /\ BanksPerGroup \in Nat \ {0}
  /\ NoRow \notin Nat

Ranks == 0 .. NumRanks - 1

\* In the order of the per-bank queues: rank, bank group, bank.
Banks == [rank : Ranks, group : 0 .. BankGroups - 1, bank : 0 .. BanksPerGroup - 1]
BankOf(a) == [rank |-> a.rank, group |-> a.group, bank |-> a.bank]
BanksOf(rank) == {b \in Banks : b.rank = rank}
IndexOf(b) == b.rank * (BankGroups * BanksPerGroup) + b.group * BanksPerGroup + b.bank

NewBank ==
  [open |-> NoRow,                        \* state_ is OPEN, with open_row_, or CLOSED
   hits |-> 0,                            \* row_hit_count_
   wait |-> [c \in CommandType |-> 0]]    \* cmd_timing_, less the clock

NewChannel == [b \in Banks |-> NewBank]

Command(type, addr) == [type |-> type, addr |-> addr]

(***************************************************************************)
(* GetReadyCommand.                                                        *)
(***************************************************************************)
\* BankState: what the bank needs next for a command.
Required(bank, cmd) ==
  CASE bank.open = NoRow -> IF cmd.type \in Columns THEN "ACTIVATE" ELSE cmd.type
    [] bank.open # NoRow -> IF cmd.type \in Columns /\ cmd.addr.row = bank.open
                            THEN cmd.type ELSE "PRECHARGE"

IsReady(bank, cmd) == bank.wait[Required(bank, cmd)] = 0

\* faw: per rank, what is left of the windows of the last activations.
ActivationWindowOk(faw, rank) ==
  Len(faw[rank]) >= 4 => Head(faw[rank]) = 0

\* A command for a bank.
BankReady(banks, faw, cmd) ==
  LET b == BankOf(cmd.addr)
      type == Required(banks[b], cmd)
  IN  IF IsReady(banks[b], cmd)
         /\ (type = "ACTIVATE" => ActivationWindowOk(faw, b.rank))
      THEN Command(type, cmd.addr)
      ELSE NoCommand

\* REFRESH, a command for a rank: the first bank that is open and can be
\* precharged, or REFRESH if all banks are ready for it.
RefreshReady(banks, cmd) ==
  LET open == {b \in BanksOf(cmd.addr.rank) : banks[b].open # NoRow /\ IsReady(banks[b], cmd)}
  IN  IF open # {}
      THEN Command("PRECHARGE", CHOOSE b \in open : \A d \in open : IndexOf(b) <= IndexOf(d))
      ELSE IF \A b \in BanksOf(cmd.addr.rank) : IsReady(banks[b], cmd)
      THEN cmd
      ELSE NoCommand

(***************************************************************************)
(* UpdateTimingAndStates.                                                  *)
(***************************************************************************)
\* The commands BankState::UpdateState accepts; any other ends the simulation.
Legal(bank, cmd) ==
  IF bank.open = NoRow THEN cmd.type \in {"ACTIVATE", "REFRESH"}
                       ELSE cmd.type \in Columns \cup {"PRECHARGE"}

UpdateState(bank, cmd) ==
  CASE cmd.type = "ACTIVATE" -> [bank EXCEPT !.open = cmd.addr.row]
    [] cmd.type \in {"READ", "WRITE"} -> [bank EXCEPT !.hits = @ + 1]
    [] cmd.type \in {"READ_PRECHARGE", "WRITE_PRECHARGE", "PRECHARGE"} ->
         [bank EXCEPT !.open = NoRow, !.hits = 0]
    [] cmd.type = "REFRESH" -> bank

\* The table that says how cmd delays the commands of bank b.
Delays(cmd, b) ==
  LET a == cmd.addr
  IN  IF cmd.type = "REFRESH"   THEN IF b.rank = a.rank THEN same_rank ELSE Nothing
      ELSE IF b.rank # a.rank   THEN other_ranks[cmd.type]
      ELSE IF b.group # a.group THEN other_bankgroups_same_rank[cmd.type]
      ELSE IF b.bank # a.bank   THEN other_banks_same_bankgroup[cmd.type]
      ELSE same_bank[cmd.type]

UpdateTiming(bank, delays) ==
  [bank EXCEPT !.wait = [c \in CommandType |-> IF c \in DOMAIN delays THEN Later(@[c], delays[c])
                                               ELSE @[c]]]

Concerns(cmd, b) ==
  IF cmd.type = "REFRESH" THEN b.rank = cmd.addr.rank ELSE b = BankOf(cmd.addr)

LegalCommand(banks, cmd) == \A b \in Banks : Concerns(cmd, b) => Legal(banks[b], cmd)

UpdateTimingAndStates(banks, cmd) ==
  [b \in Banks |->
     UpdateTiming(IF Concerns(cmd, b) THEN UpdateState(banks[b], cmd) ELSE banks[b],
                  Delays(cmd, b))]

\* UpdateActivationTimes: at most one window that is over is dropped.
UpdateActivationTimes(faw, cmd) ==
  IF cmd.type # "ACTIVATE" THEN faw
  ELSE [faw EXCEPT ![cmd.addr.rank] =
          Append(IF @ # <<>> /\ Head(@) = 0 THEN Tail(@) ELSE @, T.tFAW)]

Elapsed(banks) ==
  [b \in Banks |-> [banks[b] EXCEPT !.wait = [c \in CommandType |-> Later(@[c] - 1, 0)]]]
=============================================================================
