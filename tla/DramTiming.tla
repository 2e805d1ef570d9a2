----------------------------- MODULE DramTiming -----------------------------
(***************************************************************************)
(* DRAMsim3's Timing: after a command, how long each other command has to  *)
(* wait at the banks around it.  A table maps the delayed commands to the  *)
(* number of cycles; commands it does not name are not delayed.            *)
(* Self-refresh, bank-level refresh and the GDDR and LPDDR4 entries are    *)
(* not modelled.                                                           *)
(***************************************************************************)
EXTENDS Integers

CONSTANTS
  T,            \* Config: a record of the timing parameters, in cycles
  BankGroups    \* bank groups of a rank

Columns     == {"READ", "READ_PRECHARGE", "WRITE", "WRITE_PRECHARGE"}
CommandType == Columns \cup {"ACTIVATE", "PRECHARGE", "REFRESH"}

ASSUME TimingAssumption ==
  T \in [RL : Nat, WL : Nat, AL : Nat, burst_cycle : Nat \ {0},
         tCCD_S : Nat, tCCD_L : Nat, tRTRS : Nat, tRTP : Nat, tRP : Nat,
         tWTR_S : Nat, tWTR_L : Nat, tWR : Nat, tRAS : Nat, tRC : Nat, tRCD : Nat,
         tRRD_S : Nat, tRRD_L : Nat, tFAW : Nat, tRFC : Nat, tREFI : Nat \ {0}]

IsRead(c)  == c \in {"READ", "READ_PRECHARGE"}
IsWrite(c) == c \in {"WRITE", "WRITE_PRECHARGE"}

Later(a, b) == IF a > b THEN a ELSE b

read_delay  == T.RL + T.burst_cycle
write_delay == T.WL + T.burst_cycle

\* Mutant: a write after a read waits for the command only.
NoTurnaround(first, tCCD, tWTR) ==
  [c \in Columns |->
     CASE IsRead(first) = IsRead(c) \/ IsWrite(c) -> Later(T.burst_cycle, tCCD)
       [] OTHER -> write_delay + tWTR]

\* Between two columns, the second in another bank of the same bank group or the
\* same bank (l), in another bank group (s), in another rank (o).
ColumnToColumn(first, tCCD, tWTR) ==
  [c \in Columns |->
     CASE IsRead(first) = IsRead(c) -> Later(T.burst_cycle, tCCD)
       [] IsRead(first) /\ IsWrite(c) -> T.RL + T.burst_cycle - T.WL + T.tRTRS
       [] IsWrite(first) /\ IsRead(c) -> write_delay + tWTR]

ColumnToOtherRank(first) ==
  [c \in Columns |->
     CASE IsRead(first) /\ IsRead(c)   -> T.burst_cycle + T.tRTRS
       [] IsWrite(first) /\ IsWrite(c) -> T.burst_cycle
       [] IsRead(first) /\ IsWrite(c)  -> read_delay + T.burst_cycle + T.tRTRS - write_delay
       [] IsWrite(first) /\ IsRead(c)  -> write_delay + T.burst_cycle + T.tRTRS - read_delay]

LongCCD == IF BankGroups = 1 THEN T.tCCD_S ELSE T.tCCD_L
LongWTR == IF BankGroups = 1 THEN T.tWTR_S ELSE T.tWTR_L
LongRRD == IF BankGroups = 1 THEN T.tRRD_S ELSE T.tRRD_L

read_to_precharge  == T.AL + T.tRTP
write_to_precharge == T.WL + T.burst_cycle + T.tWR
Nothing == [c \in {} |-> 0]
BankCommands == CommandType \ {"REFRESH"}

same_bank == [cmd \in BankCommands |->
  CASE cmd \in {"READ", "WRITE"} ->
         [c \in Columns \cup {"PRECHARGE"} |->
            IF c \in Columns     THEN ColumnToColumn(cmd, LongCCD, LongWTR)[c]
            ELSE IF IsRead(cmd)  THEN read_to_precharge ELSE write_to_precharge]
    [] cmd = "READ_PRECHARGE" ->
         [ACTIVATE |-> T.AL + T.burst_cycle + T.tRTP + T.tRP,
          REFRESH  |-> read_to_precharge + T.tRP]
    [] cmd = "WRITE_PRECHARGE" ->
         [c \in {"ACTIVATE", "REFRESH"} |-> write_to_precharge + T.tRP]
    [] cmd = "ACTIVATE" ->
         [c \in Columns \cup {"ACTIVATE", "PRECHARGE"} |->
            CASE c = "ACTIVATE"  -> T.tRC
              [] c = "PRECHARGE" -> T.tRAS
              [] OTHER           -> T.tRCD - T.AL]
    [] cmd = "PRECHARGE" -> [c \in {"ACTIVATE", "REFRESH"} |-> T.tRP]]

other_banks_same_bankgroup == [cmd \in BankCommands |->
  CASE cmd \in Columns   -> ColumnToColumn(cmd, LongCCD, LongWTR)
    [] cmd = "ACTIVATE"  -> [ACTIVATE |-> LongRRD]
    [] cmd = "PRECHARGE" -> Nothing]

other_bankgroups_same_rank == [cmd \in BankCommands |->
  CASE cmd \in Columns   -> ColumnToColumn(cmd, T.tCCD_S, T.tWTR_S)
    [] cmd = "ACTIVATE"  -> [ACTIVATE |-> T.tRRD_S]
    [] cmd = "PRECHARGE" -> Nothing]

other_ranks == [cmd \in BankCommands |->
  IF cmd \in Columns THEN ColumnToOtherRank(cmd) ELSE Nothing]

\* REFRESH is issued to the entire rank.
same_rank == [c \in {"ACTIVATE", "REFRESH"} |-> T.tRFC]
=============================================================================
