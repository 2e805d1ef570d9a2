------------------------------- MODULE MCDram -------------------------------
(***************************************************************************)
(* Two ranks of two bank groups with one bank each.  Timings are those of  *)
(* the DDR4 parts scaled down, their order kept.                           *)
(***************************************************************************)
EXTENDS DramController

MCTiming ==
  [RL |-> 3, WL |-> 2, AL |-> 0, burst_cycle |-> 2,
   tCCD_S |-> 2, tCCD_L |-> 3, tRTRS |-> 1, tRTP |-> 2, tRP |-> 2, tRCD |-> 2,
   tRAS |-> 4, tRC |-> 6, tWR |-> 2, tWTR_S |-> 1, tWTR_L |-> 2,
   tRRD_S |-> 2, tRRD_L |-> 3, tFAW |-> 8, tRFC |-> 5, tREFI |-> 40]

At(rank, group, row) == [rank |-> rank, group |-> group, bank |-> 0, row |-> row, column |-> 0]

\* Two rows of a bank, another bank of the rank, another rank.
MCAddresses == {At(0, 0, 0), At(0, 0, 1), At(0, 1, 0), At(1, 0, 0)}

\* Open and closed pages, one and two transaction queues, queues per rank and bank,
\* commands that can and cannot be reordered in them.
MCConfigs ==
  {[closePage |-> FALSE, unified |-> FALSE, perRank |-> FALSE, cmdQueueSize |-> 1],
   [closePage |-> FALSE, unified |-> TRUE,  perRank |-> TRUE,  cmdQueueSize |-> 2],
   [closePage |-> TRUE,  unified |-> FALSE, perRank |-> TRUE,  cmdQueueSize |-> 2],
   [closePage |-> TRUE,  unified |-> TRUE,  perRank |-> FALSE, cmdQueueSize |-> 2]}

MCFirstRefresh == {2, 12}
=============================================================================
