SPECIFICATION FairSpec
CONSTANTS
  T <- MCTiming
  NumRanks = 2
  BankGroups = 2
  BanksPerGroup = 1
  NoRow = NoRow
  NoCommand = NoCommand
  Addresses <- MCAddresses
  Configs <- MCConfigs
  TransQueueSize = 2
  DrainThreshold = 1
  MaxTransactions = 4
  FirstRefresh <- MCFirstRefresh
  MaxGap = 0
INVARIANTS
  NoAbort
  DataBusExclusive
  RefreshInTime
PROPERTIES
  ReadsSeeOldData
  EveryTransactionReturns
