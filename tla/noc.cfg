SPECIFICATION FairSpec
CONSTANTS
  VcBufSize = 2
  TxDepth = 2
  InjectionDepth = 2
  EjectionDepth = 2
  OutputDepth = 1
  BeforeTick <- InjectionAndEjectionFirst
  MaxTx = 3
  NoFlit = NoFlit
  NoVC = NoVC
  NoTx = NoTx
  WaitForTailCredit = FALSE
  OutFlits <- Narrow
  Dests <- LocalDest
  Tids <- TidZero
  RadId = 0
  PortalId = 9
  AllClocks = {"adapter", "noc"}
  ClockOf <- TwoClocks
  NumVCs = 2
  NumInterfaces = 2
  NumFlits <- OneAndTwo
  VcOf <- OwnVC
  NumOutputs = 1
PROPERTIES
  PartsSpec
  ChannelSpec
  EveryTransactionDelivered
