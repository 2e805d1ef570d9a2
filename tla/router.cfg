SPECIFICATION FairSpec
CONSTANTS
  K = 4
  N = 1
  NumVCs = 2
  VcBufSize = 1
  WaitForTailCredit = FALSE
  RoutingDelay = 1
  VcAllocDelay = 1
  SwAllocDelay = 1
  CreditDelay = 1
  CrossbarDelay = 1
  OutputBufferSize = 1
  NoFlit = NoFlit
  NoVC = NoVC
  NoPacket = NoPacket
  MaxGap = 0
  Scenarios <- MCScenarios
INVARIANTS
  NoRouterError
  CreditsConserved
PROPERTIES
  NetworkSpec
  EveryPacketArrives
