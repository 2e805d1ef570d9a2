SPECIFICATION FairSpec
CONSTANTS
  NumVCs = 1
  VcBufSize = 2
  WaitForTailCredit = TRUE
  NumFlits <- TwoAndThree
  VcOf <- SharedVC
  InjectionDepth = 3
  BeforeTick <- TickThenInjection
  MaxTx = 5
  NumInterfaces = 2
  Dests <- RemoteDest
  Tids <- TidZero
  RadId = 0
  PortalId = 9
  TxDepth = 2
  NoTx = NoTx
  NoFlit = NoFlit
  NoVC = NoVC
INVARIANTS
  TypeOK
  FifosBounded
  OneHandshake
  StreamInOrder
  CreditsConserved
  NoBufferError
PROPERTIES
  WormholeInjection
  EveryTransactionInjected
