SPECIFICATION Spec
CONSTANTS
  NumVCs = 2
  VcBufSize = 2
  NumOutputs = 1
  EjectionDepth = 2
  OutputDepth = 1
  BeforeTick <- SendThenTickThenEjection
  Nodes <- ThisNode
  Dests <- LocalDest
  MaxTx = 3
  Lengths <- TwoThenShort
  NoFlit = NoFlit
  NoVC = NoVC
  NoPacket = NoPacket
  WaitForTailCredit = FALSE
  OutFlits <- OneTransfer
  AdapterSlower = TRUE
INVARIANTS
  FlitsAccounted
  EjectionNeverBlocks
  CountersMatchFifos
  PacketsRebuilt
  PacketNeverStalls
PROPERTIES
  ChannelSpec
