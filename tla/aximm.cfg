SPECIFICATION FairSpec
CONSTANTS
  NumVCs = 5
  VcBufSize = 2
  WaitForTailCredit = FALSE
  NumFlits <- DataHasTwo
  VcOf <- OwnVC
  MaxFlits = 1
  InjectionDepth = 2
  EjectionDepth = 2
  NoFlit = NoFlit
  NoTx = NoTx
  NoVC = NoVC
  Period <- FourToOne
  NocOrder <- AdaptersThenTick
  RequesterNode = 1
  ResponderNode = 2
  ReqFifoDepth = 2
  RespFifoDepth = 3
  MaxCommands = 2
INVARIANTS
  WritesMeetTheirData
  CreditsConserved
  AcceptedOnce
PROPERTIES
  ChannelSpec
  EveryCommandAnswered
