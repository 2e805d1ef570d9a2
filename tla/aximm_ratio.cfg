SPECIFICATION Spec
CONSTANTS
  NumVCs = 5
  VcBufSize = 2
  WaitForTailCredit = FALSE
  NumFlits <- OneFlit
  VcOf <- OwnVC
  MaxFlits = 1
  InjectionDepth = 2
  EjectionDepth = 2
  NoFlit = NoFlit
  NoTx = NoTx
  NoVC = NoVC
  Period <- DlrmClocks
  NocOrder <- AdaptersThenTick
  RequesterNode = 1
  ResponderNode = 2
  ReqFifoDepth = 2
  RespFifoDepth = 3
  MaxCommands = 1
INVARIANTS
  AcceptedOnce
