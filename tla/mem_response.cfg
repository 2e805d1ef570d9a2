SPECIFICATION Spec
CONSTANTS
  QueueSize = 4
  Margin = 2
  Addrs = {0, 1}
  MaxBurst = 1
  MaxWords = 3
  MemFirst = FALSE
  None = None
INVARIANTS
  ResponseAddressRight
