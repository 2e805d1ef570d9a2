SPECIFICATION FairSpec
CONSTANTS
  QueueSize = 3
  Margin = 2
  Addrs = {0, 1}
  MaxBurst = 3
  MaxWords = 4
  MemFirst = FALSE
  None = None
INVARIANTS
  WritesFit
  DataMeetsAddress
  ReadsInOrder
PROPERTIES
  EveryRequestAnswered
