SPECIFICATION FairSpec
CONSTANTS
  NumRads = 3
  NoPacket = NoPacket
  FifoSlots = 2
  LatencyCycles = 1
  BwAccept = 2
  BwTotal = 3
  WriteFirst = FALSE
  Dests <- TwoToOne
  MaxPackets <- ThreeTwoOne
INVARIANTS
  NothingElseLost
  BandwidthRespected
  NoDropFromOneSender
PROPERTIES
  LatencyExact
  EveryPacketDelivered
