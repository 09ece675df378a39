CONSTANTS
  MaxConnections = 1
  QueryCount = 2
  SeriesCount = 2
  Attempts = 2
  MaxPosts = 2
  LaneCount = 2
  BlockCount = 2
  ChannelCapacity = 1
  Usable = {1, 3}
  MaxPackets = 3
  MaxBlock = 2
  Setup <- MCSetup
  Config <- MCConfig
  NoConfig = NoConfig
  Accuracy <- MCAccuracy
  EntropyAccuracy = "hll"
  DefaultMemory = 134217728
SPECIFICATION Spec
INVARIANTS
  AdmittedStarts
  PlansHonest
  ExportsWholeOnce
  FinalStateExported
  RingInOrder
PROPERTIES
  ShutdownCompletes
  LaneErrorReported
  RuntimeErrorStopsAgent
  DrainWaitsForClients
CHECK_DEADLOCK FALSE
