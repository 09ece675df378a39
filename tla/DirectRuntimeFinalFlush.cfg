CONSTANTS
  LaneCount = 2
  Ring = 2
  Capacity = 2
  BatchSize = 2
  ChannelCapacity = 1
  StartTs = 1
  Ts <- MCTs
  MaxEvents = 3
  MaxRounds = 1
SPECIFICATION Spec
INVARIANT
  FinalFlushSucceeds
