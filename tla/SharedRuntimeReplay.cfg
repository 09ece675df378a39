CONSTANTS
  ShardCount = 2
  Ring = 2
  Capacity = 2
  BatchSize = 2
  ChannelCapacity = 2
  Ts <- MCTs
  MaxEvents = 3
SPECIFICATION Spec
INVARIANT
  ReplayCoversTrace
