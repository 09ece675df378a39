CONSTANTS
  n1 = n1
  None = None
  Node <- MCNode
  QueryCount = 1
  ShardCount = 1
  ShardOf <- MCShardOf
  MaxNodes = 2
  MaxBytes = 4
  StaleAfter = 1
  Snapshot <- MCSnapshot
  Attempts = 3
  MaxConnections = 2
  MaxBody = 2
  MaxInflight = 3
  Stream <- MCStream
  MaxFaults = 3
SPECIFICATION PushSpec
PROPERTY
  CatchesUp
