CONSTANTS
  n1 = n1
  n2 = n2
  n3 = n3
  None = None
  Node <- MCNode
  QueryCount = 2
  ShardCount = 2
  ShardOf <- MCShardOf
  MaxNodes = 2
  MaxBytes = 4
  StaleAfter = 1
  Snapshot <- MCSnapshot
SPECIFICATION Spec
INVARIANTS
  CacheCurrent
  LimitsHold
  EstimatesWhole
PROPERTY
  NeverRollsBack
