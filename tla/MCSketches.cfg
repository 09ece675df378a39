SPECIFICATION Spec
CONSTANTS
  Keys = {1, 2, 3, 4}
  Items = {1, 2, 3, 4}
  Capacity = 3
  Digest <- MCDigest
  CounterCapacity = 2
  Depth = 3
  Width = 2
  ColOf <- MCColOf
  SignOf <- MCSignOf
  Index = {0, 1}
  MaxRank = 3
  SparseLimit = 2
  HashOf <- MCHashOf
  MaxKeys = 2
  TopCapacity = 3
  MinLevelCapacity = 2
  MaxLevels = 4
  Replica = {a, b}
  a = a
  b = b
  Weights <- MCWeights
  MaxOps <- MCMaxOps
INVARIANTS
  SpaceSavingSound
  HeapHoldsSummary
  MisraGriesSound
  TablesSound
  DistinctExact
  MapEvictsSmallest
  KllRankBounded
SYMMETRY Symmetry
CHECK_DEADLOCK FALSE
