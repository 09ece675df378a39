CONSTANTS
  QueryCount = 2
  Slide <- MCSlide
  Ring <- MCRing
  Capacity <- MCCapacity
  MaxTs = 4
  MaxEvents = 3
  CallerEvents = 2
  AlertMin = 1
SPECIFICATION CallersSpec
INVARIANTS
  PendingBounded
  DrainUnblocks
  WindowsInOrder
  NoEventLost
  LoopsAgree
  OutputComplete
PROPERTIES
  AllOrNothing
  ImplementsSlidingWindows
  ReplayEnds
CHECK_DEADLOCK FALSE
