CONSTANTS
  QueryCount = 2
  Slide <- MCSlide
  Ring <- MCRing
  Capacity <- MCCapacity
  MaxTs = 4
  MaxEvents = 3
  CallerEvents = 2
  AlertMin = 2
SPECIFICATION ReplaySpec
PROPERTY
  GivesUpWithoutWindow
