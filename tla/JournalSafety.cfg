SPECIFICATION Spec
CONSTANTS
  k1 = k1
  k2 = k2
  None = None
  Garbage = Garbage
  Items <- TwoItems
  Last = 2
  Legacy <- OneLegacy
  SegmentLimit = 2
  Reloads = TRUE
  Windows <- NoWindows
  MaxSegments = 6
  MaxCrashes = 3
  MaxFaults = 3
INVARIANTS
  TypeOK
  Readable
  OpenSegmentBounded
PROPERTIES
  ImplementsDurableLog
CHECK_DEADLOCK FALSE
