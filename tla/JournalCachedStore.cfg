SPECIFICATION Spec
CONSTANTS
  k1 = k1
  k2 = k2
  None = None
  Garbage = Garbage
  Items <- TwoItems
  Last = 2
  Legacy <- NoLegacy
  SegmentLimit = 2
  Reloads = FALSE
  Windows <- NoWindows
  MaxSegments = 6
  MaxCrashes = 0
  MaxFaults = 1
INVARIANTS
  Readable
CHECK_DEADLOCK FALSE
