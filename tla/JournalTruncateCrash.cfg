SPECIFICATION Spec
CONSTANTS
  k1 = k1
  k2 = k2
  None = None
  Garbage = Garbage
  Items <- TwoItems
  Last = 2
  Legacy <- NoLegacy
  SegmentLimit = 2
  Reloads = TRUE
  Windows <- TruncateWindow
  MaxSegments = 6
  MaxCrashes = 2
  MaxFaults = 0
INVARIANTS
  AcknowledgedDurable
CHECK_DEADLOCK FALSE
