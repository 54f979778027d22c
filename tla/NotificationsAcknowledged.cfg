SPECIFICATION Spec
CONSTANTS
  Items <- TwoItems
  MaxBatch = 1
  MaxAttempts = 2
  Retained = 3
  Interval = 1
  Delays <- OneDelay
  TornWrites = FALSE
  MayAck = {1}
  MayClose = {}
  MaxConfigs = 0
  MaxBacks = 0
  MaxTouches = 1
  MaxCrashes = 0
  MaxFaults = 0
INVARIANTS
  AcknowledgementsKept
CHECK_DEADLOCK FALSE
