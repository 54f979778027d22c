SPECIFICATION Spec
CONSTANTS
  Items <- TwoItems
  MaxBatch = 1
  MaxAttempts = 2
  Retained = 3
  Interval = 1
  Delays <- OneDelay
  TornWrites = TRUE
  MayAck = {1}
  MayClose = {2}
  MaxTouches = 1
  MaxConfigs = 2
  MaxBacks = 0
  MaxCrashes = 2
  MaxFaults = 2
INVARIANTS
  DeliveriesLoadable
CHECK_DEADLOCK FALSE
