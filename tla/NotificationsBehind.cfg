SPECIFICATION Spec
CONSTANTS
  Items <- TwoItems
  MaxBatch = 1
  MaxAttempts = 2
  Retained = 3
  Interval = 1
  Delays <- OneDelay
  TornWrites = FALSE
  MayAck = {}
  MayClose = {}
  MaxTouches = 0
  MaxConfigs = 3
  MaxBacks = 1
  MaxCrashes = 1
  MaxFaults = 1
INVARIANTS
  DeliveriesLoadable
PROPERTIES
  RevokedNotShown
  ImplementsDeliverOnce
CHECK_DEADLOCK FALSE
