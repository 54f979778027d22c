SPECIFICATION FairSpec
CONSTANTS
  Items <- TwoItems
  MaxBatch = 1
  MaxAttempts = 2
  Retained = 3
  Interval = 1
  Delays <- OneDelay
  TornWrites = TRUE
  MayAck = {1}
  MayClose = {2}
  MaxConfigs = 2
  MaxBacks = 0
  MaxTouches = 1
  MaxCrashes = 1
  MaxFaults = 1
INVARIANTS
  TypeOK
PROPERTIES
  EveryDeliverySettles
  EveryCandidateTold
CHECK_DEADLOCK FALSE
