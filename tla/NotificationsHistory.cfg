SPECIFICATION Spec
CONSTANTS
  Items <- TwoItems
  MaxBatch = 1
  MaxAttempts = 2
  Retained = 3
  Interval = 1
  Delays <- OneDelay
  TornWrites = FALSE
  MayAck = {}
  MayClose = {}
  MaxTouches = 0
  MaxConfigs = 2
  MaxBacks = 1
  MaxCrashes = 0
  MaxFaults = 0
PROPERTIES
  EarlierNotEnqueued
CHECK_DEADLOCK FALSE
