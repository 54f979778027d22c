SPECIFICATION FairSpec
CONSTANTS
  Jobs <- OneJob
  DayLength = 2
  RunAt = 0
  MaxAttempts = 2
  Backoff = 1
  MemoryCeiling = FALSE
  TornWrites = FALSE
  MaxClock = 3
  MaxBacks = 1
  MaxCrashes = 1
  MaxFaults = 0
PROPERTY RunningRecovered
CHECK_DEADLOCK FALSE
