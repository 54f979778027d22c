SPECIFICATION Spec
CONSTANTS
  Jobs <- OneJob
  DayLength = 3
  RunAt = 1
  MaxAttempts = 2
  Backoff = 1
  MemoryCeiling = TRUE
  TornWrites = FALSE
  MaxClock = 3
  MaxBacks = 0
  MaxCrashes = 0
  MaxFaults = 0
INVARIANTS
  ThreadRetained
CHECK_DEADLOCK FALSE
