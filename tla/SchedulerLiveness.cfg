SPECIFICATION FairSpec
CONSTANTS
  Jobs <- TwoJobs
  DayLength = 4
  RunAt = 0
  MaxAttempts = 2
  Backoff = 1
  MemoryCeiling = FALSE
  TornWrites = FALSE
  MaxClock = 1
  MaxBacks = 1
  MaxCrashes = 1
  MaxFaults = 0
PROPERTIES
  DueJobsRun
CHECK_DEADLOCK FALSE
