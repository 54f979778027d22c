SPECIFICATION Spec
CONSTANTS
  Jobs <- TwoJobs
  DayLength = 3
  RunAt = 1
  MaxAttempts = 2
  Backoff = 1
  MemoryCeiling = TRUE
  TornWrites = FALSE
  MaxClock = 3
  MaxBacks = 0
  MaxCrashes = 2
  MaxFaults = 1
INVARIANTS
  TypeOK
  CallsBudgeted
  FinishedNotForgotten
PROPERTIES
  WithdrawnNotStarted
  ImplementsJobLedger
CHECK_DEADLOCK FALSE
