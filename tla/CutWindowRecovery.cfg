SPECIFICATION FairSpec
CONSTANTS
  Deadline = 3
  Reserve = 1
  MaxBoots = 2
  MaxRuns = 3
  MaxFaults = 2
INVARIANTS
  TypeOK
  OldRootNotRevived
  NothingForgotten
PROPERTIES
  AvailabilityReturns
CHECK_DEADLOCK FALSE
