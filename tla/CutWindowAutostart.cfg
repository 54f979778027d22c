SPECIFICATION Spec
CONSTANTS
  Deadline = 3
  Reserve = 1
  MaxBoots = 2
  MaxRuns = 3
  MaxFaults = 2
PROPERTY OldRootNotAutostarted
CHECK_DEADLOCK FALSE
