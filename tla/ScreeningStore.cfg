SPECIFICATION FairSpec
CONSTANTS
  Attempts <- ThreeAttempts
  Required = 2
  Cooldown = 2
  Moves <- TwoMoves
  MaxMoves = 1
  MaxCrashes = 1
  MaxFaults = 1
INVARIANTS
  TypeOK
  StateLoads
  CandidatesSound
  ConfirmedByPeriods
PROPERTIES
  EveryAttemptScreened
CHECK_DEADLOCK FALSE
