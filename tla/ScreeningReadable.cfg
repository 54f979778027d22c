SPECIFICATION Spec
CONSTANTS
  Attempts <- ThreeAttempts
  Required = 1
  Cooldown = 0
  Moves = {}
  MaxMoves = 0
  MaxCrashes = 1
  MaxFaults = 0
INVARIANTS
  StateReadable
CHECK_DEADLOCK FALSE
