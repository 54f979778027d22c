SPECIFICATION FairSpec
CONSTANTS
  r1 = r1
  r2 = r2
  r3 = r3
  NoRequest = NoRequest
  Ids <- ThreeIds
  Requests <- TwoRequests
  Times <- TwoTimes
  MaxRetained = 2
  MaxCrashes = 1
  MaxFaults = 1
INVARIANTS
  TypeOK
  DocumentLoadable
  AuditedRepeats
PROPERTIES
  StartsInTimestampOrder
  ImplementsWorkQueue
  EveryOperationEnds
CHECK_DEADLOCK FALSE
