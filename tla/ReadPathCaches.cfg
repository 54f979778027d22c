SPECIFICATION FairSpec
CONSTANTS
  r1 = r1
  None = None
  Records <- OneRecord
  Batches <- OneBatch
  ChunkSize = 2
  MaxSaves = 1
  MaxCrashes = 1
  MaxFaults = 1
  Readers = {1, 2}
  Queries <- OneQuery
  Requests <- SomeRequests
  MaxEntries = 1
INVARIANTS
  TypeOK
  IndexReadable
  CacheBound
  ChartsCurrent
PROPERTIES
  ImplementsFreshRead
  EveryRequestEnds
CHECK_DEADLOCK FALSE
