SPECIFICATION Spec
CONSTANTS
  r1 = r1
  None = None
  Records <- OneRecord
  Batches <- OneBatch
  ChunkSize = 2
  MaxSaves = 1
  MaxCrashes = 0
  MaxFaults = 0
  Readers = {1, 2}
  Queries <- OneQuery
  Requests <- SomeRequests
  MaxEntries = 1
INVARIANT ChartsInvalidated
CHECK_DEADLOCK FALSE
