SPECIFICATION FairSpec
CONSTANTS
  w1 = w1
  w2 = w2
  Workers = {w1, w2}
  Tasks <- MCTasks
  MaxBatchNumber = 9
  COPY_MAX_RETRY_COUNT = 2
  MaxErrors = 2
  MaxCrashes = 1
INVARIANTS
  NoDuplicateRows
  StatesTellTruth
  FileAccounted
PROPERTIES
  ImportEnds
