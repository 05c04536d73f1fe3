SPECIFICATION FairSpec
CONSTANTS
  NumChanges = 3
  Ignored = {2}
  MaxSegment = 5
  Importers = {i1}
  EofMarker = EofMarker
  CutoverId = CutoverId
  QueueSegmentMaxRecords = 2
  HasEventIds = FALSE
  maxCacheSize = 4
  MaxBatch = 2
  MaxCrashes = 1
  PowerLoss = FALSE
  Policy = "delete"
  archiveChangesBuffer = 2
  CopyErrors = 0
  MaxCleanerCrashes = 0
  MayCutOver = TRUE
  i1 = i1
INVARIANTS
  QueueComplete
PROPERTIES
  EverythingExported
  CutoverCompletes
