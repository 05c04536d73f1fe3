SPECIFICATION Spec
CONSTANTS
  NumChanges = 3
  Ignored = {2}
  MaxSegment = 5
  Importers = {i1, i2}
  EofMarker = EofMarker
  CutoverId = CutoverId
  QueueSegmentMaxRecords = 1
  HasEventIds = TRUE
  maxCacheSize = 2
  MaxBatch = 1
  MaxCrashes = 1
  PowerLoss = TRUE
  Policy = "archive"
  archiveChangesBuffer = 2
  CopyErrors = 1
  MaxCleanerCrashes = 1
  MayCutOver = TRUE
  i1 = i1
  i2 = i2
SYMMETRY ImporterSymmetry
INVARIANTS
  NothingUnreadLost
  CommittedIsSynced
PROPERTIES
  ImplementsChangeLog
