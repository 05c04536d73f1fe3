SPECIFICATION FairSpec
CONSTANTS
  Columns <- MCColumns
  Values <- MCValues
  NULL = NULL
  NoRow = NoRow
  KeyValues = {"k1", "k2"}
  PkColumn = "id"
  CustomColumn = "p"
  PredColumn = "p"
  PredValue = "t"
  UniqueIndexes <- OnUniqueU
  Strategy = "custom"
  NUM_EVENT_CHANNELS = 2
  EVENT_CHANNEL_SIZE = 1
  MAX_EVENTS_PER_BATCH = 2
  EVENT_BATCH_MAX_RETRY_COUNT = 2
  EventsPerSegment = 2
  Hash <- MCHash
  FLUSH_BATCH_EVENT = FLUSH
  END_OF_QUEUE_SEGMENT_EVENT = END
  Logs <- MCLogs
  InitRows <- TwoPartitions
  LateLanding = TRUE
  MaxErrors = 1
  MaxCrashes = 1
  Us = {"a", NULL}
  Ps = {"t", "f"}
  HistoryLength = 3
  ForeignCutover = FALSE
INVARIANTS
  IInv
  Converged
PROPERTIES
  StreamingFinishes
