SPECIFICATION FairSpec
CONSTANTS
  Migrations <- MCMigrations
  Preamble <- MCPreamble
  Sharded = {"t2"}
  Redundant = {"idx2"}
  Unsupported = {"g"}
  Unrecognized = {}
  DDL_MAX_RETRY_COUNT = 1
  Files <- MCFiles
  maxParallelConns = 1
  maxColocatedBatchesInProgress = 1
INVARIANTS
  SchemaAccounted
  FailedOnlyIfImpossible
  TargetAsPlanned
PROPERTIES
  DataImportFinishes
CHECK_DEADLOCK FALSE
