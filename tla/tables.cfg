SPECIFICATION Spec
CONSTANTS
  Scenarios <- MCScenarios
  MaxKills = 1
INVARIANTS
  TablesMigrated
  GeneratorsReady
PROPERTIES
  TableListHonest
CHECK_DEADLOCK FALSE
