SPECIFICATION Spec
CONSTANTS
  Catalog0 <- MCCatalog
  Schemas <- MCSchemas
  Budgets <- MCBudgets
INVARIANTS
  DriftExact
  DriftJudged
  CutoverSeesDrift
CHECK_DEADLOCK FALSE
