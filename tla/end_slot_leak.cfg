SPECIFICATION Spec
CONSTANTS
  MaxIteration = 1
  MaxWrites = 0
  MaxKills = 0
  Perils = {"abort"}
INVARIANTS
  AbortLeavesNoTargetSlot
CHECK_DEADLOCK FALSE
