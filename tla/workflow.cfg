SPECIFICATION FairSpec
CONSTANTS
  MaxIteration = 1
  MaxWrites = 2
  MaxKills = 1
  Perils = {}
INVARIANTS
  WritesMovedOnce
  SlotsReleased
  TargetIsCaptured
PROPERTIES
  CutoverEnds
CHECK_DEADLOCK FALSE
