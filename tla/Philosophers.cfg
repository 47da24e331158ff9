SPECIFICATION FairSpec
CONSTANTS
  N = 4
  Meals = 2
  MaxFaults = 1
INVARIANTS
  SticksAreExclusive
  NoCircularWait
  SticksOutliveChildren
PROPERTIES
  Finishes
CHECK_DEADLOCK FALSE
