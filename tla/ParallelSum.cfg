SPECIFICATION SumSpec
CONSTANTS
  Sizes <- MCSizes
  Counts <- MCCounts
  MaxFailures = 1
INVARIANT EachPositionOnce
CHECK_DEADLOCK FALSE
