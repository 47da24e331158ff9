SPECIFICATION FairSpec
CONSTANTS
  Threads = 4
  NumTasks = 10
  NoTask = NoTask
INVARIANT ExitLeavesNoWork
PROPERTIES
  Finishes
  RefinesPool
CHECK_DEADLOCK FALSE
