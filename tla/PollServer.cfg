SPECIFICATION FairSpec
CONSTANTS
  Client = {c1, c2}
  MAX_CLIENTS = 1
  Fd = {4, 5}
  Lengths <- AllLengths
  ServerBuf = 4
  ClientBuf = 3
  Header = 1
  MaxMessages = 3
  MaxFailures = 1
INVARIANTS
  DescriptorsOwned
  SlotPerThread
  AnswersPaired
  SigpipeOnlyAfterLong
PROPERTIES
  AnswerComes
  DepartedClosed
CHECK_DEADLOCK FALSE
