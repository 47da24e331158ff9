SPECIFICATION FairSpec
CONSTANTS
  N = 2
  INT_MAX = 3
  Requests <- MCRequests
  Clients = {c1, c2}
  Initializer = init
  MaxKills = 1
  NoRequest = NoRequest
PROPERTIES
  SemaphoreReleased
  RefinesBank
  LimitsBreakOnlyByOverflow
  MoneyOnlyBySweeps
  DeadHolderFreezesBank
CHECK_DEADLOCK FALSE
