SPECIFICATION PrimeFairSpec
CONSTANTS
  INT_MAX = 63
  Number = {1, 4, 18}
  Nothing = Nothing
PROPERTIES
  RefinesService
  ReadReturns
  ExitEndsBoth
CHECK_DEADLOCK FALSE
