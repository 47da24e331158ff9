SPECIFICATION CalcFairSpec
CONSTANTS
  Copy = {p1, p2}
  INT_MAX = 3
  Line <- MCLine
  NoCopy = NoCopy
  Nothing = Nothing
PROPERTIES
  RefinesService
  AnswerComes
  IdleCopiesEnd
CHECK_DEADLOCK FALSE
