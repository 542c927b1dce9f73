CONSTANTS
  a = a
  b = b
  d = d
  Nobody = Nobody
  Calls <- ThreeCalls
  HasDeadline <- NoDeadline
  StdinCap = 0
  StdoutCap = 0
  Faults = {}
SPECIFICATION FairSpec
PROPERTY EveryCallReturns
CHECK_DEADLOCK FALSE
