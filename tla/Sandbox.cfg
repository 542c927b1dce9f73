CONSTANTS
  a = a
  b = b
  d = d
  Nobody = Nobody
  Calls <- TwoCalls
  HasDeadline <- OneDeadline
  StdinCap = 0
  StdoutCap = 1
  Faults = {"log", "hang", "spin", "crash", "huge"}
SPECIFICATION FairSpec
INVARIANTS  AnswerNotLost
   
CHECK_DEADLOCK FALSE
