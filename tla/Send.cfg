CONSTANTS
  s1 = s1
  s2 = s2
  c1 = c1
  c2 = c2
  id1 = id1
  id2 = id2
  NoId = NoId
  Nobody = Nobody
  Sends <- TwoSends
  Cancels <- TwoCancels
  Ids <- TwoIds
SPECIFICATION FairSpec
INVARIANTS EntryInProgress 
PROPERTY CancelEnds
CHECK_DEADLOCK FALSE
