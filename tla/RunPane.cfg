CONSTANTS
  pane = pane
  other = other
  Pane = pane
  Subs <- MCSubs
  Planned = 2
  Looped = 2
  Slack = 2
  MinBuf = 1
SPECIFICATION PaneFairSpec
INVARIANTS EachEventOnce DoneShowsAll ErrorHasCause
PROPERTIES  KeepsRunLog
CHECK_DEADLOCK FALSE
