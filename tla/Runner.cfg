CONSTANTS
  None = None
  Stop = Stop
  AnyFolder = AnyFolder
  Items <- FourRequests
  Folder = "f"
  Names <- SomeNames
  Iterations = 2
  MaxRequests = 3
  Delay = TRUE
  CanExpire = TRUE
SPECIFICATION FairSpec
INVARIANTS ScriptsDecideOrder StreamAgrees IterationsIsolated
 
CHECK_DEADLOCK FALSE
