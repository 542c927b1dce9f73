SPECIFICATION MCSpec
CONSTANTS
  None = None
  Nowhere = Nowhere
  StaleEnvironment = StaleEnvironment
  c1 = c1
  c2 = c2
  f1 = f1
  f2 = f2
  r1 = r1
  r2 = r2
  e1 = e1
  TabIds <- MCTabIds
  MaxClosed = 2
  MaxActs = 4
  Collections <- MCCollections
  Folders <- MCFolders
  Requests <- MCRequests
  Environments <- MCEnvironments
INVARIANTS ActiveIsOpen TreeSound
PROPERTIES NothingElseLost EditsReopenable OrphansGo
CHECK_DEADLOCK FALSE
