SPECIFICATION PaneSpec
CONSTANTS
  Null = Null
  collection = collection
  folder = folder
  request = request
  e1 = e1
  e2 = e2
  PaneTabs <- MCPaneTabs
  OtherTabs <- MCOtherTabs
  ScopeOf <- MCScopeOf
  Environments <- MCEnvironments
  Runs <- MCRuns
  MaxPaneActs = 4
  MaxEvents = 2
PROPERTY PassesResolvedVariables
CHECK_DEADLOCK FALSE
