SPECIFICATION FrontendSpec
CONSTANTS
  None = None
  Globals = Globals
  Empty = Empty
  e1 = e1
  e2 = e2
  c1 = c1
  r1 = r1
  k1 = k1
  v1 = v1
  v2 = v2
  TabIds <- MCTabIds
  MaxClosed = 1
  EnvironmentIds <- MCEnvironmentIds
  CollectionIds <- MCCollectionIds
  Keys <- MCKeys
  Values <- MCValues
  Requests <- MCRequests
  HomeOf <- MCHomeOf
  MaxActs = 4
  MaxSends = 2
  MaxRows = 2
  a = "a"
  ScriptKeys <- MCScriptKeys
  ScriptValues <- MCScriptValues
  MaxOps = 2
  Blank = Blank
  Nothing = Nothing
  Other = Other
  text1 = text1
  file1 = file1
  EditorTabs = {1, 2}
  Texts = {text1}
  Files = {file1}
  RowIds = {1, 2, 3}
  Bases = {"/plain", "/items/:t"}
  PathKeysOf <- MCPathKeysOf
  MaxEditorActs = 3
  MaxTableRows = 2
  Null = Null
  PaneTabs = {"collection", "folder"}
  OtherTabs = {"request"}
  ScopeOf <- MCScopeOf
  Environments = {"e1", "e2"}
  Runs = {1, 2}
  MaxPaneActs = 4
  MaxEvents = 2
  NoPage = NoPage
  Sent = Sent
  All = All
  PageSize = 1
  MaxHistoryActs = 3
  NoForm = NoForm
  GeneralKeys = {"sslVerification"}
  ProxyKeys = {"proxyUrl"}
  LocalKeys = {"timeoutDefault"}
  SettingValues = {0, 1}
  MaxSettingsActs = 6
  Names = {"x", "y"}
  MaxIterations = 2
  MaxRequestEvents = 3
  Letters = {"a"}
  Suggestions <- MCSuggestions
  InputTabs = {1, 2}
  MaxLength = 4
  MaxInputActs = 5
INVARIANTS ViewsAgree   ShownIsSent  GoneIsGone 
PROPERTIES WritesHome  StuckOnlyCopies  EditKeepsOthers FilesLandHome SaveIsWhole CompletionInPlace
CHECK_DEADLOCK FALSE
