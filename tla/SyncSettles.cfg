CONSTANTS
  c1 = c1
  c2 = c2
  e1 = e1
  Docs <- BothKinds
  Kind <- KindOf
  SavedDocs = {c1}
  Importable = {c2}
  MaxEdits = 5
  CanLose = TRUE
SPECIFICATION FairSyncSpec
PROPERTY EventuallySaved
CHECK_DEADLOCK FALSE
