CONSTANTS
  c1 = c1
  c2 = c2
  e1 = e1
  Docs <- BothKinds
  Kind <- KindOf
  SavedDocs = {c1}
  Importable = {c2}
  MaxEdits = 4
  CanLose = FALSE
SPECIFICATION SyncSpec
PROPERTY ImportLeavesOthers
CHECK_DEADLOCK FALSE
