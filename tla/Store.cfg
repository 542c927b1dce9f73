CONSTANTS
  d1 = d1
  d2 = d2
  v1 = v1
  v2 = v2
  c1 = c1
  c2 = c2
  Docs <- TwoDocs
  Contents <- TwoContents
  Clients <- TwoClients
  Absent = Absent
  Empty = Empty
  Torn = Torn
  Unreadable = Unreadable
  OneWriter = TRUE
  CanCrash = TRUE
  DiskFails = TRUE
SPECIFICATION Spec
PROPERTIES NoResurrection SaveRepairs
