SPECIFICATION RemovalsSpec
CONSTANTS
  r1 = r1
  r2 = r2
  c1 = c1
  c2 = c2
  v0 = v0
  v1 = v1
  Rows = {r1, r2}
  Cols = {c1}
  Values = {v0, v1}
  NewRow <- mcNewRow
  StoredRows = {}
  FormRows = {r2}
  Rewrites = {v0}
  ReplyKinds = {"value", "otherRow", "failed"}
  Gone = Gone
  Keep = Keep
  NoSnapshot = NoSnapshot
  FifoServer = TRUE
  Reentrant = FALSE
  MaxFetches = 2
  MaxEdits = 1
  MaxBatch = 1
  Creatable = {r1}
  Removable = {r1}
  a = a
  b = b
  c = c
  Paths <- mcPaths
  GridRows <- mcGridRows
  InitialRows <- mcInitialRows
  TargetCalls = {o1}
  RowCalls = {}
  NoRow = NoRow
  MaxTargets = 1
  MaxGeneration = 3
PROPERTY RemovedRowsLeaveNoLevel
CHECK_DEADLOCK FALSE
