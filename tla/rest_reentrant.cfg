SPECIFICATION TrackedSpec
CONSTANTS
  r1 = r1
  r2 = r2
  c1 = c1
  c2 = c2
  v0 = v0
  v1 = v1
  Rows = {r1}
  Cols = {c1}
  Values = {v0, v1}
  NewRow <- mcNewRow
  StoredRows = {r1}
  FormRows = {}
  Rewrites = {v0}
  ReplyKinds = {"value"}
  Gone = Gone
  Keep = Keep
  NoSnapshot = NoSnapshot
  FifoServer = TRUE
  Reentrant = TRUE
  MaxFetches = 3
  MaxEdits = 1
  MaxBatch = 1
  Creatable = {}
  Removable = {}
INVARIANT PendingLoadCanPublish
CHECK_DEADLOCK FALSE
