SPECIFICATION MCFairSpec
CONSTANTS
  r1 = r1
  r2 = r2
  c1 = c1
  c2 = c2
  v0 = v0
  v1 = v1
  Rows = {r1}
  Cols = {c1}
  Values = {v0, v1}
  NewRow <- mcNewRow
  StoredRows = {r1}
  FormRows = {}
  Rewrites = {v0}
  ReplyKinds = {"value", "failed"}
  Gone = Gone
  Keep = Keep
  NoSnapshot = NoSnapshot
  FifoServer = TRUE
  Reentrant = FALSE
  MaxFetches = 2
  MaxEdits = 2
  MaxBatch = 2
  Creatable = {}
  Removable = {}
PROPERTIES EveryLoadSettles EveryEditSettles
CHECK_DEADLOCK FALSE
