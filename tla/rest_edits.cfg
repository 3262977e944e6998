SPECIFICATION TrackedSpec
CONSTANTS
  r1 = r1
  r2 = r2
  c1 = c1
  c2 = c2
  v0 = v0
  v1 = v1
  Rows = {r1}
  Cols = {c1, c2}
  Values = {v0, v1}
  NewRow <- mcNewRow
  StoredRows = {r1}
  FormRows = {}
  Rewrites = {v0}
  ReplyKinds = {"value", "columns", "otherRow", "reload", "malformed", "failed"}
  Gone = Gone
  Keep = Keep
  NoSnapshot = NoSnapshot
  FifoServer = FALSE
  Reentrant = FALSE
  MaxFetches = 2
  MaxEdits = 2
  MaxBatch = 2
  Creatable = {}
  Removable = {}
INVARIANTS TypeOK SnapshotCoherent NoAbandonedLoad LiveTokenHasItsEdit DivergedShowsTruth ConvergesUnlessRaced
PROPERTIES SupersededAnswerIsInert OnlyNewestPageShows
CHECK_DEADLOCK FALSE
