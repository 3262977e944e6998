SPECIFICATION PartsSpec
CONSTANTS
  Runs = {i1, i2}
  Absent = Absent
  EmptyDir = EmptyDir
  Other = Other
  Filters = {f1}
  NoFilter = NoFilter
  DefaultFilter = f1
  Silent = Silent
  Pages = {2}
  ShowCalls = {c1, c2}
  SavedCalls = {c2}
  ClearingCalls = {c1}
  NoOne = NoOne
  Ids = {r1, r2}
  Fields = {g1, g2}
  LookupFields = {g1}
  NoValue = NoValue
  MaxLookupIds = 1
  MaxFlushes = 2
  MaxReads = 2
  MaxEdits = 1
  MaxInvalidations = 1
INVARIANTS
  NoStagingLeft
  ReadyRowsMatchQuery ShowRowIsWoken
  FreshIsCurrent AskedOnce HeldTreeIsCurrent
PROPERTIES PublishesAtomically RootKeepsSourceContract
SYMMETRY Symmetry
CHECK_DEADLOCK FALSE
