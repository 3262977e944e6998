SPECIFICATION PageSpec
CONSTANTS
  Runs = {i1, i2}
  Absent = Absent
  EmptyDir = EmptyDir
  Other = Other
  Filters = {f1, f2}
  NoFilter = NoFilter
  DefaultFilter = NoFilter
  Silent = Silent
  Pages = {2}
  ShowCalls = {}
  SavedCalls = {}
  ClearingCalls = {}
  NoOne = NoOne
  Ids = {r1, r2}
  Fields = {g1, g2}
  LookupFields = {g1}
  NoValue = NoValue
  MaxLookupIds = 1
  MaxFlushes = 2
  MaxReads = 2
  MaxEdits = 1
  MaxInvalidations = 1
PROPERTY LeftPageWritesNoUrl
CHECK_DEADLOCK FALSE
