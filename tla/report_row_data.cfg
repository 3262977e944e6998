SPECIFICATION ReportSpec
CONSTANTS
  Ids = {i1, i2}
  Fields = {f1, f2}
  LookupFields = {f1}
  NoValue = NoValue
  MaxLookupIds = 1
  MaxFlushes = 2
  MaxReads = 2
  MaxEdits = 1
  MaxInvalidations = 1
INVARIANT ReportValuesAreCurrent
CHECK_DEADLOCK FALSE
