SPECIFICATION TypedSpec
CONSTANTS
  a = a
  Contents = {a}
  Blank = Blank
  NoDraft = NoDraft
  MaxKeys = 1
  MaxCommits = 2
  MaxRows = 1
PROPERTY CommitStartsCreate
CHECK_DEADLOCK FALSE
