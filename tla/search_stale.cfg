SPECIFICATION SearchSpec
CONSTANTS
  s1 = s1
  s2 = s2
  first = first
  second = second
  other = other
  Scopes = {s1, s2}
  Requests = {first, second, other}
  ScopeOf <- mcScopeOf
  NoRequest = NoRequest
  NoPage = NoPage
  MaxCachedSearches = 1
  MaxSearches = 3
  MaxMarks = 2
  MaxRowEdits = 2
PROPERTY StaleNeverReplacesNewer
CHECK_DEADLOCK FALSE
