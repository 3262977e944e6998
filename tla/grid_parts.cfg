SPECIFICATION PartsSpec
CONSTANTS
  Keys = {k1, k2}
  StoredKeys = {k1, k2}
  None = None
  MaxLoads = 3
  MaxEdits = 2
  MaxCalls = 1
  Contents = {filled}
  Blank = Blank
  NoDraft = NoDraft
  MaxKeys = 2
  MaxCommits = 2
  MaxRows = 1
  s1 = s1
  s2 = s2
  first = first
  second = second
  other = other
  Scopes = {s1, s2}
  Requests = {first, second, other}
  ScopeOf <- mcScopeOf
  NoRequest = NoRequest
  NoPage = NoPage
  MaxCachedSearches = 1
  MaxSearches = 3
  MaxMarks = 2
  MaxRowEdits = 2
  LastPage = 3
  MaxRequests = 2
  NoLanding = NoLanding
  Nobody = Nobody
  NoLoad = NoLoad
INVARIANTS
  LoadingHasItsLoad FreshAsAsked CallFindsEntries
  WaitingMeansCreating OneCreatePerKey
  ServedIsFresh CacheIsBounded
  PendingLandingIsServed LandsOnTheLoadAsked
PROPERTIES
  EntriesGoForward
  CommitsShareTheOperation FilledDraftSurvives BlankRowFollowsSource
  TrustedPagesGoForward
  PagesKeepSourceContract
CHECK_DEADLOCK FALSE
