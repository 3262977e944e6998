SPECIFICATION BoundarySpec
CONSTANTS
  LastPage = 2
  MaxRequests = 1
  NoLanding = NoLanding
  Nobody = Nobody
  NoLoad = NoLoad
INVARIANT LandsOnLoadedRows
CHECK_DEADLOCK FALSE
