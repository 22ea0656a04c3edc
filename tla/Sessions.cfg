CONSTANTS
  Conn = {c1, c2}
  Dash = {d1, d2, d3}
  None = None
  MaxConn = 1
  MaxDash = 2
  MayFail = TRUE
SPECIFICATION FairSpec
INVARIANTS ManagerTrue OfflineAtRest
PROPERTY PlacesGivenBack
CHECK_DEADLOCK FALSE
