\* Two processes, the second on what the first left, and two reloads, with
\* failing requests, kills and signals to stop.
CONSTANTS
  p1 = p1
  p6 = p6
  b4 = b4
  b6 = b6
  s4 = s4
  s6 = s6
  d1 = d1
  Dsts = {p1, p6, b4, b6, s4, s6}
  Family <- MCFamily
  V4_SPLIT = {s4}
  V6_SPLIT = {s6}
  Configs <- Moves
  HostGateways <- V4OrBoth
  OtherRoutes = {}
  capture_ipv6 = TRUE
  RequestsFail = TRUE
  MaxStarts = 2
  MaxReloads = 2
  None = None
CHECK_DEADLOCK FALSE
SPECIFICATION FairSpec
INVARIANTS
  TypeOK
  ProxyProtected
  RunningMatchesConfig
  TeardownRemovesRoutes
PROPERTY TerminateEnds
