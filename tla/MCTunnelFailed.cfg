\* A reload to a proxy without a gateway.
CONSTANTS
  p1 = p1
  p6 = p6
  b4 = b4
  b6 = b6
  s4 = s4
  s6 = s6
  d1 = d1
  Dsts = {p1, p6, b4, b6, s4, s6}
  Family <- MCFamily
  V4_SPLIT = {s4}
  V6_SPLIT = {s6}
  Configs <- Moves
  HostGateways <- V4Only
  OtherRoutes = {}
  capture_ipv6 = TRUE
  RequestsFail = FALSE
  MaxStarts = 1
  MaxReloads = 1
  None = None
CHECK_DEADLOCK FALSE
SPECIFICATION Spec
INVARIANT FailedReloadKeepsProxyRoute
