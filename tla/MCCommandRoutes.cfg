\* Two processes and two reloads among three configurations on each platform.
CONSTANTS
  p1 = p1
  p2 = p2
  p6 = p6
  b1 = b1
  b6 = b6
  h1 = h1
  i1 = i1
  d1 = d1
  d6 = d6
  Dsts = {p1, p2, p6, b1, b6, h1, i1}
  Family <- MCFamily
  V4_SPLIT <- MCV4
  V6_SPLIT <- MCV6
  Configs <- MCConfigs
  HostGateways <- MCHostGateways
  LinkMtus <- MCLinkMtus
  FdLimits <- MCFdLimits
  System = System
  Empty = Empty
  MaxStarts = 2
  MaxReloads = 2
  None = None
CHECK_DEADLOCK FALSE
SPECIFICATION Spec
INVARIANTS
  TypeOK
  TeardownRemovesRoutes
  ProxyPinned
  DnsFollowsConfig
  DnsRestored
  DescriptorsFit
