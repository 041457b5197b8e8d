\* Three connections share two permits while the configuration is reloaded.
CONSTANTS
  MaxConns = 3
  Width <- MCWidth
  Addrs <- MCAddrs
  RouteLists <- MCRouteLists
  max_tcp_connections = 2
  MaxReloads = 1
  None = None
CHECK_DEADLOCK FALSE
SPECIFICATION FairSpec
INVARIANTS
  TypeOK
  PermitsConserved
  DecidesByPrefix
  CountersBalance
PROPERTIES
  NotStalerThanPermit
  AcceptedServed
