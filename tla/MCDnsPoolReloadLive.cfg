\* A query, the pruner and two reloads contend for the lock on conns.
CONSTANTS
  q1 = q1
  q2 = q2
  s1 = s1
  Queries = {q1, q2}
  Servers = {s1}
  Target <- OneTarget
  OriginalId <- SameId
  Malformed = {q2}
  IdSpace = 2
  MAX_INFLIGHT_PER_CONN = 1
  MAX_CONNS_PER_TARGET = 1
  MaxReloads = 2
  PrunerRuns = TRUE
  ConnsBreak = TRUE
  None = None
  Placeholder = Placeholder
  Pruner = Pruner
CHECK_DEADLOCK FALSE
SPECIFICATION FairSpec
PROPERTY SetProxyReturns
