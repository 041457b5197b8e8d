\* Two queries contend for one connection of one slot while the pruner runs.
CONSTANTS
  q1 = q1
  q2 = q2
  s1 = s1
  Queries = {q1, q2}
  Servers = {s1}
  Target <- OneTarget
  OriginalId <- SameId
  Malformed = {}
  IdSpace = 2
  MAX_INFLIGHT_PER_CONN = 1
  MAX_CONNS_PER_TARGET = 1
  MaxReloads = 0
  PrunerRuns = TRUE
  ConnsBreak = TRUE
  None = None
  Placeholder = Placeholder
  Pruner = Pruner
CHECK_DEADLOCK FALSE
SYMMETRY QuerySymmetry
SPECIFICATION Spec
INVARIANTS
  TypeOK
  RegisteredUntilCleared
  InflightBounded
  FirstAttemptsWithinLimit
PROPERTY PruneSparesUsedConns
