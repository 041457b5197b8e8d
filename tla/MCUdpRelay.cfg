\* Three clients, one of which comes back after its session has ended; the
\* limit is below their number, and every channel has depth one.
CONSTANTS
  c1 = c1
  c2 = c2
  c3 = c3
  k1 = k1
  Clients = {c1, c2, c3}
  MaxGeneration = 2
  Returning = {c1}
  DnsTasks = {k1}
  max_sessions = 2
  SESSION_CHANNEL_DEPTH = 1
  REPLY_CHANNEL_DEPTH = 1
  DONE_CHANNEL_DEPTH = 1
  None = None
CHECK_DEADLOCK FALSE
SPECIFICATION FairSpec
INVARIANTS
  TypeOK
  LiveSessionKept
  LiveWithinLimit
PROPERTIES
  DeadEntriesGo
  RelayReturns
