\* Two processes, three reloads, kills and failed writes anywhere.
CONSTANTS
  d1 = d1
  d2 = d2
  Servers = {d1, d2}
  System = System
  Torn = Torn
  Absent = Absent
  None = None
  MaxStarts = 2
  MaxReloads = 3
SYMMETRY ServerSymmetry
SPECIFICATION Spec
CHECK_DEADLOCK FALSE
INVARIANTS
  TypeOK
  RestoredOnExit
  KilledLeavesACopy
