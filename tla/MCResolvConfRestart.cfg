\* A second process after the first was killed.
CONSTANTS
  d1 = d1
  d2 = d2
  Servers = {d1, d2}
  System = System
  Torn = Torn
  Absent = Absent
  None = None
  MaxStarts = 2
  MaxReloads = 0
SYMMETRY ServerSymmetry
SPECIFICATION Spec
CHECK_DEADLOCK FALSE
PROPERTY OriginalSurvivesRestart
