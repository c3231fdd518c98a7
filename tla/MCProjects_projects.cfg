CONSTANTS
  a = a
  b = b
  s1 = s1
  s2 = s2
  Own = {a}
  Joinable = {b}
  Slots = {s1, s2}
  MaxInfo = 1
  MaxInstances <- MCInstances
  MaxCrashes = 1
SPECIFICATION Spec
SYMMETRY MCSymmetry
INVARIANTS
  JoinedIsKept
  JoinedIsSynced
CHECK_DEADLOCK FALSE
