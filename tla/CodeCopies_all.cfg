SPECIFICATION Spec
CONSTANTS
  c1 = c1  r1 = r1  t1 = t1  t2 = t2
  Claims = {c1}
  Readers = {r1}
  Trees = {t1, t2}
  NoTree = NoTree
  Disturbances <- AllDisturbances
SYMMETRY Symmetry
INVARIANTS
  CopyInv
  RunsHeldTree
  EndedClaimsHoldNothing
PROPERTIES
  PruneSparesRunning
CHECK_DEADLOCK FALSE
