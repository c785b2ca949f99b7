SPECIFICATION FairSpec
CONSTANTS
  p1 = p1  p2 = p2  p3 = p3
  Procs = {p1, p2, p3}
  Gone = Gone
INVARIANTS
  MutualExclusion
  HolderNamed
PROPERTIES
  SomebodyEnters
CHECK_DEADLOCK FALSE
