SPECIFICATION Spec
CONSTANTS
  t1 = t1  t2 = t2  c1 = c1  r1 = r1  r2 = r2
  Targets = {t1, t2}
  Above <- Chain
  Owner = Owner
  Cancels = {c1}
  Recoveries = {r1, r2}
  Nobody = Nobody
  Disturbances <- StopsMay
SYMMETRY Symmetry
INVARIANTS
  EndInv
  RecordGoesLast
  StoredIsFinal
PROPERTIES
  SettlesOnce
CHECK_DEADLOCK FALSE
