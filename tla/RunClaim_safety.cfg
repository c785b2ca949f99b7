SPECIFICATION Spec
CONSTANTS
  s1 = s1  s2 = s2  s3 = s3  k1 = k1  c1 = c1
  Steps = {s1, s2, s3}
  Keys = {k1}
  KeyOf <- OneKey
  Cancels = {}
  MaxRuns = 3
  MaxBeat = 1
  RefusalLimit = 2
SYMMETRY Symmetry
INVARIANTS
  SentinelNamesCompleted
  AuditNamesResult
PROPERTIES
  ComputesOnce
  EndedRowsStay
  HeartbeatOnlyWhileComputing
CHECK_DEADLOCK FALSE
