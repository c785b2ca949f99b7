SPECIFICATION FairSpec
CONSTANTS
  s1 = s1  s2 = s2  s3 = s3  k1 = k1  c1 = c1
  Steps = {s1, s2}
  Keys = {k1}
  KeyOf <- OneKey
  Cancels = {c1}
  MaxRuns = 2
  MaxBeat = 2
  RefusalLimit = 3
INVARIANTS
  ClaimInv
  OneUsableResult
PROPERTIES
  DeadClaimFreed
  EveryStepEnds
CHECK_DEADLOCK FALSE
