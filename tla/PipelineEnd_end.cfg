SPECIFICATION FairSpec
CONSTANTS
  t1 = t1  t2 = t2  c1 = c1  r1 = r1  r2 = r2
  Targets = {t1, t2}
  Above <- Chain
  Owner = Owner
  Cancels = {c1}
  Recoveries = {r1}
  Nobody = Nobody
  Disturbances <- AllMay
INVARIANTS
  KilledReadsUser
  BlamesEngineAlone
PROPERTIES
  KillFailsNothing
  EveryPipelineEnds
CHECK_DEADLOCK FALSE
