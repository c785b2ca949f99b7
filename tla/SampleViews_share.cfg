SPECIFICATION Spec
CONSTANTS
  m1 = m1  m2 = m2  p1 = p1  p2 = p2  s1 = s1  s2 = s2  s3 = s3
  Members = {m1, m2}
  Pipelines = {p1, p2}
  Steps = {s1, s2, s3}
  PipelineOf <- TwoAndOne
INVARIANTS
  ViewInv
  ReadsRegistered
  StampTrue
  LastEndRemoves
CHECK_DEADLOCK FALSE
