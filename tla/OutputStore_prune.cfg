SPECIFICATION Spec
CONSTANTS
  o1 = o1  o2 = o2  b1 = b1  h1 = h1  h2 = h2
  a1 = a1  a2 = a2  w1 = w1  w2 = w2  v1 = v1  r1 = r1
  Outputs = {o1}
  Blobs = {}
  Hashes = {h1, h2}
  Content <- SameBytes
  HashedAtCollect = {}
  Archivers = {a1}
  Pipelines = {w1}
  Verbs = {}
  Readers = {}
  MaxAttempts = 1
  Scenes <- BusyPrune
PROPERTY PruneKeepsUnpushed
CHECK_DEADLOCK FALSE
