SPECIFICATION FairSpec
CONSTANTS
  a = a  b = b  p1 = p1  p2 = p2  t1 = t1
  Pipes = {p1, p2, t1}
  Tries = {t1}
  Drafts = {a, b}
  Reads <- Chains
  Recorded = {p1}
  Scenes <- ThreeScenes
  QuietDeletes = TRUE
  NoPipe = NoPipe
INVARIANTS
  DraftsInv
  NoStaleLeft
PROPERTIES
  InProgressKept
  DraftFreed
CHECK_DEADLOCK FALSE
