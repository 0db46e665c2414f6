SPECIFICATION FairSpec
CONSTANTS
  w1 = w1
  w2 = w2
  w3 = w3
  a1 = a1
  c1 = c1
  c2 = c2
  Nil = Nil
  Partial = Partial
  Creator = Creator
  Numbers = {1, 2}
  Parts = {w1, w2}
  Aborts = {}
  Completes = {c1}
  NumberOf <- MCDistinct
  Overlap = TRUE
  FailingCalls = {"mkdir", "write", "link", "rename", "remove", "read", "commit"}
  MaxFailures = 1
  MayCancel = TRUE
  MayCrash = FALSE
  MayExpire = FALSE
  Lifecycle <- MCDefault
INVARIANT
  AckedPartKept
PROPERTY
  CompletingEnds
CHECK_DEADLOCK FALSE
