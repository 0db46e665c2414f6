SPECIFICATION Spec
CONSTANTS
  w1 = w1
  w2 = w2
  w3 = w3
  a1 = a1
  c1 = c1
  c2 = c2
  Nil = Nil
  Partial = Partial
  Creator = Creator
  Numbers = {1, 2}
  Parts = {w1, w2, w3}
  Aborts = {a1}
  Completes = {c1}
  NumberOf <- MCAgain
  Overlap = FALSE
  FailingCalls = {"mkdir", "write", "link", "rename", "remove", "read", "commit"}
  MaxFailures = 2
  MayCancel = FALSE
  MayCrash = TRUE
  MayExpire = FALSE
  Lifecycle <- MCDefault
SYMMETRY MCSymmetryAgain
INVARIANTS
  AckedPartDurable
  FinishedStaysFinished
  PartsMatchFiles
  CompletedBytesMatch
CHECK_DEADLOCK FALSE
