SPECIFICATION Spec
CONSTANTS
  w1 = w1
  w2 = w2
  w3 = w3
  a1 = a1
  c1 = c1
  c2 = c2
  Nil = Nil
  Partial = Partial
  Creator = Creator
  Numbers = {1}
  Parts = {w1}
  Aborts = {a1}
  Completes = {c1, c2}
  NumberOf <- MCDistinct
  Overlap = TRUE
  FailingCalls = {"mkdir", "write", "link", "rename", "remove", "read", "commit"}
  MaxFailures = 1
  MayCancel = FALSE
  MayCrash = FALSE
  MayExpire = FALSE
  Lifecycle <- MCDefault
SYMMETRY MCSymmetry
INVARIANT
  ExclusiveCompletion
PROPERTY
  SingleCompletion
CHECK_DEADLOCK FALSE
