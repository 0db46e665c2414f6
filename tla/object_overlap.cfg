SPECIFICATION Spec
CONSTANTS
  k1 = k1
  k2 = k2
  p1 = p1
  p2 = p2
  p3 = p3
  d1 = d1
  g1 = g1
  h1 = h1
  Nil = Nil
  Partial = Partial
  Keys = {k1}
  Puts = {p1, p2}
  Deletes = {d1}
  Gets = {g1}
  Heads = {}
  KeyOf <- MCKeyOf
  Overlap = TRUE
  FailingCalls = {"write", "link", "rename", "remove", "read"}
  MaxFailures = 1
  MayCancel = TRUE
  MayCrash = TRUE
SYMMETRY MCSymmetry
INVARIANTS
  PublishedWhole
  AckedWriteSurvives
PROPERTIES
  RecoveryLeavesPairs
  OverwriteNeverHides
CHECK_DEADLOCK FALSE
