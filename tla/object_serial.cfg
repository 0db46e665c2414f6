SPECIFICATION Spec
CONSTANTS
  k1 = k1
  k2 = k2
  p1 = p1
  p2 = p2
  p3 = p3
  d1 = d1
  g1 = g1
  h1 = h1
  Nil = Nil
  Partial = Partial
  Keys = {k1, k2}
  Puts = {p1, p2, p3}
  Deletes = {d1}
  Gets = {g1}
  Heads = {h1}
  KeyOf <- MCKeyOf
  Overlap = FALSE
  FailingCalls = {"write", "link", "rename", "read"}
  MaxFailures = 1
  MayCancel = FALSE
  MayCrash = FALSE
INVARIANTS
  WholeAtRest
  NoTempLeak
PROPERTY
  RefinesAtomicStore
CHECK_DEADLOCK FALSE
