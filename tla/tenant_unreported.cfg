SPECIFICATION Spec
CONSTANTS
  r1 = r1
  r2 = r2
  Requests = {r1, r2}
  Arrivals <- MCArrivals
  Limits <- MCLimits
  MayDrop = TRUE
INVARIANT EveryBegunReported
CHECK_DEADLOCK FALSE
