SPECIFICATION FairSpec
CONSTANTS
  r1 = r1
  r2 = r2
  Requests = {r1, r2}
  Arrivals <- MCArrivals
  Limits <- MCLimits
  MayDrop = TRUE
INVARIANTS NothingKept UploadsBounded ReportedOnce
PROPERTY BodylessRequestsEnd
CHECK_DEADLOCK FALSE
