SPECIFICATION Spec
CONSTANTS
  UsizeSpan = 64
  TrailerNames <- MCTrailerNames
  Requests <- MCRequests
  MaxDecodedSize = 4
  MaxControlLine = 3
INVARIANTS TypeOK AcceptsLikeReference RefusesLikeReference SignedBytesOnly
CHECK_DEADLOCK FALSE
