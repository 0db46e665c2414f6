SPECIFICATION Spec
CONSTANTS
  DayLength = 3
  MaxNow = 4
  Setups <- MCSetups
  Messages <- MCMessages
  Rewrites <- MCRewrites
  Inputs <- MCInputs
  Pieces <- MCPieces
  MaxBody = 3
  Versions <- MCVersions
  Readers <- MCReaders
  U64 = 10
  MaxRequests = 3
  PartNumbers = {1, 2, 3, 4}
  MaxPartNumber = 4
  MaxPartsLimit = 2
  Listers <- MCListers
INVARIANT AnonymousWithinLists
CHECK_DEADLOCK FALSE
