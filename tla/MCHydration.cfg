SPECIFICATION FairSpec
CONSTANTS
  Keys = {"txs", "profile"}
  RowCap <- MCRowCap
  KindsOf <- MCKindsOf
  PreviewLimit = 1
  PageSize = 2
  EveryPage = FALSE
  InitRows = 2
  MaxRows = 3
  MaxRequests = 2
  MaxFaults = 1
  Unknown = Unknown
INVARIANTS TypeOK CompleteIsExact AppendIsExact
PROPERTIES LoadingEnds ImplementsContract
CHECK_DEADLOCK FALSE
