SPECIFICATION Spec
CONSTANTS
  Keys = {"txs", "timeline"}
  RowCap <- MCRowCap
  KindsOf <- MCKindsOf
  PreviewLimit = 1
  PageSize = 2
  EveryPage = FALSE
  InitRows = 2
  MaxRows = 3
  MaxRequests = 2
  MaxFaults = 0
  Unknown = Unknown
INVARIANT NeverMixes
CHECK_DEADLOCK FALSE
