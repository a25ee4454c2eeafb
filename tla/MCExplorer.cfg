SPECIFICATION FairSpec
CONSTANTS
  Lists = {"overview", "pools"}
  Entity = "pool"
  Groups <- MCGroups
  OnDemand = {}
  Dated = {"profile"}
  Filters <- MCFilters
  Entities = {e1}
  Dates = {Latest, day}
  Latest = Latest
  None = None
  MaxInFlight = 1
  MaxRetained = 2
  MaxActs = 2
  MaxFaults = 1
INVARIANTS IntentApplied  ScopeAgrees CoreMatches
PROPERTY StreamsSettle
CHECK_DEADLOCK FALSE
