CONSTANTS
    safe = safe
    vault = vault
    Addrs = {safe}
    Histories <- MCHistories
    None = None
    PerSlot = 2
    Stored = 2
    Last = 3
    Limit = 1
    MaxTile = 2
    MaxActs = 2
    MaxLost = 1
SPECIFICATION FairSpec
INVARIANTS
    NoSkip
    CompleteIsExact
PROPERTY AutoEnds
CHECK_DEADLOCK FALSE
