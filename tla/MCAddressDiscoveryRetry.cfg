CONSTANTS
    safe = safe
    vault = vault
    Addrs = {safe}
    Histories <- MCTwo
    None = None
    PerSlot = 2
    Stored = 2
    Last = 2
    Limit = 1
    MaxTile = 2
    MaxActs = 5
    MaxLost = 1
SPECIFICATION Spec
INVARIANT RetryReplays
CHECK_DEADLOCK FALSE
