\* Three requests for one key.
CONSTANTS
    Key = {k}
    Request = {r1, r2, r3}
    TTL = 2
    MaxDelay = 1
    NoEntry = NoEntry
SPECIFICATION FairSpec
INVARIANTS
    CachedIsComplete
PROPERTIES
    StalenessBound
    ExpiredRemoved
