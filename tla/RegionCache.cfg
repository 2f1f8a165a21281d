SPECIFICATION FairSpec
CONSTANTS
    c1 = c1
    c2 = c2
    r1 = r1
    r2 = r2
    Callers <- MCCallers
    KeyOf <- MCKeyOf
    Regions <- MCRegions
    Holdings <- MCHoldings
    TTL = 1
    MaxTime = 2
    None = None
INVARIANTS
    TypeOK
    EntriesAreGenuine
    HitsAreGenuine
PROPERTIES
    EveryCallEnds
CHECK_DEADLOCK FALSE
