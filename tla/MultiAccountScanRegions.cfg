SPECIFICATION FairSpec
CONSTANTS
    r1 = r1
    r2 = r2
    NumAccounts = 2
    MaxConcurrent = 1
    Regions <- TwoRegions
    HomeRegion = r1
    MaxAttempts = 2
    ScanTimeout = 1
    CredLife = 1
    MaxTime = 2
    MayHang = TRUE
INVARIANTS
    ResultsAreTruthful
    StatusMatchesRegions
PROPERTIES
    Termination
    DeadlineDecidesAll
CHECK_DEADLOCK FALSE
