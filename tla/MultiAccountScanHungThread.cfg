SPECIFICATION FairSpec
CONSTANTS
    r1 = r1
    r2 = r2
    NumAccounts = 2
    MaxConcurrent = 1
    Regions <- OneRegion
    HomeRegion = r1
    MaxAttempts = 1
    ScanTimeout = 1
    CredLife = 1
    MaxTime = 1
    MayHang = TRUE
PROPERTIES
    HungThreadsDoNotBlock
CHECK_DEADLOCK FALSE
