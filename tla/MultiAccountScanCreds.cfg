SPECIFICATION Spec
CONSTANTS
    r1 = r1
    r2 = r2
    NumAccounts = 1
    MaxConcurrent = 1
    Regions <- OneRegion
    HomeRegion = r1
    MaxAttempts = 1
    ScanTimeout = 4
    CredLife = 1
    MaxTime = 4
    MayHang = FALSE
INVARIANTS
    SuccessHadCredentials
CHECK_DEADLOCK FALSE
