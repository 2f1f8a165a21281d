SPECIFICATION Spec
CONSTANTS
    r1 = r1
    r2 = r2
    NumAccounts = 3
    MaxConcurrent = 2
    Regions <- OneRegion
    HomeRegion = r1
    MaxAttempts = 1
    ScanTimeout = 1
    CredLife = 1
    MaxTime = 1
    MayHang = TRUE
INVARIANTS
    TypeOK
    OneResultPerAccount
PROPERTIES
    ImplementsReport
CHECK_DEADLOCK FALSE
