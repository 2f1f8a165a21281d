CONSTANTS
    None = None
    Absent = Absent
    Broken = Broken
    Junk = Junk
    r1 = r1
    r2 = r2
    Resources = {r1, r2}
    Regions = {"eu"}
    TicksPerDay = 2
    Now = 15
    MaxIdleDays = 3
    IdleDays <- MCIdleDays
    Subscriptions <- MCSubscriptions
    Plans <- MCPlans
    Lags <- MCLags
SPECIFICATION Spec
INVARIANTS
    TypeOK
    IdleIsProven
    InUseIsNotReported
    ComparedViewsAgree
    EmptyRoutesAreReported
CHECK_DEADLOCK FALSE
