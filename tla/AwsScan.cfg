SPECIFICATION Spec
CONSTANTS
    None = None
    r1 = r1
    r2 = r2
    t1 = t1
    t2 = t2
    c1 = c1
    c2 = c2
    e1 = e1
    e2 = e2
    Resources = {r1, r2}
    Interfaces = {e1, e2}
    Templates = {t1, t2}
    Configurations = {c1, c2}
    TemplateGuard = 1
    ConfigurationGuard = 2
    Accounts <- MCAccounts
    IdleDays <- MCIdleDays
    HoursPerDay = 2
    RecentlyActiveDays = 2
    LargeCluster = 4
    LargeDomain = 3
    MaxChanges = 2
    MaxOdd = 1
INVARIANTS
    TypeOK
    UsedThroughoutIsNotReported
    IdleIsProven
    SilentMeansComplete
CHECK_DEADLOCK FALSE
