SPECIFICATION Spec
CONSTANTS
    None = None
    r1 = r1
    r2 = r2
    Resources = {r1, r2}
    Projects <- MCProjects
    LocationList <- MCLocationList
    RegionOf <- MCRegionOf
    Now = 5
    IdleDays <- MCIdleDays
    LongHours = 1
    StoreAnswers <- MCStoreAnswers
    EndpointAnswers <- MCEndpointAnswers
    MaxOdd = 1
INVARIANTS
    TypeOK
    IdleIsProven
    SilentMeansComplete
CHECK_DEADLOCK FALSE
