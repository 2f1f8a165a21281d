SPECIFICATION Spec
CONSTANTS
    FindingPool <- MCFindings
    Configs <- MCConfigs
    Invocations <- MCInvocations
    Today = 10
    None = None
INVARIANTS
    TypeOK
    EveryFindingAccounted
    ExceptionsAreAbsolute
    RiskOverrideIsCosmetic
    GateFollowsThePolicy
CHECK_DEADLOCK FALSE
