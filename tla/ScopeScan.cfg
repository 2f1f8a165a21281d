SPECIFICATION FairSpec
CONSTANTS
    s1 = s1
    s2 = s2
    r1 = r1
    r2 = r2
    Providers <- AllProviders
    Scopes <- MCScopes
    Rules <- MCRules
    ScopeThreads = 2
    RuleThreads = 1
    MaxRetries = 2
INVARIANTS
    TypeOK
    VerdictIgnoresOrder
    NoRuleOutlivesItsScope
PROPERTIES
    Termination
    ImplementsReport
CHECK_DEADLOCK FALSE
