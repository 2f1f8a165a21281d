SPECIFICATION Spec
CONSTANTS
    Providers = {"aws", "azure", "gcp"}
    Catalog <- MCCatalog
    ProviderOf <- MCProviderOf
    Invocations <- MCInvocations
    Files <- MCFiles
    Targets = {t1, t2}
    None = None
    MaxFlags = 3
    MaxKeys = 2
INVARIANTS
    TypeOK
    CallsOnlyAfterValidation
    FlagsBeatTheFile
    AiProbesMatchTheReport
    EveryRuleIsAccountedFor
CHECK_DEADLOCK FALSE
