SPECIFICATION Spec
CONSTANTS
    Providers = {"aws", "azure", "gcp"}
    Catalog <- MCCatalog
    ProviderOf <- MCProviderOf
    Invocations <- MCInvocations
    Files <- MCFiles
    Targets = {t1, t2}
    None = None
    MaxFlags = 1
    MaxKeys = 1
INVARIANTS
    ZeroMeansScanned
CHECK_DEADLOCK FALSE
