SPECIFICATION FairSpec
CONSTANTS
    ByteBase = 4
    U64Width = 2
    QueryLimit = 2
    digest <- Structural
    archive_digest <- NameOf
    ZeroDigest <- Zero
    JsonIntMax = 15
    CallerA = CallerA
    CallerB = CallerB
    Callers = {CallerA, CallerB}
    Connections = {CallerA, CallerB}
    Workloads <- MCWorkloads
    MaxFaults = 1
    None = None
INVARIANTS StoreSound AnswersHold BundlesGenuine
PROPERTIES ImplementsLedger EveryCallReturns
CHECK_DEADLOCK FALSE
