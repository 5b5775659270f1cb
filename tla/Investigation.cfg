CONSTANTS
    EntityIds = {1, 2, 3}
    TickDuration = 2
    MicrosPerSecond = 3
    MaxAbsPosition = 2
    MaxAbsVelocity = 2
    Int64Max = 6
    UInt64Max = 13
    MaximumFutureTicks = 3
    MaxCommandVelocity = 2
    MaxRecords = 3
    Sessions = {"session"}
    Session = "session"
    Identity <- MCIdentity
    InitialWorld <- MCInitialWorld
    Envelopes <- MCEnvelopes
    Positions <- NoVectors
    Velocities <- NoVectors
    Budgets = {0, 1, 2, 3}
    ByteBase = 2
    U64Width = 4
    QueryLimit = 2
    JsonIntMax = 15
    PageSizes = {1, 2}
    Filters <- MCFilters
SPECIFICATION LiveSpec
INVARIANTS ReplayReproduces ForgeryDetected BundleAccepted QueryExact
