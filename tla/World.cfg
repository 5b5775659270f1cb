CONSTANTS
    EntityIds = {1, 2}
    TickDuration = 2
    MicrosPerSecond = 3
    MaxAbsPosition = 2
    MaxAbsVelocity = 3
    Int64Max = 8
    UInt64Max = 17
    Positions <- MCPositions
    Velocities <- MCVelocities
    TargetTicks = {1, 3}
    SequenceNumbers = {1, 2}
    ByteBase = 18
    U16Width = 2
    U32Width = 1
    U64Width = 1
    DigestWidth = 1
SPECIFICATION FairSpec
INVARIANTS Consistent NoLogicError IntegrationInRange BytesDetermineWorld
PROPERTIES ExactMotion WedgeIsPermanent ImplementsSchedule AcceptedIsExecuted
