CONSTANTS
    EntityIds = {1, 2}
    TickDuration = 12000
    MicrosPerSecond = 18000
    MaxAbsPosition = 3
    MaxAbsVelocity = 1
    Int64Max = 32767
    UInt64Max = 65535
    MaximumFutureTicks = 2
    MaxCommandVelocity = 2
    MaxRecords = 3
    Sessions = {original, reconnected, other}
    original = original
    reconnected = reconnected
    other = other
    Identity <- MCIdentity
    Envelopes <- MCEnvelopes
    Positions <- MCPositions
    Velocities <- MCVelocities
    ByteBase = 256
    U16Width = 2
    U32Width = 2
    U64Width = 2
    DigestWidth = 1
    MaximumFrameSize = 40
    Damaged <- MCDamaged
    Workloads <- MCWorkloads
SYMMETRY SessionSymmetry
SPECIFICATION GatewaySpec
INVARIANTS EvidenceAgrees AdmissionIsExact EvidenceIsWhatArrived
