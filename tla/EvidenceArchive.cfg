SPECIFICATION Spec
CONSTANTS
    ByteBase = 16
    U16Width = 2
    U32Width = 2
    U64Width = 2
    DigestWidth = 2
    BlockSize = 5
    LengthWidth = 2
    Writers = {"w1", "w2"}
    Readers = {"r1"}
    Logs <- MCLogs
    TrustedHeads <- MCTrustedHeads
    CutPoints <- MCCutPoints
    Workloads <- MCWorkloads
    None = None
INVARIANTS ReadIsAuthentic UndisturbedWriteReadsBack AcceptedFileIsCanonical DigestsStandardBlocks
CHECK_DEADLOCK FALSE
