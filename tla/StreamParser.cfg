CONSTANTS
    MaximumFrameSize = 4
    MaxItems = 3
    PeerStreams <- MCStreams
SPECIFICATION Spec
INVARIANTS BufferBounded ReassemblyExact
