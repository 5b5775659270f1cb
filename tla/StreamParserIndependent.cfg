CONSTANTS
    MaximumFrameSize = 4
    MaxItems = 2
    PeerStreams <- MCStreams
SPECIFICATION Spec
INVARIANTS FramesIndependent
