SPECIFICATION FairSpec
CONSTANTS
    PlanLength = 2
    ChannelCapacity = 1
    MaxStageLog = 1
    MaxOutputs = 2
    MaxKeys = 2
    StageCount = 2
    MaxChunks = 2
    MaxDisturbances = 1
    TaskCount = 4
    MaxDependencies = 3
    MaxOnly = 2
    MaxSkip = 1
INVARIANTS ScreenFollowsRunner ReturnsItsResult VerifiedIsTheRun ReportedRunVerifies PlanIsRunnable
PROPERTIES EndsOrAsks
