CONSTANTS
    Streams = {stdout, stderr}
    stdout = stdout
    stderr = stderr
    PlanLength = 2
    PipeCapacity = 2
    MaxWrites <- MCWrites
    Faults <- MCAllFaults
SPECIFICATION LiveSpec
INVARIANTS ResultsMatchPlan EventsInOrder OutputComplete CancelledStageIsQuiet
PROPERTIES CancelEndsRun
