CONSTANTS
    Streams = {stdout, stderr}
    stdout = stdout
    stderr = stderr
    PlanLength = 1
    PipeCapacity = 1
    MaxWrites <- MCSurvivorWrites
    Faults <- MCNoFaults
SYMMETRY StreamSymmetry
SPECIFICATION Spec
INVARIANTS GroupTerminated
