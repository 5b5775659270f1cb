SPECIFICATION Spec
CONSTANTS
    Bundles <- MCBundles
    SecondsPerEntry = 4
    Speeds = {1, 3}
    Elapsed = {0, 1, 2, 5}
    MaxLoads = 2
INVARIANTS PlaybackExact BoundToActive
PROPERTIES WindowIsTold
CHECK_DEADLOCK FALSE
