CONSTANTS
    MaxRuns = 2
    MaxSamples = 0
    Mishaps <- MCMishaps
    Drops = 1
    Slow = 1
    Down = 0
    Raises = 0
    Doubles = 1
SPECIFICATION Spec
INVARIANTS
    HandledOnce
PROPERTIES
    ImplementsFeed
CHECK_DEADLOCK FALSE
