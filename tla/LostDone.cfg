CONSTANTS
    MaxRuns = 1
    MaxSamples = 1
    Mishaps <- MCMishaps
    Drops = 1
    Slow = 0
    Down = 0
    Raises = 0
    Doubles = 0
SPECIFICATION FairSpec
PROPERTIES
    StartComesBack
CHECK_DEADLOCK FALSE
