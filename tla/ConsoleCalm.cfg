CONSTANTS
    MaxRuns = 2
    MaxSamples = 1
    Mishaps <- MCMishaps
    Drops = 0
    Slow = 0
    Down = 1
    Raises = 1
    Doubles = 0
SPECIFICATION FairSpec
INVARIANTS
    TypeOK
    NothingLost
    QueuesReleased
PROPERTIES
    BadgeGoesOn
    StartComesBack
CHECK_DEADLOCK FALSE
