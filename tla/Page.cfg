CONSTANTS
    c1 = c1
    c2 = c2
    a1 = a1
    a2 = a2
    Clients = {c1, c2}
    MaxUpdates = 2
    MaxExpiries = 1
    Ids = {a1, a2}
    Duration = 2
    MaxRuns = 2
    MaxSent = 3
SPECIFICATION PageSpec
INVARIANTS
    PageTypeOK
    DrawnInOrder
    TimersAtRest
PROPERTIES
    PagesCatchUp
    DrawnWhenDone
