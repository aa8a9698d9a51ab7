CONSTANTS
    a1 = a1
    Agents = {a1}
    Mishaps <- MCMishaps
    MaxInFlight = 1
SPECIFICATION SceneSpec
INVARIANTS
    TypeOK
    CaughtUp
    GuardActs
    GoneIsShown
PROPERTIES
    GuardPatient
