CONSTANTS
    n1 = n1
    n2 = n2
    n3 = n3
    m1 = m1
    m2 = m2
    t1 = t1
    t2 = t2
    t3 = t3
    s1 = s1
    s2 = s2
    a1 = a1
    a2 = a2
    a3 = a3
    stale = stale
    Parts = {"sync", "ap", "bus", "start", "iperf", "report", "link", "loader"}
    Nodes = {n1, n2}
    Unknown = n3
    NDirs = 2
    Leftovers = {stale}
    MaxCrashes = 1
    Macs = {m1, m2}
    MaxTime = 3
    MaxJumps = 1
    MaxRejoins = 1
    Topics = {t1, t2, t3}
    MaxDrops = 2
    MaxMessages = 2
    Stations = {s1, s2}
    Target = 5
    BusyWait = 2
    Overshoot = 1
    MaxSteps = 2
    Horizon = 9
    Durations = {1, 2, 4}
    Streams = {1, 2}
    Rates = {0, 1, 3}
    Retransmits = {0, 1}
    MaxLines = 4
    Stas = {a1, a2, a3}
    Means = {0, 1, 2, 5, 9}
    Channels <- MCChannels
    MaxRoams = 3
    Keys = {1, 2}
    Leaves = {"x", "y"}
SYMMETRY Symmetry
SPECIFICATION Spec
INVARIANTS
    ExitHonest
    NoHalfRestart
    NothingCountedTwice
    ShareBounded
    AllSubscribed
    StartsOnTarget
    FiguresFaithful
    PercentileNear
    IndexBounded
    BandWasTrue
    MergedByPath
CHECK_DEADLOCK FALSE
