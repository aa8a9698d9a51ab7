CONSTANTS
    a1 = a1
    a2 = a2
    r1 = r1
    NoRun = NoRun
    Agents = {a1, a2}
    Runs = {r1}
    Ports = {1, 2}
    DownAgents = {}
    DownRuns = {}
    PortOf2 = {a2}
    Expected <- MCExpected
    Downlink <- MCDownlink
    Port <- MCPort
    Faults <- MCFaults
    MaxActive = 1
    MaxThreads = 1
    Dup = 0
    Link = 0
    Crashes = 0
    Interrupts = 0
    Spawn = 1
SPECIFICATION Spec
INVARIANTS
    ServersStopped
