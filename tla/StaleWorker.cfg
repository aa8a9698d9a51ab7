CONSTANTS
    a1 = a1
    r1 = r1
    r2 = r2
    NoRun = NoRun
    Agents = {a1}
    Runs = {r1, r2}
    Ports = {1}
    DownAgents = {}
    DownRuns = {}
    PortOf2 = {}
    Expected <- MCExpected
    Downlink <- MCDownlink
    Port <- MCPort
    Faults <- MCFaults
    MaxActive = 1
    MaxThreads = 2
    Dup = 0
    Link = 0
    Crashes = 0
    Interrupts = 0
    Spawn = 0
SPECIFICATION Spec
INVARIANTS
    ArmedHasConfig
