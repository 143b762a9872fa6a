SPECIFICATION Spec
CONSTANTS
    None = None
    Torn = Torn
    Hosts = {h1}
    Records = {r1}
    Keys = {k1}
    MaxFaults = 1
INVARIANT MemoryMatchesFile
CHECK_DEADLOCK FALSE
