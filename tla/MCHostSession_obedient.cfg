SPECIFICATION Spec
CONSTANTS
    Profiles = {p1, p2}
    MemoryOnly = MemoryOnly
    None = None
    Obedient = TRUE
SYMMETRY ProfileSymmetry
INVARIANTS IsolatedProfiles NoLockLeak
