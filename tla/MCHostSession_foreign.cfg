SPECIFICATION Spec
CONSTANTS
    Profiles = {p1, p2}
    MemoryOnly = MemoryOnly
    None = None
    Obedient = FALSE
INVARIANT IsolatedProfiles
