SPECIFICATION FairSpec
CONSTANTS
    Profiles = {p1, p2}
    MemoryOnly = MemoryOnly
    None = None
    Obedient = FALSE
INVARIANTS TypeOK CallOrder KeyMatchesProfile LockedWhileAttached SessionAsRequested
PROPERTIES LoanKept CallsReturn
