SPECIFICATION Spec
CONSTANTS
    None = None
    Binaries = {b1, b2, b3}
    MaxLoads = 5
SYMMETRY LoaderSymmetry
INVARIANTS TypeOK HandleCodeMapped RefusedUnloaded ListensToLoaded
CHECK_DEADLOCK FALSE
