SPECIFICATION Spec
CONSTANTS
    None = None
    Binaries = {b1, b2}
    MaxLoads = 2
SYMMETRY LoaderSymmetry
INVARIANT OneBinary
CHECK_DEADLOCK FALSE
