SPECIFICATION Spec
CONSTANTS
    None = None
    Torn = Torn
    Hosts = {h1, h2}
    Records = {r1, r2}
    Keys = {k1, k2}
    MaxFaults = 3
SYMMETRY StoreSymmetry
INVARIANTS TypeOK AcknowledgedOpens ProductUntouched RefusedHoldsNothing
PROPERTIES UpdatesBuildOn NeverReplaced
CHECK_DEADLOCK FALSE
