CONSTANTS
    r1 = r1
    r2 = r2
    v1 = v1
    Lookups = {}
    NoOrder = NoOrder
    Requests = {r1, r2}
    MaxAmount = 1
    MaxFaults = 1
SYMMETRY RequestSymmetry
SPECIFICATION PaySpec
INVARIANTS
    PayTypeOK
    OneOrderPerIntent
CHECK_DEADLOCK FALSE
