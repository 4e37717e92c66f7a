CONSTANTS
    r1 = r1
    r2 = r2
    v1 = v1
    Lookups = {}
    NoOrder = NoOrder
    Requests = {r1}
    MaxAmount = 1
    MaxFaults = 0
SPECIFICATION PaySpec
PROPERTIES
    NeverExpiresPaid
CHECK_DEADLOCK FALSE
