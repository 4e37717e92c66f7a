CONSTANTS
    r1 = r1
    r2 = r2
    v1 = v1
    Lookups = {v1}
    NoOrder = NoOrder
    Requests = {r1}
    MaxAmount = 2
    MaxFaults = 1
SPECIFICATION FairPaySpec
INVARIANTS
    ConfirmedIsPaid
    AmountAgreed
PROPERTIES
    KeepsPromise
    AwaitingResolved
CHECK_DEADLOCK FALSE
