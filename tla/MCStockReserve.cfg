CONSTANTS
    s1 = s1
    s2 = s2
    i1 = i1
    i2 = i2
    NoOrder = NoOrder
    Sessions = {s1, s2}
    Items = {i1, i2}
    OrderUUIDs = {u1, u2}
    Stock <- MCStock
    CartTTL = 1
    OrderTTL = 1
    RateWindow = 1
    MaxItemsPerSession = 1
    MaxQtyPerItem = 1
    MaxTotalReservations = 2
    MaxTTLRefreshes = 1
    ReserveRatePerSession = 2
    MaxAsk = 2
SPECIFICATION Spec
INVARIANTS
    TypeOK
    IndexesExact
    CommittedHoldReleasable
    CapsRespected
PROPERTIES
    OnlyCommitOverholds
    CartHoldsEnd
