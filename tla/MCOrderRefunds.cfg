CONSTANTS
    o1 = o1
    o2 = o2
    s1 = s1
    v1 = v1
    NoPromo = NoPromo
    Orders = {o1}
    Skus = {s1}
    Vouchers <- NoVouchers
    InitStock <- SomeSeconds
    MaxQty = 2
    MaxStock = 3
SPECIFICATION Spec
INVARIANTS
    TypeOK
    StockMatchesBooks
    LedgerFollowsStatus
    RefundedAmountIsDue
    OutboxFollowsOrder
    RefundedHoldsNoPackaging
PROPERTIES
    StockMovesAreJournalled
