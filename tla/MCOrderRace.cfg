CONSTANTS
    o1 = o1
    o2 = o2
    s1 = s1
    v1 = v1
    NoPromo = NoPromo
    Orders <- TwoOrders
    Skus = {s1}
    Vouchers <- OneVoucher
    InitStock <- LastUnit
    MaxQty = 1
    MaxStock = 1
SYMMETRY MCSymmetry
SPECIFICATION Spec
INVARIANTS
    JournalAddsUp
    StockMatchesBooks
PROPERTIES
    KeepsPromise
    RedeemedVoucherNotGiven
