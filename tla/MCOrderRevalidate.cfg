CONSTANTS
    o1 = o1
    s1 = s1
    NoPromo = NoPromo
    Orders = {o1}
    Skus = {s1}
    Vouchers <- NoVouchers
    InitStock <- ThreeUnits
    MaxQty = 2
    MaxStock = 0
SPECIFICATION RevSpec
INVARIANT CancelledRestoresAll
