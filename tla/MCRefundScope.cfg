CONSTANTS
    o1 = o1
    s1 = s1
    v1 = v1
    c1 = c1
    c2 = c2
    NoPromo = NoPromo
    Orders = {o1}
    Skus = {s1}
    Vouchers <- NoVouchers
    InitStock <- TwoOfA
    MaxQty = 2
    MaxStock = 1
    Calls = {c1, c2}
    Price <- MCPrice
    ShippingCost = 4
    Discount = 0
SPECIFICATION RefundSpec
CHECK_DEADLOCK FALSE
INVARIANTS
    StripeCoversBooks
