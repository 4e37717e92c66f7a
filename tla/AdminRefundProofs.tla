------------------------- MODULE AdminRefundProofs -------------------------
(***************************************************************************)
(* Proofs about AdminRefund for any orders, products, prices and calls.     *)
(***************************************************************************)
EXTENDS AdminRefund, OrderStoreProofs

(***************************************************************************)
(* The inductive invariant                                                 *)
(***************************************************************************)
\* The order is past its payment: its lines and its shipping stay as they are.
Begun(o) == status[o] \notin {"NoOrder", "Placed", "AwaitingPayment"}

\* What a request is worth now, and an amount that pays for it.
Fee(o, ask, shipping) ==
    IF ask = Nothing THEN FeeDue(o, shipping) ELSE shipping /\ ~freeShipping[o]
Scope(o, ask, shipping) ==
    Value(RefundUnits(o, ask), IF Fee(o, ask, shipping) THEN 1 ELSE 0)
Everything(amount) == amount \in {FullCharge, 0}
Enough(o, ask, shipping, amount) ==
    Everything(amount) \/ Scope(o, ask, shipping) <= amount

\* Stripe's refunds of an order: each paid for its scope when it was asked for,
\* and the scope of a key only shrinks.
StripeTells(o) ==
    /\ IsFiniteSet(refunds[o])
    /\ Paid(o) <= charge[o]
    /\ charge[o] > 0 => Begun(o) /\ charge[o] = Total(o)
    /\ \A r \in refunds[o] :
        /\ Enough(o, r.key.units, r.key.shipping, r.key.amount)
        /\ IF Everything(r.key.amount) THEN Paid(o) = charge[o]
                                       ELSE r.amount = r.key.amount

\* Stripe's total over a set of its refunds.
Moved(part) == SumFunctionOnSet([r \in part |-> r.amount], part)

\* What is booked rests on partial refunds whose units are all in the ledger.
RestsOn(o, used) ==
    /\ \A r \in used :
        /\ Requested(o, r.key.units) # Nothing
        /\ \A l \in Lines : Requested(o, r.key.units)[l] <= ledger[o][l]
    /\ Booked(o) <= Moved(used)
BooksRest(o) ==
    \/ Paid(o) = charge[o]
    \/ status[o] = "Refunded" /\ Booked(o) <= Paid(o)
    \/ \E used \in SUBSET refunds[o] : RestsOn(o, used)

\* What a call holds is still worth its amount, and a call that comes to the
\* store of a charged order has its refund at Stripe.
CallTells(c) ==
    call[c].pc # "idle" =>
        LET o == call[c].order
        IN  /\ Begun(o)
            /\ Enough(o, call[c].ask, call[c].shipping, call[c].amount)
            /\ call[c].pc = "store" /\ charge[o] > 0 => Seen(c)

RefundInv ==
    /\ IndInv /\ RefundTypeOK
    /\ \A o \in Orders :
        /\ \A l \in Lines : items[o][l] <= MaxQty
        /\ StripeTells(o)
        /\ MaxQty = 1 => BooksRest(o)
    /\ \A c \in Calls : CallTells(c)

(***************************************************************************)
(* Amounts                                                                 *)
(***************************************************************************)
\* The lines are finitely many.
LEMMA LinesFinite == IsFiniteSet(Lines)
<1>1. IsFiniteSet(Grades)
    <2>1. IsFiniteSet({"A"})
        BY FS_Singleton
    <2>2. Grades = {"A"} \cup {"B"}
        BY DEF Grades
    <2>. QED
        BY <2>1, <2>2, FS_AddElement
<1>. QED
    BY <1>1, SkusAssumption, FS_Product DEF Lines

\* A price times a quantity.
LEMMA PriceTimes ==
    /\ \A l \in Lines : Price[l] \in Nat \ {0}
    /\ ShippingCost \in Nat
    /\ \A m, n \in Nat : m * n \in Nat
    /\ \A l \in Lines, n \in Nat : Price[l] * n \in Nat
<1>1. \A l \in Lines : Price[l] \in Nat \ {0}
    BY PricesAssumption
<1>2. \A m, n \in Nat : m * n \in Nat
    OBVIOUS
<1>. QED
    BY <1>1, <1>2, PricesAssumption

\* A value is a natural.
LEMMA ValueType ==
    ASSUME NEW units \in Quantities, NEW fees \in Nat
    PROVE  Value(units, fees) \in Nat
<1>. DEFINE f == [l \in Lines |-> Price[l] * units[l]]
<1>1. \A l \in Lines : f[l] \in Nat
    BY PriceTimes DEF Quantities
<1>2. Value(units, fees) = SumFunctionOnSet(f, Lines) + fees * ShippingCost
    BY DEF Value
<1>. HIDE DEF f
<1>3. SumFunctionOnSet(f, Lines) \in Nat
    BY <1>1, LinesFinite, SumNat
<1>4. fees * ShippingCost \in Nat
    BY PriceTimes
<1>. QED
    BY <1>2, <1>3, <1>4

\* Nothing is worth nothing.
LEMMA NothingWorth == Value(Nothing, 0) = 0
<1>. DEFINE f == [l \in Lines |-> Price[l] * Nothing[l]]
<1>1. \A l \in Lines : f[l] = 0
    <2>1. \A p \in Nat : p * 0 = 0
        OBVIOUS
    <2>. QED
        BY <2>1, PriceTimes DEF Nothing
<1>2. Value(Nothing, 0) = SumFunctionOnSet(f, Lines) + 0 * ShippingCost
    BY DEF Value
<1>. HIDE DEF f
<1>3. SumFunctionOnSet(f, Lines) = 0
    BY <1>1, LinesFinite, SumZero
<1>4. 0 * ShippingCost = 0
    BY PriceTimes
<1>. QED
    BY <1>2, <1>3, <1>4

\* Values add up.
LEMMA ValuePlus ==
    ASSUME NEW a \in Quantities, NEW b \in Quantities, NEW m \in Nat, NEW n \in Nat
    PROVE  Value(Plus(a, b), m + n) = Value(a, m) + Value(b, n)
<1>. DEFINE f == [l \in Lines |-> Price[l] * a[l]]
            g == [l \in Lines |-> Price[l] * b[l]]
            h == [l \in Lines |-> Price[l] * Plus(a, b)[l]]
<1>1. \A l \in Lines : f[l] \in Int /\ g[l] \in Int /\ h[l] = f[l] + g[l]
    <2>1. \A p, x, y \in Nat : p * (x + y) = p * x + p * y /\ p * x \in Int /\ p * y \in Int
        OBVIOUS
    <2>2. \A l \in Lines : a[l] \in Nat /\ b[l] \in Nat /\ Price[l] \in Nat
                            /\ Plus(a, b)[l] = a[l] + b[l]
        BY PriceTimes DEF Quantities, Plus
    <2>. QED
        BY <2>1, <2>2
<1>2. /\ Value(a, m) = SumFunctionOnSet(f, Lines) + m * ShippingCost
      /\ Value(b, n) = SumFunctionOnSet(g, Lines) + n * ShippingCost
      /\ Value(Plus(a, b), m + n) = SumFunctionOnSet(h, Lines) + (m + n) * ShippingCost
    BY DEF Value
<1>. HIDE DEF f, g, h
<1>3. SumFunctionOnSet(h, Lines) = SumFunctionOnSet(f, Lines) + SumFunctionOnSet(g, Lines)
    BY <1>1, LinesFinite, SumPlus
<1>4. SumFunctionOnSet(f, Lines) \in Int /\ SumFunctionOnSet(g, Lines) \in Int
    BY <1>1, LinesFinite, SumInt
<1>5. /\ (m + n) * ShippingCost = m * ShippingCost + n * ShippingCost
      /\ m * ShippingCost \in Int /\ n * ShippingCost \in Int
    BY PriceTimes
<1>. QED
    BY <1>2, <1>3, <1>4, <1>5

\* More units and fees are worth more.
LEMMA ValueMonotone ==
    ASSUME NEW a \in Quantities, NEW b \in Quantities, NEW m \in Nat, NEW n \in Nat,
           \A l \in Lines : a[l] <= b[l], m <= n
    PROVE  Value(a, m) <= Value(b, n)
<1>. DEFINE c == [l \in Lines |-> b[l] - a[l]]
<1>1. c \in Quantities /\ \A l \in Lines : c[l] = b[l] - a[l]
    BY DEF Quantities
<1>. HIDE DEF c
<1>2. b = Plus(a, c)
    BY <1>1 DEF Quantities, Plus
<1>3. PICK k \in Nat : n = m + k
    <2>1. n - m \in Nat /\ n = m + (n - m)
        OBVIOUS
    <2>. QED
        BY <2>1
<1>4. Value(b, n) = Value(a, m) + Value(c, k)
    BY <1>1, <1>2, <1>3, ValuePlus
<1>. QED
    BY <1>1, <1>4, ValueType

\* Something is worth at least a discount.
LEMMA ValueCoversDiscount ==
    ASSUME NEW units \in Quantities, units # Nothing, NEW fees \in Nat
    PROVE  Discount \in Nat /\ Discount <= Value(units, fees)
<1>. DEFINE f == [l \in Lines |-> Price[l] * units[l]]
<1>1. PICK k \in Lines : units[k] # 0
    BY DEF Quantities, Nothing
<1>2. \A l \in Lines : f[l] \in Nat /\ f[l] = Price[l] * units[l]
    BY PriceTimes DEF Quantities
<1>3. Value(units, fees) = SumFunctionOnSet(f, Lines) + fees * ShippingCost
    BY DEF Value
<1>. HIDE DEF f
<1>4. f[k] <= SumFunctionOnSet(f, Lines) /\ SumFunctionOnSet(f, Lines) \in Nat
    BY <1>1, <1>2, LinesFinite, SumNat
<1>5. Discount <= f[k]
    <2>1. \A p, x \in Nat : x # 0 => p <= p * x
        OBVIOUS
    <2>2. Price[k] \in Nat /\ units[k] \in Nat
        BY <1>1, PriceTimes DEF Quantities
    <2>3. Price[k] <= f[k]
        BY <1>1, <1>2, <2>1, <2>2
    <2>. QED
        BY <1>1, <1>2, <2>2, <2>3, PricesAssumption
<1>6. fees * ShippingCost \in Nat
    BY PriceTimes
<1>. QED
    BY <1>1, <1>2, <1>3, <1>4, <1>5, <1>6, PricesAssumption

\* Its parts, and a new refund.
LEMMA MovedParts ==
    ASSUME NEW whole, IsFiniteSet(whole), \A r \in whole : r.amount \in Nat
    PROVE  /\ Moved(whole) \in Nat
           /\ \A r \in whole : r.amount <= Moved(whole)
           /\ \A part \in SUBSET whole :
                /\ SumFunctionOnSet([r \in whole |-> r.amount], part) = Moved(part)
                /\ Moved(part) \in Nat /\ Moved(part) <= Moved(whole)
           /\ \A new : /\ new \notin whole /\ new.amount \in Nat
                       => Moved(whole \cup {new}) = Moved(whole) + new.amount
<1>. DEFINE f == [r \in whole |-> r.amount]
<1>1. \A r \in whole : f[r] \in Nat /\ f[r] = r.amount
    OBVIOUS
<1>2. Moved(whole) = SumFunctionOnSet(f, whole)
    BY DEF Moved
<1>3. ASSUME NEW part \in SUBSET whole
      PROVE  SumFunctionOnSet(f, part) = Moved(part)
    <2>. DEFINE g == [r \in part |-> r.amount]
    <2>1. \A r \in part : f[r] \in Int /\ f[r] = g[r]
        OBVIOUS
    <2>2. Moved(part) = SumFunctionOnSet(g, part)
        BY DEF Moved
    <2>. HIDE DEF f, g
    <2>3. IsFiniteSet(part)
        BY FS_Subset
    <2>. QED
        BY <2>1, <2>2, <2>3, SumEqual
<1>. HIDE DEF f
<1>4. /\ SumFunctionOnSet(f, whole) \in Nat
      /\ \A r \in whole : f[r] <= SumFunctionOnSet(f, whole)
    BY <1>1, SumNat
<1>5. ASSUME NEW part \in SUBSET whole
      PROVE  Moved(part) \in Nat /\ Moved(part) <= Moved(whole)
    <2>1. IsFiniteSet(part)
        BY FS_Subset
    <2>2. SumFunctionOnSet(f, part) \in Nat
        BY <1>1, <2>1, SumNat
    <2>3. SumFunctionOnSet(f, part) <= SumFunctionOnSet(f, whole)
        BY <1>1, SumSubset
    <2>. QED
        BY <1>2, <1>3, <2>2, <2>3
<1>6. ASSUME NEW new, new \notin whole, new.amount \in Nat
      PROVE  Moved(whole \cup {new}) = Moved(whole) + new.amount
    <2>. DEFINE g == [r \in whole \cup {new} |-> r.amount]
    <2>1. /\ \A r \in whole : f[r] \in Int /\ f[r] = g[r]
          /\ \A r \in whole \cup {new} : g[r] \in Int
          /\ g[new] = new.amount
        BY <1>1, <1>6
    <2>2. Moved(whole \cup {new}) = SumFunctionOnSet(g, whole \cup {new})
        BY DEF Moved
    <2>. HIDE DEF g
    <2>3. SumFunctionOnSet(g, whole \cup {new}) = g[new] + SumFunctionOnSet(g, whole)
        BY <1>6, <2>1, SumAdd
    <2>4. SumFunctionOnSet(f, whole) = SumFunctionOnSet(g, whole)
        BY <2>1, SumEqual
    <2>. QED
        BY <1>2, <1>4, <1>6, <2>1, <2>2, <2>3, <2>4
<1>. QED
    BY <1>1, <1>2, <1>3, <1>4, <1>5, <1>6 DEF f

(***************************************************************************)
(* What the store says of an order                                         *)
(***************************************************************************)
Asks == [Lines -> 0 .. MaxQty]

\* The order's rows.
LEMMA OrderRows ==
    ASSUME IndInv, NEW o \in Orders
    PROVE  /\ items[o] \in Quantities /\ ledger[o] \in Quantities
           /\ freeShipping[o] \in BOOLEAN /\ shippingRefunded[o] \in BOOLEAN
           /\ \A l \in Lines : ledger[o][l] <= items[o][l]
           /\ freeShipping[o] => ~shippingRefunded[o]
           /\ Remaining(o) \in Quantities
           /\ \A l \in Lines : Remaining(o)[l] = items[o][l] - ledger[o][l]
           /\ refundedAmount[o].goods = ledger[o]
           /\ refundedAmount[o].shipping = IF shippingRefunded[o] THEN 1 ELSE 0
<1>1. /\ items[o] \in Quantities /\ ledger[o] \in Quantities
      /\ freeShipping[o] \in BOOLEAN /\ shippingRefunded[o] \in BOOLEAN
      /\ refundedAmount[o] \in Amounts
    BY DEF IndInv, TypeOK
<1>2. \A l \in Lines : ledger[o][l] <= items[o][l]
    BY DEF IndInv, LedgerFollowsStatus
<1>3. /\ \A l \in Lines : refundedAmount[o].goods[l] = ledger[o][l]
      /\ refundedAmount[o].shipping = IF shippingRefunded[o] THEN 1 ELSE 0
      /\ freeShipping[o] => ~shippingRefunded[o]
    BY DEF IndInv, RefundedAmountIsDue
<1>4. refundedAmount[o].goods = ledger[o]
    <2>1. refundedAmount[o].goods \in Quantities
        BY <1>1 DEF Amounts
    <2>. QED
        BY <1>1, <1>3, <2>1 DEF Quantities
<1>5. /\ Remaining(o) \in Quantities
      /\ \A l \in Lines : Remaining(o)[l] = items[o][l] - ledger[o][l]
    BY <1>1, <1>2 DEF Remaining, Quantities
<1>. QED
    BY <1>1, <1>2, <1>3, <1>4, <1>5

\* What is booked is the value of the ledger and of the fee.
LEMMA BookedIs ==
    ASSUME IndInv, NEW o \in Orders
    PROVE  /\ Booked(o) = Value(ledger[o], IF shippingRefunded[o] THEN 1 ELSE 0)
           /\ Booked(o) \in Nat
BY OrderRows, ValueType DEF Booked

\* The same for every order.
BooksAre ==
    \A o \in Orders : Booked(o) = Value(ledger[o], IF shippingRefunded[o] THEN 1 ELSE 0)

\* The books always tell the ledger's value.
LEMMA BooksAlways == IndInv => BooksAre
BY BookedIs DEF BooksAre

\* What is booked is a natural.
BooksTyped == \A o \in Orders : Booked(o) \in Nat

\* It always is.
LEMMA BooksTypes == IndInv => BooksTyped
BY BookedIs DEF BooksTyped

\* The total of an order.
LEMMA TotalIs ==
    ASSUME IndInv, NEW o \in Orders, status[o] # "NoOrder"
    PROVE  /\ Total(o) \in Nat
           /\ Discount = 0 => Booked(o) <= Total(o)
<1>. DEFINE fees == IF freeShipping[o] THEN 0 ELSE 1
<1>1. fees \in Nat /\ items[o] \in Quantities /\ items[o] # Nothing
    BY OrderRows DEF IndInv, OrderShape
<1>2. Total(o) = Value(items[o], fees) - (IF promo[o] = NoPromo THEN 0 ELSE Discount)
    BY DEF Total
<1>3. Value(items[o], fees) \in Nat /\ Discount \in Nat /\ Discount <= Value(items[o], fees)
    BY <1>1, ValueType, ValueCoversDiscount
<1>4. Booked(o) <= Value(items[o], fees)
    <2>1. (IF shippingRefunded[o] THEN 1 ELSE 0) \in Nat
        OBVIOUS
    <2>2. (IF shippingRefunded[o] THEN 1 ELSE 0) <= fees
        BY OrderRows
    <2>3. Value(ledger[o], IF shippingRefunded[o] THEN 1 ELSE 0) <= Value(items[o], fees)
        <3>. HIDE DEF fees
        <3>. QED
            BY <1>1, <2>1, <2>2, OrderRows, ValueMonotone
    <2>. QED
        BY <2>3, BookedIs
<1>. HIDE DEF fees
<1>. QED
    BY <1>2, <1>3, <1>4

\* The units of a request, and its worth.
LEMMA ScopeType ==
    ASSUME IndInv, NEW o \in Orders, NEW ask \in Asks, NEW shipping \in BOOLEAN
    PROVE  /\ RefundUnits(o, ask) \in Quantities
           /\ Requested(o, ask) \in Quantities
           /\ Scope(o, ask, shipping) \in Nat
<1>0. MaxQty \in Nat
    BY ConstantsAssumption
<1>1. Requested(o, ask) \in Quantities
    BY <1>0 DEF Requested, Quantities, Asks
<1>2. RefundUnits(o, ask) \in Quantities
    BY <1>1, OrderRows DEF RefundUnits
<1>. QED
    BY <1>1, <1>2, ValueType DEF Scope

\* The same for every request.
ScopesTyped ==
    \A o \in Orders, ask \in Asks, shipping \in BOOLEAN :
        RefundUnits(o, ask) \in Quantities /\ Scope(o, ask, shipping) \in Nat

\* Every request is worth a natural number.
LEMMA ScopeTypes == IndInv => ScopesTyped
BY ScopeType DEF ScopesTyped

\* A request is worth no more as refunds are booked.
LEMMA ScopeShrinks ==
    ASSUME IndInv, IndInv', NEW o \in Orders,
           items'[o] = items[o], freeShipping'[o] = freeShipping[o],
           \A l \in Lines : ledger[o][l] <= ledger'[o][l],
           shippingRefunded[o] => shippingRefunded'[o],
           NEW ask \in Asks, NEW shipping \in BOOLEAN
    PROVE  /\ Requested(o, ask)' = Requested(o, ask)
           /\ Scope(o, ask, shipping)' <= Scope(o, ask, shipping)
           /\ \A amount \in Nat \cup {FullCharge} :
                Enough(o, ask, shipping, amount) => Enough(o, ask, shipping, amount)'
<1>1. Requested(o, ask)' = Requested(o, ask)
    BY DEF Requested
<1>2. /\ RefundUnits(o, ask) \in Quantities /\ Scope(o, ask, shipping) \in Nat
    BY ScopeType
<1>3. /\ RefundUnits(o, ask)' \in Quantities /\ Scope(o, ask, shipping)' \in Nat
    <2>1. ScopesTyped'
        BY ScopeTypes, PTL
    <2>. QED
        BY <2>1 DEF ScopesTyped
<1>4. \A l \in Lines : RefundUnits(o, ask)'[l] <= RefundUnits(o, ask)[l]
    <2>1. CASE ask = Nothing
        <3>1. RefundUnits(o, ask) = Remaining(o) /\ RefundUnits(o, ask)' = Remaining(o)'
            BY <2>1 DEF RefundUnits
        <3>2. \A l \in Lines : Remaining(o)[l] = items[o][l] - ledger[o][l]
            BY OrderRows
        <3>3. \A l \in Lines : Remaining(o)'[l] = items'[o][l] - ledger'[o][l]
            BY DEF Remaining
        <3>4. \A l \in Lines : items[o][l] \in Nat /\ ledger[o][l] \in Nat
            BY OrderRows DEF Quantities
        <3>5. \A l \in Lines : ledger'[o][l] \in Nat
            BY DEF IndInv, TypeOK, Quantities
        <3>. QED
            BY <3>1, <3>2, <3>3, <3>4, <3>5
    <2>2. CASE ask # Nothing
        <3>1. RefundUnits(o, ask)' = RefundUnits(o, ask)
            BY <1>1, <2>2 DEF RefundUnits
        <3>2. \A l \in Lines : RefundUnits(o, ask)[l] \in Nat
            BY <1>2 DEF Quantities
        <3>. QED
            BY <3>1, <3>2
    <2>. QED
        BY <2>1, <2>2
<1>5. Fee(o, ask, shipping)' => Fee(o, ask, shipping)
    BY DEF Fee, FeeDue
<1>6. Scope(o, ask, shipping)' <= Scope(o, ask, shipping)
    <2>1. PICK u \in Quantities : u = RefundUnits(o, ask)
        BY <1>2
    <2>2. PICK v \in Quantities : v = RefundUnits(o, ask)'
        BY <1>3
    <2>3. PICK m \in Nat : m = IF Fee(o, ask, shipping) THEN 1 ELSE 0
        OBVIOUS
    <2>4. PICK n \in Nat : n = IF Fee(o, ask, shipping)' THEN 1 ELSE 0
        OBVIOUS
    <2>5. Value(v, n) <= Value(u, m)
        BY <1>4, <1>5, <2>1, <2>2, <2>3, <2>4, ValueMonotone
    <2>. QED
        BY <2>1, <2>2, <2>3, <2>4, <2>5 DEF Scope, Value
<1>7. ASSUME NEW amount \in Nat \cup {FullCharge}, Enough(o, ask, shipping, amount)
      PROVE  Enough(o, ask, shipping, amount)'
    <2>1. CASE Everything(amount)
        BY <2>1 DEF Enough, Everything
    <2>2. CASE ~Everything(amount)
        <3>1. amount \in Nat /\ Scope(o, ask, shipping) <= amount
            BY <1>7, <2>2 DEF Enough, Everything
        <3>. QED
            BY <1>2, <1>3, <1>6, <3>1 DEF Enough
    <2>. QED
        BY <2>1, <2>2
<1>. QED
    BY <1>1, <1>6, <1>7

(***************************************************************************)
(* What a step may do to an order                                          *)
(***************************************************************************)
\* Past its payment an order keeps its lines, its terms and its charge; what is
\* refunded and what Stripe moved only grow.
Grows(o) ==
    Begun(o) =>
        /\ Begun(o)'
        /\ items'[o] = items[o] /\ freeShipping'[o] = freeShipping[o]
        /\ promo'[o] = promo[o]
        /\ \A l \in Lines : ledger[o][l] <= ledger'[o][l]
        /\ shippingRefunded[o] => shippingRefunded'[o]
        /\ charge'[o] = charge[o] /\ refunds[o] \subseteq refunds'[o]

\* What Stripe moved for an order.
LEMMA PaidType ==
    ASSUME RefundTypeOK, NEW o \in Orders, IsFiniteSet(refunds[o])
    PROVE  /\ Paid(o) = Moved(refunds[o]) /\ Paid(o) \in Nat /\ charge[o] \in Nat
           /\ \A r \in refunds[o] :
                /\ r.amount \in Nat \ {0} /\ r.amount <= Paid(o)
                /\ r.key.units \in Asks /\ r.key.shipping \in BOOLEAN
                /\ r.key.amount \in Nat \cup {FullCharge}
<1>1. \A r \in refunds[o] :
        /\ r.amount \in Nat \ {0}
        /\ r.key.units \in Asks /\ r.key.shipping \in BOOLEAN
        /\ r.key.amount \in Nat \cup {FullCharge}
    BY DEF RefundTypeOK, Keys, Asks
<1>2. Paid(o) = Moved(refunds[o]) /\ charge[o] \in Nat
    BY DEF Paid, Moved, RefundTypeOK
<1>3. /\ Moved(refunds[o]) \in Nat
      /\ \A r \in refunds[o] : r.amount <= Moved(refunds[o])
    BY <1>1, MovedParts
<1>. QED
    BY <1>1, <1>2, <1>3

\* Nothing moved for an order without a charge, and it has none before it is paid.
LEMMA Uncharged ==
    ASSUME RefundTypeOK, NEW o \in Orders, StripeTells(o)
    PROVE  /\ ~Begun(o) => charge[o] = 0
           /\ charge[o] = 0 => refunds[o] = {} /\ Paid(o) = 0
<1>1. IsFiniteSet(refunds[o]) /\ Paid(o) <= charge[o] /\ (charge[o] > 0 => Begun(o))
    BY DEF StripeTells
<1>2. /\ Paid(o) \in Nat /\ charge[o] \in Nat
      /\ \A r \in refunds[o] : r.amount \in Nat \ {0} /\ r.amount <= Paid(o)
    BY <1>1, PaidType
<1>. QED
    BY <1>1, <1>2

\* What Stripe has keeps paying for what it paid for.
LEMMA StripeStays ==
    ASSUME IndInv, IndInv', RefundTypeOK, NEW o \in Orders, StripeTells(o), Grows(o),
           charge'[o] = charge[o], refunds'[o] = refunds[o]
    PROVE  StripeTells(o)'
<1>1. Paid(o)' = Paid(o)
    BY DEF Paid
<1>2. /\ IsFiniteSet(refunds'[o]) /\ Paid(o)' <= charge'[o]
      /\ \A r \in refunds'[o] :
            IF Everything(r.key.amount) THEN Paid(o)' = charge'[o]
                                        ELSE r.amount = r.key.amount
    BY <1>1 DEF StripeTells
<1>3. CASE ~Begun(o)
    <2>1. charge'[o] = 0 /\ refunds'[o] = {}
        BY <1>3, Uncharged
    <2>. QED
        BY <1>2, <2>1 DEF StripeTells
<1>4. CASE Begun(o)
    <2>1. /\ Begun(o)' /\ items'[o] = items[o] /\ freeShipping'[o] = freeShipping[o]
          /\ promo'[o] = promo[o]
          /\ \A l \in Lines : ledger[o][l] <= ledger'[o][l]
          /\ shippingRefunded[o] => shippingRefunded'[o]
        BY <1>4 DEF Grows
    <2>2. Total(o)' = Total(o)
        BY <2>1 DEF Total, Value
    <2>3. charge'[o] > 0 => Begun(o)' /\ charge'[o] = Total(o)'
        BY <2>1, <2>2 DEF StripeTells
    <2>4. ASSUME NEW r \in refunds'[o]
          PROVE  Enough(o, r.key.units, r.key.shipping, r.key.amount)'
        <3>1. Enough(o, r.key.units, r.key.shipping, r.key.amount)
            BY DEF StripeTells
        <3>2. /\ r.key.units \in Asks /\ r.key.shipping \in BOOLEAN
              /\ r.key.amount \in Nat \cup {FullCharge}
            BY PaidType DEF StripeTells
        <3>3. PICK u \in Asks, sh \in BOOLEAN, n \in Nat \cup {FullCharge} :
                u = r.key.units /\ sh = r.key.shipping /\ n = r.key.amount
            BY <3>2
        <3>4. Enough(o, u, sh, n)'
            BY <2>1, <3>1, <3>3, ScopeShrinks
        <3>. QED
            BY <3>3, <3>4
    <2>. QED
        BY <1>2, <2>3, <2>4 DEF StripeTells
<1>. QED
    BY <1>3, <1>4

\* A call keeps what it holds while others step.
LEMMA CallStays ==
    ASSUME IndInv, IndInv', RefundTypeOK, NEW c \in Calls, CallTells(c),
           call'[c] = call[c], \A o \in Orders : Grows(o)
    PROVE  CallTells(c)'
<1>. SUFFICES ASSUME call[c].pc # "idle" PROVE CallTells(c)'
    BY DEF CallTells
<1>1. call[c] \in Requests
    BY DEF RefundTypeOK, Idle
<1>2. PICK o \in Orders, ask \in Asks, shipping \in BOOLEAN,
           amount \in Nat \cup {FullCharge} :
        /\ o = call[c].order /\ ask = call[c].ask /\ shipping = call[c].shipping
        /\ amount = call[c].amount
    BY <1>1 DEF Requests, Asks
<1>3. Begun(o) /\ Enough(o, ask, shipping, amount)
      /\ (call[c].pc = "store" /\ charge[o] > 0 => Seen(c))
    BY <1>2 DEF CallTells
<1>4. /\ Begun(o)' /\ charge'[o] = charge[o] /\ refunds[o] \subseteq refunds'[o]
      /\ items'[o] = items[o] /\ freeShipping'[o] = freeShipping[o]
      /\ \A l \in Lines : ledger[o][l] <= ledger'[o][l]
      /\ shippingRefunded[o] => shippingRefunded'[o]
    BY <1>3 DEF Grows
<1>5. Enough(o, ask, shipping, amount)'
    BY <1>3, <1>4, ScopeShrinks
<1>6. Seen(c) => Seen(c)'
    BY <1>2, <1>4 DEF Seen, KeyOf
<1>. QED
    BY <1>2, <1>3, <1>4, <1>5, <1>6 DEF CallTells

\* What is booked keeps resting on what it rested on.
LEMMA BooksStay ==
    ASSUME RefundTypeOK, NEW o \in Orders, StripeTells(o), BooksRest(o),
           charge'[o] = charge[o], refunds'[o] = refunds[o],
           ledger'[o] = ledger[o], refundedAmount'[o] = refundedAmount[o],
           Begun(o) => items'[o] = items[o],
           status[o] = "Refunded" => status'[o] = "Refunded"
    PROVE  BooksRest(o)'
<1>1. Paid(o)' = Paid(o) /\ Booked(o)' = Booked(o)
    BY DEF Paid, Booked, Value
<1>2. CASE Paid(o) = charge[o]
    BY <1>1, <1>2 DEF BooksRest
<1>3. CASE status[o] = "Refunded" /\ Booked(o) <= Paid(o)
    BY <1>1, <1>3 DEF BooksRest
<1>4. CASE Paid(o) # charge[o] /\ \E used \in SUBSET refunds[o] : RestsOn(o, used)
    <2>1. PICK used \in SUBSET refunds[o] : RestsOn(o, used)
        BY <1>4
    <2>2. items'[o] = items[o]
        BY <1>4, Uncharged
    <2>3. RestsOn(o, used)'
        BY <1>1, <2>1, <2>2 DEF RestsOn, Requested, Moved
    <2>. QED
        BY <2>3 DEF BooksRest
<1>. QED
    BY <1>2, <1>3, <1>4 DEF BooksRest

(***************************************************************************)
(* The order's life                                                        *)
(***************************************************************************)
\* A step of the store that refunds nothing.
Calm ==
    /\ Next
    /\ UNCHANGED <<ledger, refundedAmount, shippingRefunded>>
    /\ \A o \in Orders :
        /\ Begun(o) => /\ Begun(o)' /\ items'[o] = items[o] /\ promo'[o] = promo[o]
                       /\ freeShipping'[o] = freeShipping[o]
        /\ status[o] = "Refunded" => status'[o] = "Refunded"
        /\ \A l \in Lines : items'[o][l] <= MaxQty

\* One order's status moves on and nothing else that counts.
LEMMA StatusCalm ==
    ASSUME RefundInv, Next, NEW o \in Orders, NEW to,
           UNCHANGED <<items, promo, freeShipping, refundVars>>,
           status' = [status EXCEPT ![o] = to],
           status[o] # "Refunded",
           Begun(o) => to \notin {"NoOrder", "Placed", "AwaitingPayment"}
    PROVE  Calm
<1>0. status \in [Orders -> Promise!Statuses]
    BY DEF RefundInv, IndInv, TypeOK
<1>1. \A p \in Orders : status'[p] = IF p = o THEN to ELSE status[p]
    BY <1>0
<1>2. \A p \in Orders : /\ Begun(p) => Begun(p)'
                        /\ status[p] = "Refunded" => status'[p] = "Refunded"
    BY <1>1 DEF Begun
<1>3. \A p \in Orders, l \in Lines : items'[p][l] <= MaxQty
    BY DEF RefundInv
<1>. QED
    BY <1>2, <1>3 DEF Calm, refundVars

\* A new order is not past its payment before, and its lines fit a cart.
LEMMA NewCalm ==
    ASSUME RefundInv, Next, NEW o \in Orders, NEW to, NEW units,
           \A l \in Lines : units[l] <= MaxQty,
           UNCHANGED refundVars,
           status[o] = "NoOrder", status' = [status EXCEPT ![o] = to],
           items' = [items EXCEPT ![o] = units],
           \A p \in Orders \ {o} : promo'[p] = promo[p] /\ freeShipping'[p] = freeShipping[p]
    PROVE  Calm
<1>0. status \in [Orders -> Promise!Statuses] /\ items \in [Orders -> Quantities]
    BY DEF RefundInv, IndInv, TypeOK
<1>1. \A p \in Orders : /\ status'[p] = IF p = o THEN to ELSE status[p]
                        /\ items'[p] = IF p = o THEN units ELSE items[p]
    BY <1>0
<1>2. ~Begun(o) /\ status[o] # "Refunded"
    BY DEF Begun
<1>3. \A p \in Orders \ {o} :
        Begun(p) => /\ Begun(p)' /\ items'[p] = items[p] /\ promo'[p] = promo[p]
                    /\ freeShipping'[p] = freeShipping[p]
    BY <1>1 DEF Begun
<1>4. \A p \in Orders, l \in Lines : items'[p][l] <= MaxQty
    BY <1>1 DEF RefundInv
<1>5. \A p \in Orders : status[p] = "Refunded" => status'[p] = "Refunded"
    BY <1>1, <1>2
<1>. QED
    BY <1>2, <1>3, <1>4, <1>5 DEF Calm, refundVars

\* The order's life refunds nothing.
LEMMA LifeCalm ==
    ASSUME RefundInv, NEW o \in Orders, OrderLife(o)
    PROVE  Calm /\ UNCHANGED <<call, charge, refunds>>
<1>0. UNCHANGED <<call, charge, refunds>>
    BY DEF OrderLife, stripeVars
<1>s. /\ stock \in Quantities /\ freeShipping \in [Orders -> BOOLEAN]
      /\ promo \in [Orders -> Vouchers \cup {NoPromo}]
    BY DEF RefundInv, IndInv, TypeOK
<1>1. ASSUME NEW cart \in Carts, NEW free \in BOOLEAN, CreateOrder(o, cart, free)
      PROVE  Calm
    <2>1. Next
        BY <1>1 DEF Next
    <2>2. \A l \in Lines : InStock(cart)[l] <= MaxQty
        BY <1>s, ConstantsAssumption DEF InStock, Carts, Quantities
    <2>3. /\ UNCHANGED refundVars
          /\ status[o] = "NoOrder" /\ status' = [status EXCEPT ![o] = "Placed"]
          /\ items' = [items EXCEPT ![o] = InStock(cart)]
          /\ promo' = [promo EXCEPT ![o] = offer[o]]
          /\ freeShipping' = [freeShipping EXCEPT ![o] = free]
        BY <1>1 DEF CreateOrder
    <2>4. \A p \in Orders \ {o} : promo'[p] = promo[p] /\ freeShipping'[p] = freeShipping[p]
        BY <1>s, <2>3
    <2>. QED
        BY <2>1, <2>2, <2>3, <2>4, NewCalm
<1>2. ASSUME NEW cart \in Carts, CreateCustomOrder(o, cart)
      PROVE  Calm
    <2>1. Next
        BY <1>2 DEF Next
    <2>2. \A l \in Lines : cart[l] <= MaxQty
        BY ConstantsAssumption DEF Carts
    <2>3. /\ UNCHANGED <<refundVars, promo, freeShipping>>
          /\ status[o] = "NoOrder" /\ status' = [status EXCEPT ![o] = "Confirmed"]
          /\ items' = [items EXCEPT ![o] = cart]
        BY <1>2 DEF CreateCustomOrder
    <2>. QED
        BY <2>1, <2>2, <2>3, NewCalm
<1>3. ASSUME InvoiceIssued(o) PROVE Calm
    <2>1. Next
        BY <1>3 DEF Next
    <2>2. /\ status[o] = "Placed" /\ status' = [status EXCEPT ![o] = "AwaitingPayment"]
          /\ UNCHANGED <<items, promo, freeShipping, refundVars>>
        BY <1>3 DEF InvoiceIssued, UpdateOrderStatus
    <2>. QED
        BY <2>1, <2>2, StatusCalm DEF Begun
<1>4. ASSUME RequestRefundByUser(o) PROVE Calm
    <2>1. Next
        BY <1>4 DEF Next, CancelOrderByUser
    <2>2. PICK to \in {"RefundInProgress", "PendingReturn"} :
            /\ status[o] # "Refunded" /\ status' = [status EXCEPT ![o] = to]
            /\ UNCHANGED <<items, promo, freeShipping, refundVars>>
        BY <1>4 DEF RequestRefundByUser
    <2>. QED
        BY <2>1, <2>2, StatusCalm
<1>5. ASSUME SetTrackingNumber(o) PROVE Calm
    <2>1. Next
        BY <1>5 DEF Next
    <2>2. /\ status[o] # "Refunded" /\ status' = [status EXCEPT ![o] = "Shipped"]
          /\ UNCHANGED <<items, promo, freeShipping, refundVars>>
        BY <1>5 DEF SetTrackingNumber, UpdateOrderStatus
    <2>. QED
        BY <2>1, <2>2, StatusCalm
<1>6. ASSUME DeliverOrderWithSource(o) PROVE Calm
    <2>1. Next
        BY <1>6 DEF Next
    <2>2. /\ status[o] # "Refunded" /\ status' = [status EXCEPT ![o] = "Delivered"]
          /\ UNCHANGED <<items, promo, freeShipping, refundVars>>
        BY <1>6 DEF DeliverOrderWithSource, UpdateOrderStatus
    <2>. QED
        BY <2>1, <2>2, StatusCalm
<1>7. ASSUME SetOrderStatusToPendingReturn(o) PROVE Calm
    <2>1. Next
        BY <1>7 DEF Next
    <2>2. /\ status[o] # "Refunded" /\ status' = [status EXCEPT ![o] = "PendingReturn"]
          /\ UNCHANGED <<items, promo, freeShipping, refundVars>>
        BY <1>7 DEF SetOrderStatusToPendingReturn, UpdateOrderStatus, ValidStatusTransitions
    <2>. QED
        BY <2>1, <2>2, StatusCalm
<1>8. ASSUME NEW v \in Vouchers \cup {NoPromo}, GetPromoByCode(o, v)
      PROVE  Calm
    <2>1. Next
        BY <1>8 DEF Next
    <2>2. UNCHANGED <<status, items, promo, freeShipping, refundVars>>
        BY <1>8 DEF GetPromoByCode, orderVars
    <2>. QED
        BY <2>1, <2>2 DEF Calm, Begun, RefundInv, refundVars
<1>. QED
    BY <1>0, <1>1, <1>2, <1>3, <1>4, <1>5, <1>6, <1>7, <1>8 DEF OrderLife

\* A calm step is a growing one.
LEMMA CalmGrows ==
    ASSUME RefundInv, Calm, NEW o \in Orders,
           Begun(o) => charge'[o] = charge[o] /\ refunds'[o] = refunds[o]
    PROVE  Grows(o)
<1>1. ledger[o] \in Quantities
    BY DEF RefundInv, IndInv, TypeOK
<1>. QED
    BY <1>1 DEF Calm, Grows, Quantities

\* The order's life keeps the invariant.
LEMMA LifeStep ==
    ASSUME RefundInv, NEW o \in Orders, OrderLife(o)
    PROVE  RefundInv'
<1>1. Calm /\ UNCHANGED <<call, charge, refunds>>
    BY LifeCalm
<1>2. IndInv /\ RefundTypeOK
    BY DEF RefundInv
<1>3. IndInv' /\ RefundTypeOK'
    BY <1>1, <1>2, NextIndInv DEF Calm, RefundTypeOK
<1>4. \A p \in Orders : Grows(p)
    BY <1>1, CalmGrows
<1>5. ASSUME NEW p \in Orders
      PROVE  /\ \A l \in Lines : items'[p][l] <= MaxQty
             /\ StripeTells(p)'
             /\ MaxQty = 1 => BooksRest(p)'
    <2>1. StripeTells(p) /\ (MaxQty = 1 => BooksRest(p))
        BY DEF RefundInv
    <2>2. StripeTells(p)'
        BY <1>1, <1>2, <1>3, <1>4, <2>1, StripeStays
    <2>3. MaxQty = 1 => BooksRest(p)'
        BY <1>1, <1>2, <2>1, BooksStay DEF Calm
    <2>. QED
        BY <1>1, <2>2, <2>3 DEF Calm
<1>6. ASSUME NEW c \in Calls PROVE CallTells(c)'
    BY <1>1, <1>2, <1>3, <1>4, CallStays DEF RefundInv
<1>. QED
    BY <1>3, <1>5, <1>6 DEF RefundInv

\* The payment keeps the invariant: the order had no charge, and nothing is
\* booked yet.
LEMMA PayStep ==
    ASSUME RefundInv, NEW o \in Orders, PayByCard(o)
    PROVE  RefundInv'
<1>1. /\ status[o] = "AwaitingPayment" /\ status' = [status EXCEPT ![o] = "Confirmed"]
      /\ UNCHANGED <<items, promo, freeShipping, refundVars, call, refunds>>
      /\ charge' = [charge EXCEPT ![o] = Total(o)]
    BY DEF PayByCard, OrderPaymentDone, UpdateOrderStatus
<1>2. IndInv /\ RefundTypeOK
    BY DEF RefundInv
<1>3. Next
    BY DEF PayByCard, Next
<1>4. Calm
    BY <1>1, <1>3, StatusCalm DEF Begun
<1>5. IndInv'
    BY <1>2, <1>3, NextIndInv
<1>6. Total(o) \in Nat /\ Total(o)' = Total(o)
    BY <1>1, <1>2, TotalIs DEF Total, Value
<1>7. RefundTypeOK'
    BY <1>1, <1>2, <1>6 DEF RefundTypeOK
<1>8. charge'[o] = Total(o) /\ \A p \in Orders \ {o} : charge'[p] = charge[p]
    BY <1>1, <1>2 DEF RefundTypeOK
<1>9. ~Begun(o)
    BY <1>1 DEF Begun
<1>10. \A p \in Orders : Grows(p)
    <2>1. \A p \in Orders : Begun(p) => charge'[p] = charge[p] /\ refunds'[p] = refunds[p]
        BY <1>1, <1>8, <1>9
    <2>. QED
        BY <1>4, <2>1, CalmGrows
<1>11. StripeTells(o)' /\ BooksRest(o)'
    <2>1. StripeTells(o)
        BY DEF RefundInv
    <2>2. refunds[o] = {} /\ refunds'[o] = {}
        BY <1>1, <1>2, <1>9, <2>1, Uncharged
    <2>3. IsFiniteSet(refunds'[o]) /\ Paid(o)' = 0
        BY <2>2, SumEmpty, FS_EmptySet DEF Paid
    <2>4. Begun(o)'
        <3>1. status \in [Orders -> Promise!Statuses]
            BY <1>2 DEF IndInv, TypeOK
        <3>2. status'[o] = "Confirmed"
            BY <1>1, <3>1
        <3>. QED
            BY <3>2 DEF Begun
    <2>5. StripeTells(o)'
        BY <1>6, <1>8, <2>2, <2>3, <2>4 DEF StripeTells
    <2>6. Booked(o) = 0
        <3>1. ledger[o] = Nothing /\ ~shippingRefunded[o]
            BY <1>1, <1>2 DEF IndInv, LedgerFollowsStatus, OrderShape, Promise!SoldStatuses
        <3>2. Booked(o) = Value(Nothing, 0)
            BY <1>2, <3>1, BookedIs
        <3>. QED
            BY <3>2, NothingWorth
    <2>7. Booked(o)' = Booked(o)
        BY <1>1 DEF Booked, Value, refundVars
    <2>8. Moved({}) = 0
        BY SumEmpty DEF Moved
    <2>9. RestsOn(o, {})'
        BY <2>6, <2>7, <2>8 DEF RestsOn, Moved
    <2>. QED
        BY <2>5, <2>9 DEF BooksRest
<1>12. ASSUME NEW p \in Orders \ {o}
       PROVE  StripeTells(p)' /\ (MaxQty = 1 => BooksRest(p)')
    <2>1. StripeTells(p) /\ (MaxQty = 1 => BooksRest(p))
        BY DEF RefundInv
    <2>2. charge'[p] = charge[p] /\ refunds'[p] = refunds[p]
        BY <1>1, <1>8
    <2>3. StripeTells(p)'
        BY <1>2, <1>5, <1>10, <2>1, <2>2, StripeStays
    <2>4. MaxQty = 1 => BooksRest(p)'
        BY <1>2, <1>4, <2>1, <2>2, BooksStay DEF Calm
    <2>. QED
        BY <2>3, <2>4
<1>13. ASSUME NEW c \in Calls PROVE CallTells(c)'
    BY <1>1, <1>2, <1>5, <1>10, CallStays DEF RefundInv
<1>14. \A p \in Orders, l \in Lines : items'[p][l] <= MaxQty
    BY <1>4 DEF Calm
<1>. QED
    BY <1>5, <1>7, <1>11, <1>12, <1>13, <1>14 DEF RefundInv

(***************************************************************************)
(* The calls                                                               *)
(***************************************************************************)
\* What the refunds read of the store.
storeRead == <<status, items, promo, freeShipping, ledger, refundedAmount, shippingRefunded>>

\* A step outside the store leaves it.
LEMMA StoreStill ==
    ASSUME IndInv, UNCHANGED vars
    PROVE  IndInv' /\ UNCHANGED storeRead
<1>1. IndInv'
    BY NextIndInv
<1>2. UNCHANGED storeRead
    BY DEF vars, orderVars, refundVars, storeRead
<1>. QED
    BY <1>1, <1>2

\* A step that leaves the store and Stripe alone keeps what they say.
LEMMA QuietStep ==
    ASSUME RefundInv, UNCHANGED <<vars, charge, refunds>>, RefundTypeOK',
           \A c \in Calls : call'[c] = call[c] \/ CallTells(c)'
    PROVE  RefundInv'
<1>1. IndInv /\ RefundTypeOK
    BY DEF RefundInv
<1>2. IndInv' /\ UNCHANGED storeRead /\ UNCHANGED <<charge, refunds>>
    BY <1>1, StoreStill
<1>3. \A o \in Orders : Grows(o)
    <2>1. \A o \in Orders, l \in Lines : ledger[o][l] <= ledger[o][l]
        BY <1>1 DEF IndInv, TypeOK, Quantities
    <2>. QED
        BY <1>2, <2>1 DEF Grows, storeRead, Begun
<1>4. ASSUME NEW o \in Orders
      PROVE  /\ \A l \in Lines : items'[o][l] <= MaxQty
             /\ StripeTells(o)'
             /\ MaxQty = 1 => BooksRest(o)'
    <2>1. StripeTells(o) /\ (MaxQty = 1 => BooksRest(o))
        BY DEF RefundInv
    <2>2. \A l \in Lines : items'[o][l] <= MaxQty
        BY <1>2 DEF RefundInv, storeRead
    <2>3. StripeTells(o)'
        BY <1>1, <1>2, <1>3, <2>1, StripeStays
    <2>4. MaxQty = 1 => BooksRest(o)'
        BY <1>1, <1>2, <2>1, BooksStay DEF storeRead
    <2>. QED
        BY <2>2, <2>3, <2>4
<1>5. ASSUME NEW c \in Calls PROVE CallTells(c)'
    BY <1>1, <1>2, <1>3, CallStays DEF RefundInv
<1>. QED
    BY <1>2, <1>4, <1>5 DEF RefundInv

\* A step of one call that leaves the store and Stripe alone.
LEMMA CallOnlyStep ==
    ASSUME RefundInv, UNCHANGED <<vars, charge, refunds>>, NEW c \in Calls,
           NEW q \in Requests \cup {Idle}, call' = [call EXCEPT ![c] = q],
           CallTells(c)'
    PROVE  RefundInv'
<1>1. RefundTypeOK' /\ \A d \in Calls \ {c} : call'[d] = call[d]
    BY DEF RefundInv, RefundTypeOK
<1>. QED
    BY <1>1, QuietStep

\* A call that is over tells nothing.
LEMMA IdleTells ==
    ASSUME RefundTypeOK, NEW c \in Calls, call' = [call EXCEPT ![c] = Idle]
    PROVE  CallTells(c)'
<1>1. call'[c] = Idle
    BY DEF RefundTypeOK
<1>2. call'[c].pc = "idle"
    BY <1>1 DEF Idle
<1>. QED
    BY <1>2 DEF CallTells

\* A failure at Stripe or at the store ends the call.
LEMMA FailStep ==
    ASSUME RefundInv, NEW c \in Calls, RefundFails(c) \/ BookingFails(c)
    PROVE  RefundInv'
<1>1. call' = [call EXCEPT ![c] = Idle] /\ UNCHANGED <<vars, charge, refunds>>
    BY DEF RefundFails, BookingFails, stripeVars
<1>2. CallTells(c)'
    BY <1>1, IdleTells DEF RefundInv
<1>. QED
    BY <1>1, <1>2, CallOnlyStep

\* The amount of a request is what it is worth, or everything.
LEMMA AmountEnough ==
    ASSUME IndInv, NEW o \in Orders, NEW ask \in Asks, NEW shipping \in BOOLEAN
    PROVE  /\ RefundAmount(o, ask, shipping) \in Nat \cup {FullCharge}
           /\ Enough(o, ask, shipping, RefundAmount(o, ask, shipping))
<1>1. Scope(o, ask, shipping) \in Nat
    BY ScopeType
<1>2. CASE status[o] = "Confirmed"
    BY <1>2 DEF RefundAmount, Enough, Everything
<1>3. CASE status[o] # "Confirmed"
    <2>1. RefundAmount(o, ask, shipping) = Scope(o, ask, shipping)
        BY <1>3 DEF RefundAmount, Scope, RefundUnits, Fee
    <2>. QED
        BY <1>1, <2>1 DEF Enough
<1>. QED
    BY <1>2, <1>3

\* The handler's read and its amount.
LEMMA StartStep ==
    ASSUME RefundInv, NEW c \in Calls, NEW o \in Orders, NEW ask \in Asks,
           NEW sh \in BOOLEAN, StartRefund(c, o, ask, sh)
    PROVE  RefundInv'
<1>1. IndInv /\ RefundTypeOK
    BY DEF RefundInv
<1>2. PICK shipping \in BOOLEAN : shipping = (sh \/ status[o] = "Confirmed")
    OBVIOUS
<1>3. PICK amount \in Nat \cup {FullCharge} : amount = RefundAmount(o, ask, shipping)
    BY <1>1, AmountEnough
<1>4. PICK pc \in {"stripe", "store"} : pc = IF charge[o] > 0 THEN "stripe" ELSE "store"
    OBVIOUS
<1>5. PICK q : q = [pc |-> pc, order |-> o, ask |-> ask, shipping |-> shipping,
                    amount |-> amount]
    OBVIOUS
<1>6. /\ call' = [call EXCEPT ![c] = q] /\ status[o] \in RefundableStatuses
      /\ UNCHANGED <<vars, charge, refunds>>
    BY <1>2, <1>3, <1>4, <1>5 DEF StartRefund, stripeVars
<1>7. /\ q \in Requests /\ q.order = o /\ q.ask = ask /\ q.shipping = shipping
      /\ q.amount = amount /\ q.pc = pc
    BY <1>5 DEF Requests, Asks
<1>8. call'[c] = q
    BY <1>1, <1>6 DEF RefundTypeOK
<1>9. IndInv' /\ UNCHANGED storeRead
    BY <1>1, <1>6, StoreStill
<1>10. Begun(o)'
    BY <1>6, <1>9 DEF Begun, RefundableStatuses, storeRead
<1>11. Enough(o, ask, shipping, amount)'
    <2>1. Enough(o, ask, shipping, amount)
        BY <1>1, <1>3, AmountEnough
    <2>2. \A l \in Lines : ledger[o][l] <= ledger'[o][l]
        BY <1>1, <1>9 DEF IndInv, TypeOK, Quantities, storeRead
    <2>. QED
        BY <1>1, <1>9, <2>1, <2>2, ScopeShrinks DEF storeRead
<1>12. ~(pc = "store" /\ charge'[o] > 0)
    BY <1>4, <1>6
<1>13. CallTells(c)'
    BY <1>7, <1>8, <1>10, <1>11, <1>12 DEF CallTells
<1>. QED
    BY <1>6, <1>7, <1>13, CallOnlyStep

\* A new refund at Stripe: it is within the charge, and takes all of it when the
\* request was for everything.
LEMMA NewRefund ==
    ASSUME RefundInv, IndInv', UNCHANGED storeRead, UNCHANGED charge, NEW o \in Orders,
           NEW key \in Keys, NEW asked \in Int,
           Enough(o, key.units, key.shipping, key.amount),
           asked = (IF Everything(key.amount) THEN Left(o) ELSE key.amount),
           asked > 0, asked <= Left(o),
           ~ \E r \in refunds[o] : r.key = key,
           refunds'[o] = refunds[o] \cup {[key |-> key, amount |-> asked]}
    PROVE  /\ StripeTells(o)'
           /\ MaxQty = 1 => BooksRest(o)'
<1>. PICK new : new = [key |-> key, amount |-> asked]
    OBVIOUS
<1>0. IndInv /\ RefundTypeOK /\ StripeTells(o) /\ (MaxQty = 1 => BooksRest(o))
    BY DEF RefundInv
<1>1. /\ new.key = key /\ new.amount = asked /\ asked \in Nat
      /\ refunds'[o] = refunds[o] \cup {new} /\ new \notin refunds[o]
    OBVIOUS
<1>2. IsFiniteSet(refunds[o]) /\ IsFiniteSet(refunds'[o])
    BY <1>0, <1>1, FS_AddElement DEF StripeTells
<1>3. /\ Paid(o) = Moved(refunds[o]) /\ Paid(o) \in Nat /\ charge[o] \in Nat
      /\ \A r \in refunds[o] :
            /\ r.amount \in Nat
            /\ r.key.units \in Asks /\ r.key.shipping \in BOOLEAN
            /\ r.key.amount \in Nat \cup {FullCharge}
    BY <1>0, <1>2, PaidType
<1>4. Paid(o)' = Paid(o) + asked
    <2>1. Paid(o)' = Moved(refunds'[o])
        BY DEF Paid, Moved
    <2>2. Moved(refunds[o] \cup {new}) = Moved(refunds[o]) + new.amount
        BY <1>1, <1>2, <1>3, MovedParts
    <2>. QED
        BY <1>1, <1>3, <2>1, <2>2
<1>5. /\ charge'[o] = charge[o] /\ Paid(o)' <= charge'[o]
      /\ Paid(o) < charge[o] /\ Paid(o)' >= Paid(o)
      /\ Everything(key.amount) => Paid(o)' = charge'[o]
    BY <1>1, <1>3, <1>4 DEF Left
<1>6. \A r \in refunds[o] : ~Everything(r.key.amount) /\ r.amount = r.key.amount
    BY <1>0, <1>3, <1>5 DEF StripeTells
<1>7. \A l \in Lines : ledger[o][l] <= ledger'[o][l]
    BY <1>0 DEF IndInv, TypeOK, Quantities, storeRead
<1>8. ASSUME NEW r \in refunds'[o]
      PROVE  Enough(o, r.key.units, r.key.shipping, r.key.amount)'
    <2>1. /\ Enough(o, r.key.units, r.key.shipping, r.key.amount)
          /\ r.key.units \in Asks /\ r.key.shipping \in BOOLEAN
          /\ r.key.amount \in Nat \cup {FullCharge}
        BY <1>0, <1>1, <1>3 DEF StripeTells, Keys, Asks
    <2>2. PICK u \in Asks, sh \in BOOLEAN, n \in Nat \cup {FullCharge} :
            u = r.key.units /\ sh = r.key.shipping /\ n = r.key.amount
        BY <2>1
    <2>3. Enough(o, u, sh, n)'
        BY <1>0, <1>7, <2>1, <2>2, ScopeShrinks DEF storeRead
    <2>. QED
        BY <2>2, <2>3
<1>9. ASSUME NEW r \in refunds'[o]
      PROVE  IF Everything(r.key.amount) THEN Paid(o)' = charge'[o]
                                         ELSE r.amount = r.key.amount
    BY <1>1, <1>5, <1>6
<1>10. charge'[o] > 0 => Begun(o)' /\ charge'[o] = Total(o)'
    BY <1>0, <1>5 DEF StripeTells, Begun, Total, Value, storeRead
<1>11. StripeTells(o)'
    BY <1>2, <1>5, <1>8, <1>9, <1>10 DEF StripeTells
<1>12. ASSUME BooksRest(o) PROVE BooksRest(o)'
    <2>1. Booked(o)' = Booked(o) /\ Booked(o) \in Nat
        BY <1>0, BookedIs DEF Booked, Value, storeRead
    <2>2. CASE status[o] = "Refunded" /\ Booked(o) <= Paid(o)
        BY <1>3, <1>4, <1>1, <2>1, <2>2 DEF BooksRest, storeRead
    <2>3. CASE \E used \in SUBSET refunds[o] : RestsOn(o, used)
        <3>1. PICK used \in SUBSET refunds[o] : RestsOn(o, used)
            BY <2>3
        <3>2. RestsOn(o, used)'
            BY <2>1, <3>1 DEF RestsOn, Requested, Moved, storeRead
        <3>. QED
            BY <1>1, <3>2 DEF BooksRest
    <2>. QED
        BY <1>3, <1>5, <1>12, <2>2, <2>3 DEF BooksRest
<1>. QED
    BY <1>0, <1>11, <1>12

\* Stripe answers: it repeats what it did for the key, or moves the money.
LEMMA StripeStep ==
    ASSUME RefundInv, NEW c \in Calls, call[c].pc = "stripe", StripeRefunds(c),
           UNCHANGED <<vars, charge>>,
           NEW q \in Requests \cup {Idle}, call' = [call EXCEPT ![c] = q],
           q = Idle \/ q = [call[c] EXCEPT !.pc = "store"]
    PROVE  RefundInv'
<1>0. IndInv /\ RefundTypeOK
    BY DEF RefundInv
<1>1. IndInv' /\ UNCHANGED storeRead /\ UNCHANGED charge
    BY <1>0, StoreStill
<1>2. call[c] \in Requests
    BY <1>0 DEF RefundTypeOK, Idle
<1>3. PICK o \in Orders, ask \in Asks, shipping \in BOOLEAN,
           amount \in Nat \cup {FullCharge} :
        /\ o = call[c].order /\ ask = call[c].ask /\ shipping = call[c].shipping
        /\ amount = call[c].amount
    BY <1>2 DEF Requests, Asks
<1>4. PICK key : key = KeyOf(c)
    OBVIOUS
<1>5. /\ key \in Keys /\ key.units = ask /\ key.shipping = shipping /\ key.amount = amount
    BY <1>3, <1>4 DEF KeyOf, RefundIdempotencyKey, Keys, Asks
<1>6. StripeTells(o) /\ CallTells(c)
    BY DEF RefundInv
<1>7. Begun(o) /\ Enough(o, ask, shipping, amount)
    BY <1>3, <1>6 DEF CallTells
<1>8. Paid(o) \in Nat /\ charge[o] \in Nat /\ Left(o) \in Int /\ Left(o) = charge[o] - Paid(o)
    BY <1>0, <1>6, PaidType DEF StripeTells, Left
<1>9. /\ \A p \in Orders \ {o} : refunds'[p] = refunds[p]
      /\ refunds[o] \subseteq refunds'[o]
      /\ refunds' \in [Orders -> SUBSET [key : Keys, amount : Nat \ {0}]]
      /\ StripeTells(o)' /\ (MaxQty = 1 => BooksRest(o)')
      /\ \E r \in refunds'[o] : r.key = key
    <2>1. CASE Seen(c) /\ UNCHANGED refunds
        <3>1. Grows(o)
            <4>1. \A l \in Lines : ledger[o][l] <= ledger'[o][l]
                BY <1>0, <1>1 DEF IndInv, TypeOK, Quantities, storeRead
            <4>. QED
                BY <1>1, <2>1, <4>1 DEF Grows, storeRead, Begun
        <3>2. StripeTells(o)'
            BY <1>0, <1>1, <1>6, <2>1, <3>1, StripeStays
        <3>3. MaxQty = 1 => BooksRest(o)'
            BY <1>0, <1>1, <1>6, <2>1, BooksStay DEF storeRead, RefundInv
        <3>. QED
            BY <1>0, <1>3, <1>4, <2>1, <3>2, <3>3 DEF Seen, RefundTypeOK
    <2>2. CASE ~Seen(c)
        <3>1. PICK asked : asked = Asked(c)
            OBVIOUS
        <3>2. asked = IF Everything(amount) THEN Left(o) ELSE amount
            BY <1>3, <3>1 DEF Asked, Everything
        <3>3. asked > 0 /\ asked <= Left(o)
            BY <1>3, <2>2, <3>1 DEF StripeRefunds, Covered
        <3>4. asked \in Int
            BY <1>8, <3>2 DEF Everything
        <3>5. asked \in Nat \ {0}
            BY <3>3, <3>4
        <3>6. ~ \E r \in refunds[o] : r.key = key
            BY <1>3, <1>4, <2>2 DEF Seen
        <3>7. refunds' = [refunds EXCEPT ![o] =
                            refunds[o] \cup {[key |-> key, amount |-> asked]}]
            BY <1>3, <1>4, <2>2, <3>1 DEF StripeRefunds
        <3>8. /\ refunds'[o] = refunds[o] \cup {[key |-> key, amount |-> asked]}
              /\ \A p \in Orders \ {o} : refunds'[p] = refunds[p]
            BY <1>0, <3>7 DEF RefundTypeOK
        <3>9. refunds' \in [Orders -> SUBSET [key : Keys, amount : Nat \ {0}]]
            <4>1. [key |-> key, amount |-> asked] \in [key : Keys, amount : Nat \ {0}]
                BY <1>5, <3>5
            <4>. QED
                BY <1>0, <3>7, <4>1 DEF RefundTypeOK
        <3>10. StripeTells(o)' /\ (MaxQty = 1 => BooksRest(o)')
            BY <1>1, <1>5, <1>7, <3>2, <3>3, <3>4, <3>6, <3>8, NewRefund
        <3>11. \E r \in refunds'[o] : r.key = key
            <4>1. PICK new : new = [key |-> key, amount |-> asked]
                OBVIOUS
            <4>2. new \in refunds'[o] /\ new.key = key
                BY <3>8, <4>1
            <4>. QED
                BY <4>2
        <3>12. refunds[o] \subseteq refunds'[o]
            BY <3>8
        <3>. QED
            BY <3>8, <3>9, <3>10, <3>11, <3>12
    <2>. QED
        BY <2>1, <2>2 DEF StripeRefunds
<1>10. \A p \in Orders : Grows(p)
    <2>1. \A p \in Orders : \A l \in Lines : ledger[p][l] <= ledger'[p][l]
        BY <1>0, <1>1 DEF IndInv, TypeOK, Quantities, storeRead
    <2>2. \A p \in Orders : charge'[p] = charge[p] /\ refunds[p] \subseteq refunds'[p]
        BY <1>1, <1>9
    <2>. QED
        BY <1>1, <2>1, <2>2 DEF Grows, storeRead, Begun
<1>11. RefundTypeOK' /\ call'[c] = q /\ \A d \in Calls \ {c} : call'[d] = call[d]
    BY <1>0, <1>1, <1>9 DEF RefundTypeOK
<1>12. ASSUME NEW p \in Orders
       PROVE  /\ \A l \in Lines : items'[p][l] <= MaxQty
              /\ StripeTells(p)'
              /\ MaxQty = 1 => BooksRest(p)'
    <2>1. \A l \in Lines : items'[p][l] <= MaxQty
        BY <1>1 DEF RefundInv, storeRead
    <2>2. CASE p = o
        BY <1>9, <2>1, <2>2
    <2>3. CASE p # o
        <3>1. StripeTells(p) /\ (MaxQty = 1 => BooksRest(p))
            BY DEF RefundInv
        <3>2. refunds'[p] = refunds[p] /\ charge'[p] = charge[p]
            BY <1>1, <1>9, <2>3
        <3>3. StripeTells(p)'
            BY <1>0, <1>1, <1>10, <3>1, <3>2, StripeStays
        <3>4. MaxQty = 1 => BooksRest(p)'
            BY <1>0, <1>1, <3>1, <3>2, BooksStay DEF storeRead
        <3>. QED
            BY <2>1, <3>3, <3>4
    <2>. QED
        BY <2>2, <2>3
<1>13. CallTells(c)'
    <2>1. CASE q = Idle
        BY <1>0, <2>1, IdleTells
    <2>2. CASE q = [call[c] EXCEPT !.pc = "store"]
        <3>1. /\ q.order = o /\ q.ask = ask /\ q.shipping = shipping /\ q.amount = amount
              /\ q.pc = "store"
            BY <1>2, <1>3, <2>2 DEF Requests
        <3>2. Begun(o)'
            BY <1>7, <1>10 DEF Grows
        <3>3. Enough(o, ask, shipping, amount)'
            <4>1. \A l \in Lines : ledger[o][l] <= ledger'[o][l]
                BY <1>0, <1>1 DEF IndInv, TypeOK, Quantities, storeRead
            <4>. QED
                BY <1>0, <1>1, <1>7, <4>1, ScopeShrinks DEF storeRead
        <3>4. KeyOf(c)' = key
            BY <1>3, <1>4, <1>11, <3>1 DEF KeyOf
        <3>5. Seen(c)'
            BY <1>9, <1>11, <3>1, <3>4 DEF Seen
        <3>. QED
            BY <1>11, <3>1, <3>2, <3>3, <3>5 DEF CallTells
    <2>. QED
        BY <2>1, <2>2
<1>14. ASSUME NEW d \in Calls PROVE CallTells(d)'
    <2>1. CASE d = c
        BY <1>13, <2>1
    <2>2. CASE d # c
        BY <1>0, <1>1, <1>10, <1>11, <2>2, CallStays DEF RefundInv
    <2>. QED
        BY <2>1, <2>2
<1>. QED
    BY <1>1, <1>11, <1>12, <1>14 DEF RefundInv

\* The store books a refund of the order: the units and the fee are added to the
\* books, and they are worth no more than the request.
LEMMA BookedGrows ==
    ASSUME IndInv, IndInv', NEW o \in Orders, NEW ask \in Asks, NEW shipping \in BOOLEAN,
           NEW disposition \in Dispositions, RefundOrder(o, ask, shipping, disposition)
    PROVE  /\ UNCHANGED <<items, promo, freeShipping>>
           /\ \A p \in Orders \ {o} :
                /\ status'[p] = status[p] /\ ledger'[p] = ledger[p]
                /\ refundedAmount'[p] = refundedAmount[p]
                /\ shippingRefunded'[p] = shippingRefunded[p]
           /\ \A l \in Lines : ledger'[o][l] = ledger[o][l] + RefundUnits(o, ask)[l]
           /\ shippingRefunded[o] => shippingRefunded'[o]
           /\ Begun(o)' /\ status[o] # "Refunded"
           /\ ask = Nothing => status'[o] = "Refunded"
           /\ ask # Nothing => ValidRequest(o, ask)
           /\ Booked(o)' <= Booked(o) + Scope(o, ask, shipping)
<1>. PICK units : units = RefundUnits(o, ask)
    OBVIOUS
<1>. PICK fee \in BOOLEAN : fee = FeeDue(o, shipping)
    BY DEF FeeDue
<1>1. /\ status[o] \in RefundableStatuses
      /\ ask = Nothing \/ ValidRequest(o, ask)
      /\ ledger' = [ledger EXCEPT ![o] = Plus(@, units)]
      /\ shippingRefunded' = [shippingRefunded EXCEPT ![o] = @ \/ fee]
      /\ refundedAmount' = [refundedAmount EXCEPT ![o] =
            [goods |-> Plus(@.goods, units), shipping |-> @.shipping + (IF fee THEN 1 ELSE 0)]]
      /\ UpdateOrderStatus(o, IF units = Remaining(o) THEN "Refunded" ELSE "PartiallyRefunded")
      /\ UNCHANGED <<items, promo, freeShipping>>
    BY DEF RefundOrder, RefundUnits
<1>2. /\ status \in [Orders -> Promise!Statuses] /\ ledger \in [Orders -> Quantities]
      /\ shippingRefunded \in [Orders -> BOOLEAN]
      /\ refundedAmount \in [Orders -> Amounts]
    BY DEF IndInv, TypeOK
<1>3. units \in Quantities /\ Scope(o, ask, shipping) \in Nat
    BY ScopeType
<1>4. \A p \in Orders \ {o} :
        /\ status'[p] = status[p] /\ ledger'[p] = ledger[p]
        /\ refundedAmount'[p] = refundedAmount[p]
        /\ shippingRefunded'[p] = shippingRefunded[p]
    BY <1>1, <1>2 DEF UpdateOrderStatus
<1>5. /\ ledger'[o] = Plus(ledger[o], units)
      /\ shippingRefunded'[o] = (shippingRefunded[o] \/ fee)
    BY <1>1, <1>2
<1>6. \A l \in Lines : ledger'[o][l] = ledger[o][l] + RefundUnits(o, ask)[l]
    BY <1>5 DEF Plus
<1>7. /\ status'[o] = IF units = Remaining(o) THEN "Refunded" ELSE "PartiallyRefunded"
      /\ status[o] # "Refunded"
    BY <1>1, <1>2 DEF UpdateOrderStatus, RefundableStatuses
<1>8. Begun(o)' /\ (ask = Nothing => status'[o] = "Refunded")
    BY <1>7 DEF Begun, RefundUnits
<1>9. PICK m \in Nat : m = IF shippingRefunded[o] THEN 1 ELSE 0
    OBVIOUS
<1>10. PICK n \in Nat : n = IF fee THEN 1 ELSE 0
    OBVIOUS
<1>11. PICK k \in Nat : k = IF Fee(o, ask, shipping) THEN 1 ELSE 0
    OBVIOUS
<1>12. Booked(o) = Value(ledger[o], m) /\ Booked(o) \in Nat
    BY <1>9, BookedIs
<1>13. Booked(o)' = Value(Plus(ledger[o], units), m + n)
    <2>1. BooksAre'
        BY BooksAlways, PTL
    <2>2. Booked(o)' = Value(ledger'[o], IF shippingRefunded'[o] THEN 1 ELSE 0)
        BY <2>1 DEF BooksAre, Value
    <2>3. (IF shippingRefunded'[o] THEN 1 ELSE 0) = m + n
        <3>1. fee => ~shippingRefunded[o]
            BY DEF FeeDue
        <3>2. CASE fee
            <4>1. m = 0 /\ n = 1 /\ shippingRefunded'[o]
                BY <1>5, <1>9, <1>10, <3>1, <3>2
            <4>. QED
                BY <4>1
        <3>3. CASE ~fee
            <4>1. n = 0 /\ shippingRefunded'[o] = shippingRefunded[o]
                BY <1>2, <1>5, <1>10, <3>3
            <4>. QED
                BY <1>9, <4>1
        <3>. QED
            BY <3>2, <3>3
    <2>. QED
        BY <1>5, <2>2, <2>3
<1>14. Value(Plus(ledger[o], units), m + n) = Value(ledger[o], m) + Value(units, n)
    BY <1>2, <1>3, ValuePlus
<1>15. Value(units, n) <= Scope(o, ask, shipping) /\ Value(units, n) \in Nat
    <2>1. n <= k
        <3>1. fee => Fee(o, ask, shipping)
            BY DEF Fee, FeeDue
        <3>2. CASE fee
            BY <1>10, <1>11, <3>1, <3>2
        <3>3. CASE ~fee
            BY <1>10, <1>11, <3>3
        <3>. QED
            BY <3>2, <3>3
    <2>2. Value(units, n) <= Value(units, k)
        <3>1. \A l \in Lines : units[l] <= units[l]
            BY <1>3 DEF Quantities
        <3>. QED
            BY <1>3, <2>1, <3>1, ValueMonotone
    <2>. QED
        BY <1>3, <1>11, <2>2, ValueType DEF Scope
<1>16. Booked(o)' <= Booked(o) + Scope(o, ask, shipping)
    BY <1>3, <1>12, <1>13, <1>14, <1>15
<1>. QED
    BY <1>1, <1>4, <1>5, <1>6, <1>7, <1>8, <1>16

\* With lines of one unit, a booking rests on a refund no booking used before.
LEMMA BookingRests ==
    ASSUME RefundInv, IndInv', MaxQty = 1, NEW c \in Calls, NEW d \in Dispositions,
           NEW o \in Orders, NEW ask \in Asks, NEW shipping \in BOOLEAN,
           o = call[c].order, ask = call[c].ask, shipping = call[c].shipping,
           call[c].pc = "store", RefundOrder(o, ask, shipping, d),
           UNCHANGED <<charge, refunds>>
    PROVE  BooksRest(o)'
<1>0. IndInv /\ RefundTypeOK /\ StripeTells(o) /\ BooksRest(o) /\ CallTells(c)
    BY DEF RefundInv
<1>1. /\ UNCHANGED items
      /\ \A l \in Lines : ledger'[o][l] = ledger[o][l] + RefundUnits(o, ask)[l]
      /\ status[o] # "Refunded"
      /\ ask = Nothing => status'[o] = "Refunded"
      /\ ask # Nothing => ValidRequest(o, ask)
      /\ Booked(o)' <= Booked(o) + Scope(o, ask, shipping)
    BY <1>0, BookedGrows
<1>2. /\ Paid(o) = Moved(refunds[o]) /\ Paid(o) \in Nat /\ charge[o] \in Nat
      /\ IsFiniteSet(refunds[o])
      /\ \A r \in refunds[o] : r.amount \in Nat
    BY <1>0, PaidType DEF StripeTells
<1>3. Paid(o)' = Paid(o)
    BY DEF Paid
<1>4. CASE Paid(o) = charge[o]
    BY <1>3, <1>4 DEF BooksRest
<1>5. CASE Paid(o) # charge[o]
    <2>1. charge[o] > 0
        BY <1>0, <1>2, <1>5, Uncharged
    <2>2. Seen(c) /\ Enough(o, ask, shipping, call[c].amount)
        BY <1>0, <2>1 DEF CallTells
    <2>3. PICK r \in refunds[o] : r.key = KeyOf(c)
        BY <2>2 DEF Seen
    <2>4. r.key.units = ask /\ r.key.amount = call[c].amount
        BY <2>3 DEF KeyOf, RefundIdempotencyKey
    <2>5. r.amount = call[c].amount /\ Scope(o, ask, shipping) <= r.amount
        BY <1>0, <1>5, <2>2, <2>4 DEF StripeTells, Enough
    <2>6. PICK used \in SUBSET refunds[o] : RestsOn(o, used)
        BY <1>0, <1>1, <1>5 DEF BooksRest
    <2>7. Requested(o, ask) \in Quantities /\ Scope(o, ask, shipping) \in Nat
        BY <1>0, ScopeType
    <2>8. \A l \in Lines : /\ items[o][l] \in Nat /\ ledger[o][l] \in Nat
                           /\ items[o][l] <= 1
                           /\ Remaining(o)[l] = items[o][l] - ledger[o][l]
                           /\ Requested(o, ask)[l] \in Nat
        BY <1>0, <2>7, OrderRows DEF RefundInv, Quantities
    <2>9. r \notin used
        <3>. SUFFICES ASSUME r \in used PROVE FALSE
            OBVIOUS
        <3>1. /\ Requested(o, ask) # Nothing
              /\ \A l \in Lines : Requested(o, ask)[l] <= ledger[o][l]
            BY <2>4, <2>6 DEF RestsOn
        <3>2. ask # Nothing
            BY <3>1 DEF Requested, Nothing
        <3>3. \A l \in Lines : Requested(o, ask)[l] <= Remaining(o)[l]
            BY <1>1, <3>2 DEF ValidRequest
        <3>4. PICK l \in Lines : Requested(o, ask)[l] # 0
            BY <2>7, <3>1 DEF Quantities, Nothing
        <3>. QED
            BY <2>8, <3>1, <3>3, <3>4
    <2>10. PICK all : all = used \cup {r}
        OBVIOUS
    <2>11. all \in SUBSET refunds[o] /\ IsFiniteSet(used)
        BY <1>2, <2>10, FS_Subset
    <2>12. /\ Moved(all) = Moved(used) + r.amount /\ Moved(used) \in Nat
           /\ Moved(all) <= Paid(o)
        <3>1. Moved(all) = Moved(used) + r.amount /\ Moved(used) \in Nat
            BY <1>2, <2>9, <2>10, <2>11, MovedParts
        <3>2. Moved(all) <= Moved(refunds[o])
            BY <1>2, <2>11, MovedParts
        <3>. QED
            BY <1>2, <3>1, <3>2
    <2>13. Booked(o)' <= Moved(all) /\ Booked(o)' \in Nat
        <3>1. Booked(o) <= Moved(used)
            BY <2>6 DEF RestsOn
        <3>2. Booked(o) \in Nat /\ r.amount \in Nat
            BY <1>0, <1>2, BookedIs
        <3>3. Booked(o)' \in Nat
            <4>1. BooksTyped'
                BY BooksTypes, PTL
            <4>. QED
                BY <4>1 DEF BooksTyped
        <3>. QED
            BY <1>1, <2>5, <2>7, <2>12, <3>1, <3>2, <3>3
    <2>14. CASE ask = Nothing
        <3>1. Booked(o)' <= Paid(o)'
            BY <1>2, <1>3, <2>12, <2>13
        <3>. QED
            BY <1>1, <2>14, <3>1 DEF BooksRest
    <2>15. CASE ask # Nothing
        <3>1. Requested(o, ask) # Nothing /\ RefundUnits(o, ask) = Requested(o, ask)
            BY <1>1, <2>15 DEF ValidRequest, RefundUnits
        <3>2. \A l \in Lines : /\ ledger[o][l] <= ledger'[o][l]
                               /\ Requested(o, ask)[l] <= ledger'[o][l]
            BY <1>1, <2>8, <3>1
        <3>3. ASSUME NEW s \in all
              PROVE  /\ Requested(o, s.key.units)' # Nothing
                     /\ \A l \in Lines : Requested(o, s.key.units)'[l] <= ledger'[o][l]
            <4>1. Requested(o, s.key.units)' = Requested(o, s.key.units)
                BY <1>1 DEF Requested
            <4>2. CASE s = r
                BY <2>4, <3>1, <3>2, <4>1, <4>2
            <4>3. CASE s \in used
                <5>1. s.key.units \in Asks
                    BY <1>0, <2>6, <4>3, PaidType DEF StripeTells
                <5>2. PICK u \in Quantities : u = Requested(o, s.key.units)
                    BY <1>0, <5>1, ScopeType
                <5>3. u # Nothing /\ \A l \in Lines : u[l] <= ledger[o][l]
                    BY <2>6, <4>3, <5>2 DEF RestsOn
                <5>4. \A l \in Lines : ledger'[o][l] \in Nat
                    BY DEF IndInv, TypeOK, Quantities
                <5>5. \A l \in Lines : u[l] <= ledger'[o][l]
                    BY <2>8, <3>2, <5>2, <5>3, <5>4 DEF Quantities
                <5>. QED
                    BY <4>1, <5>2, <5>3, <5>5
            <4>. QED
                BY <2>10, <4>2, <4>3
        <3>4. RestsOn(o, all)'
            BY <2>13, <3>3 DEF RestsOn, Moved
        <3>. QED
            BY <2>11, <3>4 DEF BooksRest
    <2>. QED
        BY <2>14, <2>15
<1>. QED
    BY <1>4, <1>5

\* The store books a refund.
LEMMA BookStep ==
    ASSUME RefundInv, NEW c \in Calls, NEW d \in Dispositions, BookRefund(c, d)
    PROVE  RefundInv'
<1>0. IndInv /\ RefundTypeOK
    BY DEF RefundInv
<1>1. /\ call[c].pc = "store" /\ call' = [call EXCEPT ![c] = Idle]
      /\ RefundOrder(call[c].order, call[c].ask, call[c].shipping, d)
      /\ UNCHANGED <<charge, refunds>>
    BY DEF BookRefund, stripeVars
<1>2. call[c] \in Requests
    BY <1>0, <1>1 DEF RefundTypeOK, Idle
<1>3. PICK o \in Orders, ask \in Asks, shipping \in BOOLEAN :
        o = call[c].order /\ ask = call[c].ask /\ shipping = call[c].shipping
    BY <1>2 DEF Requests, Asks
<1>4. RefundOrder(o, ask, shipping, d)
    BY <1>1, <1>3
<1>5. IndInv'
    BY <1>0, <1>4, RefundOrderStep DEF Asks
<1>6. RefundTypeOK' /\ \A b \in Calls \ {c} : call'[b] = call[b]
    BY <1>0, <1>1 DEF RefundTypeOK
<1>7. /\ UNCHANGED <<items, promo, freeShipping>>
      /\ \A p \in Orders \ {o} :
            /\ status'[p] = status[p] /\ ledger'[p] = ledger[p]
            /\ refundedAmount'[p] = refundedAmount[p]
            /\ shippingRefunded'[p] = shippingRefunded[p]
      /\ \A l \in Lines : ledger'[o][l] = ledger[o][l] + RefundUnits(o, ask)[l]
      /\ shippingRefunded[o] => shippingRefunded'[o]
      /\ Begun(o)'
    BY <1>0, <1>4, <1>5, BookedGrows
<1>8. ASSUME NEW p \in Orders PROVE Grows(p)
    <2>1. \A l \in Lines : ledger[p][l] \in Nat /\ RefundUnits(o, ask)[l] \in Nat
        BY <1>0, ScopeType DEF IndInv, TypeOK, Quantities
    <2>2. CASE p = o
        BY <1>1, <1>7, <2>1, <2>2 DEF Grows
    <2>3. CASE p # o
        BY <1>1, <1>7, <2>1, <2>3 DEF Grows, Begun
    <2>. QED
        BY <2>2, <2>3
<1>9. ASSUME NEW p \in Orders
      PROVE  /\ \A l \in Lines : items'[p][l] <= MaxQty
             /\ StripeTells(p)'
             /\ MaxQty = 1 => BooksRest(p)'
    <2>1. StripeTells(p) /\ (MaxQty = 1 => BooksRest(p))
          /\ \A l \in Lines : items'[p][l] <= MaxQty
        BY <1>7 DEF RefundInv
    <2>2. StripeTells(p)'
        BY <1>0, <1>1, <1>5, <1>8, <2>1, StripeStays
    <2>3. MaxQty = 1 => BooksRest(p)'
        <3>1. CASE p = o
            BY <1>1, <1>3, <1>4, <1>5, <3>1, BookingRests
        <3>2. CASE p # o
            BY <1>0, <1>1, <1>7, <2>1, <3>2, BooksStay
        <3>. QED
            BY <3>1, <3>2
    <2>. QED
        BY <2>1, <2>2, <2>3
<1>10. ASSUME NEW b \in Calls PROVE CallTells(b)'
    <2>1. CASE b = c
        BY <1>0, <1>1, <2>1, IdleTells
    <2>2. CASE b # c
        BY <1>0, <1>5, <1>6, <1>8, <2>2, CallStays DEF RefundInv
    <2>. QED
        BY <2>1, <2>2
<1>. QED
    BY <1>5, <1>6, <1>9, <1>10 DEF RefundInv

(***************************************************************************)
(* Invariance                                                              *)
(***************************************************************************)
\* Stripe starts empty and no call is under way.
LEMMA InitRefundInv == RefundInit => RefundInv
<1>. SUFFICES ASSUME RefundInit PROVE RefundInv
    OBVIOUS
<1>1. IndInv /\ Init
    BY InitIndInv DEF RefundInit
<1>2. RefundTypeOK
    BY DEF RefundInit, RefundTypeOK
<1>3. ASSUME NEW o \in Orders
      PROVE  /\ \A l \in Lines : items[o][l] <= MaxQty
             /\ StripeTells(o) /\ BooksRest(o)
    <2>1. refunds[o] = {} /\ charge[o] = 0
        BY DEF RefundInit
    <2>2. Paid(o) = 0 /\ IsFiniteSet(refunds[o])
        BY <2>1, SumEmpty, FS_EmptySet DEF Paid
    <2>3. \A l \in Lines : items[o][l] <= MaxQty
        BY <1>1, ConstantsAssumption DEF Init, Nothing
    <2>. QED
        BY <2>1, <2>2, <2>3 DEF StripeTells, BooksRest
<1>4. \A c \in Calls : CallTells(c)
    BY DEF RefundInit, CallTells, Idle
<1>. QED
    BY <1>1, <1>2, <1>3, <1>4 DEF RefundInv

\* Every step keeps the invariant.
LEMMA NextRefundInv == RefundInv /\ [RefundNext]_refundVarsAll => RefundInv'
<1>. SUFFICES ASSUME RefundInv, [RefundNext]_refundVarsAll PROVE RefundInv'
    OBVIOUS
<1>1. ASSUME NEW c \in Calls, Refund(c) PROVE RefundInv'
    <2>1. call[c] \in Requests
        BY <1>1 DEF Refund, RefundInv, RefundTypeOK, Idle
    <2>2. PICK q : q = [call[c] EXCEPT !.pc = "store"]
        OBVIOUS
    <2>3. q \in Requests
        BY <2>1, <2>2 DEF Requests
    <2>4. /\ call[c].pc = "stripe" /\ StripeRefunds(c) /\ UNCHANGED <<vars, charge>>
          /\ call' = [call EXCEPT ![c] = q]
        BY <1>1, <2>2 DEF Refund
    <2>. QED
        BY <2>2, <2>3, <2>4, StripeStep
<1>2. ASSUME NEW c \in Calls, RefundAnswerLost(c) PROVE RefundInv'
    <2>1. /\ call[c].pc = "stripe" /\ StripeRefunds(c) /\ UNCHANGED <<vars, charge>>
          /\ call' = [call EXCEPT ![c] = Idle]
        BY <1>2 DEF RefundAnswerLost
    <2>. QED
        BY <2>1, StripeStep
<1>3. CASE UNCHANGED refundVarsAll
    <2>1. UNCHANGED <<vars, call, charge, refunds>>
        BY <1>3 DEF refundVarsAll
    <2>2. RefundTypeOK'
        BY <2>1 DEF RefundInv, RefundTypeOK
    <2>. QED
        BY <2>1, <2>2, QuietStep
<1>. QED
    BY <1>1, <1>2, <1>3, LifeStep, PayStep, StartStep, FailStep, BookStep
       DEF RefundNext, Asks

\* The invariant holds throughout.
THEOREM RefundInvariance == RefundSpec => []RefundInv
BY InitRefundInv, NextRefundInv, PTL DEF RefundSpec

\* The calls, the charges and Stripe's refunds keep their types: a refund at
\* Stripe always moves something and is filed under the scope it was asked for.
THEOREM RefundTypeCorrect == RefundSpec => []RefundTypeOK
<1>1. RefundInv => RefundTypeOK
    BY DEF RefundInv
<1>. QED
    BY RefundInvariance, <1>1, PTL

\* For any orders, prices and calls, lines of one unit and no promo discount, the
\* shop never books more as refunded than Stripe returned (admin RefundOrder,
\* RefundIdempotencyKey).
THEOREM StripeAlwaysCovers ==
    ASSUME MaxQty = 1, Discount = 0
    PROVE  RefundSpec => []StripeCoversBooks
<1>1. RefundInv => StripeCoversBooks
    <2>. SUFFICES ASSUME RefundInv, NEW o \in Orders, charge[o] > 0
                  PROVE  Booked(o) <= Paid(o)
        BY DEF StripeCoversBooks
    <2>1. IndInv /\ RefundTypeOK /\ StripeTells(o) /\ BooksRest(o)
        BY DEF RefundInv
    <2>2. Begun(o) /\ charge[o] = Total(o) /\ IsFiniteSet(refunds[o])
        BY <2>1 DEF StripeTells
    <2>3. /\ Paid(o) = Moved(refunds[o]) /\ Paid(o) \in Nat
          /\ \A r \in refunds[o] : r.amount \in Nat
        BY <2>1, <2>2, PaidType
    <2>4. Booked(o) \in Nat /\ Booked(o) <= Total(o)
        BY <2>1, <2>2, BookedIs, TotalIs DEF Begun
    <2>5. ASSUME NEW used \in SUBSET refunds[o], RestsOn(o, used)
          PROVE  Booked(o) <= Paid(o)
        <3>1. Moved(used) \in Nat /\ Moved(used) <= Moved(refunds[o])
            BY <2>2, <2>3, MovedParts
        <3>2. Booked(o) <= Moved(used)
            BY <2>5 DEF RestsOn
        <3>. QED
            BY <2>3, <2>4, <3>1, <3>2
    <2>. QED
        BY <2>1, <2>2, <2>3, <2>4, <2>5 DEF BooksRest
<1>. QED
    BY RefundInvariance, <1>1, PTL
=============================================================================
