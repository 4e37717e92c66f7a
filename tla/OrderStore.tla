---------------------------- MODULE OrderStore -----------------------------
(***************************************************************************)
(* The order store (internal/store/order) with the stock rows               *)
(* (internal/store/product/stock.go), the packaging claims                  *)
(* (internal/store/inventory) and the accounting outbox rows                *)
(* (internal/store/accounting/events.go) that its operations write.         *)
(*                                                                         *)
(* Every operation runs in one SERIALIZABLE transaction that locks the      *)
(* order row FOR UPDATE and rolls back on error (store/db.go Tx), so it is  *)
(* one action; an operation that returns an error changes nothing and is    *)
(* an action that is not enabled.                                          *)
(*                                                                         *)
(* Money is abstracted to what it pays for: an amount counts units of the   *)
(* order's lines and shipping fees (see Amounts), so two amounts are        *)
(* equal exactly when they pay for the same things.                        *)
(***************************************************************************)
EXTENDS Integers, FiniteSets, Functions

CONSTANTS
    Orders,         \* order rows that can be created
    Skus,           \* (product, size) pairs on sale
    Vouchers,       \* single-use promo codes
    NoPromo,        \* promo_id IS NULL
    InitStock,      \* product_size.quantity to start with, per line
    MaxQty,         \* maxOrderItemPerSize, the cap on a cart line
    MaxStock        \* bound on a manually set quantity

(* A line names a product_size row: grade A is sellable stock, grade B is   *)
(* the "seconds" row of the same product and size.                          *)
Grades == {"A", "B"}
Lines == Skus \X Grades

ASSUME ConstantsAssumption ==
    /\ InitStock \in [Lines -> Nat]
    /\ MaxQty \in Nat \ {0}
    /\ MaxStock \in Nat
    /\ NoPromo \notin Vouchers
ASSUME OrdersAssumption == IsFiniteSet(Orders)

VARIABLES
    status,             \* customer_order.order_status_id
    items,              \* order_item quantities, per line
    promo,              \* customer_order.promo_id
    freeShipping,       \* shipment.free_shipping
    paymentDone,        \* payment.is_transaction_done
    amountDue,          \* payment.transaction_amount_payment_currency > 0
    stock,              \* product_size.quantity
    journal,            \* net product_stock_change_history delta of an order
    manualJournal,      \* net delta of the rows that belong to no order
    ledger,             \* refunded_order_item quantities
    refundedAmount,     \* customer_order.refunded_amount
    shippingRefunded,   \* customer_order.shipping_refunded
    events,             \* acct_event: order_paid / _shipped / _delivered
    refundEvents,       \* acct_event: order_refund rows, see RefundRows
    claim,              \* material_reservation_ledger events of the order
    voucherAllowed,     \* promo_code.allowed
    promoCache,         \* the same flag in the process's promo cache
    offer,              \* the promo a running CreateOrder read from the cache
    redeeming           \* orders whose payment is committed and whose
                        \* cache.DisablePromo has not run yet

orderVars == <<status, items, promo, freeShipping>>
paymentVars == <<paymentDone, amountDue>>
stockVars == <<stock, journal, manualJournal>>
refundVars == <<ledger, refundedAmount, shippingRefunded, refundEvents>>
promoVars == <<voucherAllowed, promoCache, offer, redeeming>>
vars == <<orderVars, paymentVars, stockVars, refundVars, events, claim,
          promoVars>>

(***************************************************************************)
(* Types                                                                   *)
(***************************************************************************)
\* What the shop may rely on; the mapping hides everything but these two.
Promise == INSTANCE OrderStatus
             WITH revenue <- [o \in Orders |-> events[o].paid]

Dispositions == {"restock", "writeoff", "seconds"}
Events == [paid : BOOLEAN, shipped : BOOLEAN, delivered : BOOLEAN]
ClaimEvents == {"reserve", "consume", "release"}
Quantities == [Lines -> Nat]
Nothing == [l \in Lines |-> 0]
Plus(a, b) == [l \in Lines |-> a[l] + b[l]]
Amounts == [goods : Quantities, shipping : Nat]

\* The order_refund rows of one order: how many there are (the last source_key
\* sequence number) and the units their payloads carry per disposition.
RefundRows == [count : Nat, units : [Dispositions -> Quantities]]

(***************************************************************************)
(* Status transitions (status.go)                                          *)
(***************************************************************************)
ValidStatusTransitions ==
    {<<"Placed", "AwaitingPayment">>, <<"Placed", "Cancelled">>,
     <<"AwaitingPayment", "Confirmed">>, <<"AwaitingPayment", "Cancelled">>,
     <<"Confirmed", "Shipped">>, <<"Confirmed", "RefundInProgress">>,
     <<"Confirmed", "Refunded">>, <<"Confirmed", "Cancelled">>,
     <<"Shipped", "Delivered">>, <<"Shipped", "PendingReturn">>,
     <<"Delivered", "PendingReturn">>, <<"Delivered", "Refunded">>,
     <<"Delivered", "PartiallyRefunded">>,
     <<"PendingReturn", "Refunded">>, <<"PendingReturn", "PartiallyRefunded">>,
     <<"RefundInProgress", "Refunded">>,
     <<"RefundInProgress", "PartiallyRefunded">>,
     <<"PartiallyRefunded", "Refunded">>,
     <<"PartiallyRefunded", "PartiallyRefunded">>}

\* Mutant: the table is not consulted.
UpdateOrderStatusUnchecked(o, to) == status' = [status EXCEPT ![o] = to]

\* updateOrderStatusWithValidation: refused, and so the whole transaction
\* rolled back, unless the table has the transition.
UpdateOrderStatus(o, to) ==
    /\ <<status[o], to>> \in ValidStatusTransitions
    /\ status' = [status EXCEPT ![o] = to]

(***************************************************************************)
(* Stock movements (product/stock.go): quantity and journal row together   *)
(***************************************************************************)
\* Mutant: the units are taken twice.
ReduceStockTwice(o, units) ==
    /\ \A l \in Lines : units[l] <= stock[l]
    /\ stock' = [l \in Lines |-> stock[l] - 2 * units[l]]
    /\ journal' = [journal EXCEPT ![o] =
                      [l \in Lines |-> journal[o][l] - 2 * units[l]]]
    /\ UNCHANGED manualJournal

\* ReduceStockForProductSizes: refused when any line is short.
ReduceStock(o, units) ==
    /\ \A l \in Lines : units[l] <= stock[l]
    /\ stock' = [l \in Lines |-> stock[l] - units[l]]
    /\ journal' = [journal EXCEPT ![o] =
                      [l \in Lines |-> journal[o][l] - units[l]]]
    /\ UNCHANGED manualJournal

\* Mutant: stock restored without a journal row.
RestoreStockSilently(o, back) ==
    stock' = Plus(stock, back) /\ UNCHANGED <<journal, manualJournal>>

\* RestoreStockForProductSizes[Seconds]: `back` says how many units go back
\* to each row.
RestoreStock(o, back) ==
    /\ stock' = Plus(stock, back)
    /\ journal' = [journal EXCEPT ![o] = Plus(@, back)]
    /\ UNCHANGED manualJournal

\* Mutant: seconds go back to the row they were sold from.
ReturnedAsSold(units, disposition) ==
    IF disposition = "writeoff" THEN Nothing ELSE units

\* Where refunded units go: back to their own row, to the B row of the same
\* product and size, or nowhere.
Returned(units, disposition) ==
    [l \in Lines |->
        IF disposition = "restock" THEN units[l]
        ELSE IF disposition = "seconds" /\ l[2] = "B"
             THEN units[<<l[1], "A">>] + units[<<l[1], "B">>]
             ELSE 0]

(***************************************************************************)
(* Packaging claims (inventory/reservation.go)                             *)
(***************************************************************************)
OpenClaim(o) == "reserve" \in claim[o] /\ claim[o] \cap {"consume", "release"} = {}

\* Mutant: claims are left open.
KeepClaims(o) == UNCHANGED claim

\* ReleaseOpenClaimsInTx
ReleaseOpenClaims(o) ==
    claim' = [claim EXCEPT ![o] =
                 IF OpenClaim(o) THEN @ \cup {"release"} ELSE @]

----------------------------------------------------------------------------
Init ==
    /\ status = [o \in Orders |-> "NoOrder"]
    /\ items = [o \in Orders |-> Nothing]
    /\ promo = [o \in Orders |-> NoPromo]
    /\ freeShipping = [o \in Orders |-> FALSE]
    /\ paymentDone = [o \in Orders |-> FALSE]
    /\ amountDue = [o \in Orders |-> FALSE]
    /\ stock = InitStock
    /\ journal = [o \in Orders |-> Nothing]
    /\ manualJournal = Nothing
    /\ ledger = [o \in Orders |-> Nothing]
    /\ refundedAmount = [o \in Orders |-> [goods |-> Nothing, shipping |-> 0]]
    /\ shippingRefunded = [o \in Orders |-> FALSE]
    /\ events = [o \in Orders |->
                    [paid |-> FALSE, shipped |-> FALSE, delivered |-> FALSE]]
    /\ refundEvents = [o \in Orders |->
                          [count |-> 0, units |-> [d \in Dispositions |-> Nothing]]]
    /\ claim = [o \in Orders |-> {}]
    /\ voucherAllowed = [v \in Vouchers |-> TRUE]
    /\ promoCache = [v \in Vouchers |-> TRUE]
    /\ offer = [o \in Orders |-> NoPromo]
    /\ redeeming = {}

(***************************************************************************)
(* Creating and invoicing                                                  *)
(***************************************************************************)
\* What stock validation leaves of a cart: each line cut to what is on hand.
InStock(cart) ==
    [l \in Lines |-> IF cart[l] <= stock[l] THEN cart[l] ELSE stock[l]]

\* A promo code is applied while it is allowed and silently dropped otherwise.
\* Once the order exists its code is read with it, from the promo_code row.
Applicable(v) == IF v \in Vouchers /\ voucherAllowed[v] THEN v ELSE NoPromo

\* CreateOrder looks its code up in the cache, which no transaction guards; a
\* call that failed, or a retried transaction, looks again.
GetPromoByCode(o, v) ==
    /\ status[o] = "NoOrder"
    /\ offer' = [offer EXCEPT ![o] =
                    IF v \in Vouchers /\ promoCache[v] THEN v ELSE NoPromo]
    /\ UNCHANGED <<orderVars, paymentVars, stockVars, refundVars, events, claim,
                   voucherAllowed, promoCache, redeeming>>

Carts == [Lines -> 0 .. MaxQty] \ {Nothing}

\* CreateOrder: the order is born Placed, holding no stock, with the promo that
\* was read and a payment row whose amount is still 0.  `free`: the
\* complimentary-shipping threshold.
CreateOrder(o, cart, free) ==
    /\ status[o] = "NoOrder"
    /\ InStock(cart) # Nothing
    /\ status' = [status EXCEPT ![o] = "Placed"]
    /\ items' = [items EXCEPT ![o] = InStock(cart)]
    /\ promo' = [promo EXCEPT ![o] = offer[o]]
    /\ freeShipping' = [freeShipping EXCEPT ![o] = free]
    /\ offer' = [offer EXCEPT ![o] = NoPromo]
    /\ UNCHANGED <<paymentVars, stockVars, refundVars, events, claim,
                   voucherAllowed, promoCache, redeeming>>

\* CreateCustomOrder: an admin's cash or bank-invoice sale, born Confirmed and
\* paid.  Any adjustment of the cart is an error.
CreateCustomOrder(o, cart) ==
    /\ status[o] = "NoOrder"
    /\ InStock(cart) = cart
    /\ status' = [status EXCEPT ![o] = "Confirmed"]
    /\ items' = [items EXCEPT ![o] = cart]
    /\ paymentDone' = [paymentDone EXCEPT ![o] = TRUE]
    /\ amountDue' = [amountDue EXCEPT ![o] = TRUE]
    /\ ReduceStock(o, cart)
    /\ events' = [events EXCEPT ![o].paid = TRUE]
    /\ UNCHANGED <<promo, freeShipping, refundVars, claim, promoVars>>

\* SubmitOrder's best-effort ReservePackagingForOrder, a transaction of its
\* own after CreateOrder and before the invoice; the order's status is not
\* read.  It may fail, or the process may stop before it.
ReservePackagingForOrder(o) ==
    /\ status[o] \in {"Placed", "Cancelled"}
    /\ claim' = [claim EXCEPT ![o] = @ \cup {"reserve"}]
    /\ UNCHANGED <<orderVars, paymentVars, stockVars, refundVars, events,
                   promoVars>>

\* insertOrderInvoice when the locked revalidation finds that quantities no
\* longer fit the stock or that a price changed: the corrected lines and total
\* are committed, the order stays Placed and the caller has to come back.
InvoiceItemsUpdated(o, repriced, free) ==
    LET valid == InStock(items[o])
    IN  /\ status[o] = "Placed"
        /\ valid # Nothing
        /\ valid # items[o] \/ repriced
        /\ items' = [items EXCEPT ![o] = valid]
        /\ promo' = [promo EXCEPT ![o] = Applicable(promo[o])]
        /\ freeShipping' = [freeShipping EXCEPT ![o] = free]
        /\ UNCHANGED <<status, paymentVars, stockVars, refundVars, events,
                       claim, promoVars>>

\* insertOrderInvoice otherwise: stock is taken and payment awaited.
InvoiceIssued(o) ==
    /\ status[o] = "Placed"
    /\ InStock(items[o]) = items[o]
    /\ ReduceStock(o, items[o])
    /\ amountDue' = [amountDue EXCEPT ![o] = TRUE]
    /\ paymentDone' = [paymentDone EXCEPT ![o] = FALSE]
    /\ UpdateOrderStatus(o, "AwaitingPayment")
    /\ UNCHANGED <<items, promo, freeShipping, refundVars, events, claim,
                   promoVars>>

(***************************************************************************)
(* Payment                                                                 *)
(***************************************************************************)
\* disableVoucherInTx: the row is written in the transaction, the cache left to
\* the caller.
DisableVoucherInTx(o) ==
    /\ voucherAllowed' = [v \in Vouchers |-> voucherAllowed[v] /\ promo[o] # v]
    /\ redeeming' = IF promo[o] \in Vouchers THEN redeeming \cup {o} ELSE redeeming
    /\ UNCHANGED <<promoCache, offer>>

\* OrderPaymentDone up to its commit.
OrderPaymentDone(o) ==
    /\ status[o] = "AwaitingPayment"
    /\ DisableVoucherInTx(o)
    /\ UpdateOrderStatus(o, "Confirmed")
    /\ paymentDone' = [paymentDone EXCEPT ![o] = TRUE]
    /\ events' = [events EXCEPT ![o].paid = TRUE]
    /\ UNCHANGED <<items, promo, freeShipping, amountDue, stockVars,
                   refundVars, claim>>

\* Mutant: the cache keeps the voucher.
KeepCachedPromo(o) ==
    /\ o \in redeeming
    /\ redeeming' = redeeming \ {o}
    /\ UNCHANGED <<orderVars, paymentVars, stockVars, refundVars, events, claim,
                   voucherAllowed, promoCache, offer>>

\* OrderPaymentDone after its commit: cache.DisablePromo.
DisablePromo(o) ==
    /\ o \in redeeming
    /\ promoCache' = [promoCache EXCEPT ![promo[o]] = FALSE]
    /\ redeeming' = redeeming \ {o}
    /\ UNCHANGED <<orderVars, paymentVars, stockVars, refundVars, events, claim,
                   voucherAllowed, offer>>

\* The process stops, whatever it was about to do, and starts with the promo
\* cache loaded from the database (InitConsts).
Restart ==
    /\ promoCache' = voucherAllowed
    /\ offer' = [o \in Orders |-> NoPromo]
    /\ redeeming' = {}
    /\ UNCHANGED <<orderVars, paymentVars, stockVars, refundVars, events, claim,
                   voucherAllowed>>

\* ExpireOrderPayment: from the monitor, the cleanup worker or the customer's
\* own CancelOrderInvoice.
ExpireOrderPayment(o) ==
    /\ status[o] = "AwaitingPayment"
    /\ ~paymentDone[o]
    /\ amountDue' = [amountDue EXCEPT ![o] = FALSE]
    /\ RestoreStock(o, items[o])
    /\ ReleaseOpenClaims(o)
    /\ UpdateOrderStatus(o, "Cancelled")
    /\ promo' = [promo EXCEPT ![o] = NoPromo]
    /\ UNCHANGED <<items, freeShipping, paymentDone, refundVars, events,
                   promoVars>>

(***************************************************************************)
(* Cancelling (refund.go cancelOrder)                                      *)
(***************************************************************************)
\* Mutant: every cancelled order puts its units back.
AlwaysRestored(o) == items[o]

\* stockRestoreModeForCancel: only a Placed order holds no stock yet.
RestoredOnCancel(o) == IF status[o] = "Placed" THEN Nothing ELSE items[o]

\* cancelOrder: no-op on Cancelled, refused once confirmed; a PendingReturn or
\* RefundInProgress order passes its own check and fails on the table.
CancelOrder(o) ==
    /\ status[o] \notin {"NoOrder", "Cancelled", "Refunded",
                         "PartiallyRefunded", "Delivered", "Shipped",
                         "Confirmed"}
    /\ RestoreStock(o, RestoredOnCancel(o))
    /\ promo' = [promo EXCEPT ![o] = NoPromo]
    /\ UpdateOrderStatus(o, "Cancelled")
    /\ ReleaseOpenClaims(o)
    /\ UNCHANGED <<items, freeShipping, paymentVars, refundVars, events,
                   promoVars>>

\* CancelOrderByUser of a paid order asks for the money or the return: a raw
\* status update that does not consult the transition table.
RequestRefundByUser(o) ==
    /\ status[o] \in {"Confirmed", "Shipped", "Delivered"}
    /\ status' = [status EXCEPT ![o] = IF @ = "Confirmed"
                                       THEN "RefundInProgress"
                                       ELSE "PendingReturn"]
    /\ UNCHANGED <<items, promo, freeShipping, paymentVars, stockVars,
                   refundVars, events, claim, promoVars>>

CancelOrderByUser(o) ==
    \/ status[o] \in {"Placed", "AwaitingPayment"} /\ CancelOrder(o)
    \/ RequestRefundByUser(o)

(***************************************************************************)
(* Shipping and delivery (lifecycle.go)                                    *)
(***************************************************************************)
\* SetTrackingNumber accepts Shipped too, but the table then refuses.
SetTrackingNumber(o) ==
    /\ status[o] \in {"Confirmed", "Shipped"}
    /\ UpdateOrderStatus(o, "Shipped")
    /\ events' = [events EXCEPT ![o].shipped = TRUE]
    /\ UNCHANGED <<items, promo, freeShipping, paymentVars, stockVars,
                   refundVars, claim, promoVars>>

\* The shipping handler's ConsumePackagingForOrder, best effort and in a
\* transaction of its own, once per order.
ConsumePackagingForOrder(o) ==
    /\ events[o].shipped
    /\ "consume" \notin claim[o]
    /\ claim' = [claim EXCEPT ![o] = @ \cup {"consume"}]
    /\ UNCHANGED <<orderVars, paymentVars, stockVars, refundVars, events,
                   promoVars>>

\* DeliverOrderWithSource: the worker, the carrier's webhook or an admin.
DeliverOrderWithSource(o) ==
    /\ status[o] \in {"Confirmed", "Shipped"}
    /\ UpdateOrderStatus(o, "Delivered")
    /\ events' = [events EXCEPT ![o].delivered = TRUE]
    /\ UNCHANGED <<items, promo, freeShipping, paymentVars, stockVars,
                   refundVars, claim, promoVars>>

SetOrderStatusToPendingReturn(o) ==
    /\ UpdateOrderStatus(o, "PendingReturn")
    /\ UNCHANGED <<items, promo, freeShipping, paymentVars, stockVars,
                   refundVars, events, claim, promoVars>>

(***************************************************************************)
(* Refunds (lifecycle.go RefundOrder)                                      *)
(***************************************************************************)
RefundableStatuses ==
    {"RefundInProgress", "PendingReturn", "Delivered", "Confirmed",
     "PartiallyRefunded"}

\* Mutant: earlier refunds are forgotten.
RemainingOfAll(o) == items[o]

Remaining(o) == [l \in Lines |-> items[o][l] - ledger[o][l]]

\* validateAndMapOrderItems: ids of other orders' lines are skipped; what is
\* left must name something, and no more than remains of it.
Requested(o, ask) == [l \in Lines |-> IF items[o][l] > 0 THEN ask[l] ELSE 0]
ValidRequest(o, ask) ==
    /\ Requested(o, ask) # Nothing
    /\ \A l \in Lines : Requested(o, ask)[l] <= Remaining(o)[l]

\* Mutant: the fee is paid back with every refund that asks for it.
FeeEveryTime(o, refundShipping) == refundShipping /\ ~freeShipping[o]

\* The shipping fee is part of this refund.
FeeDue(o, refundShipping) ==
    refundShipping /\ ~shippingRefunded[o] /\ ~freeShipping[o]

\* RefundOrder.  `ask` is Nothing for a full refund (no ids in the request).
\* `units` is what determineRefundScope picks.
RefundOrder(o, ask, refundShipping, disposition) ==
    LET units == IF ask = Nothing THEN Remaining(o) ELSE Requested(o, ask)
        fee == FeeDue(o, refundShipping)
    IN  /\ status[o] \in RefundableStatuses
        /\ status[o] = "Confirmed" => disposition = "restock" /\ ask = Nothing
        /\ ask = Nothing \/ ValidRequest(o, ask)
        /\ RestoreStock(o, Returned(units, disposition))
        /\ ReleaseOpenClaims(o)
        /\ ledger' = [ledger EXCEPT ![o] = Plus(@, units)]
        /\ shippingRefunded' = [shippingRefunded EXCEPT ![o] = @ \/ fee]
        /\ refundedAmount' = [refundedAmount EXCEPT ![o] =
              [goods |-> Plus(@.goods, units),
               shipping |-> @.shipping + (IF fee THEN 1 ELSE 0)]]
        /\ UpdateOrderStatus(o, IF units = Remaining(o) THEN "Refunded"
                                                        ELSE "PartiallyRefunded")
        /\ refundEvents' = [refundEvents EXCEPT ![o] =
              [count |-> @.count + 1,
               units |-> [refundEvents[o].units EXCEPT ![disposition] = Plus(@, units)]]]
        /\ UNCHANGED <<items, promo, freeShipping, paymentVars, events,
                       promoVars>>

(***************************************************************************)
(* Manual stock corrections (UpdateProductSizeStockWithHistory), grade A   *)
(***************************************************************************)
UpdateProductSizeStock(s, after) ==
    LET l == <<s, "A">>
    IN  /\ stock' = [stock EXCEPT ![l] = after]
        /\ manualJournal' = [manualJournal EXCEPT ![l] = @ + (after - stock[l])]
        /\ UNCHANGED <<orderVars, paymentVars, journal, refundVars, events,
                       claim, promoVars>>

----------------------------------------------------------------------------
Next ==
    \/ \E o \in Orders :
        \/ \E v \in Vouchers \cup {NoPromo} : GetPromoByCode(o, v)
        \/ \E cart \in Carts, free \in BOOLEAN : CreateOrder(o, cart, free)
        \/ \E cart \in Carts : CreateCustomOrder(o, cart)
        \/ ReservePackagingForOrder(o)
        \/ \E repriced, free \in BOOLEAN : InvoiceItemsUpdated(o, repriced, free)
        \/ InvoiceIssued(o)
        \/ OrderPaymentDone(o)
        \/ DisablePromo(o)
        \/ ExpireOrderPayment(o)
        \/ CancelOrder(o)
        \/ CancelOrderByUser(o)
        \/ SetTrackingNumber(o)
        \/ ConsumePackagingForOrder(o)
        \/ DeliverOrderWithSource(o)
        \/ SetOrderStatusToPendingReturn(o)
        \/ \E ask \in [Lines -> 0 .. MaxQty], refundShipping \in BOOLEAN,
              disposition \in Dispositions :
              RefundOrder(o, ask, refundShipping, disposition)
    \/ \E s \in Skus, after \in 0 .. MaxStock : UpdateProductSizeStock(s, after)
    \/ Restart

Spec == Init /\ [][Next]_vars

(***************************************************************************)
(* Correctness                                                             *)
(***************************************************************************)
TypeOK ==
    /\ status \in [Orders -> Promise!Statuses]
    /\ items \in [Orders -> Quantities]
    /\ promo \in [Orders -> Vouchers \cup {NoPromo}]
    /\ freeShipping \in [Orders -> BOOLEAN]
    /\ paymentDone \in [Orders -> BOOLEAN]
    /\ amountDue \in [Orders -> BOOLEAN]
    /\ stock \in Quantities
    /\ journal \in [Orders -> [Lines -> Int]]
    /\ manualJournal \in [Lines -> Int]
    /\ ledger \in [Orders -> Quantities]
    /\ refundedAmount \in [Orders -> Amounts]
    /\ shippingRefunded \in [Orders -> BOOLEAN]
    /\ events \in [Orders -> Events]
    /\ refundEvents \in [Orders -> RefundRows]
    /\ claim \in [Orders -> SUBSET ClaimEvents]
    /\ voucherAllowed \in [Vouchers -> BOOLEAN]
    /\ promoCache \in [Vouchers -> BOOLEAN]
    /\ offer \in [Orders -> Vouchers \cup {NoPromo}]
    /\ redeeming \subseteq Orders

\* Units of a line an order has taken out of stock in its whole life: all its
\* units once it is invoiced or sold, none before that or once it is cancelled.
Taken(o, l) ==
    IF status[o] \in {"NoOrder", "Placed", "Cancelled"} THEN 0 ELSE items[o][l]

\* Units the outbox says came back to the row l, under the booked dispositions.
BookedBack(o, l) ==
    LET booked == refundEvents[o].units
    IN  booked["restock"][l]
          + (IF l[2] = "B"
             THEN booked["seconds"][<<l[1], "A">>] + booked["seconds"][<<l[1], "B">>]
             ELSE 0)

\* For every order and stock row, the order's stock journal nets to what the
\* order took minus what the accounting outbox says came back: whatever mix of
\* invoicing, expiry, cancelling and partial refunds an order goes through, no
\* unit is restored twice, lost, or booked otherwise than it was shelved
\* (cancelOrder, ExpireOrderPayment and RefundOrder against insertOrderInvoice).
StockMatchesBooks ==
    \A o \in Orders, l \in Lines :
        journal[o][l] = BookedBack(o, l) - Taken(o, l)

\* The refund ledger never exceeds the order's lines, and the status tells how
\* far it got: Refunded exactly when every unit is in it, PartiallyRefunded
\* with something in it and something left, empty in every other status
\* (determineRefundScope and refundCoversFullOrder over repeated refunds).
LedgerFollowsStatus ==
    \A o \in Orders :
        /\ \A l \in Lines : ledger[o][l] <= items[o][l]
        /\ status[o] = "Refunded" => ledger[o] = items[o]
        /\ status[o] = "PartiallyRefunded" =>
              ledger[o] # Nothing /\ ledger[o] # items[o]
        /\ status[o] \notin {"Refunded", "PartiallyRefunded"} =>
              ledger[o] = Nothing

\* However many refunds an order goes through, the accumulated refunded_amount
\* pays for exactly the units in the ledger plus the shipping fee at most once,
\* never on a free-shipping order, and the outbox payloads add up to the same
\* units (RefundOrder's accumulation against the ledger it writes).
RefundedAmountIsDue ==
    \A o \in Orders :
        /\ \A l \in Lines :
              /\ refundedAmount[o].goods[l] = ledger[o][l]
              /\ refundedAmount[o].goods[l] = refundEvents[o].units["restock"][l]
                                              + refundEvents[o].units["writeoff"][l]
                                              + refundEvents[o].units["seconds"][l]
        /\ refundedAmount[o].shipping = IF shippingRefunded[o] THEN 1 ELSE 0
        /\ freeShipping[o] => ~shippingRefunded[o]

\* The outbox tells accounting the order's story: order_paid exactly for orders
\* whose payment row is done and whose status says sold, order_shipped for
\* every order that left and only for sold ones, order_delivered only after
\* order_shipped, refund rows exactly when the ledger has units
\* (EnqueueEvent's callers over every path an order can take).
OutboxFollowsOrder ==
    \A o \in Orders :
        /\ events[o].paid <=> status[o] \in Promise!SoldStatuses
        /\ events[o].paid <=> paymentDone[o]
        /\ status[o] \in {"Shipped", "Delivered", "PendingReturn"} => events[o].shipped
        /\ events[o].shipped => events[o].paid
        /\ events[o].delivered => events[o].shipped
        /\ refundEvents[o].count > 0 <=> ledger[o] # Nothing

\* An order that gave units back keeps no soft claim on packaging, whenever the
\* claim was taken and whether or not the parcel's packaging was consumed
\* (releaseOpenPackagingClaims in RefundOrder).
RefundedHoldsNoPackaging ==
    \A o \in Orders : ledger[o] # Nothing => ~OpenClaim(o)

\* Once an order has paid with a voucher, the voucher reaches another order only
\* through the promo cache and only late: a CreateOrder reads it while that
\* payment's cache update is still to come, and keeps what it read until it
\* commits.  No other step gives the voucher out: not a restart, and not the
\* revalidation of an order that already has it, which drops it
\* (disableVoucherInTx, cache.DisablePromo after the commit, CreateOrder's
\* cache.GetPromoByCode, updateTotalAmount).
RedeemedVoucherNotGiven ==
    [][\A o, p \in Orders :
          promo[p] \in Vouchers /\ events[p].paid =>
             /\ offer'[o] = promo[p] => offer[o] = promo[p] \/ p \in redeeming
             /\ promo'[o] = promo[p] =>
                   \/ status[o] = "NoOrder" /\ offer[o] = promo[p]
                   \/ /\ promo[o] = promo[p]
                      /\ items'[o] = items[o]
                      /\ freeShipping'[o] = freeShipping[o]]_vars

\* Stock only moves with its journal: a step moves the quantity of a row by
\* exactly the manual rows it writes plus the rows it writes for one order, so
\* the per-source totals of the stock report always add up to what is on hand
\* (refund.go: a silent restore left the report wrong).
StockMovesAreJournalled ==
    [][\A l \in Lines :
          \/ stock'[l] - stock[l] = manualJournal'[l] - manualJournal[l]
             /\ \A o \in Orders : journal'[o][l] = journal[o][l]
          \/ /\ manualJournal'[l] = manualJournal[l]
             /\ \E o \in Orders :
                   /\ stock'[l] - stock[l] = journal'[o][l] - journal[o][l]
                   /\ \A p \in Orders \ {o} : journal'[p][l] = journal[p][l]]_vars

\* The stock report: on every row the journal of all orders and of the manual
\* corrections adds up to what is on hand.
JournalAddsUp ==
    \A l \in Lines :
        stock[l] = InitStock[l] + manualJournal[l]
                     + SumFunctionOnSet([o \in Orders |-> journal[o][l]], Orders)

\* Every step of the store is a step of the promised life of an order, or
\* changes nothing of it: the raw status updates of CancelOrderByUser, the
\* transition table and the early returns together keep the promise.
KeepsPromise == Promise!AbsSpec
============================================================================
