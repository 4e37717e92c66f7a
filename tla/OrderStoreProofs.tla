-------------------------- MODULE OrderStoreProofs --------------------------
(***************************************************************************)
(* Proofs about OrderStore for any number of orders, lines, vouchers and    *)
(* any quantities.                                                          *)
(***************************************************************************)
EXTENDS OrderStore, SumTheorems, TLAPS

\* What the other invariants do not say and the induction needs: an order that
\* exists has something in it, one that does not has no promo and no shipping
\* terms, and an order not sold has had no shipping fee refunded.
OrderShape ==
    \A o \in Orders :
        /\ status[o] # "NoOrder" => items[o] # Nothing
        /\ status[o] = "NoOrder" => promo[o] = NoPromo /\ items[o] = Nothing
        /\ status[o] \notin Promise!SoldStatuses => ~shippingRefunded[o]

\* A voucher a paid order used is off in the promo_code row, and off in the cache
\* as well unless that order's cache update is still to come.
VoucherBooks ==
    \A o \in Orders :
        promo[o] \in Vouchers /\ events[o].paid =>
            /\ ~voucherAllowed[promo[o]]
            /\ o \in redeeming \/ ~promoCache[promo[o]]

\* The inductive invariant: what the runs check of the store, with OrderShape and
\* VoucherBooks.
IndInv ==
    /\ TypeOK
    /\ OrderShape
    /\ LedgerFollowsStatus
    /\ RefundedAmountIsDue
    /\ OutboxFollowsOrder
    /\ StockMatchesBooks
    /\ RefundedHoldsNoPackaging
    /\ VoucherBooks

(***************************************************************************)
(* Operators                                                               *)
(***************************************************************************)
\* Every line has its grade A and grade B rows.
LEMMA RowsOfLine ==
    \A l \in Lines : <<l[1], "A">> \in Lines /\ <<l[1], "B">> \in Lines
BY DEF Lines, Grades

\* An empty cart is a quantity on every line.
LEMMA NothingType == Nothing \in Quantities
BY DEF Nothing, Quantities

\* Stock validation never makes a cart larger or negative.
LEMMA InStockType ==
    ASSUME stock \in Quantities, NEW cart \in Quantities
    PROVE  InStock(cart) \in Quantities
BY DEF InStock, Quantities

\* Every cart is a quantity on every line.
LEMMA CartType == Carts \subseteq Quantities
BY ConstantsAssumption DEF Carts, Quantities

\* What a refund shelves is a quantity on every line, whatever the disposition.
LEMMA ReturnedType ==
    ASSUME NEW units \in Quantities, NEW d \in Dispositions
    PROVE  Returned(units, d) \in Quantities
BY RowsOfLine DEF Returned, Quantities

\* What is left to refund is a quantity as long as the ledger is within the
\* order's lines, and so is what a valid request picks.
LEMMA RemainingType ==
    ASSUME TypeOK, LedgerFollowsStatus, NEW o \in Orders
    PROVE  Remaining(o) \in Quantities
BY DEF TypeOK, LedgerFollowsStatus, Remaining, Quantities

\* What a request names of an order's own lines is a quantity on every line.
LEMMA RequestedType ==
    ASSUME NEW o \in Orders, NEW ask \in [Lines -> 0 .. MaxQty]
    PROVE  Requested(o, ask) \in Quantities
BY ConstantsAssumption DEF Requested, Quantities

\* Units booked as back on the shelf are an integer.
LEMMA BookedBackType ==
    ASSUME TypeOK, NEW o \in Orders, NEW l \in Lines
    PROVE  BookedBack(o, l) \in Int
<1>1. refundEvents[o].units["restock"] \in Quantities
    BY DEF TypeOK, RefundRows, Dispositions
<1>2. refundEvents[o].units["seconds"] \in Quantities
    BY DEF TypeOK, RefundRows, Dispositions
<1>. QED
    BY <1>1, <1>2, RowsOfLine DEF BookedBack, Quantities

\* Stock taken stays a quantity, and the journal loses what the stock loses.
LEMMA ReduceStockEffect ==
    ASSUME TypeOK, NEW o \in Orders, NEW units \in Quantities, ReduceStock(o, units)
    PROVE  /\ stock' \in Quantities
           /\ journal' \in [Orders -> [Lines -> Int]]
           /\ manualJournal' = manualJournal
           /\ \A p \in Orders, l \in Lines :
                 journal'[p][l] = IF p = o THEN journal[p][l] - units[l]
                                           ELSE journal[p][l]
BY DEF TypeOK, ReduceStock, Quantities

\* Stock restored stays a quantity, and the journal gains what the stock gains.
LEMMA RestoreStockEffect ==
    ASSUME TypeOK, NEW o \in Orders, NEW back \in Quantities, RestoreStock(o, back)
    PROVE  /\ stock' \in Quantities
           /\ journal' \in [Orders -> [Lines -> Int]]
           /\ manualJournal' = manualJournal
           /\ \A p \in Orders, l \in Lines :
                 journal'[p][l] = IF p = o THEN journal[p][l] + back[l]
                                           ELSE journal[p][l]
BY DEF TypeOK, RestoreStock, Plus, Quantities

(***************************************************************************)
(* Steps                                                                   *)
(***************************************************************************)
\* CreateOrder preserves the invariant: a Placed order holds no stock and owes
\* the books nothing.
LEMMA CreateOrderStep ==
    ASSUME IndInv, NEW o \in Orders, NEW cart \in Carts,
           NEW free \in BOOLEAN, CreateOrder(o, cart, free)
    PROVE  IndInv'
<1>. InStock(cart) \in Quantities
    BY InStockType, CartType DEF IndInv, TypeOK
<1>. USE DEF IndInv, TypeOK, CreateOrder, Applicable, paymentVars, stockVars, refundVars, promoVars
<1>1. TypeOK'
    BY DEF Promise!Statuses
<1>2. OrderShape'
    BY DEF OrderShape, Promise!SoldStatuses
<1>3. LedgerFollowsStatus'
    BY DEF LedgerFollowsStatus, Nothing, Quantities
<1>4. RefundedAmountIsDue'
    BY DEF RefundedAmountIsDue, OrderShape, Promise!SoldStatuses
<1>5. OutboxFollowsOrder'
    BY DEF OutboxFollowsOrder, Promise!SoldStatuses
<1>6. StockMatchesBooks'
    BY DEF StockMatchesBooks, Taken, BookedBack
<1>7. RefundedHoldsNoPackaging'
    BY DEF RefundedHoldsNoPackaging, LedgerFollowsStatus, OpenClaim
<1>8. VoucherBooks'
    BY DEF VoucherBooks, OutboxFollowsOrder, OrderShape, Promise!SoldStatuses
<1>. QED
    BY <1>1, <1>2, <1>3, <1>4, <1>5, <1>6, <1>7, <1>8

\* CreateCustomOrder preserves the invariant: the units taken are journalled, and
\* the order is sold and paid at once, without a voucher.
LEMMA CreateCustomOrderStep ==
    ASSUME IndInv, NEW o \in Orders, NEW cart \in Carts,
           CreateCustomOrder(o, cart)
    PROVE  IndInv'
<1>. cart \in Quantities /\ cart # Nothing
    BY CartType DEF Carts
<1>0. /\ stock' \in Quantities
      /\ journal' \in [Orders -> [Lines -> Int]]
      /\ manualJournal' = manualJournal
    BY ReduceStockEffect DEF IndInv, CreateCustomOrder
<1>. USE DEF IndInv, TypeOK, CreateCustomOrder, ReduceStock, refundVars, promoVars
<1>1. TypeOK'
    <2>1. events' \in [Orders -> Events]
        BY DEF Events
    <2>2. /\ status' \in [Orders -> Promise!Statuses]
          /\ items' \in [Orders -> Quantities]
          /\ paymentDone' \in [Orders -> BOOLEAN]
          /\ amountDue' \in [Orders -> BOOLEAN]
        BY DEF Promise!Statuses
    <2>. QED
        BY <1>0, <2>1, <2>2
<1>2. OrderShape'
    BY DEF OrderShape, Promise!SoldStatuses
<1>3. LedgerFollowsStatus'
    BY DEF LedgerFollowsStatus, Nothing, Quantities
<1>4. RefundedAmountIsDue'
    BY DEF RefundedAmountIsDue, OrderShape, Promise!SoldStatuses
<1>5. OutboxFollowsOrder'
    BY DEF OutboxFollowsOrder, Promise!SoldStatuses
<1>6. StockMatchesBooks'
    <2>. SUFFICES ASSUME NEW p \in Orders, NEW l \in Lines
                  PROVE  journal'[p][l] = BookedBack(p, l)' - Taken(p, l)'
        BY DEF StockMatchesBooks
    <2>1. BookedBack(p, l)' = BookedBack(p, l) /\ BookedBack(p, l) \in Int
        BY BookedBackType DEF BookedBack
    <2>2. Taken(p, l)' = IF p = o THEN cart[l] ELSE Taken(p, l)
        BY DEF Taken
    <2>3. journal[p][l] = BookedBack(p, l) - Taken(p, l)
        BY DEF StockMatchesBooks
    <2>. QED
        BY <2>1, <2>2, <2>3, ReduceStockEffect DEF Taken, Nothing, Quantities
<1>7. RefundedHoldsNoPackaging'
    BY DEF RefundedHoldsNoPackaging, LedgerFollowsStatus, OpenClaim
<1>8. VoucherBooks'
    BY ConstantsAssumption DEF VoucherBooks, OutboxFollowsOrder, OrderShape, Promise!SoldStatuses
<1>. QED
    BY <1>1, <1>2, <1>3, <1>4, <1>5, <1>6, <1>7, <1>8

\* ReservePackagingForOrder preserves the invariant: it reaches only orders
\* nothing was refunded of.
LEMMA ReservePackagingStep ==
    ASSUME IndInv, NEW o \in Orders,
           ReservePackagingForOrder(o)
    PROVE  IndInv'
<1>. USE DEF IndInv, TypeOK, ReservePackagingForOrder, orderVars, paymentVars, stockVars, refundVars, promoVars, ClaimEvents
<1>1. TypeOK'
    BY DEF Promise!Statuses
<1>2. OrderShape'
    BY DEF OrderShape, Promise!SoldStatuses
<1>3. LedgerFollowsStatus'
    BY DEF LedgerFollowsStatus, Nothing, Quantities
<1>4. RefundedAmountIsDue'
    BY DEF RefundedAmountIsDue, OrderShape, Promise!SoldStatuses
<1>5. OutboxFollowsOrder'
    BY DEF OutboxFollowsOrder, Promise!SoldStatuses
<1>6. StockMatchesBooks'
    BY DEF StockMatchesBooks, Taken, BookedBack
<1>7. RefundedHoldsNoPackaging'
    BY DEF RefundedHoldsNoPackaging, LedgerFollowsStatus, OpenClaim
<1>8. VoucherBooks'
    BY DEF VoucherBooks, OutboxFollowsOrder, OrderShape, Promise!SoldStatuses
<1>. QED
    BY <1>1, <1>2, <1>3, <1>4, <1>5, <1>6, <1>7, <1>8

\* InvoiceItemsUpdated preserves the invariant: the lines change while the order
\* is Placed, before they are taken from stock.
LEMMA InvoiceItemsUpdatedStep ==
    ASSUME IndInv, NEW o \in Orders,
           NEW repriced \in BOOLEAN, NEW free \in BOOLEAN,
           InvoiceItemsUpdated(o, repriced, free)
    PROVE  IndInv'
<1>. InStock(items[o]) \in Quantities
    BY InStockType DEF IndInv, TypeOK
<1>. USE DEF IndInv, TypeOK, InvoiceItemsUpdated, Applicable, paymentVars, stockVars, refundVars, promoVars
<1>1. TypeOK'
    BY DEF Promise!Statuses
<1>2. OrderShape'
    BY DEF OrderShape, Promise!SoldStatuses
<1>3. LedgerFollowsStatus'
    BY DEF LedgerFollowsStatus, Nothing, Quantities
<1>4. RefundedAmountIsDue'
    BY DEF RefundedAmountIsDue, OrderShape, Promise!SoldStatuses
<1>5. OutboxFollowsOrder'
    BY DEF OutboxFollowsOrder, Promise!SoldStatuses
<1>6. StockMatchesBooks'
    BY DEF StockMatchesBooks, Taken, BookedBack
<1>7. RefundedHoldsNoPackaging'
    BY DEF RefundedHoldsNoPackaging, LedgerFollowsStatus, OpenClaim
<1>8. VoucherBooks'
    BY DEF VoucherBooks, OutboxFollowsOrder, OrderShape, Promise!SoldStatuses
<1>. QED
    BY <1>1, <1>2, <1>3, <1>4, <1>5, <1>6, <1>7, <1>8

\* InvoiceIssued preserves the invariant: the journal loses the units the order
\* now counts as taken.
LEMMA InvoiceIssuedStep ==
    ASSUME IndInv, NEW o \in Orders, InvoiceIssued(o)
    PROVE  IndInv'
<1>. USE DEF IndInv, TypeOK, InvoiceIssued, ReduceStock, UpdateOrderStatus, refundVars, promoVars
<1>1. TypeOK'
    BY DEF Promise!Statuses, Quantities
<1>2. OrderShape'
    BY DEF OrderShape, Promise!SoldStatuses
<1>3. LedgerFollowsStatus'
    BY DEF LedgerFollowsStatus, Nothing, Quantities
<1>4. RefundedAmountIsDue'
    BY DEF RefundedAmountIsDue, OrderShape, Promise!SoldStatuses
<1>5. OutboxFollowsOrder'
    BY DEF OutboxFollowsOrder, Promise!SoldStatuses
<1>6. StockMatchesBooks'
    <2>. SUFFICES ASSUME NEW p \in Orders, NEW l \in Lines
                  PROVE  journal'[p][l] = BookedBack(p, l)' - Taken(p, l)'
        BY DEF StockMatchesBooks
    <2>1. BookedBack(p, l)' = BookedBack(p, l) /\ BookedBack(p, l) \in Int
        BY BookedBackType DEF BookedBack
    <2>2. Taken(p, l)' = IF p = o THEN items[o][l] ELSE Taken(p, l)
        BY DEF Taken
    <2>3. journal[p][l] = BookedBack(p, l) - Taken(p, l)
        BY DEF StockMatchesBooks
    <2>. QED
        BY <2>1, <2>2, <2>3, ReduceStockEffect DEF Taken, Nothing, Quantities
<1>7. RefundedHoldsNoPackaging'
    BY DEF RefundedHoldsNoPackaging, LedgerFollowsStatus, OpenClaim
<1>8. VoucherBooks'
    BY DEF VoucherBooks, OutboxFollowsOrder, OrderShape, Promise!SoldStatuses
<1>. QED
    BY <1>1, <1>2, <1>3, <1>4, <1>5, <1>6, <1>7, <1>8

\* OrderPaymentDone preserves the invariant: payment row, outbox row and status
\* change together, and the redeemed voucher is disabled.
LEMMA OrderPaymentDoneStep ==
    ASSUME IndInv, NEW o \in Orders, OrderPaymentDone(o)
    PROVE  IndInv'
<1>. USE DEF IndInv, TypeOK, OrderPaymentDone, DisableVoucherInTx, UpdateOrderStatus, stockVars, refundVars, promoVars, Events
<1>1. TypeOK'
    BY DEF Promise!Statuses
<1>2. OrderShape'
    BY DEF OrderShape, Promise!SoldStatuses
<1>3. LedgerFollowsStatus'
    BY DEF LedgerFollowsStatus, Nothing, Quantities
<1>4. RefundedAmountIsDue'
    BY DEF RefundedAmountIsDue, OrderShape, Promise!SoldStatuses
<1>5. OutboxFollowsOrder'
    BY DEF OutboxFollowsOrder, Promise!SoldStatuses
<1>6. StockMatchesBooks'
    BY DEF StockMatchesBooks, Taken, BookedBack
<1>7. RefundedHoldsNoPackaging'
    BY DEF RefundedHoldsNoPackaging, LedgerFollowsStatus, OpenClaim
<1>8. VoucherBooks'
    BY DEF VoucherBooks, OutboxFollowsOrder, OrderShape, Promise!SoldStatuses
<1>. QED
    BY <1>1, <1>2, <1>3, <1>4, <1>5, <1>6, <1>7, <1>8

\* ExpireOrderPayment preserves the invariant: what the invoice took comes back.
LEMMA ExpireOrderPaymentStep ==
    ASSUME IndInv, NEW o \in Orders, ExpireOrderPayment(o)
    PROVE  IndInv'
<1>. USE DEF IndInv, TypeOK, ExpireOrderPayment, RestoreStock, Plus, ReleaseOpenClaims, UpdateOrderStatus, refundVars, promoVars
<1>1. TypeOK'
    BY DEF Promise!Statuses, Quantities, ClaimEvents
<1>2. OrderShape'
    BY DEF OrderShape, Promise!SoldStatuses
<1>3. LedgerFollowsStatus'
    BY DEF LedgerFollowsStatus, Nothing, Quantities
<1>4. RefundedAmountIsDue'
    BY DEF RefundedAmountIsDue, OrderShape, Promise!SoldStatuses
<1>5. OutboxFollowsOrder'
    BY DEF OutboxFollowsOrder, Promise!SoldStatuses
<1>6. StockMatchesBooks'
    <2>. SUFFICES ASSUME NEW p \in Orders, NEW l \in Lines
                  PROVE  journal'[p][l] = BookedBack(p, l)' - Taken(p, l)'
        BY DEF StockMatchesBooks
    <2>1. BookedBack(p, l)' = BookedBack(p, l) /\ BookedBack(p, l) \in Int
        BY BookedBackType DEF BookedBack
    <2>2. Taken(p, l)' = IF p = o THEN 0 ELSE Taken(p, l)
        BY DEF Taken
    <2>3. journal[p][l] = BookedBack(p, l) - Taken(p, l)
        BY DEF StockMatchesBooks
    <2>. QED
        BY <2>1, <2>2, <2>3, RestoreStockEffect DEF Taken, Nothing, Quantities
<1>7. RefundedHoldsNoPackaging'
    BY DEF RefundedHoldsNoPackaging, LedgerFollowsStatus, OpenClaim
<1>8. VoucherBooks'
    BY DEF VoucherBooks, OutboxFollowsOrder, OrderShape, Promise!SoldStatuses
<1>. QED
    BY <1>1, <1>2, <1>3, <1>4, <1>5, <1>6, <1>7, <1>8

\* CancelOrder preserves the invariant: units come back only if they were taken.
LEMMA CancelOrderStep ==
    ASSUME IndInv, NEW o \in Orders, CancelOrder(o)
    PROVE  IndInv'
<1>. USE DEF IndInv, TypeOK, CancelOrder, RestoredOnCancel, RestoreStock, Plus, ReleaseOpenClaims, UpdateOrderStatus,
    ValidStatusTransitions, paymentVars, refundVars, promoVars
<1>1. TypeOK'
    BY DEF Promise!Statuses, Quantities, ClaimEvents, Nothing
<1>2. OrderShape'
    BY DEF OrderShape, Promise!SoldStatuses
<1>3. LedgerFollowsStatus'
    BY DEF LedgerFollowsStatus, Nothing, Quantities
<1>4. RefundedAmountIsDue'
    BY DEF RefundedAmountIsDue, OrderShape, Promise!SoldStatuses
<1>5. OutboxFollowsOrder'
    BY DEF OutboxFollowsOrder, Promise!SoldStatuses
<1>6. StockMatchesBooks'
    <2>. SUFFICES ASSUME NEW p \in Orders, NEW l \in Lines
                  PROVE  journal'[p][l] = BookedBack(p, l)' - Taken(p, l)'
        BY DEF StockMatchesBooks
    <2>1. BookedBack(p, l)' = BookedBack(p, l) /\ BookedBack(p, l) \in Int
        BY BookedBackType DEF BookedBack
    <2>2. Taken(p, l)' = IF p = o THEN 0 ELSE Taken(p, l)
        BY DEF Taken
    <2>3. journal[p][l] = BookedBack(p, l) - Taken(p, l)
        BY DEF StockMatchesBooks
    <2>. QED
        BY <2>1, <2>2, <2>3, RestoreStockEffect, NothingType DEF Taken, Nothing, Quantities
<1>7. RefundedHoldsNoPackaging'
    BY DEF RefundedHoldsNoPackaging, LedgerFollowsStatus, OpenClaim
<1>8. VoucherBooks'
    BY DEF VoucherBooks, OutboxFollowsOrder, OrderShape, Promise!SoldStatuses
<1>. QED
    BY <1>1, <1>2, <1>3, <1>4, <1>5, <1>6, <1>7, <1>8

\* RequestRefundByUser preserves the invariant though it bypasses the table: the
\* order stays sold.
LEMMA RequestRefundStep ==
    ASSUME IndInv, NEW o \in Orders, RequestRefundByUser(o)
    PROVE  IndInv'
<1>. USE DEF IndInv, TypeOK, RequestRefundByUser, paymentVars, stockVars, refundVars, promoVars
<1>1. TypeOK'
    BY DEF Promise!Statuses
<1>2. OrderShape'
    BY DEF OrderShape, Promise!SoldStatuses
<1>3. LedgerFollowsStatus'
    BY DEF LedgerFollowsStatus, Nothing, Quantities
<1>4. RefundedAmountIsDue'
    BY DEF RefundedAmountIsDue, OrderShape, Promise!SoldStatuses
<1>5. OutboxFollowsOrder'
    BY DEF OutboxFollowsOrder, Promise!SoldStatuses
<1>6. StockMatchesBooks'
    BY DEF StockMatchesBooks, Taken, BookedBack
<1>7. RefundedHoldsNoPackaging'
    BY DEF RefundedHoldsNoPackaging, LedgerFollowsStatus, OpenClaim
<1>8. VoucherBooks'
    BY DEF VoucherBooks, OutboxFollowsOrder, OrderShape, Promise!SoldStatuses
<1>. QED
    BY <1>1, <1>2, <1>3, <1>4, <1>5, <1>6, <1>7, <1>8

\* SetTrackingNumber preserves the invariant: only a Confirmed order passes the
\* table, and it is sold.
LEMMA SetTrackingNumberStep ==
    ASSUME IndInv, NEW o \in Orders, SetTrackingNumber(o)
    PROVE  IndInv'
<1>. USE DEF IndInv, TypeOK, SetTrackingNumber, UpdateOrderStatus, ValidStatusTransitions, paymentVars, stockVars,
    refundVars, promoVars, Events
<1>1. TypeOK'
    BY DEF Promise!Statuses
<1>2. OrderShape'
    BY DEF OrderShape, Promise!SoldStatuses
<1>3. LedgerFollowsStatus'
    BY DEF LedgerFollowsStatus, Nothing, Quantities
<1>4. RefundedAmountIsDue'
    BY DEF RefundedAmountIsDue, OrderShape, Promise!SoldStatuses
<1>5. OutboxFollowsOrder'
    BY DEF OutboxFollowsOrder, Promise!SoldStatuses
<1>6. StockMatchesBooks'
    BY DEF StockMatchesBooks, Taken, BookedBack
<1>7. RefundedHoldsNoPackaging'
    BY DEF RefundedHoldsNoPackaging, LedgerFollowsStatus, OpenClaim
<1>8. VoucherBooks'
    BY DEF VoucherBooks, OutboxFollowsOrder, OrderShape, Promise!SoldStatuses
<1>. QED
    BY <1>1, <1>2, <1>3, <1>4, <1>5, <1>6, <1>7, <1>8

\* ConsumePackagingForOrder preserves the invariant: it closes a claim.
LEMMA ConsumePackagingStep ==
    ASSUME IndInv, NEW o \in Orders, ConsumePackagingForOrder(o)
    PROVE  IndInv'
<1>. USE DEF IndInv, TypeOK, ConsumePackagingForOrder, orderVars, paymentVars, stockVars, refundVars, promoVars, ClaimEvents
<1>1. TypeOK'
    BY DEF Promise!Statuses
<1>2. OrderShape'
    BY DEF OrderShape, Promise!SoldStatuses
<1>3. LedgerFollowsStatus'
    BY DEF LedgerFollowsStatus, Nothing, Quantities
<1>4. RefundedAmountIsDue'
    BY DEF RefundedAmountIsDue, OrderShape, Promise!SoldStatuses
<1>5. OutboxFollowsOrder'
    BY DEF OutboxFollowsOrder, Promise!SoldStatuses
<1>6. StockMatchesBooks'
    BY DEF StockMatchesBooks, Taken, BookedBack
<1>7. RefundedHoldsNoPackaging'
    BY DEF RefundedHoldsNoPackaging, LedgerFollowsStatus, OpenClaim
<1>8. VoucherBooks'
    BY DEF VoucherBooks, OutboxFollowsOrder, OrderShape, Promise!SoldStatuses
<1>. QED
    BY <1>1, <1>2, <1>3, <1>4, <1>5, <1>6, <1>7, <1>8

\* DeliverOrderWithSource preserves the invariant: only a Shipped order passes
\* the table, so order_shipped is there already.
LEMMA DeliverOrderStep ==
    ASSUME IndInv, NEW o \in Orders, DeliverOrderWithSource(o)
    PROVE  IndInv'
<1>. USE DEF IndInv, TypeOK, DeliverOrderWithSource, UpdateOrderStatus, ValidStatusTransitions, paymentVars, stockVars,
    refundVars, promoVars, Events
<1>1. TypeOK'
    BY DEF Promise!Statuses
<1>2. OrderShape'
    BY DEF OrderShape, Promise!SoldStatuses
<1>3. LedgerFollowsStatus'
    BY DEF LedgerFollowsStatus, Nothing, Quantities
<1>4. RefundedAmountIsDue'
    BY DEF RefundedAmountIsDue, OrderShape, Promise!SoldStatuses
<1>5. OutboxFollowsOrder'
    BY DEF OutboxFollowsOrder, Promise!SoldStatuses
<1>6. StockMatchesBooks'
    BY DEF StockMatchesBooks, Taken, BookedBack
<1>7. RefundedHoldsNoPackaging'
    BY DEF RefundedHoldsNoPackaging, LedgerFollowsStatus, OpenClaim
<1>8. VoucherBooks'
    BY DEF VoucherBooks, OutboxFollowsOrder, OrderShape, Promise!SoldStatuses
<1>. QED
    BY <1>1, <1>2, <1>3, <1>4, <1>5, <1>6, <1>7, <1>8

\* SetOrderStatusToPendingReturn preserves the invariant: the table lets only
\* orders through that left.
LEMMA PendingReturnStep ==
    ASSUME IndInv, NEW o \in Orders, SetOrderStatusToPendingReturn(o)
    PROVE  IndInv'
<1>. USE DEF IndInv, TypeOK, SetOrderStatusToPendingReturn, UpdateOrderStatus, ValidStatusTransitions, paymentVars,
    stockVars, refundVars, promoVars
<1>1. TypeOK'
    BY DEF Promise!Statuses
<1>2. OrderShape'
    BY DEF OrderShape, Promise!SoldStatuses
<1>3. LedgerFollowsStatus'
    BY DEF LedgerFollowsStatus, Nothing, Quantities
<1>4. RefundedAmountIsDue'
    BY DEF RefundedAmountIsDue, OrderShape, Promise!SoldStatuses
<1>5. OutboxFollowsOrder'
    BY DEF OutboxFollowsOrder, Promise!SoldStatuses
<1>6. StockMatchesBooks'
    BY DEF StockMatchesBooks, Taken, BookedBack
<1>7. RefundedHoldsNoPackaging'
    BY DEF RefundedHoldsNoPackaging, LedgerFollowsStatus, OpenClaim
<1>8. VoucherBooks'
    BY DEF VoucherBooks, OutboxFollowsOrder, OrderShape, Promise!SoldStatuses
<1>. QED
    BY <1>1, <1>2, <1>3, <1>4, <1>5, <1>6, <1>7, <1>8

\* UpdateProductSizeStock preserves the invariant: no order's journal moves.
LEMMA UpdateStockStep ==
    ASSUME IndInv, NEW s \in Skus, NEW after \in 0 .. MaxStock,
           UpdateProductSizeStock(s, after)
    PROVE  IndInv'
<1>. <<s, "A">> \in Lines
    BY DEF Lines, Grades
<1>. USE DEF IndInv, TypeOK, UpdateProductSizeStock, orderVars, paymentVars, refundVars, promoVars
<1>1. TypeOK'
    BY ConstantsAssumption DEF Quantities
<1>2. OrderShape'
    BY DEF OrderShape, Promise!SoldStatuses
<1>3. LedgerFollowsStatus'
    BY DEF LedgerFollowsStatus, Nothing, Quantities
<1>4. RefundedAmountIsDue'
    BY DEF RefundedAmountIsDue, OrderShape, Promise!SoldStatuses
<1>5. OutboxFollowsOrder'
    BY DEF OutboxFollowsOrder, Promise!SoldStatuses
<1>6. StockMatchesBooks'
    BY DEF StockMatchesBooks, Taken, BookedBack
<1>7. RefundedHoldsNoPackaging'
    BY DEF RefundedHoldsNoPackaging, LedgerFollowsStatus, OpenClaim
<1>8. VoucherBooks'
    BY DEF VoucherBooks, OutboxFollowsOrder, OrderShape, Promise!SoldStatuses
<1>. QED
    BY <1>1, <1>2, <1>3, <1>4, <1>5, <1>6, <1>7, <1>8

\* What a refund picks: some units, and no more than remain.
RefundUnits(o, ask) == IF ask = Nothing THEN Remaining(o) ELSE Requested(o, ask)

\* A refund the guards let through picks no more than remains of each line, and at
\* least one unit (determineRefundScope, validateAndMapOrderItems).
LEMMA RefundUnitsRemain ==
    ASSUME IndInv, NEW o \in Orders, NEW ask \in [Lines -> 0 .. MaxQty],
           status[o] \in RefundableStatuses,
           ask = Nothing \/ ValidRequest(o, ask)
    PROVE  /\ RefundUnits(o, ask) \in Quantities
           /\ RefundUnits(o, ask) # Nothing
           /\ \A l \in Lines :
                 ledger[o][l] + RefundUnits(o, ask)[l] <= items[o][l]
<1>1. Remaining(o) \in Quantities
    BY RemainingType DEF IndInv
<1>2. ledger[o] # items[o]
    BY DEF IndInv, OrderShape, LedgerFollowsStatus, RefundableStatuses
<1>3. Remaining(o) # Nothing
    <2>1. PICK l \in Lines : ledger[o][l] # items[o][l]
        BY <1>2 DEF IndInv, TypeOK, Quantities
    <2>2. ledger[o][l] \in Nat /\ items[o][l] \in Nat
        BY DEF IndInv, TypeOK, Quantities
    <2>. QED
        BY <2>1, <2>2 DEF Remaining, Nothing
<1>4. CASE ask = Nothing
    BY <1>1, <1>3, <1>4 DEF IndInv, TypeOK, Quantities, RefundUnits, Remaining
<1>5. CASE ask # Nothing
    <2>1. RefundUnits(o, ask) = Requested(o, ask) /\ ValidRequest(o, ask)
        BY <1>5 DEF RefundUnits
    <2>2. Requested(o, ask) \in Quantities
        BY RequestedType
    <2>3. ASSUME NEW l \in Lines
          PROVE  ledger[o][l] + Requested(o, ask)[l] <= items[o][l]
        <3>1. Requested(o, ask)[l] <= items[o][l] - ledger[o][l]
            BY <2>1 DEF ValidRequest, Remaining
        <3>2. /\ ledger[o][l] \in Nat /\ items[o][l] \in Nat
              /\ Requested(o, ask)[l] \in Nat
            BY <2>2 DEF IndInv, TypeOK, Quantities
        <3>. QED
            BY <3>1, <3>2
    <2>. QED
        BY <2>1, <2>2, <2>3 DEF ValidRequest
<1>. QED
    BY <1>4, <1>5

\* RefundOrder, full or partial, preserves the invariant: the units it picks go to
\* the ledger, the amount and the outbox alike, and back to stock as booked.
LEMMA RefundOrderStep ==
    ASSUME IndInv, NEW o \in Orders, NEW ask \in [Lines -> 0 .. MaxQty],
           NEW refundShipping \in BOOLEAN, NEW disposition \in Dispositions,
           RefundOrder(o, ask, refundShipping, disposition)
    PROVE  IndInv'
<1>. DEFINE units == RefundUnits(o, ask)
            fee == refundShipping /\ ~shippingRefunded[o] /\ ~freeShipping[o]
<1>1. /\ status[o] \in RefundableStatuses
      /\ RestoreStock(o, Returned(units, disposition))
      /\ ReleaseOpenClaims(o)
      /\ ledger' = [ledger EXCEPT ![o] = Plus(@, units)]
      /\ shippingRefunded' = [shippingRefunded EXCEPT ![o] = @ \/ fee]
      /\ refundedAmount' = [refundedAmount EXCEPT ![o] =
            [goods |-> Plus(@.goods, units),
             shipping |-> @.shipping + (IF fee THEN 1 ELSE 0)]]
      /\ UpdateOrderStatus(o, IF units = Remaining(o) THEN "Refunded"
                                                      ELSE "PartiallyRefunded")
      /\ refundEvents' = [refundEvents EXCEPT ![o] =
            [count |-> @.count + 1,
             units |-> [refundEvents[o].units EXCEPT ![disposition] = Plus(@, units)]]]
      /\ UNCHANGED <<items, promo, freeShipping, paymentVars, events,
                     promoVars>>
    BY DEF RefundOrder, FeeDue, RefundUnits
<1>2. /\ units \in Quantities
      /\ units # Nothing
      /\ \A l \in Lines : ledger[o][l] + units[l] <= items[o][l]
    BY RefundUnitsRemain DEF RefundOrder, FeeDue
<1>. HIDE DEF units
<1>3. /\ stock' \in Quantities
      /\ journal' \in [Orders -> [Lines -> Int]]
      /\ manualJournal' = manualJournal
      /\ \A p \in Orders, l \in Lines :
            journal'[p][l] = IF p = o
                             THEN journal[p][l] + Returned(units, disposition)[l]
                             ELSE journal[p][l]
    BY <1>1, <1>2, ReturnedType, RestoreStockEffect DEF IndInv
<1>. USE DEF IndInv, TypeOK
<1>4. ledger' \in [Orders -> Quantities]
    BY <1>1, <1>2 DEF Plus, Quantities
<1>5. refundedAmount' \in [Orders -> Amounts]
    BY <1>1, <1>2 DEF Amounts, Plus, Quantities
<1>6. /\ refundEvents' \in [Orders -> RefundRows]
      /\ refundEvents'[o].count = refundEvents[o].count + 1
      /\ \A d \in Dispositions, l \in Lines :
            refundEvents'[o].units[d][l] =
               IF d = disposition THEN refundEvents[o].units[d][l] + units[l]
                                  ELSE refundEvents[o].units[d][l]
      /\ \A p \in Orders \ {o} : refundEvents'[p] = refundEvents[p]
    <2>1. refundEvents[o] \in RefundRows
        OBVIOUS
    <2>2. [refundEvents[o].units EXCEPT ![disposition] = Plus(@, units)]
             \in [Dispositions -> Quantities]
        BY <1>2, <2>1 DEF RefundRows, Plus, Quantities
    <2>3. refundEvents'[o] =
             [count |-> refundEvents[o].count + 1,
              units |-> [refundEvents[o].units EXCEPT ![disposition] = Plus(@, units)]]
        BY <1>1
    <2>4. \A p \in Orders \ {o} : refundEvents'[p] = refundEvents[p]
        BY <1>1
    <2>5. refundEvents'[o] \in RefundRows
        BY <2>1, <2>2, <2>3 DEF RefundRows
    <2>6. refundEvents' \in [Orders -> RefundRows]
        BY <1>1, <2>4, <2>5
    <2>7. refundEvents[o].units \in [Dispositions -> Quantities]
        BY <2>1 DEF RefundRows
    <2>8. ASSUME NEW d \in Dispositions, NEW l \in Lines
          PROVE  refundEvents'[o].units[d][l] =
                    IF d = disposition THEN refundEvents[o].units[d][l] + units[l]
                                       ELSE refundEvents[o].units[d][l]
        <3>1. refundEvents'[o].units =
                 [refundEvents[o].units EXCEPT ![disposition] = Plus(@, units)]
            BY <2>3
        <3>. QED
            BY <2>7, <3>1 DEF Plus
    <2>. QED
        BY <2>3, <2>4, <2>6, <2>8
<1>7. TypeOK'
    <2>1. status' \in [Orders -> Promise!Statuses]
        BY <1>1 DEF UpdateOrderStatus, Promise!Statuses
    <2>2. claim' \in [Orders -> SUBSET ClaimEvents]
        BY <1>1 DEF ReleaseOpenClaims, ClaimEvents
    <2>3. shippingRefunded' \in [Orders -> BOOLEAN]
        BY <1>1
    <2>. QED
        BY <1>1, <1>3, <1>4, <1>5, <1>6, <2>1, <2>2, <2>3 DEF paymentVars, promoVars
<1>8. OrderShape'
    BY <1>1 DEF OrderShape, UpdateOrderStatus, RefundableStatuses, Promise!SoldStatuses
<1>9. LedgerFollowsStatus'
    <2>. SUFFICES ASSUME NEW p \in Orders
                  PROVE  /\ \A l \in Lines : ledger'[p][l] <= items'[p][l]
                         /\ status'[p] = "Refunded" => ledger'[p] = items'[p]
                         /\ status'[p] = "PartiallyRefunded" =>
                               ledger'[p] # Nothing /\ ledger'[p] # items'[p]
                         /\ status'[p] \notin {"Refunded", "PartiallyRefunded"} =>
                               ledger'[p] = Nothing
        BY DEF LedgerFollowsStatus
    <2>1. CASE p # o
        BY <1>1, <2>1 DEF LedgerFollowsStatus, UpdateOrderStatus
    <2>2. CASE p = o
        <3>1. /\ ledger'[o] = [l \in Lines |-> ledger[o][l] + units[l]]
              /\ items'[o] = items[o]
              /\ \A l \in Lines : /\ ledger[o][l] \in Nat
                                   /\ items[o][l] \in Nat
                                   /\ units[l] \in Nat
            BY <1>1, <1>2 DEF Plus, Quantities
        <3>2. ledger'[o] # Nothing
            <4>1. PICK l \in Lines : units[l] # 0
                BY <1>2 DEF Nothing, Quantities
            <4>. QED
                BY <3>1, <4>1 DEF Nothing
        <3>3. units = Remaining(o) <=> ledger'[o] = items[o]
            <4>1. units = Remaining(o) <=>
                     \A l \in Lines : units[l] = items[o][l] - ledger[o][l]
                BY <1>2 DEF Remaining, Quantities
            <4>2. ledger'[o] = items[o] <=>
                     \A l \in Lines : ledger[o][l] + units[l] = items[o][l]
                BY <3>1 DEF Quantities
            <4>. QED
                BY <3>1, <4>1, <4>2
        <3>. QED
            BY <1>1, <1>2, <2>2, <3>1, <3>2, <3>3 DEF UpdateOrderStatus
    <2>. QED
        BY <2>1, <2>2
<1>10. RefundedAmountIsDue'
    <2>. SUFFICES ASSUME NEW p \in Orders
                  PROVE  /\ \A l \in Lines :
                               /\ refundedAmount'[p].goods[l] = ledger'[p][l]
                               /\ refundedAmount'[p].goods[l] =
                                     refundEvents'[p].units["restock"][l]
                                     + refundEvents'[p].units["writeoff"][l]
                                     + refundEvents'[p].units["seconds"][l]
                         /\ refundedAmount'[p].shipping =
                               IF shippingRefunded'[p] THEN 1 ELSE 0
                         /\ freeShipping'[p] => ~shippingRefunded'[p]
        BY DEF RefundedAmountIsDue
    <2>1. CASE p # o
        BY <1>1, <1>6, <2>1 DEF RefundedAmountIsDue
    <2>2. CASE p = o
        <3>1. /\ refundedAmount'[o].goods =
                     [l \in Lines |-> refundedAmount[o].goods[l] + units[l]]
              /\ refundedAmount'[o].shipping =
                     refundedAmount[o].shipping + (IF fee THEN 1 ELSE 0)
              /\ ledger'[o] = [l \in Lines |-> ledger[o][l] + units[l]]
              /\ shippingRefunded'[o] = (shippingRefunded[o] \/ fee)
              /\ freeShipping'[o] = freeShipping[o]
            BY <1>1 DEF Amounts, Plus
        <3>2. ASSUME NEW l \in Lines
              PROVE  /\ refundedAmount'[o].goods[l] = ledger'[o][l]
                     /\ refundedAmount'[o].goods[l] =
                           refundEvents'[o].units["restock"][l]
                           + refundEvents'[o].units["writeoff"][l]
                           + refundEvents'[o].units["seconds"][l]
            <4>1. \A d \in Dispositions : refundEvents[o].units[d][l] \in Nat
                BY DEF RefundRows, Quantities
            <4>2. units[l] \in Nat
                BY <1>2 DEF Quantities
            <4>3. /\ refundedAmount[o].goods[l] = ledger[o][l]
                  /\ refundedAmount[o].goods[l] =
                        refundEvents[o].units["restock"][l]
                        + refundEvents[o].units["writeoff"][l]
                        + refundEvents[o].units["seconds"][l]
                BY DEF RefundedAmountIsDue
            <4>4. refundedAmount[o].goods \in Quantities
                BY DEF Amounts
            <4>5. refundedAmount'[o].goods[l] = refundedAmount[o].goods[l] + units[l]
                BY <3>1
            <4>6. ledger'[o][l] = ledger[o][l] + units[l]
                BY <3>1
            <4>7. refundEvents'[o].units["restock"][l]
                     + refundEvents'[o].units["writeoff"][l]
                     + refundEvents'[o].units["seconds"][l]
                  = refundedAmount[o].goods[l] + units[l]
                <5>1. CASE disposition = "restock"
                    BY <1>6, <4>1, <4>2, <4>3, <5>1 DEF Dispositions
                <5>2. CASE disposition = "writeoff"
                    BY <1>6, <4>1, <4>2, <4>3, <5>2 DEF Dispositions
                <5>3. CASE disposition = "seconds"
                    BY <1>6, <4>1, <4>2, <4>3, <5>3 DEF Dispositions
                <5>. QED
                    BY <5>1, <5>2, <5>3 DEF Dispositions
            <4>. QED
                BY <4>3, <4>5, <4>6, <4>7
        <3>3. /\ refundedAmount'[o].shipping = IF shippingRefunded'[o] THEN 1 ELSE 0
              /\ freeShipping'[o] => ~shippingRefunded'[o]
            BY <3>1 DEF RefundedAmountIsDue, Amounts
        <3>. QED
            BY <2>2, <3>2, <3>3
    <2>. QED
        BY <2>1, <2>2
<1>11. OutboxFollowsOrder'
    <2>1. \A p \in Orders : refundEvents'[p].count > 0 <=> ledger'[p] # Nothing
        <3>. SUFFICES ASSUME NEW p \in Orders
                      PROVE  refundEvents'[p].count > 0 <=> ledger'[p] # Nothing
            OBVIOUS
        <3>1. CASE p # o
            BY <1>1, <1>6, <3>1 DEF OutboxFollowsOrder
        <3>2. CASE p = o
            <4>1. refundEvents'[o].count > 0
                BY <1>6 DEF RefundRows
            <4>2. ledger'[o] # Nothing
                BY <1>1, <1>9 DEF LedgerFollowsStatus, UpdateOrderStatus, OrderShape,
                                  RefundableStatuses
            <4>. QED
                BY <3>2, <4>1, <4>2
        <3>. QED
            BY <3>1, <3>2
    <2>2. status[o] \in Promise!SoldStatuses
        BY <1>1 DEF RefundableStatuses, Promise!SoldStatuses
    <2>. QED
        BY <1>1, <2>1, <2>2 DEF OutboxFollowsOrder, UpdateOrderStatus, paymentVars,
                                Promise!SoldStatuses
<1>12. StockMatchesBooks'
    <2>. SUFFICES ASSUME NEW p \in Orders, NEW l \in Lines
                  PROVE  journal'[p][l] = BookedBack(p, l)' - Taken(p, l)'
        BY DEF StockMatchesBooks
    <2>1. Taken(p, l)' = Taken(p, l) /\ Taken(p, l) \in Int
        BY <1>1 DEF Taken, UpdateOrderStatus, RefundableStatuses, Quantities
    <2>2. journal[p][l] = BookedBack(p, l) - Taken(p, l)
        BY DEF StockMatchesBooks
    <2>3. CASE p # o
        BY <1>3, <1>6, <2>1, <2>2, <2>3 DEF BookedBack
    <2>4. CASE p = o
        <3>1. BookedBack(o, l)' = BookedBack(o, l) + Returned(units, disposition)[l]
            <4>1. /\ refundEvents[o].units["restock"] \in Quantities
                  /\ refundEvents[o].units["seconds"] \in Quantities
                BY DEF RefundRows, Dispositions
            <4>2. CASE disposition = "restock"
                BY <1>2, <1>6, <4>1, <4>2, RowsOfLine
                   DEF BookedBack, Returned, Dispositions, Quantities
            <4>3. CASE disposition = "writeoff"
                BY <1>2, <1>6, <4>1, <4>3, RowsOfLine
                   DEF BookedBack, Returned, Dispositions, Quantities
            <4>4. CASE disposition = "seconds"
                BY <1>2, <1>6, <4>1, <4>4, RowsOfLine
                   DEF BookedBack, Returned, Dispositions, Quantities
            <4>. QED
                BY <4>2, <4>3, <4>4 DEF Dispositions
        <3>2. BookedBack(o, l) \in Int /\ Returned(units, disposition)[l] \in Int
            <4>1. BookedBack(o, l) \in Int
                BY BookedBackType
            <4>2. Returned(units, disposition) \in Quantities
                BY <1>2, ReturnedType
            <4>. QED
                BY <4>1, <4>2 DEF Quantities
        <3>. QED
            BY <1>3, <2>1, <2>2, <2>4, <3>1, <3>2
    <2>. QED
        BY <2>3, <2>4
<1>13. RefundedHoldsNoPackaging'
    BY <1>1 DEF RefundedHoldsNoPackaging, ReleaseOpenClaims, OpenClaim
<1>14. VoucherBooks'
    BY <1>1 DEF VoucherBooks, promoVars
<1>. QED
    BY <1>7, <1>8, <1>9, <1>10, <1>11, <1>12, <1>13, <1>14

(***************************************************************************)
(* The invariant                                                           *)
(***************************************************************************)
\* A step that changes only the promo cache, a running CreateOrder's offer and the
\* cache updates to come preserves the invariant if the cache stays right.
LEMMA CacheStep ==
    ASSUME IndInv,
           UNCHANGED <<orderVars, paymentVars, stockVars, refundVars, events, claim,
                       voucherAllowed>>,
           promoCache' \in [Vouchers -> BOOLEAN],
           offer' \in [Orders -> Vouchers \cup {NoPromo}],
           redeeming' \subseteq Orders,
           VoucherBooks'
    PROVE  IndInv'
BY DEF IndInv, TypeOK, OrderShape, LedgerFollowsStatus, RefundedAmountIsDue,
   OutboxFollowsOrder, StockMatchesBooks, BookedBack, Taken,
   RefundedHoldsNoPackaging, OpenClaim, orderVars, paymentVars, stockVars, refundVars

\* Reading the cache preserves the invariant.
LEMMA GetPromoStep ==
    ASSUME IndInv, NEW o \in Orders, NEW v \in Vouchers \cup {NoPromo},
           GetPromoByCode(o, v)
    PROVE  IndInv'
<1>1. /\ promoCache' \in [Vouchers -> BOOLEAN]
      /\ offer' \in [Orders -> Vouchers \cup {NoPromo}]
      /\ redeeming' \subseteq Orders
    BY DEF GetPromoByCode, IndInv, TypeOK
<1>2. VoucherBooks'
    BY DEF GetPromoByCode, IndInv, VoucherBooks, orderVars
<1>. QED
    BY <1>1, <1>2, CacheStep DEF GetPromoByCode

\* The cache update after a payment preserves the invariant: the order it ends for
\* now finds its voucher off in the cache.
LEMMA DisablePromoStep ==
    ASSUME IndInv, NEW o \in Orders, DisablePromo(o)
    PROVE  IndInv'
<1>1. /\ promoCache' \in [Vouchers -> BOOLEAN]
      /\ offer' \in [Orders -> Vouchers \cup {NoPromo}]
      /\ redeeming' \subseteq Orders
    BY DEF DisablePromo, IndInv, TypeOK
<1>2. VoucherBooks'
    BY DEF DisablePromo, IndInv, TypeOK, VoucherBooks, orderVars
<1>. QED
    BY <1>1, <1>2, CacheStep DEF DisablePromo

\* A restart preserves the invariant: the row was off in the payment's own
\* transaction, so the loaded cache has it off.
LEMMA RestartStep ==
    ASSUME IndInv, Restart
    PROVE  IndInv'
<1>1. /\ promoCache' \in [Vouchers -> BOOLEAN]
      /\ offer' \in [Orders -> Vouchers \cup {NoPromo}]
      /\ redeeming' \subseteq Orders
    BY DEF Restart, IndInv, TypeOK
<1>2. VoucherBooks'
    BY DEF Restart, IndInv, VoucherBooks, orderVars
<1>. QED
    BY <1>1, <1>2, CacheStep DEF Restart

\* The invariant holds before the first order.
LEMMA InitIndInv == Init => IndInv
<1>. SUFFICES ASSUME Init PROVE IndInv
    OBVIOUS
<1>. USE DEF Init
<1>1. TypeOK
    BY ConstantsAssumption DEF TypeOK, Quantities, Nothing, Amounts, RefundRows, Events,
       ClaimEvents, Promise!Statuses
<1>2. OrderShape /\ LedgerFollowsStatus /\ RefundedAmountIsDue
    BY DEF OrderShape, LedgerFollowsStatus, RefundedAmountIsDue, Nothing, Dispositions,
       Promise!SoldStatuses
<1>3. OutboxFollowsOrder
    <2>1. \A o \in Orders : /\ events[o].paid = FALSE
                            /\ events[o].shipped = FALSE
                            /\ events[o].delivered = FALSE
                            /\ status[o] = "NoOrder"
                            /\ paymentDone[o] = FALSE
                            /\ refundEvents[o].count = 0
                            /\ ledger[o] = Nothing
        OBVIOUS
    <2>. HIDE DEF Init
    <2>2. ASSUME NEW o \in Orders PROVE ~(refundEvents[o].count > 0)
        <3>1. refundEvents[o].count = 0
            BY <2>1
        <3>. QED
            BY <3>1
    <2>. QED
        BY <2>1, <2>2, Zenon DEF OutboxFollowsOrder, Promise!SoldStatuses
<1>4. StockMatchesBooks
    <2>. SUFFICES ASSUME NEW o \in Orders, NEW l \in Lines
                  PROVE  journal[o][l] = BookedBack(o, l) - Taken(o, l)
        BY DEF StockMatchesBooks
    <2>1. \A d \in Dispositions : refundEvents[o].units[d] = Nothing
        OBVIOUS
    <2>2. BookedBack(o, l) = 0
        BY <2>1, RowsOfLine DEF BookedBack, Nothing, Dispositions
    <2>3. Taken(o, l) = 0 /\ journal[o][l] = 0
        BY DEF Taken, Nothing
    <2>. QED
        BY <2>2, <2>3
<1>5. RefundedHoldsNoPackaging /\ VoucherBooks
    BY DEF RefundedHoldsNoPackaging, VoucherBooks
<1>. QED
    BY <1>1, <1>2, <1>3, <1>4, <1>5 DEF IndInv

\* Every operation of the store, and doing nothing, preserves the invariant.
LEMMA NextIndInv == IndInv /\ [Next]_vars => IndInv'
<1>. SUFFICES ASSUME IndInv, [Next]_vars PROVE IndInv'
    OBVIOUS
<1>1. CASE Next
    BY <1>1, CreateOrderStep, CreateCustomOrderStep, ReservePackagingStep,
       InvoiceItemsUpdatedStep, InvoiceIssuedStep, OrderPaymentDoneStep,
       ExpireOrderPaymentStep, CancelOrderStep, RequestRefundStep,
       SetTrackingNumberStep, ConsumePackagingStep, DeliverOrderStep,
       PendingReturnStep, RefundOrderStep, UpdateStockStep, GetPromoStep,
       DisablePromoStep, RestartStep
       DEF Next, CancelOrderByUser
<1>2. CASE UNCHANGED vars
    BY <1>2 DEF IndInv, TypeOK, OrderShape, LedgerFollowsStatus, RefundedAmountIsDue,
       OutboxFollowsOrder, StockMatchesBooks, BookedBack, Taken,
       RefundedHoldsNoPackaging, OpenClaim, VoucherBooks, vars, orderVars,
       paymentVars, stockVars, refundVars, promoVars
<1>. QED
    BY <1>1, <1>2

\* The invariant holds of every reachable state, for any constants that satisfy
\* ConstantsAssumption.
THEOREM Invariance == Spec => []IndInv
BY InitIndInv, NextIndInv, PTL DEF Spec

\* Every variable keeps its type; the ledger staying within the lines is what
\* keeps a restored quantity from going negative.
THEOREM TypeCorrect == Spec => []TypeOK
<1>1. IndInv => TypeOK
    BY DEF IndInv
<1>. QED
    BY Invariance, <1>1, PTL

\* For any history of any number of orders, each order's stock journal nets to
\* what it took less what the outbox says came back (insertOrderInvoice,
\* ExpireOrderPayment, cancelOrder, RefundOrder).
THEOREM StockAccounted == Spec => []StockMatchesBooks
<1>1. IndInv => StockMatchesBooks
    BY DEF IndInv
<1>. QED
    BY Invariance, <1>1, PTL

\* No sequence of partial and full refunds refunds a unit twice, and the status
\* says exactly how far the ledger got (determineRefundScope).
THEOREM LedgerSound == Spec => []LedgerFollowsStatus
<1>1. IndInv => LedgerFollowsStatus
    BY DEF IndInv
<1>. QED
    BY Invariance, <1>1, PTL

\* The accumulated refunded amount, the ledger and the outbox payloads always
\* agree, and the shipping fee is refunded at most once (RefundOrder).
THEOREM RefundsAreDue == Spec => []RefundedAmountIsDue
<1>1. IndInv => RefundedAmountIsDue
    BY DEF IndInv
<1>. QED
    BY Invariance, <1>1, PTL

\* The accounting outbox tells the order's story (EnqueueEvent's callers).
THEOREM OutboxSound == Spec => []OutboxFollowsOrder
<1>1. IndInv => OutboxFollowsOrder
    BY DEF IndInv
<1>. QED
    BY Invariance, <1>1, PTL

\* A refund leaves no open packaging claim behind (RefundOrder).
THEOREM RefundFreesPackaging == Spec => []RefundedHoldsNoPackaging
<1>1. IndInv => RefundedHoldsNoPackaging
    BY DEF IndInv
<1>. QED
    BY Invariance, <1>1, PTL

(***************************************************************************)
(* Redeemed vouchers                                                       *)
(***************************************************************************)
\* The body of RedeemedVoucherNotGiven.
NotGiven ==
    \A o, p \in Orders :
        promo[p] \in Vouchers /\ events[p].paid =>
           /\ offer'[o] = promo[p] => offer[o] = promo[p] \/ p \in redeeming
           /\ promo'[o] = promo[p] =>
                 \/ status[o] = "NoOrder" /\ offer[o] = promo[p]
                 \/ /\ promo[o] = promo[p]
                    /\ items'[o] = items[o]
                    /\ freeShipping'[o] = freeShipping[o]

\* A step gives nothing out when it keeps or forgets what was read, and leaves
\* alone every order that keeps its promo.
LEMMA KeepsNotGiven ==
    ASSUME \A o \in Orders : offer'[o] = offer[o] \/ offer'[o] = NoPromo,
           \A o \in Orders :
              \/ promo'[o] = NoPromo
              \/ /\ promo'[o] = promo[o]
                 /\ items'[o] = items[o]
                 /\ freeShipping'[o] = freeShipping[o]
    PROVE  NotGiven
BY ConstantsAssumption DEF NotGiven

\* No operation gives a redeemed voucher out except through the stale cache.
LEMMA NextNotGiven == IndInv /\ Next => NotGiven
<1>. SUFFICES ASSUME IndInv, Next PROVE NotGiven
    OBVIOUS
<1>0. TypeOK /\ VoucherBooks /\ OrderShape
    BY DEF IndInv
<1>1. ASSUME NEW q \in Orders, NEW v \in Vouchers \cup {NoPromo}, GetPromoByCode(q, v)
      PROVE  NotGiven
    BY <1>0, <1>1, ConstantsAssumption
       DEF TypeOK, VoucherBooks, NotGiven, GetPromoByCode, orderVars
<1>2. ASSUME NEW q \in Orders, NEW cart \in Carts, NEW free \in BOOLEAN,
             CreateOrder(q, cart, free)
      PROVE  NotGiven
    BY <1>0, <1>2, ConstantsAssumption DEF TypeOK, NotGiven, CreateOrder
<1>3. ASSUME NEW q \in Orders, NEW cart \in Carts, CreateCustomOrder(q, cart)
      PROVE  NotGiven
    <2>1. promo'[q] = NoPromo
        BY <1>0, <1>3 DEF OrderShape, CreateCustomOrder
    <2>. QED
        BY <1>0, <1>3, <2>1, KeepsNotGiven DEF TypeOK, CreateCustomOrder, promoVars
<1>4. ASSUME NEW q \in Orders, NEW repriced \in BOOLEAN, NEW free \in BOOLEAN,
             InvoiceItemsUpdated(q, repriced, free)
      PROVE  NotGiven
    <2>1. /\ promo' = [promo EXCEPT ![q] = Applicable(promo[q])]
          /\ \A o \in Orders \ {q} : items'[o] = items[o] /\ freeShipping'[o] = freeShipping[o]
          /\ offer' = offer
        BY <1>0, <1>4 DEF TypeOK, InvoiceItemsUpdated, promoVars
    <2>2. \A p \in Orders : promo[p] \in Vouchers /\ events[p].paid =>
                               Applicable(promo[q]) # promo[p]
        BY <1>0, ConstantsAssumption DEF VoucherBooks, Applicable
    <2>. QED
        BY <1>0, <2>1, <2>2 DEF TypeOK, NotGiven
<1>5. ASSUME NEW q \in Orders, ExpireOrderPayment(q) \/ CancelOrder(q)
      PROVE  NotGiven
    BY <1>0, <1>5, KeepsNotGiven DEF TypeOK, ExpireOrderPayment, CancelOrder, promoVars
<1>6. ASSUME Restart
      PROVE  NotGiven
    BY <1>6, KeepsNotGiven DEF Restart, orderVars
<1>7. ASSUME offer' = offer, promo' = promo, items' = items, freeShipping' = freeShipping
      PROVE  NotGiven
    BY <1>7, KeepsNotGiven
<1>8. ASSUME NEW q \in Orders, NEW ask \in [Lines -> 0 .. MaxQty],
             NEW refundShipping \in BOOLEAN, NEW disposition \in Dispositions,
             RefundOrder(q, ask, refundShipping, disposition)
      PROVE  NotGiven
    BY <1>7, <1>8 DEF RefundOrder, promoVars
<1>9. ASSUME NEW q \in Orders, InvoiceIssued(q) \/ OrderPaymentDone(q) \/ DisablePromo(q)
      PROVE  NotGiven
    BY <1>7, <1>9 DEF InvoiceIssued, OrderPaymentDone, DisableVoucherInTx, DisablePromo,
       orderVars, promoVars
<1>. QED
    BY <1>1, <1>2, <1>3, <1>4, <1>5, <1>6, <1>7, <1>8, <1>9
       DEF Next, ReservePackagingForOrder, CancelOrderByUser, RequestRefundByUser,
           SetTrackingNumber, ConsumePackagingForOrder, DeliverOrderWithSource,
           SetOrderStatusToPendingReturn, UpdateProductSizeStock, orderVars, promoVars

\* For any number of orders and vouchers, a voucher an order has paid with is given
\* out again only to a CreateOrder that read the promo cache before that
\* payment's cache update (OrderPaymentDone, CreateOrder, updateTotalAmount).
THEOREM RedeemedVoucherKept == Spec => RedeemedVoucherNotGiven
<1>1. IndInv /\ [Next]_vars => [NotGiven]_vars
    BY NextNotGiven
<1>. QED
    BY Invariance, <1>1, PTL DEF Spec, RedeemedVoucherNotGiven, NotGiven

(***************************************************************************)
(* Stock and journal move together                                         *)
(***************************************************************************)
\* The body of StockMovesAreJournalled.
Journalled ==
    \A l \in Lines :
        \/ stock'[l] - stock[l] = manualJournal'[l] - manualJournal[l]
           /\ \A o \in Orders : journal'[o][l] = journal[o][l]
        \/ /\ manualJournal'[l] = manualJournal[l]
           /\ \E o \in Orders :
                 /\ stock'[l] - stock[l] = journal'[o][l] - journal[o][l]
                 /\ \A p \in Orders \ {o} : journal'[p][l] = journal[p][l]

\* Taking stock journals what it moves.
LEMMA ReduceStockJournalled ==
    ASSUME TypeOK, NEW o \in Orders, NEW units \in Quantities, ReduceStock(o, units)
    PROVE  Journalled
<1>. SUFFICES ASSUME NEW l \in Lines
              PROVE  /\ manualJournal'[l] = manualJournal[l]
                     /\ stock'[l] - stock[l] = journal'[o][l] - journal[o][l]
                     /\ \A p \in Orders \ {o} : journal'[p][l] = journal[p][l]
    BY DEF Journalled
<1>1. stock'[l] = stock[l] - units[l] /\ stock[l] \in Int /\ units[l] \in Int
    BY DEF TypeOK, ReduceStock, Quantities
<1>2. journal[o][l] \in Int
    BY DEF TypeOK
<1>. QED
    BY <1>1, <1>2, ReduceStockEffect

\* Restoring stock journals what it moves.
LEMMA RestoreStockJournalled ==
    ASSUME TypeOK, NEW o \in Orders, NEW back \in Quantities, RestoreStock(o, back)
    PROVE  Journalled
<1>. SUFFICES ASSUME NEW l \in Lines
              PROVE  /\ manualJournal'[l] = manualJournal[l]
                     /\ stock'[l] - stock[l] = journal'[o][l] - journal[o][l]
                     /\ \A p \in Orders \ {o} : journal'[p][l] = journal[p][l]
    BY DEF Journalled
<1>1. stock'[l] = stock[l] + back[l] /\ stock[l] \in Int /\ back[l] \in Int
    BY DEF TypeOK, RestoreStock, Plus, Quantities
<1>2. journal[o][l] \in Int
    BY DEF TypeOK
<1>. QED
    BY <1>1, <1>2, RestoreStockEffect

\* A step that leaves stock and journal alone is journalled.
LEMMA StillStockJournalled ==
    ASSUME TypeOK, UNCHANGED stockVars
    PROVE  Journalled
<1>. SUFFICES ASSUME NEW l \in Lines
              PROVE  /\ stock'[l] - stock[l] = manualJournal'[l] - manualJournal[l]
                     /\ \A o \in Orders : journal'[o][l] = journal[o][l]
    BY DEF Journalled
<1>1. stock[l] \in Int /\ manualJournal[l] \in Int
    BY DEF TypeOK, Quantities
<1>. QED
    BY <1>1 DEF stockVars

\* No operation moves stock without its journal rows.
LEMMA NextJournalled == IndInv /\ Next => Journalled
<1>. SUFFICES ASSUME IndInv, Next PROVE Journalled
    OBVIOUS
<1>0. TypeOK
    BY DEF IndInv
<1>1. ASSUME NEW o \in Orders, NEW cart \in Carts, CreateCustomOrder(o, cart)
      PROVE  Journalled
    BY <1>0, <1>1, CartType, ReduceStockJournalled DEF CreateCustomOrder
<1>2. ASSUME NEW o \in Orders, InvoiceIssued(o)
      PROVE  Journalled
    <2>1. items[o] \in Quantities
        BY <1>0 DEF TypeOK
    <2>. QED
        BY <1>0, <1>2, <2>1, ReduceStockJournalled DEF InvoiceIssued
<1>3. ASSUME NEW o \in Orders, ExpireOrderPayment(o) \/ CancelOrder(o)
      PROVE  Journalled
    <2>1. items[o] \in Quantities /\ RestoredOnCancel(o) \in Quantities
        BY <1>0, NothingType DEF TypeOK, RestoredOnCancel
    <2>. QED
        BY <1>0, <1>3, <2>1, RestoreStockJournalled DEF ExpireOrderPayment, CancelOrder
<1>4. ASSUME NEW o \in Orders, NEW ask \in [Lines -> 0 .. MaxQty],
             NEW refundShipping \in BOOLEAN, NEW disposition \in Dispositions,
             RefundOrder(o, ask, refundShipping, disposition)
      PROVE  Journalled
    <2>1. /\ RestoreStock(o, Returned(RefundUnits(o, ask), disposition))
          /\ status[o] \in RefundableStatuses
          /\ ask = Nothing \/ ValidRequest(o, ask)
        BY <1>4 DEF RefundOrder, FeeDue, RefundUnits
    <2>2. Returned(RefundUnits(o, ask), disposition) \in Quantities
        BY <2>1, RefundUnitsRemain, ReturnedType
    <2>. QED
        BY <1>0, <2>1, <2>2, RestoreStockJournalled
<1>5. ASSUME NEW s \in Skus, NEW after \in 0 .. MaxStock,
             UpdateProductSizeStock(s, after)
      PROVE  Journalled
    <2>. SUFFICES ASSUME NEW l \in Lines
                  PROVE  /\ stock'[l] - stock[l] = manualJournal'[l] - manualJournal[l]
                         /\ \A o \in Orders : journal'[o][l] = journal[o][l]
        BY DEF Journalled
    <2>1. stock[l] \in Int /\ manualJournal[l] \in Int /\ after \in Int
        BY <1>0, ConstantsAssumption DEF TypeOK, Quantities
    <2>2. /\ stock' = [stock EXCEPT ![<<s, "A">>] = after]
          /\ manualJournal' = [manualJournal EXCEPT ![<<s, "A">>] =
                                  @ + (after - stock[<<s, "A">>])]
          /\ journal' = journal
        BY <1>5 DEF UpdateProductSizeStock
    <2>3. CASE l = <<s, "A">>
        <3>1. stock'[l] = after
            BY <1>0, <2>2, <2>3 DEF TypeOK, Quantities
        <3>2. manualJournal'[l] = manualJournal[l] + (after - stock[l])
            BY <1>0, <2>2, <2>3 DEF TypeOK
        <3>. QED
            BY <2>1, <2>2, <3>1, <3>2
    <2>4. CASE l # <<s, "A">>
        <3>1. stock'[l] = stock[l] /\ manualJournal'[l] = manualJournal[l]
            BY <1>0, <2>2, <2>4 DEF TypeOK, Quantities
        <3>. QED
            BY <2>1, <2>2, <3>1
    <2>. QED
        BY <2>3, <2>4
<1>6. ASSUME UNCHANGED stockVars
      PROVE  Journalled
    BY <1>0, <1>6, StillStockJournalled
<1>. QED
    BY <1>1, <1>2, <1>3, <1>4, <1>5, <1>6
       DEF Next, CreateOrder, ReservePackagingForOrder, InvoiceItemsUpdated,
           OrderPaymentDone, CancelOrderByUser, RequestRefundByUser, SetTrackingNumber,
           ConsumePackagingForOrder, DeliverOrderWithSource,
           SetOrderStatusToPendingReturn, GetPromoByCode, DisablePromo, Restart

\* In every step of every behaviour the stock moves by exactly the journal rows
\* the step writes, and for at most one order (product/stock.go).
THEOREM StockJournalled == Spec => StockMovesAreJournalled
<1>1. IndInv /\ [Next]_vars => [Journalled]_vars
    BY NextJournalled
<1>. QED
    BY Invariance, <1>1, PTL DEF Spec, StockMovesAreJournalled, Journalled

\* The journal's rows of a line, by order.
RowsOf(l) == [o \in Orders |-> journal[o][l]]

\* A journalled step keeps the report right.
LEMMA JournalledAddsUp ==
    ASSUME TypeOK, TypeOK', JournalAddsUp, Journalled
    PROVE  JournalAddsUp'
<1>. SUFFICES ASSUME NEW l \in Lines
              PROVE  stock'[l] = InitStock[l] + manualJournal'[l]
                                   + SumFunctionOnSet(RowsOf(l)', Orders)
    BY DEF JournalAddsUp, RowsOf
<1>1. stock[l] = InitStock[l] + manualJournal[l] + SumFunctionOnSet(RowsOf(l), Orders)
    BY DEF JournalAddsUp, RowsOf
<1>2. \A o \in Orders : RowsOf(l)[o] \in Int /\ RowsOf(l)'[o] \in Int
    BY DEF TypeOK, RowsOf
<1>3. /\ stock[l] \in Int /\ stock'[l] \in Int /\ InitStock[l] \in Int
      /\ manualJournal[l] \in Int /\ manualJournal'[l] \in Int
    BY ConstantsAssumption DEF TypeOK, Quantities
<1>4. SumFunctionOnSet(RowsOf(l), Orders) \in Int
    BY <1>2, OrdersAssumption, SumInt
<1>5. CASE /\ stock'[l] - stock[l] = manualJournal'[l] - manualJournal[l]
           /\ \A o \in Orders : journal'[o][l] = journal[o][l]
    <2>1. RowsOf(l)' = RowsOf(l)
        BY <1>5 DEF RowsOf
    <2>. QED
        BY <1>1, <1>3, <1>4, <1>5, <2>1
<1>6. ASSUME manualJournal'[l] = manualJournal[l], NEW o \in Orders,
             stock'[l] - stock[l] = journal'[o][l] - journal[o][l],
             \A p \in Orders \ {o} : journal'[p][l] = journal[p][l]
      PROVE  stock'[l] = InitStock[l] + manualJournal'[l]
                           + SumFunctionOnSet(RowsOf(l)', Orders)
    <2>1. \A p \in Orders \ {o} : RowsOf(l)'[p] = RowsOf(l)[p]
        BY <1>6 DEF RowsOf
    <2>2. PICK rows : rows = RowsOf(l)'
        OBVIOUS
    <2>3. SumFunctionOnSet(rows, Orders)
            = SumFunctionOnSet(RowsOf(l), Orders) + rows[o] - RowsOf(l)[o]
        BY <1>2, <2>1, <2>2, OrdersAssumption, SumChange
    <2>4. rows[o] = journal'[o][l] /\ RowsOf(l)[o] = journal[o][l]
        BY <2>2 DEF RowsOf
    <2>5. rows[o] \in Int /\ RowsOf(l)[o] \in Int
        BY <1>2, <2>2
    <2>. QED
        BY <1>1, <1>3, <1>4, <1>6, <2>2, <2>3, <2>4, <2>5
<1>. QED
    BY <1>5, <1>6 DEF Journalled

\* With any number of orders the stock report always adds up: on every row the
\* journal accounts for what is on hand (product/stock.go, refund.go).
THEOREM ReportAddsUp == Spec => []JournalAddsUp
<1>1. Init => JournalAddsUp
    <2>. SUFFICES ASSUME Init, NEW l \in Lines
                  PROVE  stock[l] = InitStock[l] + manualJournal[l]
                                      + SumFunctionOnSet(RowsOf(l), Orders)
        BY DEF JournalAddsUp, RowsOf
    <2>1. \A o \in Orders : RowsOf(l)[o] = 0
        BY DEF Init, RowsOf, Nothing
    <2>2. SumFunctionOnSet(RowsOf(l), Orders) = 0
        BY <2>1, OrdersAssumption, SumZero
    <2>3. stock[l] = InitStock[l] /\ manualJournal[l] = 0 /\ InitStock[l] \in Int
        BY ConstantsAssumption DEF Init, Nothing
    <2>. QED
        BY <2>2, <2>3
<1>2. IndInv /\ IndInv' /\ JournalAddsUp /\ [Next]_vars => JournalAddsUp'
    <2>. SUFFICES ASSUME IndInv, IndInv', JournalAddsUp, [Next]_vars
                  PROVE  JournalAddsUp'
        OBVIOUS
    <2>1. CASE Next
        BY <2>1, NextJournalled, JournalledAddsUp DEF IndInv
    <2>2. CASE UNCHANGED vars
        BY <2>2 DEF vars, stockVars, JournalAddsUp
    <2>. QED
        BY <2>1, <2>2
<1>. QED
    BY <1>1, <1>2, Invariance, PTL DEF Spec

(***************************************************************************)
(* The store keeps the promise of OrderStatus                              *)
(***************************************************************************)
\* Revenue as the refinement mapping sees it.
Recognised == [o \in Orders |-> events[o].paid]

\* A step that moves an order to Confirmed and writes its order_paid row is a sale
\* of the promise.
LEMMA MoveIsSell ==
    ASSUME NEW o \in Orders, NEW from, status[o] \in from, TypeOK,
           status' = [status EXCEPT ![o] = "Confirmed"],
           events' = [events EXCEPT ![o].paid = TRUE]
    PROVE  Promise!Sell(o, from)
<1>1. Recognised' = [Recognised EXCEPT ![o] = TRUE]
    BY DEF Recognised, TypeOK, Events
<1>. QED
    BY <1>1 DEF Promise!Sell, Recognised

\* The initial states are initial states of the promise.
LEMMA InitPromise == Init => Promise!AbsInit
BY DEF Init, Promise!AbsInit

\* Every operation is a step of the promise or leaves status and revenue alone.
LEMMA NextPromise ==
    IndInv /\ [Next]_vars => [Promise!AbsNext]_<<status, Recognised>>
<1>. SUFFICES ASSUME IndInv, [Next]_vars
              PROVE  Promise!AbsNext \/ UNCHANGED <<status, Recognised>>
    OBVIOUS
<1>0. TypeOK
    BY DEF IndInv
<1>. USE DEF Promise!AbsNext
<1>1. ASSUME NEW o \in Orders, NEW cart \in Carts,
             NEW free \in BOOLEAN, CreateOrder(o, cart, free)
      PROVE  Promise!AbsNext
    BY <1>1 DEF Promise!Go, CreateOrder, Promise!Submit
<1>2. ASSUME NEW o \in Orders, NEW cart \in Carts, CreateCustomOrder(o, cart)
      PROVE  Promise!AbsNext
    BY <1>0, <1>2, MoveIsSell DEF CreateCustomOrder, Promise!SellByHand
<1>3. ASSUME NEW o \in Orders, InvoiceIssued(o)
      PROVE  Promise!AbsNext
    BY <1>3 DEF Promise!Go, InvoiceIssued, UpdateOrderStatus, Promise!Invoice
<1>4. ASSUME NEW o \in Orders, OrderPaymentDone(o)
      PROVE  Promise!AbsNext
    BY <1>0, <1>4, MoveIsSell DEF OrderPaymentDone, UpdateOrderStatus, Promise!Pay
<1>5. ASSUME NEW o \in Orders, ExpireOrderPayment(o)
      PROVE  Promise!AbsNext
    BY <1>5 DEF Promise!Go, ExpireOrderPayment, UpdateOrderStatus, Promise!Abandon
<1>6. ASSUME NEW o \in Orders, CancelOrder(o)
      PROVE  Promise!AbsNext
    <2>1. /\ status[o] \in {"Placed", "AwaitingPayment"}
          /\ status' = [status EXCEPT ![o] = "Cancelled"]
          /\ events' = events
        BY <1>6 DEF CancelOrder, UpdateOrderStatus, ValidStatusTransitions
    <2>. QED
        BY <2>1 DEF Promise!Go, Promise!Abandon
<1>7. ASSUME NEW o \in Orders, RequestRefundByUser(o)
      PROVE  Promise!AbsNext
    <2>1. CASE status[o] = "Confirmed"
        BY <1>7, <2>1 DEF Promise!Go, RequestRefundByUser, Promise!AskRefund
    <2>2. CASE status[o] # "Confirmed"
        BY <1>7, <2>2 DEF Promise!Go, RequestRefundByUser, Promise!AskReturn
    <2>. QED
        BY <2>1, <2>2
<1>8. ASSUME NEW o \in Orders, SetTrackingNumber(o)
      PROVE  Promise!AbsNext
    <2>1. /\ status[o] \in {"Confirmed"}
          /\ status' = [status EXCEPT ![o] = "Shipped"]
        BY <1>8 DEF SetTrackingNumber, UpdateOrderStatus, ValidStatusTransitions
    <2>2. UNCHANGED [p \in Orders |-> events[p].paid]
        BY <1>0, <1>8 DEF SetTrackingNumber, TypeOK, Events
    <2>. QED
        BY <2>1, <2>2 DEF Promise!Go, Promise!Ship
<1>9. ASSUME NEW o \in Orders, DeliverOrderWithSource(o)
      PROVE  Promise!AbsNext
    <2>1. /\ status[o] \in {"Shipped"}
          /\ status' = [status EXCEPT ![o] = "Delivered"]
        BY <1>9 DEF DeliverOrderWithSource, UpdateOrderStatus, ValidStatusTransitions
    <2>2. UNCHANGED [p \in Orders |-> events[p].paid]
        BY <1>0, <1>9 DEF DeliverOrderWithSource, TypeOK, Events
    <2>. QED
        BY <2>1, <2>2 DEF Promise!Go, Promise!Arrive
<1>10. ASSUME NEW o \in Orders, SetOrderStatusToPendingReturn(o)
       PROVE  Promise!AbsNext
    <2>1. /\ status[o] \in {"Shipped", "Delivered"}
          /\ status' = [status EXCEPT ![o] = "PendingReturn"]
          /\ events' = events
        BY <1>10 DEF SetOrderStatusToPendingReturn, UpdateOrderStatus,
                     ValidStatusTransitions
    <2>. QED
        BY <2>1 DEF Promise!Go, Promise!AskReturn
<1>11. ASSUME NEW o \in Orders, NEW ask \in [Lines -> 0 .. MaxQty],
              NEW refundShipping \in BOOLEAN, NEW disposition \in Dispositions,
              RefundOrder(o, ask, refundShipping, disposition)
       PROVE  Promise!AbsNext
    <2>1. /\ status[o] \in RefundableStatuses
          /\ status[o] = "Confirmed" => RefundUnits(o, ask) = Remaining(o)
          /\ UpdateOrderStatus(o, IF RefundUnits(o, ask) = Remaining(o)
                                  THEN "Refunded" ELSE "PartiallyRefunded")
          /\ events' = events
        BY <1>11 DEF RefundOrder, FeeDue, RefundUnits
    <2>2. CASE RefundUnits(o, ask) = Remaining(o)
        BY <2>1, <2>2 DEF Promise!Go, UpdateOrderStatus, RefundableStatuses,
           Promise!GiveBackAll, Promise!SoldStatuses
    <2>3. CASE RefundUnits(o, ask) # Remaining(o)
        BY <2>1, <2>3 DEF Promise!Go, UpdateOrderStatus, RefundableStatuses,
           Promise!GiveBackSome
    <2>. QED
        BY <2>2, <2>3
<1>12. ASSUME status' = status, events' = events
       PROVE  UNCHANGED <<status, Recognised>>
    BY <1>12 DEF Recognised
<1>. QED
    BY <1>1, <1>2, <1>3, <1>4, <1>5, <1>6, <1>7, <1>8, <1>9, <1>10, <1>11, <1>12
       DEF Next, ReservePackagingForOrder, InvoiceItemsUpdated, CancelOrderByUser,
           ConsumePackagingForOrder, UpdateProductSizeStock, GetPromoByCode,
           DisablePromo, Restart, orderVars, vars

\* The order store implements the abstract life of an order: no interleaving of
\* its operations takes an order, or its revenue, where OrderStatus does not
\* allow (the transition table and the raw updates of CancelOrderByUser).
THEOREM Refinement == Spec => KeepsPromise
<1>1. IndInv /\ [Next]_vars =>
        [Promise!AbsNext]_<<status, [o \in Orders |-> events[o].paid]>>
    BY NextPromise DEF Recognised
<1>. QED
    BY InitPromise, Invariance, <1>1, PTL
       DEF Spec, KeepsPromise, Promise!AbsSpec, Promise!absVars
=============================================================================
