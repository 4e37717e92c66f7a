-------------------------- MODULE AcctOutboxProofs --------------------------
(***************************************************************************)
(* Proofs about AcctOutbox for any set of orders, any prices, any number of *)
(* refunds and months and any limits.                                       *)
(***************************************************************************)
EXTENDS AcctOutbox, SumTheorems

(***************************************************************************)
(* The inductive invariant                                                 *)
(***************************************************************************)
\* What an order refunds is within the order, one quantity per refund event.
RefundsCounted(o) ==
    /\ Refunded(o) <= Units
    /\ \A e \in Refunds : order[o].refunds[e].qty > 0 <=> Enqueued(o, e)

\* The delivered event tells the stage.
StageTells(o) == order[o].stage = "delivered" <=> Enqueued(o, Delivered)

\* Events have their month; a posted one has its entry; a sale or a refund is
\* only booked for its event.
EventsTell(o) ==
    /\ \A e \in Events : Enqueued(o, e) => event[o][e].month # 0
    /\ \A e \in Events : event[o][e].state = "posted" => Booked(o, e)
    /\ \A e \in Refunds \cup {Delivered} : Booked(o, e) => Enqueued(o, e)

\* A refund reverses the sale or, before the delivered sale, the prepayment; the
\* latter only of an order that is not delivered.
RefundBooks(o, e) ==
    LET r == order[o].refunds[e]
        lines == ledger[o][e].lines
    IN  /\ Booked(o, Paid)
        /\ IF LegacySale(o) \/ Booked(o, Delivered)
           THEN lines = RefundLines(r)
           ELSE /\ ~Enqueued(o, Delivered)
                /\ \E transit \in BOOLEAN :
                      /\ transit => Booked(o, Shipped)
                      /\ lines = PreDeliveredRefundLines(r, transit)

\* What each entry of an order holds.
PaidBooks(o) ==
    Booked(o, Paid) =>
        \/ order[o].chain = "delivered" /\ ledger[o][Paid].lines = PrepaymentLines
        \/ order[o].chain = "legacy" /\ ledger[o][Paid].lines = SaleLines
ShippedBooks(o) ==
    Booked(o, Shipped) => Prepayment(o) /\ ledger[o][Shipped].lines = TransitLines
DeliveredBooks(o) ==
    Booked(o, Delivered) =>
        /\ Prepayment(o)
        /\ ledger[o][Delivered].lines = DeliveredSaleLines(Units * Net, Units * Cost)
        /\ Cost > 0 => Booked(o, Shipped)
EntriesTell(o) ==
    /\ PaidBooks(o) /\ ShippedBooks(o) /\ DeliveredBooks(o)
    /\ \A e \in Refunds : Booked(o, e) => RefundBooks(o, e)

OrderInv(o) == RefundsCounted(o) /\ StageTells(o) /\ EventsTell(o) /\ EntriesTell(o)

IndInv == AcctTypeOK /\ \A o \in Orders : OrderInv(o)

(***************************************************************************)
(* Types                                                                   *)
(***************************************************************************)
\* The constants are naturals.
LEMMA ConstantTypes ==
    /\ Units \in Nat \ {0} /\ Net \in Nat \ {0} /\ LastMonth \in Nat \ {0}
    /\ Vat \in Nat /\ Cost \in Nat /\ MaxRefunds \in Nat /\ MaxReprocess \in Nat
    /\ maxDeadLetterAttempts \in Nat /\ maxOrphanRefundAttempts \in Nat
    /\ Units * Net \in Nat /\ Units * Vat \in Nat /\ Units * Cost \in Nat
    /\ Units * (Net + Vat) \in Nat
<1>1. /\ Units \in Nat \ {0} /\ Net \in Nat \ {0} /\ LastMonth \in Nat \ {0}
      /\ Vat \in Nat /\ Cost \in Nat /\ MaxRefunds \in Nat /\ MaxReprocess \in Nat
      /\ maxDeadLetterAttempts \in Nat /\ maxOrphanRefundAttempts \in Nat
    BY OutboxAssumption
<1>2. \A m, n \in Nat : m * n \in Nat
    OBVIOUS
<1>3. Units * Net \in Nat /\ Units * Vat \in Nat /\ Units * Cost \in Nat
    BY <1>1, <1>2
<1>4. Units * (Net + Vat) \in Nat
    <2>1. Net + Vat \in Nat /\ Units \in Nat
        BY <1>1
    <2>. QED
        BY <1>2, <2>1
<1>. QED
    BY <1>1, <1>3, <1>4

\* The events are paid, shipped, delivered and the refunds.
LEMMA EventIds ==
    /\ Paid \in Events /\ Shipped \in Events /\ Delivered \in Events
    /\ Refunds \subseteq Events
    /\ Events \ {Paid, Shipped, Delivered} = Refunds
    /\ Paid \notin Refunds /\ Shipped \notin Refunds /\ Delivered \notin Refunds
    /\ Paid # Shipped /\ Paid # Delivered /\ Shipped # Delivered
    /\ IsFiniteSet(Events) /\ IsFiniteSet(Refunds)
<1>1. /\ Paid = 1 /\ Shipped = 2 /\ Delivered = 3
      /\ Events = 1 .. (3 + MaxRefunds) /\ Refunds = 4 .. (3 + MaxRefunds)
    BY ConstantTypes DEF Paid, Shipped, Delivered, Events, Refunds, RefundNo
<1>2. IsFiniteSet(Events) /\ IsFiniteSet(Refunds)
    BY <1>1, ConstantTypes, FS_Interval
<1>. QED
    BY <1>1, <1>2, ConstantTypes

\* The records of AcctTypeOK.
OrderRecords ==
    [chain : Chains, stage : {"new", "paid", "shipped", "delivered"},
     settled : BOOLEAN,
     refunds : [Refunds -> [qty : 0 .. Units, disposition : Dispositions]]]
EventRecords ==
    [state : EventStates, attempts : 0 .. maxOrphanRefundAttempts,
     waiting : BOOLEAN, month : 0 .. LastMonth]
EntryRecords == [month : 0 .. LastMonth, lines : [Accounts -> Int]]

\* AcctTypeOK, by its records.
LEMMA TypeRecords ==
    AcctTypeOK <=>
        /\ armed \in BOOLEAN /\ rateKnown \in BOOLEAN
        /\ order \in [Orders -> OrderRecords]
        /\ event \in [Orders -> [Events -> EventRecords]]
        /\ ledger \in [Orders -> [Events -> EntryRecords]]
        /\ now \in Months /\ closed \subseteq 1 .. (now - 1)
        /\ reprocessed \in 0 .. MaxReprocess
BY DEF AcctTypeOK, OrderRecords, EventRecords, EntryRecords

\* What the state holds of an order.
LEMMA Types ==
    ASSUME AcctTypeOK, NEW o \in Orders
    PROVE  /\ order[o] \in OrderRecords
           /\ order[o].chain \in Chains
           /\ \A e \in Refunds : /\ order[o].refunds[e] \in [qty : 0 .. Units, disposition : Dispositions]
                                 /\ order[o].refunds[e].qty \in Nat
                                 /\ order[o].refunds[e].disposition \in Dispositions
           /\ \A e \in Events : /\ event[o][e] \in EventRecords
                                /\ event[o][e].month \in 0 .. LastMonth
                                /\ ledger[o][e] \in EntryRecords
                                /\ ledger[o][e].lines \in [Accounts -> Int]
<1>1. /\ order[o] \in OrderRecords
      /\ \A e \in Events : event[o][e] \in EventRecords /\ ledger[o][e] \in EntryRecords
    BY TypeRecords
<1>2. \A e \in Refunds : order[o].refunds[e] \in [qty : 0 .. Units, disposition : Dispositions]
    BY <1>1 DEF OrderRecords
<1>3. \A e \in Refunds : /\ order[o].refunds[e].qty \in Nat
                         /\ order[o].refunds[e].disposition \in Dispositions
    BY <1>2, ConstantTypes
<1>. QED
    BY <1>1, <1>2, <1>3 DEF OrderRecords, EventRecords, EntryRecords

(***************************************************************************)
(* Steps that leave an order's books                                       *)
(***************************************************************************)
\* Nothing of an order's story changes but how far its events got, and none is
\* posted.
LEMMA Untouched ==
    ASSUME NEW o \in Orders, OrderInv(o), ledger'[o] = ledger[o],
           order'[o].chain = order[o].chain, order'[o].stage = order[o].stage,
           order'[o].refunds = order[o].refunds,
           \A e \in Events : /\ event'[o][e].state # "none" <=> event[o][e].state # "none"
                             /\ event'[o][e].month = event[o][e].month
                             /\ event'[o][e].state = "posted" => event[o][e].state = "posted"
    PROVE  OrderInv(o)'
<1>1. \A e \in Events : /\ Enqueued(o, e)' <=> Enqueued(o, e)
                        /\ Booked(o, e)' <=> Booked(o, e)
    BY DEF Enqueued, Booked
<1>2. RefundsCounted(o)'
    <2>1. Refunded(o)' = Refunded(o)
        BY DEF Refunded
    <2>. QED
        BY <1>1, <2>1, EventIds DEF OrderInv, RefundsCounted
<1>3. StageTells(o)' /\ EventsTell(o)'
    BY <1>1, EventIds DEF OrderInv, StageTells, EventsTell
<1>4. LegacySale(o)' = LegacySale(o) /\ Prepayment(o)' = Prepayment(o)
    BY <1>1, EventIds DEF LegacySale, Prepayment
<1>5. PaidBooks(o)' /\ ShippedBooks(o)' /\ DeliveredBooks(o)'
    BY <1>1, <1>4, EventIds
       DEF OrderInv, EntriesTell, PaidBooks, ShippedBooks, DeliveredBooks
<1>6. \A e \in Refunds : Booked(o, e)' => RefundBooks(o, e)'
    BY <1>1, <1>4, EventIds DEF OrderInv, EntriesTell, RefundBooks
<1>. QED
    BY <1>2, <1>3, <1>5, <1>6 DEF OrderInv, EntriesTell

\* A counted attempt, and an event that starts over.
LEMMA BumpIs ==
    ASSUME NEW ev \in EventRecords
    PROVE  /\ BumpAttempts(ev) \in EventRecords
           /\ BumpAttempts(ev).state = ev.state /\ BumpAttempts(ev).month = ev.month
<1>1. ev.attempts \in 0 .. maxOrphanRefundAttempts
    BY DEF EventRecords
<1>2. PICK n \in 0 .. maxOrphanRefundAttempts :
        n = IF ev.attempts < maxOrphanRefundAttempts THEN ev.attempts + 1 ELSE ev.attempts
    BY <1>1, ConstantTypes
<1>3. BumpAttempts(ev) = [ev EXCEPT !.attempts = n]
    BY <1>2 DEF BumpAttempts
<1>. QED
    BY <1>3 DEF EventRecords

\* Its fields.
LEMMA FreshIs ==
    ASSUME NEW ev \in EventRecords, NEW s \in EventStates
    PROVE  /\ Fresh(ev, s) \in EventRecords
           /\ Fresh(ev, s).state = s /\ Fresh(ev, s).month = ev.month
<1>1. PICK m \in 0 .. LastMonth : m = ev.month
    BY DEF EventRecords
<1>2. Fresh(ev, s) = [NoEvent EXCEPT !.state = s, !.month = m]
    BY <1>1 DEF Fresh
<1>3. Fresh(ev, s) = [state |-> s, attempts |-> 0, waiting |-> FALSE, month |-> m]
    BY <1>2 DEF NoEvent
<1>. QED
    BY <1>1, <1>3, ConstantTypes DEF EventRecords

\* One event's progress is written, and it is not posted.
LEMMA EventOnly ==
    ASSUME IndInv, NEW o \in Orders, NEW e \in Events, NEW ev \in EventRecords,
           event' = [event EXCEPT ![o][e] = ev],
           ev.state # "none" <=> event[o][e].state # "none",
           ev.month = event[o][e].month,
           ev.state = "posted" => event[o][e].state = "posted",
           UNCHANGED <<opsVars, ledger, closed>>, reprocessed' \in 0 .. MaxReprocess
    PROVE  IndInv'
<1>0. UNCHANGED <<armed, order, rateKnown, now>>
    BY DEF opsVars
<1>1. event \in [Orders -> [Events -> EventRecords]]
    BY TypeRecords DEF IndInv
<1>2. event' \in [Orders -> [Events -> EventRecords]]
    BY <1>1
<1>3. AcctTypeOK'
    BY <1>0, <1>2 DEF IndInv, AcctTypeOK, EventRecords
<1>4. ASSUME NEW p \in Orders
      PROVE  \A f \in Events :
                /\ event'[p][f].state # "none" <=> event[p][f].state # "none"
                /\ event'[p][f].month = event[p][f].month
                /\ event'[p][f].state = "posted" => event[p][f].state = "posted"
    <2>1. \A f \in Events : event'[p][f] = IF p = o /\ f = e THEN ev ELSE event[p][f]
        BY <1>1
    <2>. QED
        BY <2>1
<1>5. \A p \in Orders : OrderInv(p)'
    BY <1>0, <1>4, Untouched DEF IndInv
<1>. QED
    BY <1>3, <1>5 DEF IndInv

\* The event is deferred, skipped or left to an operator.
LEMMA OutcomeKeeps ==
    ASSUME IndInv, NEW o \in Orders, NEW e \in Events, Pending(o, e),
           Defer(o, e) \/ Skip(o, e) \/ NeedsReview(o, e),
           UNCHANGED <<opsVars, closed, reprocessed>>
    PROVE  IndInv'
<1>1. PICK old \in EventRecords : old = event[o][e] /\ old.state = "pending"
    BY Types DEF IndInv, Pending
<1>2. reprocessed' \in 0 .. MaxReprocess
    BY DEF IndInv, AcctTypeOK
<1>3. CASE Defer(o, e)
    <2>1. PICK ev : ev = [BumpAttempts(old) EXCEPT !.waiting = TRUE]
        OBVIOUS
    <2>2. ev \in EventRecords /\ ev.state = old.state /\ ev.month = old.month
        BY <2>1, BumpIs DEF EventRecords
    <2>3. event' = [event EXCEPT ![o][e] = ev] /\ UNCHANGED ledger
        BY <1>1, <1>3, <2>1 DEF Defer
    <2>. QED
        BY <1>1, <1>2, <2>2, <2>3, EventOnly
<1>4. ASSUME NEW s \in {"skipped", "review"},
             event' = [event EXCEPT ![o][e] = Fresh(@, s)], UNCHANGED ledger
      PROVE  IndInv'
    <2>1. PICK ev : ev = Fresh(old, s)
        OBVIOUS
    <2>2. ev \in EventRecords /\ ev.state = s /\ ev.month = old.month
        BY <2>1, FreshIs DEF EventStates
    <2>3. event' = [event EXCEPT ![o][e] = ev]
        BY <1>1, <1>4, <2>1
    <2>4. ev.state # "none" /\ ev.state # "posted" /\ event[o][e].state # "none"
        BY <1>1, <2>2
    <2>5. ev.month = event[o][e].month /\ UNCHANGED <<opsVars, ledger, closed>>
        BY <1>1, <1>4, <2>2
    <2>. QED
        BY <1>2, <2>2, <2>3, <2>4, <2>5, EventOnly
<1>. QED
    BY <1>3, <1>4 DEF Skip, NeedsReview

\* A crash in skipEvent, the end of a delay, the operator's two calls.
LEMMA EventCallsKeep ==
    ASSUME IndInv, NEW o \in Orders, NEW e \in Events,
           \/ CrashInSkip(o, e) \/ RetryDue(o, e)
           \/ ReprocessAcctEvent(o, e) \/ ResolveAcctEvent(o, e)
    PROVE  IndInv'
<1>1. PICK old \in EventRecords : old = event[o][e]
    BY Types DEF IndInv
<1>2. reprocessed \in 0 .. MaxReprocess
    BY DEF IndInv, AcctTypeOK
<1>3. CASE CrashInSkip(o, e)
    <2>1. PICK ev : ev = BumpAttempts(old)
        OBVIOUS
    <2>2. ev \in EventRecords /\ ev.state = old.state /\ ev.month = old.month
        BY <2>1, BumpIs
    <2>3. /\ event' = [event EXCEPT ![o][e] = ev]
          /\ UNCHANGED <<opsVars, ledger, closed, reprocessed>>
        BY <1>1, <1>3, <2>1 DEF CrashInSkip
    <2>. QED
        BY <1>1, <1>2, <2>2, <2>3, EventOnly
<1>4. CASE RetryDue(o, e)
    <2>1. PICK ev : ev = [old EXCEPT !.waiting = FALSE]
        OBVIOUS
    <2>2. ev \in EventRecords /\ ev.state = old.state /\ ev.month = old.month
        BY <2>1 DEF EventRecords
    <2>3. /\ event' = [event EXCEPT ![o][e] = ev]
          /\ UNCHANGED <<opsVars, ledger, closed, reprocessed>>
        BY <1>1, <1>4, <2>1 DEF RetryDue
    <2>. QED
        BY <1>1, <1>2, <2>2, <2>3, EventOnly
<1>5. CASE ReprocessAcctEvent(o, e)
    <2>1. PICK ev : ev = Fresh(old, "pending")
        OBVIOUS
    <2>2. ev \in EventRecords /\ ev.state = "pending" /\ ev.month = old.month
        BY <2>1, FreshIs DEF EventStates
    <2>3. /\ event' = [event EXCEPT ![o][e] = ev] /\ old.state # "none"
          /\ UNCHANGED <<opsVars, ledger, closed>>
          /\ reprocessed < MaxReprocess /\ reprocessed' = reprocessed + 1
        BY <1>1, <1>5, <2>1 DEF ReprocessAcctEvent, Enqueued
    <2>4. reprocessed' \in 0 .. MaxReprocess
        BY <1>2, <2>3, ConstantTypes
    <2>. QED
        BY <1>1, <2>2, <2>3, <2>4, EventOnly
<1>6. CASE ResolveAcctEvent(o, e)
    <2>1. PICK ev : ev = [old EXCEPT !.state = "resolved"]
        OBVIOUS
    <2>2. ev \in EventRecords /\ ev.state = "resolved" /\ ev.month = old.month
        BY <2>1 DEF EventRecords, EventStates
    <2>3. /\ event' = [event EXCEPT ![o][e] = ev] /\ old.state = "review"
          /\ UNCHANGED <<opsVars, ledger, closed, reprocessed>>
        BY <1>1, <1>6, <2>1 DEF ResolveAcctEvent
    <2>. QED
        BY <1>1, <1>2, <2>2, <2>3, EventOnly
<1>. QED
    BY <1>3, <1>4, <1>5, <1>6

(***************************************************************************)
(* The order's life                                                        *)
(***************************************************************************)
\* An event is enqueued with the month it happened in, once.
LEMMA EnqueueWrites ==
    ASSUME IndInv, NEW o \in Orders, NEW e \in Events, EnqueueEvent(o, e)
    PROVE  /\ event' \in [Orders -> [Events -> EventRecords]]
           /\ \A p \in Orders \ {o} : event'[p] = event[p]
           /\ \A f \in Events \ {e} : event'[o][f] = event[o][f]
           /\ event'[o][e].state # "none" /\ event'[o][e].month # 0
           /\ event'[o][e].state = "posted" => event[o][e].state = "posted"
<1>1. event \in [Orders -> [Events -> EventRecords]]
    BY TypeRecords DEF IndInv
<1>2. CASE Enqueued(o, e)
    <2>1. event' = event
        BY <1>2 DEF EnqueueEvent
    <2>. QED
        BY <1>1, <1>2, <2>1 DEF Enqueued, IndInv, OrderInv, EventsTell
<1>3. CASE ~Enqueued(o, e)
    <2>1. PICK ev : ev = [NoEvent EXCEPT !.state = "pending", !.month = now]
        OBVIOUS
    <2>2. ev = [state |-> "pending", attempts |-> 0, waiting |-> FALSE, month |-> now]
        BY <2>1 DEF NoEvent
    <2>3. now \in 1 .. LastMonth
        BY DEF IndInv, AcctTypeOK, Months
    <2>4. ev \in EventRecords /\ ev.state = "pending" /\ ev.month # 0
        BY <2>2, <2>3, ConstantTypes DEF EventRecords, EventStates
    <2>5. event' = [event EXCEPT ![o][e] = ev]
        BY <1>3, <2>1 DEF EnqueueEvent
    <2>. QED
        BY <1>1, <2>4, <2>5
<1>. QED
    BY <1>2, <1>3

\* What an order has refunded: nothing when no refund is enqueued.
LEMMA RefundedIs ==
    ASSUME IndInv, NEW o \in Orders
    PROVE  /\ Refunded(o) \in Nat
           /\ Refunded(o) = 0 =>
                \A e \in Refunds : ~Enqueued(o, e) /\ ~Booked(o, e)
<1>. DEFINE q == [e \in Refunds |-> order[o].refunds[e].qty]
<1>1. \A e \in Refunds : q[e] \in Nat /\ q[e] = order[o].refunds[e].qty
    BY Types DEF IndInv
<1>2. Refunded(o) = SumFunctionOnSet(q, Refunds)
    BY DEF Refunded
<1>. HIDE DEF q
<1>3. /\ SumFunctionOnSet(q, Refunds) \in Nat
      /\ \A e \in Refunds : q[e] <= SumFunctionOnSet(q, Refunds)
    BY <1>1, EventIds, SumNat
<1>4. ASSUME Refunded(o) = 0, NEW e \in Refunds
      PROVE  ~Enqueued(o, e) /\ ~Booked(o, e)
    <2>1. order[o].refunds[e].qty = 0
        BY <1>1, <1>2, <1>3, <1>4
    <2>2. ~Enqueued(o, e)
        BY <2>1 DEF IndInv, OrderInv, RefundsCounted
    <2>. QED
        BY <2>2 DEF IndInv, OrderInv, EventsTell
<1>. QED
    BY <1>2, <1>3, <1>4

\* The orders a step leaves alone.
LEMMA OthersKeep ==
    ASSUME IndInv, NEW o \in Orders, order'[o] = order[o],
           event'[o] = event[o], ledger'[o] = ledger[o]
    PROVE  OrderInv(o)'
BY Untouched DEF IndInv

\* A payment, a shipment or a delivery.
LEMMA StageKeeps ==
    ASSUME IndInv, NEW o \in Orders, NEW from, NEW to, NEW e,
           e \in {Paid, Shipped, Delivered}, from # "delivered",
           to \in {"paid", "shipped", "delivered"},
           to = "delivered" <=> e = Delivered,
           NextStage(o, from, to, e)
    PROVE  IndInv'
<1>0. UNCHANGED <<armed, rateKnown, now, ledger, closed, reprocessed>>
    BY DEF NextStage
<1>1. /\ order[o].stage = from /\ Refunded(o) = 0
      /\ order' = [order EXCEPT ![o].stage = to] /\ EnqueueEvent(o, e)
    BY DEF NextStage
<1>2. e \in Events
    BY EventIds
<1>3. order \in [Orders -> OrderRecords] /\ order[o] \in OrderRecords
    BY TypeRecords DEF IndInv
<1>4. PICK r : r = [order[o] EXCEPT !.stage = to]
    OBVIOUS
<1>5. /\ r \in OrderRecords /\ r.chain = order[o].chain /\ r.refunds = order[o].refunds
      /\ r.stage = to
    BY <1>3, <1>4 DEF OrderRecords
<1>6. order' = [order EXCEPT ![o] = r]
    BY <1>1, <1>3, <1>4
<1>7. order' \in [Orders -> OrderRecords] /\ order'[o] = r
      /\ \A p \in Orders \ {o} : order'[p] = order[p]
    BY <1>3, <1>5, <1>6
<1>8. /\ event' \in [Orders -> [Events -> EventRecords]]
      /\ \A p \in Orders \ {o} : event'[p] = event[p]
      /\ \A f \in Events \ {e} : event'[o][f] = event[o][f]
      /\ event'[o][e].state # "none" /\ event'[o][e].month # 0
      /\ event'[o][e].state = "posted" => event[o][e].state = "posted"
    BY <1>1, <1>2, EnqueueWrites
<1>9. AcctTypeOK'
    BY <1>0, <1>7, <1>8 DEF IndInv, AcctTypeOK, OrderRecords, EventRecords
<1>10. \A p \in Orders \ {o} : OrderInv(p)'
    BY <1>0, <1>7, <1>8, OthersKeep
<1>11. OrderInv(o)'
    <2>1. OrderInv(o)
        BY DEF IndInv
    <2>2. \A f \in Events : /\ Booked(o, f)' <=> Booked(o, f)
                            /\ Enqueued(o, f)' <=> (f = e \/ Enqueued(o, f))
        BY <1>0, <1>8 DEF Booked, Enqueued
    <2>3. \A f \in Refunds : ~Enqueued(o, f) /\ ~Booked(o, f)
        BY <1>1, RefundedIs
    <2>4. RefundsCounted(o)'
        <3>1. Refunded(o)' = Refunded(o)
            BY <1>5, <1>7 DEF Refunded
        <3>2. \A f \in Refunds : Enqueued(o, f)' <=> Enqueued(o, f)
            BY <2>2, EventIds
        <3>3. order'[o].refunds = order[o].refunds
            BY <1>5, <1>7
        <3>. QED
            BY <2>1, <3>1, <3>2, <3>3 DEF OrderInv, RefundsCounted
    <2>5. StageTells(o)'
        BY <1>1, <1>5, <1>7, <2>1, <2>2, EventIds DEF OrderInv, StageTells
    <2>6. EventsTell(o)'
        <3>1. \A f \in Events : Enqueued(o, f)' => event'[o][f].month # 0
            BY <1>8, <2>1, <2>2 DEF OrderInv, EventsTell
        <3>2. \A f \in Events : event'[o][f].state = "posted" => Booked(o, f)'
            BY <1>8, <2>1, <2>2 DEF OrderInv, EventsTell
        <3>3. \A f \in Refunds \cup {Delivered} : Booked(o, f)' => Enqueued(o, f)'
            BY <2>1, <2>2, EventIds DEF OrderInv, EventsTell
        <3>. QED
            BY <3>1, <3>2, <3>3 DEF EventsTell
    <2>7. PaidBooks(o)' /\ ShippedBooks(o)' /\ DeliveredBooks(o)'
        <3>1. Prepayment(o)' = Prepayment(o) /\ order'[o].chain = order[o].chain
            BY <1>5, <1>7, <2>2, EventIds DEF Prepayment
        <3>. QED
            BY <1>0, <2>1, <2>2, <3>1, EventIds
               DEF OrderInv, EntriesTell, PaidBooks, ShippedBooks, DeliveredBooks
    <2>8. \A f \in Refunds : ~Booked(o, f)'
        BY <2>2, <2>3, EventIds
    <2>. QED
        BY <2>4, <2>5, <2>6, <2>7, <2>8 DEF OrderInv, EntriesTell
<1>. QED
    BY <1>9, <1>10, <1>11 DEF IndInv

\* A refund, within what is left of the order.
LEMMA RefundKeeps ==
    ASSUME IndInv, NEW o \in Orders, NEW qty \in 1 .. Units, NEW d \in Dispositions,
           RefundOrder(o, qty, d)
    PROVE  IndInv'
<1>0. UNCHANGED <<armed, rateKnown, now, ledger, closed, reprocessed>>
    BY DEF RefundOrder
<1>1. PICK e \in Refunds :
        /\ ~Enqueued(o, e) /\ EnqueueEvent(o, e)
        /\ order' = [order EXCEPT ![o].refunds[e] = [qty |-> qty, disposition |-> d]]
    BY DEF RefundOrder
<1>2. Refunded(o) + qty <= Units
    BY DEF RefundOrder
<1>3. e \in Events /\ e # Delivered /\ e # Paid /\ e # Shipped
    BY EventIds
<1>4. order \in [Orders -> OrderRecords] /\ order[o] \in OrderRecords
    BY TypeRecords DEF IndInv
<1>5. PICK x : x = [qty |-> qty, disposition |-> d]
    OBVIOUS
<1>6. x \in [qty : 0 .. Units, disposition : Dispositions] /\ x.qty = qty
    BY <1>5, ConstantTypes
<1>7. PICK rs : rs = [order[o].refunds EXCEPT ![e] = x]
    OBVIOUS
<1>8. /\ rs \in [Refunds -> [qty : 0 .. Units, disposition : Dispositions]]
      /\ rs[e] = x /\ \A f \in Refunds \ {e} : rs[f] = order[o].refunds[f]
    BY <1>4, <1>6, <1>7 DEF OrderRecords
<1>9. PICK r : r = [order[o] EXCEPT !.refunds = rs]
    OBVIOUS
<1>10. /\ r \in OrderRecords /\ r.chain = order[o].chain /\ r.refunds = rs
       /\ r.stage = order[o].stage
    BY <1>4, <1>8, <1>9 DEF OrderRecords
<1>11. order' = [order EXCEPT ![o] = r]
    BY <1>1, <1>4, <1>5, <1>7, <1>9
<1>12. /\ order' \in [Orders -> OrderRecords] /\ order'[o] = r
       /\ \A p \in Orders \ {o} : order'[p] = order[p]
    BY <1>4, <1>10, <1>11
<1>13. /\ event' \in [Orders -> [Events -> EventRecords]]
       /\ \A p \in Orders \ {o} : event'[p] = event[p]
       /\ \A f \in Events \ {e} : event'[o][f] = event[o][f]
       /\ event'[o][e].state # "none" /\ event'[o][e].month # 0
       /\ event'[o][e].state = "posted" => event[o][e].state = "posted"
    BY <1>1, <1>3, EnqueueWrites
<1>14. AcctTypeOK'
    BY <1>0, <1>12, <1>13 DEF IndInv, AcctTypeOK, OrderRecords, EventRecords
<1>15. \A p \in Orders \ {o} : OrderInv(p)'
    BY <1>0, <1>12, <1>13, OthersKeep
<1>16. OrderInv(o)'
    <2>1. OrderInv(o)
        BY DEF IndInv
    <2>2. \A f \in Events : /\ Booked(o, f)' <=> Booked(o, f)
                            /\ Enqueued(o, f)' <=> (f = e \/ Enqueued(o, f))
        BY <1>0, <1>13 DEF Booked, Enqueued
    <2>3. ~Booked(o, e)
        BY <1>1, <2>1 DEF OrderInv, EventsTell
    <2>4. RefundsCounted(o)'
        <3>. DEFINE q == [f \in Refunds |-> order[o].refunds[f].qty]
                    q2 == [f \in Refunds |-> rs[f].qty]
        <3>1. Refunded(o) = SumFunctionOnSet(q, Refunds)
            BY DEF Refunded
        <3>2. Refunded(o)' = SumFunctionOnSet(q2, Refunds)
            BY <1>10, <1>12 DEF Refunded
        <3>3. \A f \in Refunds : q[f] \in Nat /\ q[f] = order[o].refunds[f].qty
            BY Types DEF IndInv
        <3>4. q[e] = 0
            BY <1>1, <2>1, <3>3 DEF OrderInv, RefundsCounted
        <3>5. q2[e] = qty /\ \A f \in Refunds \ {e} : q2[f] = q[f]
            BY <1>6, <1>8
        <3>6. \A f \in Refunds : q2[f] = rs[f].qty
            OBVIOUS
        <3>. HIDE DEF q, q2
        <3>7. \A f \in Refunds : q[f] \in Int /\ q2[f] \in Int
            BY <3>3, <3>5
        <3>8. SumFunctionOnSet(q2, Refunds) = SumFunctionOnSet(q, Refunds) + q2[e] - q[e]
            BY <3>5, <3>7, EventIds, SumChange
        <3>9. Refunded(o)' <= Units
            BY <1>2, <3>1, <3>2, <3>4, <3>5, <3>8, RefundedIs
        <3>10. \A f \in Refunds : rs[f].qty > 0 <=> Enqueued(o, f)'
            <4>1. \A f \in Refunds \ {e} : rs[f].qty > 0 <=> Enqueued(o, f)
                BY <1>8, <2>1 DEF OrderInv, RefundsCounted
            <4>2. rs[e].qty > 0
                BY <1>6, <1>8
            <4>. QED
                BY <2>2, <4>1, <4>2, EventIds
        <3>. QED
            BY <1>10, <1>12, <3>9, <3>10 DEF RefundsCounted
    <2>5. StageTells(o)'
        BY <1>3, <1>10, <1>12, <2>1, <2>2, EventIds DEF OrderInv, StageTells
    <2>6. EventsTell(o)'
        <3>1. \A f \in Events : Enqueued(o, f)' => event'[o][f].month # 0
            BY <1>13, <2>1, <2>2 DEF OrderInv, EventsTell
        <3>2. \A f \in Events : event'[o][f].state = "posted" => Booked(o, f)'
            BY <1>13, <2>1, <2>2 DEF OrderInv, EventsTell
        <3>3. \A f \in Refunds \cup {Delivered} : Booked(o, f)' => Enqueued(o, f)'
            BY <2>1, <2>2, EventIds DEF OrderInv, EventsTell
        <3>. QED
            BY <3>1, <3>2, <3>3 DEF EventsTell
    <2>7. /\ Prepayment(o)' = Prepayment(o) /\ LegacySale(o)' = LegacySale(o)
          /\ order'[o].chain = order[o].chain
        BY <1>10, <1>12, <2>2, EventIds DEF Prepayment, LegacySale
    <2>8. PaidBooks(o)' /\ ShippedBooks(o)' /\ DeliveredBooks(o)'
        BY <1>0, <2>1, <2>2, <2>7, EventIds
           DEF OrderInv, EntriesTell, PaidBooks, ShippedBooks, DeliveredBooks
    <2>9. ASSUME NEW f \in Refunds, Booked(o, f)'
          PROVE  RefundBooks(o, f)'
        <3>1. Booked(o, f) /\ f # e
            BY <2>2, <2>3, <2>9, EventIds
        <3>2. RefundBooks(o, f)
            BY <2>1, <3>1 DEF OrderInv, EntriesTell
        <3>3. order'[o].refunds[f] = order[o].refunds[f]
            BY <1>8, <1>10, <1>12, <3>1
        <3>4. /\ Booked(o, Paid)' <=> Booked(o, Paid)
              /\ Booked(o, Shipped)' <=> Booked(o, Shipped)
              /\ Booked(o, Delivered)' <=> Booked(o, Delivered)
              /\ Enqueued(o, Delivered)' <=> Enqueued(o, Delivered)
            BY <1>3, <2>2, EventIds
        <3>. QED
            BY <1>0, <2>7, <3>2, <3>3, <3>4 DEF RefundBooks
    <2>. QED
        BY <2>4, <2>5, <2>6, <2>8, <2>9 DEF OrderInv, EntriesTell
<1>. QED
    BY <1>14, <1>15, <1>16 DEF IndInv

\* The order's life, the clock, the rate and the periods.
LEMMA EnvironmentKeeps ==
    ASSUME IndInv,
           \/ \E o \in Orders :
                \/ PayOrder(o) \/ ShipOrder(o) \/ DeliverOrder(o)
                \/ \E qty \in 1 .. Units, d \in Dispositions : RefundOrder(o, qty, d)
                \/ CaptureSettlement(o)
           \/ AddVatRate \/ NextMonth
           \/ \E m \in Months : ClosePeriod(m) \/ ReopenPeriod(m)
    PROVE  IndInv'
<1>1. ASSUME NEW o \in Orders, PayOrder(o) \/ ShipOrder(o) \/ DeliverOrder(o)
      PROVE  IndInv'
    BY <1>1, StageKeeps, EventIds DEF PayOrder, ShipOrder, DeliverOrder
<1>2. ASSUME NEW o \in Orders, CaptureSettlement(o)
      PROVE  IndInv'
    <2>1. /\ UNCHANGED <<armed, rateKnown, now, event, ledger, closed, reprocessed>>
          /\ order' = [order EXCEPT ![o].settled = TRUE]
        BY <1>2 DEF CaptureSettlement
    <2>2. order \in [Orders -> OrderRecords] /\ order[o] \in OrderRecords
        BY TypeRecords DEF IndInv
    <2>3. PICK r : r = [order[o] EXCEPT !.settled = TRUE]
        OBVIOUS
    <2>4. /\ r \in OrderRecords /\ r.chain = order[o].chain /\ r.refunds = order[o].refunds
          /\ r.stage = order[o].stage
        BY <2>2, <2>3 DEF OrderRecords
    <2>5. order' = [order EXCEPT ![o] = r]
        BY <2>1, <2>2, <2>3
    <2>6. /\ order' \in [Orders -> OrderRecords] /\ order'[o] = r
          /\ \A p \in Orders \ {o} : order'[p] = order[p]
        BY <2>2, <2>4, <2>5
    <2>7. AcctTypeOK'
        BY <2>1, <2>6 DEF IndInv, AcctTypeOK, OrderRecords
    <2>8. \A p \in Orders : OrderInv(p)'
        BY <2>1, <2>4, <2>6, Untouched DEF IndInv
    <2>. QED
        BY <2>7, <2>8 DEF IndInv
<1>3. CASE \/ AddVatRate \/ NextMonth
           \/ \E m \in Months : ClosePeriod(m) \/ ReopenPeriod(m)
    <2>1. UNCHANGED <<armed, order, event, ledger, reprocessed>>
        BY <1>3 DEF AddVatRate, NextMonth, ClosePeriod, ReopenPeriod, opsVars
    <2>2. now \in 1 .. LastMonth /\ closed \subseteq 1 .. (now - 1) /\ rateKnown \in BOOLEAN
        BY DEF IndInv, AcctTypeOK, Months
    <2>3. now' \in 1 .. LastMonth /\ closed' \subseteq 1 .. (now' - 1) /\ rateKnown' \in BOOLEAN
        <3>1. CASE AddVatRate
            BY <2>2, <3>1 DEF AddVatRate
        <3>2. CASE NextMonth
            BY <2>2, <3>2, ConstantTypes DEF NextMonth
        <3>3. ASSUME NEW m \in Months, ClosePeriod(m) PROVE now' \in 1 .. LastMonth /\ closed' \subseteq 1 .. (now' - 1) /\ rateKnown' \in BOOLEAN
            BY <2>2, <3>3, ConstantTypes DEF ClosePeriod, opsVars, Months
        <3>4. ASSUME NEW m \in Months, ReopenPeriod(m) PROVE now' \in 1 .. LastMonth /\ closed' \subseteq 1 .. (now' - 1) /\ rateKnown' \in BOOLEAN
            BY <2>2, <3>4 DEF ReopenPeriod, opsVars
        <3>. QED
            BY <1>3, <3>1, <3>2, <3>3, <3>4
    <2>4. AcctTypeOK'
        BY <2>1, <2>3 DEF IndInv, AcctTypeOK, Months
    <2>5. \A p \in Orders : OrderInv(p)'
        BY <2>1, OthersKeep
    <2>. QED
        BY <2>4, <2>5 DEF IndInv
<1>. QED
    BY <1>1, <1>2, <1>3, RefundKeeps

(***************************************************************************)
(* Lines and balances                                                      *)
(***************************************************************************)
\* Products of the model's naturals are naturals.
LEMMA NatProduct == \A m, n \in Nat : m * n \in Nat
OBVIOUS

\* The lines of a prepayment.
LEMMA PrepaymentIs ==
    /\ PrepaymentLines \in [Accounts -> Int]
    /\ PrepaymentLines["money"] = Units * (Net + Vat) /\ PrepaymentLines["vat"] = -(Units * Vat)
    /\ PrepaymentLines["prepaid"] = -(Units * Net)
    /\ \A a \in Accounts \ {"money", "vat", "prepaid"} : PrepaymentLines[a] = 0
<1>1. PICK m, v, n \in Nat : m = Units * (Net + Vat) /\ v = Units * Vat /\ n = Units * Net
    BY ConstantTypes
<1>2. PrepaymentLines = [NoLines EXCEPT !["money"] = m, !["vat"] = -v, !["prepaid"] = -n]
    BY <1>1 DEF PrepaymentLines
<1>. QED
    BY <1>1, <1>2 DEF NoLines, Accounts

\* The lines of a sale of the old chain.
LEMMA SaleIs ==
    /\ SaleLines \in [Accounts -> Int]
    /\ SaleLines["money"] = Units * (Net + Vat) /\ SaleLines["vat"] = -(Units * Vat)
    /\ SaleLines["revenue"] = -(Units * Net) /\ SaleLines["cogs"] = Units * Cost
    /\ \A a \in Accounts \ {"money", "vat", "revenue", "cogs", "stock"} : SaleLines[a] = 0
<1>1. PICK m, v, n, c \in Nat : /\ m = Units * (Net + Vat) /\ v = Units * Vat
                                /\ n = Units * Net /\ c = Units * Cost
    BY ConstantTypes
<1>2. SaleLines = [NoLines EXCEPT !["money"] = m, !["vat"] = -v, !["revenue"] = -n,
                                  !["cogs"] = c, !["stock"] = -c]
    BY <1>1 DEF SaleLines
<1>. QED
    BY <1>1, <1>2 DEF NoLines, Accounts

\* The lines of goods in transit.
LEMMA TransitIs ==
    /\ TransitLines \in [Accounts -> Int]
    /\ TransitLines["transit"] = Units * Cost
    /\ \A a \in Accounts \ {"transit", "stock"} : TransitLines[a] = 0
<1>1. PICK c \in Nat : c = Units * Cost
    BY ConstantTypes
<1>2. TransitLines = [NoLines EXCEPT !["transit"] = c, !["stock"] = -c]
    BY <1>1 DEF TransitLines
<1>. QED
    BY <1>1, <1>2 DEF NoLines, Accounts

\* The lines of a delivered sale.
LEMMA DeliveredSaleIs ==
    ASSUME NEW n \in Int, NEW c \in Int
    PROVE  /\ DeliveredSaleLines(n, c) \in [Accounts -> Int]
           /\ DeliveredSaleLines(n, c)["prepaid"] = n
           /\ DeliveredSaleLines(n, c)["revenue"] = -n
           /\ DeliveredSaleLines(n, c)["cogs"] = c
           /\ DeliveredSaleLines(n, c)["transit"] = -c
           /\ \A a \in Accounts \ {"prepaid", "revenue", "cogs", "transit"} :
                 DeliveredSaleLines(n, c)[a] = 0
BY DEF DeliveredSaleLines, NoLines, Accounts

\* The lines of a refund after the sale.
LEMMA RefundIs ==
    ASSUME NEW r \in [qty : 0 .. Units, disposition : Dispositions]
    PROVE  /\ RefundLines(r) \in [Accounts -> Int]
           /\ RefundLines(r)["money"] = -(r.qty * (Net + Vat))
           /\ RefundLines(r)["vat"] = r.qty * Vat
           /\ RefundLines(r)["returns"] = r.qty * Net
           /\ RefundLines(r)["cogs"] <= 0 /\ RefundLines(r)["cogs"] >= -(r.qty * Cost)
           /\ \A a \in Accounts \ {"money", "vat", "returns", "stock", "cogs"} :
                 RefundLines(r)[a] = 0
<1>0. r.qty \in Nat /\ Net \in Nat /\ Vat \in Nat /\ Cost \in Nat /\ Net + Vat \in Nat
    BY ConstantTypes
<1>1. PICK m, v, n, k \in Nat : /\ m = r.qty * (Net + Vat) /\ v = r.qty * Vat
                                /\ n = r.qty * Net /\ k = r.qty * Cost
    BY <1>0, NatProduct
<1>2. PICK c \in Nat : c = (IF r.disposition = "restock" THEN r.qty * Cost ELSE 0) /\ c <= k
    BY <1>1
<1>3. RefundLines(r) = [NoLines EXCEPT !["returns"] = n, !["vat"] = v, !["money"] = -m,
                                       !["stock"] = c, !["cogs"] = -c]
    BY <1>1, <1>2 DEF RefundLines
<1>. QED
    BY <1>1, <1>2, <1>3 DEF NoLines, Accounts

\* The lines of a refund before the delivered sale.
LEMMA PreDeliveredRefundIs ==
    ASSUME NEW r \in [qty : 0 .. Units, disposition : Dispositions], NEW transit \in BOOLEAN
    PROVE  LET lines == PreDeliveredRefundLines(r, transit)
           IN  /\ lines \in [Accounts -> Int]
               /\ lines["money"] = -(r.qty * (Net + Vat))
               /\ lines["vat"] = r.qty * Vat
               /\ lines["prepaid"] = r.qty * Net
               /\ lines["transit"] = IF transit THEN -(r.qty * Cost) ELSE 0
               /\ \A a \in Accounts \ {"money", "vat", "prepaid", "transit", "stock", "writeoff"} :
                     lines[a] = 0
<1>0. r.qty \in Nat /\ Net \in Nat /\ Vat \in Nat /\ Cost \in Nat /\ Net + Vat \in Nat
    BY ConstantTypes
<1>1. PICK m, v, n, k \in Nat : /\ m = r.qty * (Net + Vat) /\ v = r.qty * Vat
                                /\ n = r.qty * Net /\ k = r.qty * Cost
    BY <1>0, NatProduct
<1>2. PICK c \in Nat : c = IF transit THEN r.qty * Cost ELSE 0
    BY <1>1
<1>3. PICK s, w \in Nat : /\ s = IF r.disposition = "restock" THEN c ELSE 0
                          /\ w = IF r.disposition = "restock" THEN 0 ELSE c
    BY <1>2
<1>4. PreDeliveredRefundLines(r, transit) =
        [NoLines EXCEPT !["prepaid"] = n, !["vat"] = v, !["money"] = -m,
                        !["transit"] = -c, !["stock"] = s, !["writeoff"] = w]
    BY <1>1, <1>2, <1>3 DEF PreDeliveredRefundLines
<1>. QED
    BY <1>1, <1>2, <1>3, <1>4 DEF NoLines, Accounts

\* What the refunds of an order have put on an account.
RefundSum(o, a) == SumFunctionOnSet([e \in Refunds |-> ledger[o][e].lines[a]], Refunds)

\* A balance is what the sale's three entries and the refunds put there.
LEMMA BalanceIs ==
    ASSUME AcctTypeOK, NEW o \in Orders, NEW a \in Accounts
    PROVE  /\ Balance(o, a) = ledger[o][Paid].lines[a] + ledger[o][Shipped].lines[a]
                                + ledger[o][Delivered].lines[a] + RefundSum(o, a)
           /\ RefundSum(o, a) \in Int
           /\ \A e \in Events : ledger[o][e].lines[a] \in Int
<1>. DEFINE l == [e \in Events |-> ledger[o][e].lines[a]]
            q == [e \in Refunds |-> ledger[o][e].lines[a]]
<1>1. \A e \in Events : ledger[o][e].lines[a] \in Int /\ l[e] = ledger[o][e].lines[a]
    BY Types
<1>2. Balance(o, a) = SumFunctionOnSet(l, Events)
    BY DEF Balance
<1>3. RefundSum(o, a) = SumFunctionOnSet(q, Refunds)
    BY DEF RefundSum
<1>4. \A e \in Refunds : q[e] \in Int /\ q[e] = l[e]
    BY <1>1, EventIds
<1>. HIDE DEF l, q
<1>5. SumFunctionOnSet(l, Events) = l[Paid] + SumFunctionOnSet(l, Events \ {Paid})
    BY <1>1, EventIds, SumRemove
<1>6. SumFunctionOnSet(l, Events \ {Paid})
        = l[Shipped] + SumFunctionOnSet(l, Events \ {Paid, Shipped})
    <2>1. IsFiniteSet(Events \ {Paid}) /\ Shipped \in Events \ {Paid}
        BY EventIds, FS_Subset
    <2>2. (Events \ {Paid}) \ {Shipped} = Events \ {Paid, Shipped}
        OBVIOUS
    <2>. QED
        BY <1>1, <2>1, <2>2, SumRemove
<1>7. SumFunctionOnSet(l, Events \ {Paid, Shipped})
        = l[Delivered] + SumFunctionOnSet(l, Refunds)
    <2>1. IsFiniteSet(Events \ {Paid, Shipped}) /\ Delivered \in Events \ {Paid, Shipped}
        BY EventIds, FS_Subset
    <2>2. (Events \ {Paid, Shipped}) \ {Delivered} = Refunds
        BY EventIds
    <2>. QED
        BY <1>1, <2>1, <2>2, SumRemove
<1>8. SumFunctionOnSet(q, Refunds) = SumFunctionOnSet(l, Refunds)
    BY <1>4, EventIds, SumEqual
<1>9. SumFunctionOnSet(q, Refunds) \in Int
    BY <1>4, EventIds, SumInt
<1>. QED
    BY <1>1, <1>2, <1>3, <1>5, <1>6, <1>7, <1>8, <1>9, EventIds

\* What is not booked has no lines.
LEMMA UnbookedIs ==
    ASSUME NEW o, NEW e, ~Booked(o, e), NEW a \in Accounts
    PROVE  ledger[o][e].lines[a] = 0
BY DEF Booked, NoEntry, NoLines

(***************************************************************************)
(* The worker                                                              *)
(***************************************************************************)
\* What a post writes: the entries that are new, and the event.
LEMMA PostsWrites ==
    ASSUME IndInv, NEW o \in Orders, NEW e \in Events, Pending(o, e),
           NEW entries, DOMAIN entries \subseteq {e, Shipped},
           e \in DOMAIN entries,
           \A f \in DOMAIN entries : entries[f] \in [Accounts -> Int],
           CreateJournalEntries(o, entries, event[o][e].month),
           event' = [event EXCEPT ![o][e] = Fresh(@, "posted")],
           UNCHANGED <<opsVars, closed, reprocessed>>
    PROVE  /\ AcctTypeOK'
           /\ \A p \in Orders \ {o} : OrderInv(p)'
           /\ RefundsCounted(o)' /\ StageTells(o)' /\ EventsTell(o)'
           /\ order' = order
           /\ \A f \in Events :
                /\ Enqueued(o, f)' <=> Enqueued(o, f)
                /\ Booked(o, f)' <=> (f \in DOMAIN entries \/ Booked(o, f))
                /\ ledger'[o][f].lines = IF f \in DOMAIN entries /\ ~Booked(o, f)
                                         THEN entries[f] ELSE ledger[o][f].lines
<1>0. UNCHANGED <<armed, order, rateKnown, now>>
    BY DEF opsVars
<1>1. /\ event \in [Orders -> [Events -> EventRecords]]
      /\ ledger \in [Orders -> [Events -> EntryRecords]]
    BY TypeRecords DEF IndInv
<1>2. PICK old \in EventRecords : old = event[o][e] /\ old.state = "pending"
    BY <1>1 DEF Pending
<1>3. PICK m \in 0 .. LastMonth : m = old.month /\ m # 0
    BY <1>2 DEF IndInv, OrderInv, EventsTell, Enqueued, EventRecords
<1>4. PICK ev : ev = Fresh(old, "posted")
    OBVIOUS
<1>5. ev \in EventRecords /\ ev.state = "posted" /\ ev.month = m
    BY <1>3, <1>4, FreshIs DEF EventStates
<1>6. event' = [event EXCEPT ![o][e] = ev]
    BY <1>2, <1>4
<1>7. /\ event' \in [Orders -> [Events -> EventRecords]]
      /\ \A p \in Orders \ {o} : event'[p] = event[p]
      /\ \A f \in Events : event'[o][f] = IF f = e THEN ev ELSE event[o][f]
    BY <1>1, <1>5, <1>6
<1>8. PICK new : new = [f \in Events |-> IF f \in DOMAIN entries /\ ~Booked(o, f)
                                         THEN [month |-> m, lines |-> entries[f]]
                                         ELSE ledger[o][f]]
    OBVIOUS
<1>9. ledger' = [ledger EXCEPT ![o] = new]
    BY <1>1, <1>2, <1>3, <1>8 DEF CreateJournalEntries
<1>10. new \in [Events -> EntryRecords]
    <2>1. ASSUME NEW f \in Events
          PROVE  (IF f \in DOMAIN entries /\ ~Booked(o, f)
                  THEN [month |-> m, lines |-> entries[f]] ELSE ledger[o][f]) \in EntryRecords
        BY <1>1, <1>3 DEF EntryRecords
    <2>. QED
        BY <1>8, <2>1
<1>11. /\ ledger' \in [Orders -> [Events -> EntryRecords]]
       /\ \A p \in Orders \ {o} : ledger'[p] = ledger[p]
       /\ ledger'[o] = new
    BY <1>1, <1>9, <1>10
<1>12. AcctTypeOK'
    BY <1>0, <1>7, <1>11 DEF IndInv, AcctTypeOK, EventRecords, EntryRecords
<1>13. \A p \in Orders \ {o} : OrderInv(p)'
    BY <1>0, <1>7, <1>11, OthersKeep
<1>14. \A f \in Events : Enqueued(o, f)' <=> Enqueued(o, f)
    BY <1>2, <1>5, <1>7 DEF Enqueued
<1>15. ASSUME NEW f \in Events
       PROVE  /\ Booked(o, f)' <=> (f \in DOMAIN entries \/ Booked(o, f))
              /\ ledger'[o][f].lines = IF f \in DOMAIN entries /\ ~Booked(o, f)
                                       THEN entries[f] ELSE ledger[o][f].lines
    <2>1. CASE f \in DOMAIN entries /\ ~Booked(o, f)
        <3>1. ledger'[o][f] = [month |-> m, lines |-> entries[f]]
            BY <1>8, <1>11, <2>1
        <3>2. ledger'[o][f].month # NoEntry.month
            BY <1>3, <3>1 DEF NoEntry
        <3>. QED
            BY <2>1, <3>1, <3>2 DEF Booked
    <2>2. CASE ~(f \in DOMAIN entries /\ ~Booked(o, f))
        <3>1. ledger'[o][f] = ledger[o][f]
            BY <1>8, <1>11, <2>2
        <3>. QED
            BY <2>2, <3>1 DEF Booked
    <2>. QED
        BY <2>1, <2>2
<1>16. OrderInv(o)
    BY DEF IndInv
<1>17. RefundsCounted(o)'
    <2>1. Refunded(o)' = Refunded(o)
        BY <1>0 DEF Refunded
    <2>. QED
        BY <1>0, <1>14, <1>16, <2>1, EventIds DEF OrderInv, RefundsCounted
<1>18. StageTells(o)'
    BY <1>0, <1>14, <1>16, EventIds DEF OrderInv, StageTells
<1>19. EventsTell(o)'
    <2>1. \A f \in Events : Enqueued(o, f)' => event'[o][f].month # 0
        BY <1>3, <1>5, <1>7, <1>14, <1>16 DEF OrderInv, EventsTell
    <2>2. \A f \in Events : event'[o][f].state = "posted" => Booked(o, f)'
        BY <1>7, <1>15, <1>16 DEF OrderInv, EventsTell
    <2>3. \A f \in Refunds \cup {Delivered} : Booked(o, f)' => Enqueued(o, f)'
        <3>1. Enqueued(o, e)
            BY DEF Enqueued, Pending
        <3>. QED
            BY <1>14, <1>15, <1>16, <3>1, EventIds DEF OrderInv, EventsTell
    <2>. QED
        BY <2>1, <2>2, <2>3 DEF EventsTell
<1>. QED
    BY <1>0, <1>12, <1>13, <1>14, <1>15, <1>17, <1>18, <1>19

\* postOrDefer either leaves the books or posts.
LEMMA PostOrDeferCases ==
    ASSUME IndInv, NEW o \in Orders, NEW e \in Events, Pending(o, e), NEW entries,
           PostOrDefer(o, e, entries), UNCHANGED <<opsVars, closed, reprocessed>>
    PROVE  \/ IndInv'
           \/ /\ CreateJournalEntries(o, entries, event[o][e].month)
              /\ event' = [event EXCEPT ![o][e] = Fresh(@, "posted")]
<1>1. \/ Defer(o, e) \/ NeedsReview(o, e)
      \/ /\ CreateJournalEntries(o, entries, event[o][e].month)
         /\ event' = [event EXCEPT ![o][e] = Fresh(@, "posted")]
    BY DEF PostOrDefer
<1>. QED
    BY <1>1, OutcomeKeeps

\* A refund's entry keeps telling its refund while the sale's entries stand,
\* unless the delivered sale is posted.
LEMMA RefundBooksKeeps ==
    ASSUME NEW o \in Orders, NEW f \in Refunds, RefundBooks(o, f),
           order' = order, ledger'[o][f].lines = ledger[o][f].lines,
           Booked(o, Paid)', Booked(o, Shipped) => Booked(o, Shipped)',
           Booked(o, Delivered)' <=> Booked(o, Delivered),
           Enqueued(o, Delivered)' <=> Enqueued(o, Delivered)
    PROVE  RefundBooks(o, f)'
<1>1. Booked(o, Paid) /\ (LegacySale(o)' <=> LegacySale(o))
    BY DEF RefundBooks, LegacySale
<1>2. CASE LegacySale(o) \/ Booked(o, Delivered)
    BY <1>1, <1>2 DEF RefundBooks
<1>3. CASE ~(LegacySale(o) \/ Booked(o, Delivered))
    <2>1. ~Enqueued(o, Delivered)
        BY <1>3 DEF RefundBooks
    <2>2. PICK transit \in BOOLEAN :
            /\ transit => Booked(o, Shipped)
            /\ ledger[o][f].lines = PreDeliveredRefundLines(order[o].refunds[f], transit)
        BY <1>3 DEF RefundBooks
    <2>3. /\ transit => Booked(o, Shipped)'
          /\ ledger'[o][f].lines = PreDeliveredRefundLines(order'[o].refunds[f], transit)
        BY <2>2
    <2>. QED
        BY <1>1, <1>3, <2>1, <2>3 DEF RefundBooks
<1>. QED
    BY <1>2, <1>3

\* The paid event.
LEMMA PostPaidKeeps ==
    ASSUME IndInv, NEW o \in Orders, Pending(o, Paid), ~Skips(o, Paid),
           ProcessOrderPaid(o), UNCHANGED <<opsVars, closed, reprocessed>>
    PROVE  IndInv'
<1>0. Paid \in Events
    BY EventIds
<1>1. order[o].chain # "prestart"
    BY EventIds DEF Skips
<1>. DEFINE lines == IF order[o].chain = "delivered" THEN PrepaymentLines ELSE SaleLines
<1>2. \/ NeedsReview(o, Paid) \/ Defer(o, Paid)
      \/ order[o].chain # "manual" /\ PostOrDefer(o, Paid, Only(Paid, lines))
    BY DEF ProcessOrderPaid
<1>3. CASE order[o].chain # "manual" /\ PostOrDefer(o, Paid, Only(Paid, lines))
    <2>1. order[o].chain \in {"delivered", "legacy"}
        BY <1>1, <1>3, Types DEF IndInv, Chains
    <2>2. lines \in [Accounts -> Int]
        BY PrepaymentIs, SaleIs
    <2>. HIDE DEF lines
    <2>3. PICK entries : entries = Only(Paid, lines)
        OBVIOUS
    <2>4. DOMAIN entries = {Paid} /\ entries[Paid] = lines
        BY <2>3 DEF Only
    <2>5. CASE /\ CreateJournalEntries(o, entries, event[o][Paid].month)
               /\ event' = [event EXCEPT ![o][Paid] = Fresh(@, "posted")]
        <3>1. /\ AcctTypeOK'
              /\ \A p \in Orders \ {o} : OrderInv(p)'
              /\ RefundsCounted(o)' /\ StageTells(o)' /\ EventsTell(o)'
              /\ order' = order
              /\ \A f \in Events :
                    /\ Enqueued(o, f)' <=> Enqueued(o, f)
                    /\ Booked(o, f)' <=> (f \in DOMAIN entries \/ Booked(o, f))
                    /\ ledger'[o][f].lines = IF f \in DOMAIN entries /\ ~Booked(o, f)
                                             THEN entries[f] ELSE ledger[o][f].lines
            BY <1>0, <2>2, <2>4, <2>5, PostsWrites
        <3>2. EntriesTell(o)
            BY DEF IndInv, OrderInv
        <3>3. /\ Booked(o, Paid)'
              /\ \A f \in Events \ {Paid} : /\ Booked(o, f)' <=> Booked(o, f)
                                            /\ ledger'[o][f].lines = ledger[o][f].lines
            BY <1>0, <2>4, <3>1
        <3>4. PaidBooks(o)'
            <4>1. CASE Booked(o, Paid)
                BY <1>0, <3>1, <3>2, <4>1 DEF EntriesTell, PaidBooks
            <4>2. CASE ~Booked(o, Paid)
                <5>1. ledger'[o][Paid].lines = lines
                    BY <1>0, <2>4, <3>1, <4>2
                <5>. QED
                    BY <2>1, <3>1, <5>1 DEF PaidBooks, lines
            <4>. QED
                BY <4>1, <4>2
        <3>5. Prepayment(o) => Prepayment(o)'
            BY <3>1, <3>3 DEF Prepayment
        <3>6. ShippedBooks(o)' /\ DeliveredBooks(o)'
            BY <3>2, <3>3, <3>5, EventIds DEF EntriesTell, ShippedBooks, DeliveredBooks
        <3>7. \A f \in Refunds : Booked(o, f)' => RefundBooks(o, f)'
            BY <3>1, <3>2, <3>3, EventIds, RefundBooksKeeps DEF EntriesTell
        <3>. QED
            BY <3>1, <3>4, <3>6, <3>7 DEF IndInv, OrderInv, EntriesTell
    <2>. QED
        BY <1>0, <1>3, <2>3, <2>5, PostOrDeferCases
<1>. QED
    BY <1>0, <1>2, <1>3, OutcomeKeeps

\* The shipped event.
LEMMA PostShippedKeeps ==
    ASSUME IndInv, NEW o \in Orders, Pending(o, Shipped),
           ProcessOrderShipped(o), UNCHANGED <<opsVars, closed, reprocessed>>
    PROVE  IndInv'
<1>0. Shipped \in Events
    BY EventIds
<1>2. \/ Defer(o, Shipped)
      \/ Prepayment(o) /\ PostOrDefer(o, Shipped, Only(Shipped, TransitLines))
    BY DEF ProcessOrderShipped
<1>3. CASE Prepayment(o) /\ PostOrDefer(o, Shipped, Only(Shipped, TransitLines))
    <2>2. TransitLines \in [Accounts -> Int]
        BY TransitIs
    <2>3. PICK entries : entries = Only(Shipped, TransitLines)
        OBVIOUS
    <2>4. DOMAIN entries = {Shipped} /\ entries[Shipped] = TransitLines
        BY <2>3 DEF Only
    <2>5. CASE /\ CreateJournalEntries(o, entries, event[o][Shipped].month)
               /\ event' = [event EXCEPT ![o][Shipped] = Fresh(@, "posted")]
        <3>1. /\ AcctTypeOK'
              /\ \A p \in Orders \ {o} : OrderInv(p)'
              /\ RefundsCounted(o)' /\ StageTells(o)' /\ EventsTell(o)'
              /\ order' = order
              /\ \A f \in Events :
                    /\ Enqueued(o, f)' <=> Enqueued(o, f)
                    /\ Booked(o, f)' <=> (f \in DOMAIN entries \/ Booked(o, f))
                    /\ ledger'[o][f].lines = IF f \in DOMAIN entries /\ ~Booked(o, f)
                                             THEN entries[f] ELSE ledger[o][f].lines
            BY <1>0, <2>2, <2>4, <2>5, PostsWrites
        <3>2. EntriesTell(o)
            BY DEF IndInv, OrderInv
        <3>3. /\ Booked(o, Shipped)'
              /\ \A f \in Events \ {Shipped} : /\ Booked(o, f)' <=> Booked(o, f)
                                               /\ ledger'[o][f].lines = ledger[o][f].lines
            BY <1>0, <2>4, <3>1
        <3>4. Prepayment(o)' <=> Prepayment(o)
            BY <3>1, <3>3, EventIds DEF Prepayment
        <3>5. ShippedBooks(o)'
            <4>1. ledger'[o][Shipped].lines = TransitLines
                BY <1>0, <2>4, <3>1, <3>2 DEF EntriesTell, ShippedBooks
            <4>. QED
                BY <1>3, <3>4, <4>1 DEF ShippedBooks
        <3>6. PaidBooks(o)' /\ DeliveredBooks(o)'
            BY <3>1, <3>2, <3>3, <3>4, EventIds DEF EntriesTell, PaidBooks, DeliveredBooks
        <3>7. Booked(o, Paid)'
            BY <1>3, <3>3, EventIds DEF Prepayment
        <3>8. \A f \in Refunds : Booked(o, f)' => RefundBooks(o, f)'
            BY <3>1, <3>2, <3>3, <3>7, EventIds, RefundBooksKeeps DEF EntriesTell
        <3>. QED
            BY <3>1, <3>5, <3>6, <3>8 DEF IndInv, OrderInv, EntriesTell
    <2>. QED
        BY <1>0, <1>3, <2>3, <2>5, PostOrDeferCases
<1>. QED
    BY <1>0, <1>2, <1>3, OutcomeKeeps

\* A delivered order whose sale is not booked has its whole prepayment and its
\* goods in transit: no refund of it is booked yet.
LEMMA WholeOrder ==
    ASSUME IndInv, NEW o \in Orders, Prepayment(o), Enqueued(o, Delivered),
           ~Booked(o, Delivered)
    PROVE  /\ \A e \in Refunds : ~Booked(o, e)
           /\ Remaining2090(o) = Units * Net
           /\ Booked(o, Shipped) => Remaining1140(o) = Units * Cost
<1>1. AcctTypeOK /\ EntriesTell(o)
    BY DEF IndInv, OrderInv
<1>2. \A e \in Refunds : ~Booked(o, e)
    BY <1>1 DEF EntriesTell, RefundBooks, LegacySale, Prepayment
<1>3. ledger[o][Paid].lines = PrepaymentLines
    BY <1>1 DEF EntriesTell, PaidBooks, Prepayment
<1>4. ASSUME NEW a \in Accounts
      PROVE  RefundSum(o, a) = 0
    <2>. DEFINE q == [e \in Refunds |-> ledger[o][e].lines[a]]
    <2>1. \A e \in Refunds : q[e] = 0
        BY <1>2, UnbookedIs
    <2>2. RefundSum(o, a) = SumFunctionOnSet(q, Refunds)
        BY DEF RefundSum
    <2>. HIDE DEF q
    <2>. QED
        BY <2>1, <2>2, EventIds, SumZero
<1>5. {"prepaid", "transit"} \subseteq Accounts
    BY DEF Accounts
<1>6. ledger[o][Delivered].lines["prepaid"] = 0 /\ ledger[o][Delivered].lines["transit"] = 0
    BY <1>5, UnbookedIs
<1>7. ledger[o][Shipped].lines["prepaid"] = 0
    <2>1. CASE Booked(o, Shipped)
        BY <1>1, <1>5, <2>1, TransitIs DEF EntriesTell, ShippedBooks
    <2>. QED
        BY <1>5, <2>1, UnbookedIs
<1>8. Remaining2090(o) = Units * Net
    <2>1. Balance(o, "prepaid") = -(Units * Net)
        BY <1>1, <1>3, <1>4, <1>5, <1>6, <1>7, BalanceIs, PrepaymentIs, ConstantTypes
    <2>. QED
        BY <2>1, ConstantTypes DEF Remaining2090
<1>9. ASSUME Booked(o, Shipped)
      PROVE  Remaining1140(o) = Units * Cost
    <2>1. ledger[o][Shipped].lines["transit"] = Units * Cost
        BY <1>1, <1>9, TransitIs DEF EntriesTell, ShippedBooks
    <2>2. ledger[o][Paid].lines["transit"] = 0
        BY <1>3, <1>5, PrepaymentIs
    <2>. QED
        BY <1>1, <1>4, <1>5, <1>6, <2>1, <2>2, BalanceIs, ConstantTypes DEF Remaining1140
<1>. QED
    BY <1>2, <1>8, <1>9

\* The delivered event.
LEMMA PostDeliveredKeeps ==
    ASSUME IndInv, NEW o \in Orders, Pending(o, Delivered), ~Skips(o, Delivered),
           ProcessOrderDelivered(o), UNCHANGED <<opsVars, closed, reprocessed>>
    PROVE  IndInv'
<1>0. Delivered \in Events /\ Enqueued(o, Delivered)
    BY EventIds DEF Pending, Enqueued
<1>. DEFINE synthesized == ~Booked(o, Shipped) /\ Cost > 0
            transitCost == IF synthesized THEN Units * Cost
                           ELSE IF Booked(o, Shipped) THEN Remaining1140(o) ELSE 0
            sale == DeliveredSaleLines(Remaining2090(o), transitCost)
            posts == [e \in {Delivered} \cup IF synthesized THEN {Shipped} ELSE {} |->
                        IF e = Delivered THEN sale ELSE TransitLines]
<1>2. \/ Defer(o, Delivered)
      \/ Prepayment(o) /\ PostOrDefer(o, Delivered, posts)
    BY DEF ProcessOrderDelivered
<1>3. CASE Prepayment(o) /\ PostOrDefer(o, Delivered, posts)
    <2>1. ~Booked(o, Delivered)
        BY <1>3, EventIds DEF Skips
    <2>2. /\ \A e \in Refunds : ~Booked(o, e)
          /\ Remaining2090(o) = Units * Net
          /\ Booked(o, Shipped) => Remaining1140(o) = Units * Cost
        BY <1>0, <1>3, <2>1, WholeOrder
    <2>3. transitCost = Units * Cost
        <3>1. CASE Cost > 0
            BY <2>2, <3>1
        <3>2. CASE Cost = 0
            <4>1. Units * Cost = 0
                BY <3>2, ConstantTypes
            <4>. QED
                BY <2>2, <3>2, <4>1
        <3>. QED
            BY <3>1, <3>2, ConstantTypes
    <2>4. sale = DeliveredSaleLines(Units * Net, Units * Cost)
        BY <2>2, <2>3
    <2>5. sale \in [Accounts -> Int]
        BY <2>4, ConstantTypes, DeliveredSaleIs
    <2>. HIDE DEF sale, transitCost
    <2>6. PICK entries : entries = posts
        OBVIOUS
    <2>7. /\ DOMAIN entries = {Delivered} \cup IF synthesized THEN {Shipped} ELSE {}
          /\ entries[Delivered] = sale
          /\ synthesized => entries[Shipped] = TransitLines
        BY <2>6, EventIds
    <2>. HIDE DEF posts
    <2>8. CASE /\ CreateJournalEntries(o, entries, event[o][Delivered].month)
               /\ event' = [event EXCEPT ![o][Delivered] = Fresh(@, "posted")]
        <3>1. /\ AcctTypeOK'
              /\ \A p \in Orders \ {o} : OrderInv(p)'
              /\ RefundsCounted(o)' /\ StageTells(o)' /\ EventsTell(o)'
              /\ order' = order
              /\ \A f \in Events :
                    /\ Enqueued(o, f)' <=> Enqueued(o, f)
                    /\ Booked(o, f)' <=> (f \in DOMAIN entries \/ Booked(o, f))
                    /\ ledger'[o][f].lines = IF f \in DOMAIN entries /\ ~Booked(o, f)
                                             THEN entries[f] ELSE ledger[o][f].lines
            <4>1. /\ DOMAIN entries \subseteq {Delivered, Shipped} /\ Delivered \in DOMAIN entries
                  /\ \A f \in DOMAIN entries : entries[f] \in [Accounts -> Int]
                BY <2>5, <2>7, TransitIs
            <4>. QED
                BY <1>0, <2>8, <4>1, PostsWrites
        <3>2. EntriesTell(o)
            BY DEF IndInv, OrderInv
        <3>3. /\ \A f \in Events \ {Delivered, Shipped} :
                    /\ Booked(o, f)' <=> Booked(o, f)
                    /\ ledger'[o][f].lines = ledger[o][f].lines
              /\ Booked(o, Shipped)' <=> (synthesized \/ Booked(o, Shipped))
              /\ ledger'[o][Delivered].lines = sale
            BY <1>0, <2>1, <2>7, <3>1, EventIds
        <3>4. Prepayment(o)'
            BY <1>3, <3>1, <3>3, EventIds DEF Prepayment
        <3>5. ShippedBooks(o)'
            <4>1. CASE synthesized
                BY <2>7, <3>1, <3>4, <4>1, EventIds DEF ShippedBooks
            <4>2. CASE ~synthesized
                BY <2>7, <3>1, <3>2, <3>3, <3>4, <4>2, EventIds DEF ShippedBooks, EntriesTell
            <4>. QED
                BY <4>1, <4>2
        <3>6. DeliveredBooks(o)'
            BY <2>4, <3>3, <3>4 DEF DeliveredBooks
        <3>7. PaidBooks(o)'
            BY <3>1, <3>2, <3>3, EventIds DEF EntriesTell, PaidBooks
        <3>8. \A f \in Refunds : ~Booked(o, f)'
            BY <2>2, <3>3, EventIds
        <3>. QED
            BY <3>1, <3>5, <3>6, <3>7, <3>8 DEF IndInv, OrderInv, EntriesTell
    <2>. QED
        BY <1>0, <1>3, <2>6, <2>8, PostOrDeferCases
<1>. QED
    BY <1>0, <1>2, <1>3, OutcomeKeeps

\* A refund event.
LEMMA PostRefundKeeps ==
    ASSUME IndInv, NEW o \in Orders, NEW e \in Refunds, Pending(o, e),
           ProcessOrderRefund(o, e), UNCHANGED <<opsVars, closed, reprocessed>>
    PROVE  IndInv'
<1>0. e \in Events /\ e # Paid /\ e # Shipped /\ e # Delivered
    BY EventIds
<1>. DEFINE lines == IF LegacySale(o) \/ Booked(o, Delivered)
                     THEN RefundLines(order[o].refunds[e])
                     ELSE PreDeliveredRefundLines(order[o].refunds[e], Booked(o, Shipped))
<1>2. \/ Defer(o, e) \/ NeedsReview(o, e)
      \/ /\ LegacySale(o) \/ Prepayment(o)
         /\ ~(Prepayment(o) /\ ~Booked(o, Delivered) /\ Enqueued(o, Delivered))
         /\ PostOrDefer(o, e, Only(e, lines))
    BY DEF ProcessOrderRefund, AwaitPosting
<1>3. CASE /\ LegacySale(o) \/ Prepayment(o)
           /\ ~(Prepayment(o) /\ ~Booked(o, Delivered) /\ Enqueued(o, Delivered))
           /\ PostOrDefer(o, e, Only(e, lines))
    <2>1. Booked(o, Paid)
        BY <1>3 DEF LegacySale, Prepayment
    <2>2. lines \in [Accounts -> Int]
        <3>1. order[o].refunds[e] \in [qty : 0 .. Units, disposition : Dispositions]
            BY Types DEF IndInv
        <3>2. Booked(o, Shipped) \in BOOLEAN
            BY DEF Booked
        <3>. QED
            BY <3>1, <3>2, RefundIs, PreDeliveredRefundIs
    <2>. HIDE DEF lines
    <2>3. PICK entries : entries = Only(e, lines)
        OBVIOUS
    <2>4. DOMAIN entries = {e} /\ entries[e] = lines
        BY <2>3 DEF Only
    <2>5. CASE /\ CreateJournalEntries(o, entries, event[o][e].month)
               /\ event' = [event EXCEPT ![o][e] = Fresh(@, "posted")]
        <3>1. /\ AcctTypeOK'
              /\ \A p \in Orders \ {o} : OrderInv(p)'
              /\ RefundsCounted(o)' /\ StageTells(o)' /\ EventsTell(o)'
              /\ order' = order
              /\ \A f \in Events :
                    /\ Enqueued(o, f)' <=> Enqueued(o, f)
                    /\ Booked(o, f)' <=> (f \in DOMAIN entries \/ Booked(o, f))
                    /\ ledger'[o][f].lines = IF f \in DOMAIN entries /\ ~Booked(o, f)
                                             THEN entries[f] ELSE ledger[o][f].lines
            BY <1>0, <2>2, <2>4, <2>5, PostsWrites
        <3>2. EntriesTell(o)
            BY DEF IndInv, OrderInv
        <3>3. \A f \in Events \ {e} : /\ Booked(o, f)' <=> Booked(o, f)
                                      /\ ledger'[o][f].lines = ledger[o][f].lines
            BY <2>4, <3>1
        <3>4. /\ Booked(o, Paid)' /\ Booked(o, Paid) /\ Enqueued(o, Delivered)' = Enqueued(o, Delivered)
              /\ Booked(o, Shipped)' <=> Booked(o, Shipped)
              /\ Booked(o, Delivered)' <=> Booked(o, Delivered)
            BY <1>0, <2>1, <3>1, <3>3, EventIds DEF Enqueued
        <3>5. (Prepayment(o)' <=> Prepayment(o)) /\ (LegacySale(o)' <=> LegacySale(o))
            BY <3>1, <3>4 DEF Prepayment, LegacySale
        <3>6. PaidBooks(o)' /\ ShippedBooks(o)' /\ DeliveredBooks(o)'
            BY <1>0, <3>1, <3>2, <3>3, <3>4, <3>5, EventIds
               DEF EntriesTell, PaidBooks, ShippedBooks, DeliveredBooks
        <3>7. \A f \in Refunds \ {e} : Booked(o, f)' => RefundBooks(o, f)'
            BY <3>1, <3>2, <3>3, <3>4, EventIds, RefundBooksKeeps DEF EntriesTell
        <3>8. RefundBooks(o, e)'
            <4>1. CASE Booked(o, e)
                <5>1. RefundBooks(o, e) /\ ledger'[o][e].lines = ledger[o][e].lines
                    BY <1>0, <3>1, <3>2, <4>1 DEF EntriesTell
                <5>. QED
                    BY <3>1, <3>4, <5>1, RefundBooksKeeps
            <4>2. CASE ~Booked(o, e)
                <5>1. ledger'[o][e].lines = lines
                    BY <1>0, <2>4, <3>1, <4>2
                <5>2. CASE LegacySale(o) \/ Booked(o, Delivered)
                    <6>1. ledger'[o][e].lines = RefundLines(order'[o].refunds[e])
                        BY <3>1, <5>1, <5>2 DEF lines
                    <6>. QED
                        BY <3>4, <3>5, <5>2, <6>1 DEF RefundBooks
                <5>3. CASE ~(LegacySale(o) \/ Booked(o, Delivered))
                    <6>1. PICK transit \in BOOLEAN : transit = Booked(o, Shipped)
                        BY DEF Booked
                    <6>2. /\ transit => Booked(o, Shipped)'
                          /\ ledger'[o][e].lines =
                                PreDeliveredRefundLines(order'[o].refunds[e], transit)
                        BY <3>1, <3>4, <5>1, <5>3, <6>1 DEF lines
                    <6>3. ~Enqueued(o, Delivered)'
                        BY <1>3, <3>4, <5>3
                    <6>. QED
                        BY <3>4, <3>5, <5>3, <6>2, <6>3 DEF RefundBooks
                <5>. QED
                    BY <5>2, <5>3
            <4>. QED
                BY <4>1, <4>2
        <3>. QED
            BY <3>1, <3>6, <3>7, <3>8 DEF IndInv, OrderInv, EntriesTell
    <2>. QED
        BY <1>0, <1>3, <2>3, <2>5, PostOrDeferCases
<1>. QED
    BY <1>0, <1>2, <1>3, OutcomeKeeps

\* Whatever an event ends in.
LEMMA ProcessKeeps ==
    ASSUME IndInv, NEW o \in Orders, NEW e \in Events, ProcessEvent(o, e)
    PROVE  IndInv'
<1>0. Pending(o, e) /\ UNCHANGED <<opsVars, closed, reprocessed>>
    BY DEF ProcessEvent, Listed, Due
<1>1. CASE Skips(o, e)
    <2>1. Skip(o, e)
        BY <1>1 DEF ProcessEvent
    <2>. QED
        BY <1>0, <2>1, OutcomeKeeps
<1>2. CASE ~Skips(o, e) /\ e = Paid
    <2>1. ProcessOrderPaid(o)
        BY <1>2, EventIds DEF ProcessEvent
    <2>. QED
        BY <1>0, <1>2, <2>1, PostPaidKeeps
<1>3. CASE ~Skips(o, e) /\ e = Shipped
    <2>1. ProcessOrderShipped(o)
        BY <1>3, EventIds DEF ProcessEvent
    <2>. QED
        BY <1>0, <1>3, <2>1, PostShippedKeeps
<1>4. CASE ~Skips(o, e) /\ e = Delivered
    <2>1. ProcessOrderDelivered(o)
        BY <1>4, EventIds DEF ProcessEvent
    <2>. QED
        BY <1>0, <1>4, <2>1, PostDeliveredKeeps
<1>5. CASE ~Skips(o, e) /\ e \notin {Paid, Shipped, Delivered}
    <2>1. ProcessOrderRefund(o, e) /\ e \in Refunds
        BY <1>5, EventIds DEF ProcessEvent
    <2>. QED
        BY <1>0, <2>1, PostRefundKeeps
<1>. QED
    BY <1>1, <1>2, <1>3, <1>4, <1>5

(***************************************************************************)
(* The invariant                                                           *)
(***************************************************************************)
\* No order has been paid, no event enqueued, nothing booked.
LEMMA InitInv == Init => IndInv
<1>. SUFFICES ASSUME Init PROVE IndInv
    OBVIOUS
<1>1. PICK none : none = [e \in Refunds |-> [qty |-> 0, disposition |-> "restock"]]
    OBVIOUS
<1>2. none \in [Refunds -> [qty : 0 .. Units, disposition : Dispositions]]
    BY <1>1, ConstantTypes DEF Dispositions
<1>3. \A o \in Orders : order[o] \in [chain : Chains, stage : {"new"},
                                      settled : {FALSE}, refunds : {none}]
    <2>1. order \in [Orders -> [chain : IF armed THEN Chains ELSE Chains \ {"delivered"},
                                stage : {"new"}, settled : {FALSE}, refunds : {none}]]
        BY <1>1 DEF Init
    <2>. QED
        BY <2>1
<1>4. order \in [Orders -> OrderRecords]
    <2>1. \A o \in Orders : order[o] \in OrderRecords
        BY <1>2, <1>3 DEF OrderRecords
    <2>2. order = [o \in Orders |-> order[o]]
        BY DEF Init
    <2>. QED
        BY <2>1, <2>2
<1>5. /\ event = [o \in Orders |-> [e \in Events |-> NoEvent]] /\ NoEvent \in EventRecords
      /\ ledger = [o \in Orders |-> [e \in Events |-> NoEntry]] /\ NoEntry \in EntryRecords
    BY ConstantTypes DEF Init, NoEvent, NoEntry, NoLines, EventRecords, EntryRecords, EventStates
<1>6. AcctTypeOK
    <2>1. /\ event \in [Orders -> [Events -> EventRecords]]
          /\ ledger \in [Orders -> [Events -> EntryRecords]]
        BY <1>5
    <2>2. /\ armed \in BOOLEAN /\ rateKnown \in BOOLEAN
          /\ now \in Months /\ closed \subseteq 1 .. (now - 1)
          /\ reprocessed \in 0 .. MaxReprocess
        BY ConstantTypes DEF Init, Months
    <2>. QED
        BY <1>4, <2>1, <2>2, TypeRecords
<1>7. ASSUME NEW o \in Orders PROVE OrderInv(o)
    <2>1. \A e \in Events : ~Booked(o, e) /\ ~Enqueued(o, e) /\ event[o][e].state = "none"
        BY <1>5 DEF Booked, Enqueued, NoEvent
    <2>2. order[o].stage = "new" /\ order[o].refunds = none
        BY <1>3
    <2>3. \A e \in Refunds : order[o].refunds[e].qty = 0
        BY <1>1, <2>2
    <2>4. Refunded(o) = 0
        <3>. DEFINE q == [e \in Refunds |-> order[o].refunds[e].qty]
        <3>1. Refunded(o) = SumFunctionOnSet(q, Refunds)
            BY DEF Refunded
        <3>2. \A e \in Refunds : q[e] = 0
            BY <2>3
        <3>. HIDE DEF q
        <3>. QED
            BY <3>1, <3>2, EventIds, SumZero
    <2>5. RefundsCounted(o)
        BY <2>1, <2>3, <2>4, EventIds, ConstantTypes DEF RefundsCounted
    <2>6. StageTells(o) /\ EventsTell(o)
        BY <2>1, <2>2, EventIds DEF StageTells, EventsTell
    <2>7. EntriesTell(o)
        BY <2>1, EventIds DEF EntriesTell, PaidBooks, ShippedBooks, DeliveredBooks
    <2>. QED
        BY <2>5, <2>6, <2>7 DEF OrderInv
<1>. QED
    BY <1>6, <1>7 DEF IndInv

\* Every step keeps it.
LEMMA NextInv == IndInv /\ [Next]_vars => IndInv'
<1>. SUFFICES ASSUME IndInv, [Next]_vars PROVE IndInv'
    OBVIOUS
<1>1. CASE UNCHANGED vars
    <2>1. UNCHANGED <<armed, order, rateKnown, now, event, ledger, closed, reprocessed>>
        BY <1>1 DEF vars, opsVars
    <2>2. AcctTypeOK'
        BY <2>1 DEF IndInv, AcctTypeOK
    <2>3. \A o \in Orders : OrderInv(o)'
        BY <2>1, OthersKeep
    <2>. QED
        BY <2>2, <2>3 DEF IndInv
<1>2. CASE Next
    BY <1>2, EnvironmentKeeps, ProcessKeeps, EventCallsKeep DEF Next
<1>. QED
    BY <1>1, <1>2

\* The state keeps its shape, and no period is closed before its month is over
\* (ClosePeriod).
THEOREM OutboxTypeCorrect == Spec => []AcctTypeOK
<1>1. IndInv => AcctTypeOK
    BY DEF IndInv
<1>. QED
    BY <1>1, InitInv, NextInv, PTL DEF Spec

(***************************************************************************)
(* What the books hold                                                     *)
(***************************************************************************)
\* The revenue of an order is in the books.
Recognised(o) == LegacySale(o) \/ Booked(o, Delivered)

\* The units a refund has booked, and an order.
BookedQty(o, e) == IF Booked(o, e) THEN order[o].refunds[e].qty ELSE 0
Returned(o) == SumFunctionOnSet([e \in Refunds |-> BookedQty(o, e)], Refunds)

\* What one refund puts on the accounts.
LEMMA RefundLine ==
    ASSUME IndInv, NEW o \in Orders, NEW e \in Refunds
    PROVE  LET b == BookedQty(o, e)
               lines == ledger[o][e].lines
           IN  /\ b \in Nat /\ b <= order[o].refunds[e].qty
               /\ ~Booked(o, Paid) => b = 0
               /\ lines \in [Accounts -> Int]
               /\ lines["money"] = (-(Net + Vat)) * b /\ lines["vat"] = Vat * b
               /\ lines["prepaid"] = (IF Recognised(o) THEN 0 ELSE Net) * b
               /\ lines["returns"] = (IF Recognised(o) THEN Net ELSE 0) * b
               /\ lines["revenue"] = 0
               /\ (-Cost) * b <= lines["cogs"] /\ lines["cogs"] <= 0
               /\ ~Recognised(o) => lines["cogs"] = 0
               /\ (-Cost) * b <= lines["transit"] /\ lines["transit"] <= 0
               /\ Recognised(o) \/ ~Booked(o, Shipped) => lines["transit"] = 0
<1>. DEFINE r == order[o].refunds[e]
            lines == ledger[o][e].lines
<1>0. /\ r \in [qty : 0 .. Units, disposition : Dispositions] /\ r.qty \in Nat
      /\ lines \in [Accounts -> Int]
    BY Types, EventIds DEF IndInv
<1>1. /\ Net \in Nat /\ Vat \in Nat /\ Cost \in Nat
    BY ConstantTypes
<1>2. Accounts = {"money", "vat", "prepaid", "revenue", "returns",
                  "stock", "transit", "cogs", "writeoff"}
    BY DEF Accounts
<1>. HIDE DEF lines, r
<1>3. \A n, q \in Nat : n * q = q * n /\ (-n) * q = -(q * n) /\ q * n \in Nat /\ n * 0 = 0
    OBVIOUS
<1>4. Net + Vat \in Nat
    BY <1>1
<1>5. CASE ~Booked(o, e)
    <2>1. BookedQty(o, e) = 0
        BY <1>5 DEF BookedQty
    <2>2. \A a \in Accounts : lines[a] = 0
        BY <1>5, UnbookedIs DEF lines
    <2>3. /\ (-(Net + Vat)) * 0 = 0 /\ Vat * 0 = 0 /\ Net * 0 = 0 /\ (-Cost) * 0 = 0
          /\ (IF Recognised(o) THEN 0 ELSE Net) * 0 = 0 /\ (IF Recognised(o) THEN Net ELSE 0) * 0 = 0
        BY <1>1, <1>4
    <2>. QED
        BY <1>0, <1>2, <2>1, <2>2, <2>3 DEF lines, r
<1>6. CASE Booked(o, e)
    <2>1. BookedQty(o, e) = r.qty
        BY <1>6 DEF BookedQty, r
    <2>2. RefundBooks(o, e)
        BY <1>6 DEF IndInv, OrderInv, EntriesTell
    <2>3. PICK q \in Nat : q = r.qty
        BY <1>0
    <2>4. PICK m, v, n, c \in Nat : m = q * (Net + Vat) /\ v = q * Vat /\ n = q * Net /\ c = q * Cost
        BY <1>1, <1>4, <1>3
    <2>5. /\ (-(Net + Vat)) * q = -m /\ Vat * q = v /\ Net * q = n /\ (-Cost) * q = -c
          /\ 0 * q = 0
        BY <1>1, <1>3, <1>4, <2>4
    <2>6. CASE Recognised(o)
        <3>1. lines = RefundLines(r)
            BY <2>2, <2>6 DEF RefundBooks, Recognised, lines, r
        <3>2. /\ lines["money"] = -m /\ lines["vat"] = v /\ lines["returns"] = n
              /\ lines["cogs"] <= 0 /\ lines["cogs"] >= -c
              /\ lines["prepaid"] = 0 /\ lines["revenue"] = 0 /\ lines["transit"] = 0
            BY <1>0, <1>2, <2>3, <2>4, <3>1, RefundIs
        <3>. QED
            BY <1>0, <2>1, <2>2, <2>3, <2>4, <2>5, <2>6, <3>2 DEF RefundBooks, lines, r
    <2>7. CASE ~Recognised(o)
        <3>1. PICK transit \in BOOLEAN :
                /\ transit => Booked(o, Shipped)
                /\ lines = PreDeliveredRefundLines(r, transit)
            BY <2>2, <2>7 DEF RefundBooks, Recognised, lines, r
        <3>2. /\ lines["money"] = -m /\ lines["vat"] = v /\ lines["prepaid"] = n
              /\ lines["transit"] = IF transit THEN -c ELSE 0
              /\ lines["returns"] = 0 /\ lines["revenue"] = 0 /\ lines["cogs"] = 0
            BY <1>0, <1>2, <2>3, <2>4, <3>1, PreDeliveredRefundIs
        <3>. QED
            BY <1>0, <2>1, <2>2, <2>3, <2>4, <2>5, <2>7, <3>1, <3>2 DEF RefundBooks, lines, r
    <2>. QED
        BY <2>6, <2>7
<1>. QED
    BY <1>5, <1>6

\* The units the booked refunds take back: no more than were paid and booked,
\* and all that were refunded once every event is posted.
LEMMA ReturnedIs ==
    ASSUME IndInv, NEW o \in Orders
    PROVE  /\ Returned(o) \in Nat /\ Returned(o) <= Units
           /\ ~Booked(o, Paid) => Returned(o) = 0
           /\ (\A e \in Events : event[o][e].state \in {"none", "posted"})
                => Returned(o) = Refunded(o)
<1>. DEFINE b == [e \in Refunds |-> BookedQty(o, e)]
            q == [e \in Refunds |-> order[o].refunds[e].qty]
<1>1. Returned(o) = SumFunctionOnSet(b, Refunds) /\ Refunded(o) = SumFunctionOnSet(q, Refunds)
    BY DEF Returned, Refunded
<1>2. ASSUME NEW e \in Refunds
      PROVE  b[e] \in Nat /\ b[e] <= q[e] /\ q[e] \in Nat /\ (~Booked(o, Paid) => b[e] = 0)
    BY RefundLine, Types DEF IndInv
<1>3. ASSUME \A e \in Events : event[o][e].state \in {"none", "posted"}, NEW e \in Refunds
      PROVE  b[e] = q[e]
    <2>1. OrderInv(o) /\ e \in Events
        BY EventIds DEF IndInv
    <2>2. CASE Enqueued(o, e)
        BY <1>3, <2>1, <2>2 DEF Enqueued, OrderInv, EventsTell, BookedQty
    <2>3. CASE ~Enqueued(o, e)
        <3>1. order[o].refunds[e].qty = 0
            BY <1>2, <2>1, <2>3 DEF OrderInv, RefundsCounted
        <3>. QED
            BY <3>1 DEF BookedQty
    <2>. QED
        BY <2>2, <2>3
<1>. HIDE DEF b, q
<1>4. SumFunctionOnSet(b, Refunds) \in Nat
    BY <1>2, EventIds, SumNat
<1>5. SumFunctionOnSet(b, Refunds) <= SumFunctionOnSet(q, Refunds)
    BY <1>2, EventIds, SumMonotone
<1>6. Refunded(o) <= Units
    BY DEF IndInv, OrderInv, RefundsCounted
<1>7. Returned(o) <= Units
    BY <1>1, <1>4, <1>5, <1>6, RefundedIs, ConstantTypes
<1>8. ~Booked(o, Paid) => Returned(o) = 0
    BY <1>1, <1>2, EventIds, SumZero
<1>9. (\A e \in Events : event[o][e].state \in {"none", "posted"}) => Returned(o) = Refunded(o)
    BY <1>1, <1>2, <1>3, EventIds, SumEqual
<1>. QED
    BY <1>1, <1>4, <1>7, <1>8, <1>9

\* What the refunds together put on the accounts.
LEMMA RefundSums ==
    ASSUME IndInv, NEW o \in Orders
    PROVE  /\ RefundSum(o, "money") = (-(Net + Vat)) * Returned(o)
           /\ RefundSum(o, "vat") = Vat * Returned(o)
           /\ RefundSum(o, "prepaid") = (IF Recognised(o) THEN 0 ELSE Net) * Returned(o)
           /\ RefundSum(o, "returns") = (IF Recognised(o) THEN Net ELSE 0) * Returned(o)
           /\ RefundSum(o, "revenue") = 0
           /\ (-Cost) * Returned(o) <= RefundSum(o, "cogs") /\ RefundSum(o, "cogs") <= 0
           /\ ~Recognised(o) => RefundSum(o, "cogs") = 0
           /\ (-Cost) * Returned(o) <= RefundSum(o, "transit") /\ RefundSum(o, "transit") <= 0
           /\ Recognised(o) \/ ~Booked(o, Shipped) => RefundSum(o, "transit") = 0
<1>. DEFINE b == [e \in Refunds |-> BookedQty(o, e)]
            l(a) == [e \in Refunds |-> ledger[o][e].lines[a]]
<1>1. Returned(o) = SumFunctionOnSet(b, Refunds) /\ \A e \in Refunds : b[e] = BookedQty(o, e)
    BY DEF Returned
<1>2. \A a : RefundSum(o, a) = SumFunctionOnSet(l(a), Refunds)
    BY DEF RefundSum
<1>3. \A a, e : e \in Refunds => l(a)[e] = ledger[o][e].lines[a]
    OBVIOUS
<1>4. \A e \in Refunds : b[e] \in Int /\ \A a \in Accounts : l(a)[e] \in Int
    BY <1>1, <1>3, RefundLine
<1>5. IsFiniteSet(Refunds)
    BY EventIds
<1>6. {"money", "vat", "prepaid", "revenue", "returns", "transit", "cogs"} \subseteq Accounts
    BY DEF Accounts
<1>7. /\ -(Net + Vat) \in Int /\ Vat \in Int /\ -Cost \in Int
      /\ (IF Recognised(o) THEN 0 ELSE Net) \in Int /\ (IF Recognised(o) THEN Net ELSE 0) \in Int
    BY ConstantTypes
<1>. HIDE DEF b, l
<1>8. ASSUME NEW k \in Int, NEW a \in Accounts,
             \A e \in Refunds : ledger[o][e].lines[a] = k * BookedQty(o, e)
      PROVE  RefundSum(o, a) = k * Returned(o)
    <2>1. \A e \in Refunds : b[e] \in Int /\ l(a)[e] = k * b[e]
        BY <1>1, <1>3, <1>4, <1>8
    <2>2. SumFunctionOnSet(l(a), Refunds) = k * SumFunctionOnSet(b, Refunds)
        BY <1>5, <2>1, SumScale
    <2>. QED
        BY <1>1, <1>2, <2>2
<1>9. ASSUME NEW a \in Accounts, \A e \in Refunds : ledger[o][e].lines[a] = 0
      PROVE  RefundSum(o, a) = 0
    <2>1. \A e \in Refunds : l(a)[e] = 0
        BY <1>3, <1>9
    <2>. QED
        BY <1>2, <1>5, <2>1, SumZero
<1>10. ASSUME NEW a \in Accounts,
              \A e \in Refunds : /\ (-Cost) * BookedQty(o, e) <= ledger[o][e].lines[a]
                                 /\ ledger[o][e].lines[a] <= 0
       PROVE  (-Cost) * Returned(o) <= RefundSum(o, a) /\ RefundSum(o, a) <= 0
    <2>. DEFINE low == [e \in Refunds |-> (-Cost) * b[e]]
                zero == [e \in Refunds |-> 0]
    <2>0. \A e \in Refunds : (-Cost) * b[e] \in Int
        <3>1. \A m, n \in Int : m * n \in Int
            OBVIOUS
        <3>. QED
            BY <1>4, <1>7, <3>1
    <2>1. \A e \in Refunds : /\ low[e] \in Int /\ low[e] = (-Cost) * b[e] /\ low[e] <= l(a)[e]
                             /\ zero[e] = 0 /\ zero[e] \in Int /\ l(a)[e] <= zero[e] /\ l(a)[e] \in Int
        BY <1>1, <1>3, <1>4, <1>10, <2>0
    <2>. HIDE DEF low, zero
    <2>2. SumFunctionOnSet(low, Refunds) = (-Cost) * SumFunctionOnSet(b, Refunds)
        <3>1. PICK k \in Int : k = -Cost
            BY <1>7
        <3>2. \A e \in Refunds : b[e] \in Int /\ low[e] = k * b[e]
            BY <1>4, <2>1, <3>1
        <3>3. SumFunctionOnSet(low, Refunds) = k * SumFunctionOnSet(b, Refunds)
            BY <1>5, <3>2, SumScale
        <3>. QED
            BY <3>1, <3>3
    <2>3. SumFunctionOnSet(low, Refunds) <= SumFunctionOnSet(l(a), Refunds)
        BY <1>5, <2>1, SumMonotone
    <2>4. SumFunctionOnSet(l(a), Refunds) <= SumFunctionOnSet(zero, Refunds)
        BY <1>5, <2>1, SumMonotone
    <2>5. SumFunctionOnSet(zero, Refunds) = 0
        BY <1>5, <2>1, SumZero
    <2>. QED
        BY <1>1, <1>2, <2>2, <2>3, <2>4, <2>5
<1>11. RefundSum(o, "money") = (-(Net + Vat)) * Returned(o) /\ RefundSum(o, "vat") = Vat * Returned(o)
    BY <1>6, <1>7, <1>8, RefundLine
<1>12. /\ RefundSum(o, "prepaid") = (IF Recognised(o) THEN 0 ELSE Net) * Returned(o)
       /\ RefundSum(o, "returns") = (IF Recognised(o) THEN Net ELSE 0) * Returned(o)
    BY <1>6, <1>7, <1>8, RefundLine
<1>13. /\ RefundSum(o, "revenue") = 0
       /\ ~Recognised(o) => RefundSum(o, "cogs") = 0
       /\ Recognised(o) \/ ~Booked(o, Shipped) => RefundSum(o, "transit") = 0
    BY <1>6, <1>9, RefundLine
<1>14. /\ (-Cost) * Returned(o) <= RefundSum(o, "cogs") /\ RefundSum(o, "cogs") <= 0
       /\ (-Cost) * Returned(o) <= RefundSum(o, "transit") /\ RefundSum(o, "transit") <= 0
    BY <1>6, <1>10, RefundLine
<1>. QED
    BY <1>11, <1>12, <1>13, <1>14

\* The books of an order: the units paid for and not taken back are in money
\* and VAT, and in the prepayment until they are revenue.
LEMMA BooksAre ==
    ASSUME IndInv, NEW o \in Orders
    PROVE  LET kept == (IF Booked(o, Paid) THEN Units ELSE 0) - Returned(o)
           IN  /\ kept \in Nat
               /\ Balance(o, "money") = kept * (Net + Vat)
               /\ Balance(o, "vat") = -(kept * Vat)
               /\ Remaining2090(o) = IF Recognised(o) THEN 0 ELSE kept * Net
               /\ Balance(o, "revenue") = IF Recognised(o) THEN -(Units * Net) ELSE 0
               /\ Balance(o, "returns") = IF Recognised(o) THEN Returned(o) * Net ELSE 0
               /\ Remaining1140(o) \in Nat
               /\ Booked(o, Delivered) => Remaining1140(o) = 0
               /\ Balance(o, "cogs") \in Nat
<1>. DEFINE L(e, a) == ledger[o][e].lines[a]
<1>0. AcctTypeOK /\ EntriesTell(o)
    BY DEF IndInv, OrderInv
<1>1. {"money", "vat", "prepaid", "revenue", "returns", "transit", "cogs"} \subseteq Accounts
      /\ Accounts = {"money", "vat", "prepaid", "revenue", "returns",
                     "stock", "transit", "cogs", "writeoff"}
    BY DEF Accounts
<1>2. \A a \in Accounts :
        /\ Balance(o, a) = L(Paid, a) + L(Shipped, a) + L(Delivered, a) + RefundSum(o, a)
        /\ RefundSum(o, a) \in Int
    BY <1>0, BalanceIs
<1>3. \A e : ~Booked(o, e) => \A a \in Accounts : L(e, a) = 0
    BY UnbookedIs
<1>4. PICK R \in Nat : R = Returned(o) /\ R <= Units /\ (~Booked(o, Paid) => R = 0)
    BY ReturnedIs
<1>5. Units \in Nat /\ Net \in Nat /\ Vat \in Nat /\ Cost \in Nat /\ Net + Vat \in Nat
    BY ConstantTypes
<1>6. PICK kept \in Nat : kept = (IF Booked(o, Paid) THEN Units ELSE 0) - R
    BY <1>4, <1>5
<1>. HIDE DEF L
\* Products, named so that the rest is linear.
<1>7. PICK um, uv, un, uc, rm, rv, rn, rc, km, kv, kn, kc \in Nat :
        /\ um = Units * (Net + Vat) /\ uv = Units * Vat /\ un = Units * Net /\ uc = Units * Cost
        /\ rm = R * (Net + Vat) /\ rv = R * Vat /\ rn = R * Net /\ rc = R * Cost
        /\ km = kept * (Net + Vat) /\ kv = kept * Vat /\ kn = kept * Net /\ kc = kept * Cost
    BY <1>5, NatProduct
<1>8. /\ Booked(o, Paid) => um = km + rm /\ uv = kv + rv /\ un = kn + rn /\ uc = kc + rc
      /\ ~Booked(o, Paid) => /\ km = 0 /\ kv = 0 /\ kn = 0 /\ kc = 0
                             /\ rm = 0 /\ rv = 0 /\ rn = 0 /\ rc = 0
    <2>1. \A x \in Nat : Units = kept + R => Units * x = kept * x + R * x
        BY <1>5
    <2>2. Booked(o, Paid) => Units = kept + R
        BY <1>5, <1>6
    <2>3. ~Booked(o, Paid) => kept = 0 /\ R = 0
        BY <1>4, <1>6
    <2>4. \A x \in Nat : 0 * x = 0
        OBVIOUS
    <2>5. Booked(o, Paid) => um = km + rm /\ uv = kv + rv /\ un = kn + rn /\ uc = kc + rc
        BY <1>5, <1>7, <2>1, <2>2
    <2>. QED
        BY <1>5, <1>7, <2>3, <2>4, <2>5
<1>9. /\ RefundSum(o, "money") = -rm /\ RefundSum(o, "vat") = rv
      /\ RefundSum(o, "prepaid") = (IF Recognised(o) THEN 0 ELSE rn)
      /\ RefundSum(o, "returns") = (IF Recognised(o) THEN rn ELSE 0)
      /\ RefundSum(o, "revenue") = 0
      /\ -rc <= RefundSum(o, "cogs") /\ RefundSum(o, "cogs") <= 0
      /\ ~Recognised(o) => RefundSum(o, "cogs") = 0
      /\ -rc <= RefundSum(o, "transit") /\ RefundSum(o, "transit") <= 0
      /\ Recognised(o) \/ ~Booked(o, Shipped) => RefundSum(o, "transit") = 0
    <2>1. \A x \in Nat : (-x) * R = -(R * x) /\ x * R = R * x /\ 0 * R = 0
        OBVIOUS
    <2>2. /\ (-(Net + Vat)) * R = -rm /\ Vat * R = rv /\ Net * R = rn /\ (-Cost) * R = -rc
          /\ (IF Recognised(o) THEN 0 ELSE Net) * R = (IF Recognised(o) THEN 0 ELSE rn)
          /\ (IF Recognised(o) THEN Net ELSE 0) * R = (IF Recognised(o) THEN rn ELSE 0)
        BY <1>5, <1>7, <2>1
    <2>. QED
        BY <1>4, <2>2, RefundSums
<1>10. \A a \in Accounts : L(Shipped, a) = IF a = "transit" /\ Booked(o, Shipped) THEN uc
                                           ELSE IF a = "stock" THEN L(Shipped, a) ELSE 0
    <2>1. CASE Booked(o, Shipped)
        <3>1. ledger[o][Shipped].lines = TransitLines
            BY <1>0, <2>1 DEF EntriesTell, ShippedBooks
        <3>. QED
            BY <1>7, <2>1, <3>1, TransitIs DEF L
    <2>. QED
        BY <1>3, <2>1
\* Nothing is booked before the payment.
<1>11. CASE ~Booked(o, Paid)
    <2>1. ~Booked(o, Shipped) /\ ~Booked(o, Delivered) /\ ~Recognised(o)
        BY <1>0, <1>11
           DEF EntriesTell, ShippedBooks, DeliveredBooks, Prepayment, LegacySale, Recognised
    <2>2. \A a \in Accounts : Balance(o, a) = RefundSum(o, a)
        BY <1>2, <1>3, <1>11, <2>1
    <2>3. /\ Balance(o, "money") = km /\ Balance(o, "vat") = -kv /\ Balance(o, "prepaid") = -kn
          /\ Balance(o, "revenue") = 0 /\ Balance(o, "returns") = 0
          /\ Balance(o, "transit") = 0 /\ Balance(o, "cogs") = 0
        BY <1>1, <1>8, <1>9, <1>11, <2>1, <2>2
    <2>. QED
        BY <1>4, <1>6, <1>7, <2>1, <2>3 DEF Remaining2090, Remaining1140
\* A sale of the old chain.
<1>12. CASE LegacySale(o)
    <2>1. Booked(o, Paid) /\ ~Prepayment(o) /\ Recognised(o)
        BY <1>12 DEF LegacySale, Prepayment, Recognised
    <2>2. ~Booked(o, Shipped) /\ ~Booked(o, Delivered)
        BY <1>0, <2>1 DEF EntriesTell, ShippedBooks, DeliveredBooks
    <2>3. ledger[o][Paid].lines = SaleLines
        BY <1>0, <1>12 DEF EntriesTell, PaidBooks, LegacySale
    <2>4. /\ L(Paid, "money") = um /\ L(Paid, "vat") = -uv /\ L(Paid, "revenue") = -un
          /\ L(Paid, "cogs") = uc /\ L(Paid, "prepaid") = 0 /\ L(Paid, "returns") = 0
          /\ L(Paid, "transit") = 0
        BY <1>1, <1>7, <2>3, SaleIs DEF L
    <2>5. \A a \in Accounts : Balance(o, a) = L(Paid, a) + 0 + 0 + RefundSum(o, a)
        BY <1>2, <1>3, <2>2
    <2>6. /\ Balance(o, "money") = km /\ Balance(o, "vat") = -kv /\ Balance(o, "prepaid") = 0
          /\ Balance(o, "revenue") = -un /\ Balance(o, "returns") = rn
          /\ Balance(o, "transit") = 0 /\ Balance(o, "cogs") \in Nat
        BY <1>1, <1>2, <1>8, <1>9, <2>1, <2>4, <2>5
    <2>. QED
        BY <1>4, <1>6, <1>7, <2>1, <2>6 DEF Remaining2090, Remaining1140
\* A prepayment.
<1>13. CASE Prepayment(o)
    <2>1. Booked(o, Paid) /\ (Recognised(o) <=> Booked(o, Delivered))
        BY <1>13 DEF LegacySale, Prepayment, Recognised
    <2>2. ledger[o][Paid].lines = PrepaymentLines
        BY <1>0, <1>13 DEF EntriesTell, PaidBooks, Prepayment
    <2>3. /\ L(Paid, "money") = um /\ L(Paid, "vat") = -uv /\ L(Paid, "prepaid") = -un
          /\ L(Paid, "cogs") = 0 /\ L(Paid, "revenue") = 0 /\ L(Paid, "returns") = 0
          /\ L(Paid, "transit") = 0
        BY <1>1, <1>7, <2>2, PrepaymentIs DEF L
    <2>4. CASE Booked(o, Delivered)
        <3>1. /\ ledger[o][Delivered].lines = DeliveredSaleLines(un, uc)
              /\ Cost > 0 => Booked(o, Shipped)
            BY <1>0, <1>7, <2>4 DEF EntriesTell, DeliveredBooks
        <3>2. /\ L(Delivered, "prepaid") = un /\ L(Delivered, "revenue") = -un
              /\ L(Delivered, "cogs") = uc /\ L(Delivered, "transit") = -uc
              /\ L(Delivered, "money") = 0 /\ L(Delivered, "vat") = 0 /\ L(Delivered, "returns") = 0
            <4>1. un \in Int /\ uc \in Int
                BY <1>7
            <4>2. PICK lines : lines = DeliveredSaleLines(un, uc)
                OBVIOUS
            <4>3. /\ lines["prepaid"] = un /\ lines["revenue"] = -un
                  /\ lines["cogs"] = uc /\ lines["transit"] = -uc
                  /\ \A a \in Accounts \ {"prepaid", "revenue", "cogs", "transit"} : lines[a] = 0
                BY <4>1, <4>2, DeliveredSaleIs
            <4>. QED
                BY <1>1, <3>1, <4>2, <4>3 DEF L
        <3>3. L(Shipped, "transit") = uc
            <4>1. Cost = 0 => uc = 0
                BY <1>5, <1>7
            <4>. QED
                BY <1>1, <1>5, <1>10, <3>1, <4>1
        <3>4. /\ Balance(o, "money") = km /\ Balance(o, "vat") = -kv /\ Balance(o, "prepaid") = 0
              /\ Balance(o, "revenue") = -un /\ Balance(o, "returns") = rn
              /\ Balance(o, "transit") = 0 /\ Balance(o, "cogs") \in Nat
            <4>1. \A a \in Accounts \ {"transit", "stock"} :
                    Balance(o, a) = L(Paid, a) + 0 + L(Delivered, a) + RefundSum(o, a)
                BY <1>2, <1>10
            <4>2. Balance(o, "transit") = 0 + uc + (-uc) + RefundSum(o, "transit")
                BY <1>1, <1>2, <2>3, <3>2, <3>3
            <4>3. RefundSum(o, "transit") = 0 /\ RefundSum(o, "prepaid") = 0
                  /\ RefundSum(o, "returns") = rn
                BY <1>9, <2>1, <2>4
            <4>4. /\ Balance(o, "money") = um + 0 + 0 + (-rm) /\ Balance(o, "vat") = -uv + 0 + 0 + rv
                  /\ Balance(o, "prepaid") = -un + 0 + un + 0 /\ Balance(o, "revenue") = 0 + 0 + (-un) + 0
                  /\ Balance(o, "returns") = 0 + 0 + 0 + rn
                  /\ Balance(o, "cogs") = 0 + 0 + uc + RefundSum(o, "cogs")
                BY <1>1, <1>9, <2>3, <3>2, <4>1, <4>3
            <4>5. um = km + rm /\ uv = kv + rv /\ uc = kc + rc
                BY <1>8, <2>1
            <4>6. RefundSum(o, "cogs") \in Int /\ -rc <= RefundSum(o, "cogs")
                BY <1>1, <1>2, <1>9
            <4>. QED
                BY <4>2, <4>3, <4>4, <4>5, <4>6
        <3>. QED
            BY <1>4, <1>6, <1>7, <2>1, <2>4, <3>4 DEF Remaining2090, Remaining1140
    <2>5. CASE ~Booked(o, Delivered)
        <3>1. \A a \in Accounts : L(Delivered, a) = 0
            BY <1>3, <2>5
        <3>2. /\ Balance(o, "money") = km /\ Balance(o, "vat") = -kv /\ Balance(o, "prepaid") = -kn
              /\ Balance(o, "revenue") = 0 /\ Balance(o, "returns") = 0
              /\ Balance(o, "transit") \in Nat /\ Balance(o, "cogs") = 0
            BY <1>1, <1>2, <1>8, <1>9, <1>10, <2>1, <2>3, <2>5, <3>1
        <3>. QED
            BY <1>4, <1>6, <1>7, <2>1, <2>5, <3>2 DEF Remaining2090, Remaining1140
    <2>. QED
        BY <2>4, <2>5
<1>14. Booked(o, Paid) => LegacySale(o) \/ Prepayment(o)
    BY <1>0 DEF EntriesTell, PaidBooks, LegacySale, Prepayment
<1>. QED
    BY <1>11, <1>12, <1>13, <1>14

(***************************************************************************)
(* Theorems                                                                *)
(***************************************************************************)
\* Once the delivered sale is posted, the prepayment and the goods in transit
\* are cleared for good (processOrderDelivered), whatever comes late.
THEOREM DeliveredAlwaysDrains == Spec => []DeliveredDrains
<1>1. IndInv => DeliveredDrains
    <2>. SUFFICES ASSUME IndInv, NEW o \in Orders, Booked(o, Delivered)
                  PROVE  Remaining2090(o) = 0 /\ Remaining1140(o) = 0
        BY DEF DeliveredDrains
    <2>1. Recognised(o)
        BY DEF Recognised
    <2>. QED
        BY <2>1, BooksAre
<1>. QED
    BY <1>1, InitInv, NextInv, PTL DEF Spec

\* No entry takes back more than was booked before it, in any order of
\* processing (processOrderRefund).
THEOREM NeverReversesMore == Spec => []ReversesOnlyWhatIsBooked
<1>1. IndInv => ReversesOnlyWhatIsBooked
    <2>. SUFFICES ASSUME IndInv, NEW o \in Orders
                  PROVE  /\ Balance(o, "money") >= 0 /\ Balance(o, "vat") <= 0
                         /\ Remaining2090(o) >= 0 /\ Remaining1140(o) >= 0
                         /\ Balance(o, "revenue") + Balance(o, "returns") <= 0
                         /\ Balance(o, "cogs") >= 0
        BY DEF ReversesOnlyWhatIsBooked
    <2>1. PICK kept \in Nat : kept = (IF Booked(o, Paid) THEN Units ELSE 0) - Returned(o)
        BY BooksAre
    <2>2. /\ Balance(o, "money") = kept * (Net + Vat) /\ Balance(o, "vat") = -(kept * Vat)
          /\ Remaining2090(o) = IF Recognised(o) THEN 0 ELSE kept * Net
          /\ Balance(o, "revenue") = IF Recognised(o) THEN -(Units * Net) ELSE 0
          /\ Balance(o, "returns") = IF Recognised(o) THEN Returned(o) * Net ELSE 0
          /\ Remaining1140(o) \in Nat /\ Balance(o, "cogs") \in Nat
        BY <2>1, BooksAre
    <2>3. Net + Vat \in Nat /\ Net \in Nat /\ Vat \in Nat /\ Units \in Nat
        BY ConstantTypes
    <2>4. kept * (Net + Vat) \in Nat /\ kept * Vat \in Nat /\ kept * Net \in Nat
        BY <2>3, NatProduct
    <2>5. Returned(o) * Net <= Units * Net /\ Returned(o) * Net \in Nat /\ Units * Net \in Nat
        <3>1. PICK d \in Nat : Returned(o) \in Nat /\ Units = Returned(o) + d
            <4>1. Returned(o) \in Nat /\ Returned(o) <= Units
                BY ReturnedIs
            <4>2. Units - Returned(o) \in Nat /\ Units = Returned(o) + (Units - Returned(o))
                BY <2>3, <4>1
            <4>. QED
                BY <4>1, <4>2
        <3>2. Units * Net = Returned(o) * Net + d * Net
            BY <2>3, <3>1
        <3>3. Returned(o) * Net \in Nat /\ d * Net \in Nat
            BY <2>3, <3>1, NatProduct
        <3>. QED
            BY <3>2, <3>3
    <2>. QED
        BY <2>2, <2>4, <2>5
<1>. QED
    BY <1>1, InitInv, NextInv, PTL DEF Spec

\* When every event of an order is posted the books say what happened to it, in
\* whatever order the events were posted.
THEOREM BooksAlwaysTell == Spec => []BooksTellTheOrder
<1>1. IndInv => BooksTellTheOrder
    <2>. SUFFICES ASSUME IndInv, NEW o \in Orders, Enqueued(o, Paid),
                         \A e \in Events : event[o][e].state \in {"none", "posted"}
                  PROVE  LET kept == Units - Refunded(o)
                             sold == order[o].chain = "legacy" \/ order[o].stage = "delivered"
                         IN  /\ Balance(o, "money") = kept * (Net + Vat)
                             /\ Balance(o, "vat") = -(kept * Vat)
                             /\ Remaining2090(o) = IF sold THEN 0 ELSE kept * Net
                             /\ Balance(o, "revenue") = IF sold THEN -(Units * Net) ELSE 0
                             /\ Balance(o, "returns") = IF sold THEN Refunded(o) * Net ELSE 0
        BY DEF BooksTellTheOrder
    <2>1. OrderInv(o)
        BY DEF IndInv
    <2>2. \A e \in Events : Enqueued(o, e) => Booked(o, e)
        BY <2>1 DEF OrderInv, EventsTell, Enqueued
    <2>3. Booked(o, Paid)
        BY <2>2, EventIds
    <2>4. order[o].stage = "delivered" <=> Booked(o, Delivered)
        BY <2>1, <2>2, EventIds DEF OrderInv, StageTells, EventsTell
    <2>5. Recognised(o) <=> order[o].chain = "legacy" \/ order[o].stage = "delivered"
        BY <2>3, <2>4 DEF Recognised, LegacySale
    <2>6. Returned(o) = Refunded(o)
        BY ReturnedIs
    <2>. QED
        BY <2>3, <2>5, <2>6, BooksAre
<1>. QED
    BY <1>1, InitInv, NextInv, PTL DEF Spec
=============================================================================
