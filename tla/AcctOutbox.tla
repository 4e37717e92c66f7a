----------------------------- MODULE AcctOutbox -----------------------------
(***************************************************************************)
(* The accounting outbox of an order (internal/acctposting/outbox.go): the  *)
(* order store enqueues what happened to the order, one worker posts each   *)
(* event to the ledger, defers it, skips it or leaves it to an operator, and *)
(* a month is closed once none of its events is open.                       *)
(*                                                                         *)
(* An order has at most one paid, shipped and delivered event and one event *)
(* per refund, with ids in that order; the entry an event posts has the     *)
(* event's own source key, so event ids name the entries too.  An order is  *)
(* Units equal units, each with a net price, its VAT and a cost.  Shipping, *)
(* discounts and the acquirer's fee only split the lines modelled here.     *)
(***************************************************************************)
EXTENDS Integers, FiniteSets, Functions

CONSTANTS
    Orders,
    Units,                  \* units of an order
    Net, Vat, Cost,         \* of one unit; an uncosted product costs 0
    MaxRefunds,             \* bound on the refunds of an order
    LastMonth,              \* bound on the clock
    MaxReprocess,           \* bound on the operator's reprocess calls
    maxDeadLetterAttempts, maxOrphanRefundAttempts

ASSUME OutboxAssumption ==
    /\ {Units, Net, LastMonth} \subseteq Nat \ {0}
    /\ {Vat, Cost, MaxRefunds, MaxReprocess} \subseteq Nat
    /\ maxDeadLetterAttempts \in Nat /\ maxOrphanRefundAttempts \in Nat
    /\ maxDeadLetterAttempts <= maxOrphanRefundAttempts

VARIABLES
    armed,          \* accounting.delivered_recognition_from is set
    order,          \* what happened to each order
    event,          \* acct_event: per order and event id
    ledger,         \* acct_journal_entry with its lines, per order and event id
    rateKnown,      \* the VAT rate of the orders' regime is configured
    now,            \* the current month
    closed,         \* closed accounting periods
    reprocessed     \* reprocess calls so far

opsVars == <<armed, order, rateKnown, now>>
vars == <<opsVars, event, ledger, closed, reprocessed>>

Paid == 1
Shipped == 2
Delivered == 3
RefundNo(n) == 3 + n
Events == 1 .. RefundNo(MaxRefunds)
Refunds == RefundNo(1) .. RefundNo(MaxRefunds)

Months == 1 .. LastMonth
Dispositions == {"restock", "writeoff"}    \* seconds posts as writeoff does

\* How the order's sale is recognised: on delivery (a Stripe order paid after
\* the cutover), when confirmed, by hand (not in EUR and not through Stripe),
\* or never (paid before the books start).
Chains == {"delivered", "legacy", "manual", "prestart"}

Accounts == {"money", "vat", "prepaid", "revenue", "returns",
             "stock", "transit", "cogs", "writeoff"}
NoLines == [a \in Accounts |-> 0]
NoEntry == [month |-> 0, lines |-> NoLines]
Booked(o, e) == ledger[o][e] # NoEntry

\* Debits are positive.
Balance(o, a) == SumFunctionOnSet([e \in Events |-> ledger[o][e].lines[a]], Events)

NoEvent == [state |-> "none", attempts |-> 0, waiting |-> FALSE, month |-> 0]
Pending(o, e) == event[o][e].state = "pending"
Enqueued(o, e) == event[o][e].state # "none"

(***************************************************************************)
(* Orders and their environment                                            *)
(***************************************************************************)
Init ==
    /\ armed \in BOOLEAN
    /\ order \in [Orders ->
          [chain : IF armed THEN Chains ELSE Chains \ {"delivered"},
           stage : {"new"}, settled : {FALSE},
           refunds : {[e \in Refunds |-> [qty |-> 0, disposition |-> "restock"]]}]]
    /\ event = [o \in Orders |-> [e \in Events |-> NoEvent]]
    /\ ledger = [o \in Orders |-> [e \in Events |-> NoEntry]]
    /\ rateKnown \in BOOLEAN
    /\ now = 1
    /\ closed = {}
    /\ reprocessed = 0

\* EnqueueEvent, in the transaction of the order's own step; a duplicate
\* (event_type, source_key) changes nothing.
EnqueueEvent(o, e) ==
    event' = IF Enqueued(o, e) THEN event
             ELSE [event EXCEPT ![o][e] =
                      [NoEvent EXCEPT !.state = "pending", !.month = now]]

\* The order's life as the transition table allows it: it ships and is
\* delivered only while nothing was refunded.
Refunded(o) == SumFunctionOnSet([e \in Refunds |-> order[o].refunds[e].qty], Refunds)

NextStage(o, from, to, e) ==
    /\ order[o].stage = from
    /\ Refunded(o) = 0
    /\ order' = [order EXCEPT ![o].stage = to]
    /\ EnqueueEvent(o, e)
    /\ UNCHANGED <<armed, rateKnown, now, ledger, closed, reprocessed>>
PayOrder(o) == NextStage(o, "new", "paid", Paid)
ShipOrder(o) == NextStage(o, "paid", "shipped", Shipped)
DeliverOrder(o) == NextStage(o, "shipped", "delivered", Delivered)

RefundOrder(o, qty, disposition) ==
    /\ order[o].stage # "new"
    /\ Refunded(o) + qty <= Units
    /\ \E e \in Refunds :
        /\ ~Enqueued(o, e) /\ \A f \in Refunds : f < e => Enqueued(o, f)
        /\ order' = [order EXCEPT ![o].refunds[e] =
                        [qty |-> qty, disposition |-> disposition]]
        /\ EnqueueEvent(o, e)
    /\ UNCHANGED <<armed, rateKnown, now, ledger, closed, reprocessed>>

\* The settlement of a Stripe payment is captured.
CaptureSettlement(o) ==
    /\ order[o].stage # "new" /\ ~order[o].settled
    /\ order' = [order EXCEPT ![o].settled = TRUE]
    /\ UNCHANGED <<armed, rateKnown, now, event, ledger, closed, reprocessed>>

\* An operator adds the VAT rate.
AddVatRate ==
    /\ ~rateKnown
    /\ rateKnown' = TRUE
    /\ UNCHANGED <<armed, order, now, event, ledger, closed, reprocessed>>

NextMonth ==
    /\ now < LastMonth
    /\ now' = now + 1
    /\ UNCHANGED <<armed, order, rateKnown, event, ledger, closed, reprocessed>>

(***************************************************************************)
(* Outcomes of an event                                                    *)
(***************************************************************************)
\* Attempts are only compared with the two limits: they need not be counted
\* past the larger one.
BumpAttempts(ev) ==
    [ev EXCEPT !.attempts = IF @ < maxOrphanRefundAttempts THEN @ + 1 ELSE @]

\* MarkEventFailed with a delay: the event is not listed until it is over.
Defer(o, e) ==
    /\ event' = [event EXCEPT ![o][e] = [BumpAttempts(@) EXCEPT !.waiting = TRUE]]
    /\ UNCHANGED ledger

\* Once processed_at is set nothing reads the attempts or the delay, and a
\* reprocessed event starts without them.
Fresh(ev, state) == [NoEvent EXCEPT !.state = state, !.month = ev.month]

\* skipEvent
Skip(o, e) ==
    /\ event' = [event EXCEPT ![o][e] = Fresh(@, "skipped")]
    /\ UNCHANGED ledger

NeedsReview(o, e) ==
    /\ event' = [event EXCEPT ![o][e] = Fresh(@, "review")]
    /\ UNCHANGED ledger

\* Mutant: the wait has no limit.
AwaitForever(o, e) == Defer(o, e)

\* The H-2 deferral: wait for another entry, up to the limit.
AwaitPosting(o, e) ==
    IF event[o][e].attempts >= maxOrphanRefundAttempts
    THEN NeedsReview(o, e)
    ELSE Defer(o, e)

\* CreateJournalEntry for each entry: one that exists stays as it is.
CreateJournalEntries(o, entries, month) ==
    ledger' = [ledger EXCEPT ![o] =
        [e \in Events |-> IF e \in DOMAIN entries /\ ~Booked(o, e)
                          THEN [month |-> month, lines |-> entries[e]]
                          ELSE @[e]]]

\* postOrDefer for a clean build: the entries and processed_at commit together,
\* or nothing does.  A closed period never dead-letters the event; any other
\* failure does, after the limit.
PostOrDefer(o, e, entries) ==
    LET ev == event[o][e]
    IN  IF ev.month \in closed
        THEN Defer(o, e)
        ELSE \/ /\ CreateJournalEntries(o, entries, ev.month)
                /\ event' = [event EXCEPT ![o][e] = Fresh(@, "posted")]
             \/ IF ev.attempts >= maxDeadLetterAttempts
                THEN NeedsReview(o, e)
                ELSE Defer(o, e)

(***************************************************************************)
(* The entries                                                             *)
(***************************************************************************)
Only(e, lines) == [f \in {e} |-> lines]

\* BuildOrderPrepaymentEntry
PrepaymentLines ==
    [NoLines EXCEPT !["money"] = Units * (Net + Vat), !["vat"] = -(Units * Vat),
                    !["prepaid"] = -(Units * Net)]

\* BuildOrderSaleEntry
SaleLines ==
    [NoLines EXCEPT !["money"] = Units * (Net + Vat), !["vat"] = -(Units * Vat),
                    !["revenue"] = -(Units * Net),
                    !["cogs"] = Units * Cost,
                    !["stock"] = -(Units * Cost)]

\* BuildOrderTransitEntry
TransitLines ==
    [NoLines EXCEPT !["transit"] = Units * Cost,
                    !["stock"] = -(Units * Cost)]

\* BuildOrderDeliveredSaleEntry, over the balances it is handed.
DeliveredSaleLines(prepaymentNet, transitCost) ==
    [NoLines EXCEPT !["prepaid"] = prepaymentNet, !["revenue"] = -prepaymentNet,
                    !["cogs"] = transitCost, !["transit"] = -transitCost]

\* BuildOrderRefundEntry (S2)
RefundLines(r) ==
    LET cost == IF r.disposition = "restock" THEN r.qty * Cost ELSE 0
    IN  [NoLines EXCEPT !["returns"] = r.qty * Net, !["vat"] = r.qty * Vat,
                        !["money"] = -(r.qty * (Net + Vat)),
                        !["stock"] = cost, !["cogs"] = -cost]

\* BuildOrderPreDeliveredRefundEntry
PreDeliveredRefundLines(r, transitPosted) ==
    LET cost == IF transitPosted THEN r.qty * Cost ELSE 0
    IN  [NoLines EXCEPT !["prepaid"] = r.qty * Net, !["vat"] = r.qty * Vat,
                        !["money"] = -(r.qty * (Net + Vat)),
                        !["transit"] = -cost,
                        !["stock"] = IF r.disposition = "restock" THEN cost ELSE 0,
                        !["writeoff"] = IF r.disposition = "restock" THEN 0 ELSE cost]

(***************************************************************************)
(* The worker                                                              *)
(***************************************************************************)
\* GetOrderPostingState
LegacySale(o) == Booked(o, Paid) /\ order[o].chain = "legacy"
Prepayment(o) == Booked(o, Paid) /\ order[o].chain = "delivered"
Remaining2090(o) == -Balance(o, "prepaid")
Remaining1140(o) == Balance(o, "transit")

\* A missing rate defers an event that cannot be built without it, and so does
\* a settlement that has not arrived: neither wait has a limit.
Buildable(o) == rateKnown /\ order[o].settled

ProcessOrderPaid(o) ==
    IF order[o].chain = "manual"
    THEN IF rateKnown THEN NeedsReview(o, Paid) ELSE Defer(o, Paid)
    ELSE IF ~Buildable(o) THEN Defer(o, Paid)
    ELSE PostOrDefer(o, Paid, Only(Paid, IF order[o].chain = "delivered"
                                         THEN PrepaymentLines
                                         ELSE SaleLines))

ProcessOrderShipped(o) ==
    IF ~Prepayment(o) THEN Defer(o, Shipped)
    ELSE PostOrDefer(o, Shipped, Only(Shipped, TransitLines))

\* Mutant: without a shipped entry nothing is drained.
DeliverWithoutTransit(o) ==
    IF ~Prepayment(o) THEN Defer(o, Delivered)
    ELSE PostOrDefer(o, Delivered, Only(Delivered,
            DeliveredSaleLines(Remaining2090(o), Remaining1140(o))))

\* Without a transit entry its leg is posted first, in the same transaction;
\* the sale drains exactly what the ledger holds.
ProcessOrderDelivered(o) ==
    LET synthesized == ~Booked(o, Shipped) /\ Cost > 0
        transitCost == IF synthesized THEN Units * Cost
                       ELSE IF Booked(o, Shipped) THEN Remaining1140(o) ELSE 0
        sale == DeliveredSaleLines(Remaining2090(o), transitCost)
    IN  IF ~Prepayment(o) THEN Defer(o, Delivered)
        ELSE PostOrDefer(o, Delivered,
                [e \in {Delivered} \cup IF synthesized THEN {Shipped} ELSE {} |->
                    IF e = Delivered THEN sale ELSE TransitLines])

\* Mutant: a refund of a delivered order does not wait for the sale.
RefundBeforeDeliveredSale(o, e) ==
    IF ~LegacySale(o) /\ ~Prepayment(o)
    THEN AwaitPosting(o, e)
    ELSE IF ~rateKnown THEN Defer(o, e)
    ELSE PostOrDefer(o, e, Only(e,
            IF LegacySale(o) \/ Booked(o, Delivered)
            THEN RefundLines(order[o].refunds[e])
            ELSE PreDeliveredRefundLines(order[o].refunds[e],
                                         Booked(o, Shipped))))

\* Mutant: a refund does not wait for the sale at all.
RefundWithoutSale(o, e) ==
    IF ~rateKnown THEN Defer(o, e)
    ELSE PostOrDefer(o, e, Only(e,
            IF LegacySale(o) \/ Booked(o, Delivered)
            THEN RefundLines(order[o].refunds[e])
            ELSE PreDeliveredRefundLines(order[o].refunds[e],
                                         Booked(o, Shipped))))

\* A refund waits for the entry it reverses, and on an order that is delivered
\* for the sale that turns the prepayment into revenue.
ProcessOrderRefund(o, e) ==
    IF \/ ~LegacySale(o) /\ ~Prepayment(o)
       \/ Prepayment(o) /\ ~Booked(o, Delivered) /\ Enqueued(o, Delivered)
    THEN AwaitPosting(o, e)
    ELSE IF ~rateKnown THEN Defer(o, e)
    ELSE PostOrDefer(o, e, Only(e,
            IF LegacySale(o) \/ Booked(o, Delivered)
            THEN RefundLines(order[o].refunds[e])
            ELSE PreDeliveredRefundLines(order[o].refunds[e],
                                         Booked(o, Shipped))))

\* ListPendingEvents lists what is due, oldest first.
Due(o, e) == Pending(o, e) /\ ~event[o][e].waiting
Listed(o, e) == Due(o, e) /\ \A f \in Events : f < e => ~Due(o, f)

\* skipShippedDelivered gives the event up when the order has no prepayment
\* entry: the old chain, the feature off, or a wait past the limit.
PrePolicy(o, e) ==
    \/ LegacySale(o)
    \/ ~armed
    \/ event[o][e].attempts >= maxOrphanRefundAttempts

\* The events that end in skipEvent.
Skips(o, e) ==
    CASE e = Paid -> order[o].chain = "prestart"
      [] e = Shipped -> IF Prepayment(o) THEN Cost = 0 ELSE PrePolicy(o, e)
      [] e = Delivered -> IF Prepayment(o)
                          THEN Booked(o, Delivered) \/ Remaining2090(o) <= 0
                          ELSE PrePolicy(o, e)
      [] OTHER -> FALSE

ProcessEvent(o, e) ==
    /\ Listed(o, e)
    /\ CASE Skips(o, e) -> Skip(o, e)
         [] e = Paid /\ ~Skips(o, e) -> ProcessOrderPaid(o)
         [] e = Shipped /\ ~Skips(o, e) -> ProcessOrderShipped(o)
         [] e = Delivered /\ ~Skips(o, e) -> ProcessOrderDelivered(o)
         [] OTHER -> ProcessOrderRefund(o, e)
    /\ UNCHANGED <<opsVars, closed, reprocessed>>

\* A crash between skipEvent's two writes: the reason is recorded, the event
\* is still pending and due.
CrashInSkip(o, e) ==
    /\ Listed(o, e) /\ Skips(o, e)
    /\ event' = [event EXCEPT ![o][e] = BumpAttempts(@)]
    /\ UNCHANGED <<opsVars, ledger, closed, reprocessed>>

\* next_retry_at has come.
RetryDue(o, e) ==
    /\ Pending(o, e) /\ event[o][e].waiting
    /\ event' = [event EXCEPT ![o][e].waiting = FALSE]
    /\ UNCHANGED <<opsVars, ledger, closed, reprocessed>>

(***************************************************************************)
(* Operators                                                               *)
(***************************************************************************)
\* ReprocessAcctEvent takes the id of any event.
ReprocessAcctEvent(o, e) ==
    /\ reprocessed < MaxReprocess
    /\ Enqueued(o, e)
    /\ event' = [event EXCEPT ![o][e] = Fresh(@, "pending")]
    /\ reprocessed' = reprocessed + 1
    /\ UNCHANGED <<opsVars, ledger, closed>>

ResolveAcctEvent(o, e) ==
    /\ event[o][e].state = "review"
    /\ event' = [event EXCEPT ![o][e].state = "resolved"]
    /\ UNCHANGED <<opsVars, ledger, closed, reprocessed>>

\* Mutant: the current month may be closed.
CloseCurrentPeriod(m) ==
    /\ m <= now /\ m \notin closed
    /\ \A o \in Orders, e \in Events :
          event[o][e].month = m => event[o][e].state \notin {"pending", "review"}
    /\ closed' = closed \cup {m}
    /\ UNCHANGED <<opsVars, event, ledger, reprocessed>>

\* ClosePeriod, its gates on the order events.
ClosePeriod(m) ==
    /\ m < now /\ m \notin closed
    /\ \A o \in Orders, e \in Events :
          event[o][e].month = m => event[o][e].state \notin {"pending", "review"}
    /\ closed' = closed \cup {m}
    /\ UNCHANGED <<opsVars, event, ledger, reprocessed>>

ReopenPeriod(m) ==
    /\ m \in closed
    /\ closed' = closed \ {m}
    /\ UNCHANGED <<opsVars, event, ledger, reprocessed>>

----------------------------------------------------------------------------
Next ==
    \/ \E o \in Orders :
        \/ PayOrder(o) \/ ShipOrder(o) \/ DeliverOrder(o)
        \/ \E qty \in 1 .. Units, d \in Dispositions : RefundOrder(o, qty, d)
        \/ CaptureSettlement(o)
        \/ \E e \in Events :
            \/ ProcessEvent(o, e) \/ CrashInSkip(o, e) \/ RetryDue(o, e)
            \/ ReprocessAcctEvent(o, e) \/ ResolveAcctEvent(o, e)
    \/ AddVatRate
    \/ NextMonth
    \/ \E m \in Months : ClosePeriod(m) \/ ReopenPeriod(m)

\* The ticker fires, a tick works through every event it has listed (so an
\* event that keeps coming back does not hold up the others), and delays end.
\* Nothing is assumed of orders or operators.
Spec ==
    /\ Init /\ [][Next]_vars
    /\ \A o \in Orders, e \in Events :
        SF_vars(ProcessEvent(o, e)) /\ WF_vars(RetryDue(o, e))

(***************************************************************************)
(* Correctness                                                             *)
(***************************************************************************)
EventStates == {"none", "pending", "posted", "skipped", "review", "resolved"}

\* The shape of the state; no period is closed before its month is over
\* (ClosePeriod).
AcctTypeOK ==
    /\ armed \in BOOLEAN /\ rateKnown \in BOOLEAN
    /\ order \in [Orders ->
          [chain : Chains, stage : {"new", "paid", "shipped", "delivered"},
           settled : BOOLEAN,
           refunds : [Refunds -> [qty : 0 .. Units, disposition : Dispositions]]]]
    /\ event \in [Orders -> [Events ->
          [state : EventStates, attempts : 0 .. maxOrphanRefundAttempts,
           waiting : BOOLEAN, month : 0 .. LastMonth]]]
    /\ ledger \in [Orders -> [Events ->
          [month : 0 .. LastMonth, lines : [Accounts -> Int]]]]
    /\ now \in Months /\ closed \subseteq 1 .. (now - 1)
    /\ reprocessed \in 0 .. MaxReprocess

\* Once the delivered sale is posted, the prepayment and the goods in transit
\* are cleared for good: a shipped event that comes late, a reprocessed event
\* and refunds after the sale leave 2090 and 1140 at zero (the exact drain of
\* processOrderDelivered and the idempotent source keys).
DeliveredDrains ==
    \A o \in Orders : Booked(o, Delivered) =>
        Remaining2090(o) = 0 /\ Remaining1140(o) = 0

\* No entry takes back more than was booked before it: money, VAT, prepayment,
\* revenue, goods in transit and cost of sales never change sides, in any
\* order of processing (processOrderRefund's choice of entry).
ReversesOnlyWhatIsBooked ==
    \A o \in Orders :
        /\ Balance(o, "money") >= 0 /\ Balance(o, "vat") <= 0
        /\ Remaining2090(o) >= 0 /\ Remaining1140(o) >= 0
        /\ Balance(o, "revenue") + Balance(o, "returns") <= 0
        /\ Balance(o, "cogs") >= 0

\* When every event of an order is posted, the books say what happened, in
\* whatever order the events were posted: the money and VAT of the units that
\* were kept; revenue and, for what was refunded, contra-revenue if the order
\* was delivered or of the old chain, and a prepayment otherwise.
BooksTellTheOrder ==
    \A o \in Orders :
        LET kept == Units - Refunded(o)
            sold == order[o].chain = "legacy" \/ order[o].stage = "delivered"
        IN  (/\ Enqueued(o, Paid)
             /\ \A e \in Events : event[o][e].state \in {"none", "posted"})
            => /\ Balance(o, "money") = kept * (Net + Vat)
               /\ Balance(o, "vat") = -(kept * Vat)
               /\ Remaining2090(o) = IF sold THEN 0 ELSE kept * Net
               /\ Balance(o, "revenue") = IF sold THEN -(Units * Net) ELSE 0
               /\ Balance(o, "returns") = IF sold THEN Refunded(o) * Net ELSE 0

\* A refund is never stuck: once the rate and the settlement are there, its
\* event is posted or handed to an operator, whatever became of the entries it
\* waits for, unless its month is closed (the limits of processOrderRefund and
\* postOrDefer, H-2 and B-5).
RefundsEnd ==
    \A o \in Orders, e \in Refunds :
        (Pending(o, e) /\ Buildable(o))
            ~> (~Pending(o, e) \/ event[o][e].month \in closed)

\* A month is closed over a delivered order only with its revenue recognised
\* or an operator's resolution: waiting for the VAT rate makes no "silent,
\* invisible revenue hole" (processOrderPaid).
NoRevenueHole ==
    \A o \in Orders :
        (/\ Enqueued(o, Delivered) /\ event[o][Delivered].month \in closed
         /\ Prepayment(o) /\ ~Pending(o, Delivered))
        => Booked(o, Delivered) \/ event[o][Delivered].state = "resolved"
=============================================================================
