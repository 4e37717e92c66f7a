# Verification of grbpwr-manager: orders, stock, payments, books, production

grbpwr-manager is the back end of a web shop: a Go process with a MySQL
database, a storefront API, an admin API, Stripe for card payments and a dozen
background workers. This directory holds TLA+ models of the parts that handle
goods and money: the order store with stock, refunds and the accounting outbox;
the payment flow around one Stripe PaymentIntent; the admin's refund between
Stripe and the store; the in-memory cart reservations; the worker that posts
order events to the ledger; and production receipts, from the count on the floor
to finished goods in the books. The models are checked with TLC; every invariant
of the passing runs, the action properties and both refinements of the abstract
order life are also proved with TLAPS.

## Inventory

| Part | State | Operations | Hard because |
| --- | --- | --- | --- |
| Order store, `internal/store/order` | `customer_order`, `order_item`, `payment`, `shipment`, `refunded_order_item` | create, invoice, pay, expire, cancel, ship, deliver, return, refund | many operations on one status, three tables that must agree, a transition table that is sometimes bypassed, one operation that reads without a lock |
| Product stock, `internal/store/product/stock.go` | `product_size.quantity`, `product_stock_change_history` | reduce, restore, restore to seconds, manual set | last unit, exact restore, journal next to quantity |
| Packaging claims, `internal/store/inventory` | append-only `material_reservation_ledger` | reserve, consume, release | best effort, own transactions, after the fact |
| Accounting outbox, `internal/store/accounting/events.go` | `acct_event` | enqueue in the order's transaction | must mirror the order on every path |
| Promo cache, `internal/cache` | the promo codes, loaded at start, written by each edit | read at creation, disable | a copy outside the database's transactions and locks |
| Transactions, `internal/store/db.go` | none | SERIALIZABLE transaction, repeated on deadlock | the closure runs again with captured variables |
| Checkout, `internal/apisrv/frontend/order_*.go` | none of its own | SubmitOrder, GetOrderInvoice, CancelOrderInvoice | a dozen steps against store and Stripe, each can fail; concurrent retries |
| Card payments, `internal/payment/stripe` | monitor registry in memory | start and cancel monitor, expire, webhook, CheckForTransactions | four paths race to confirm or expire one order; restarts |
| Cleanup worker, `internal/ordercleanup` | none | cancel stuck Placed orders, expire overdue ones | safety net for everything above |
| Admin handlers, `internal/apisrv/admin` | none | refund (Stripe, then store), cancel, ship, deliver | partial failure between Stripe and store |
| Cart reservations, `internal/stockreserve` | holds in memory with three indexes, a rate per session | reserve if available, commit, release, release a session, cleanup | renewals and commits change a hold the indexes still name; expiry; caps |
| Outbox consumer, `internal/acctposting` | `acct_event` state, attempts, next retry | list, post, defer, skip, review, reprocess | events of one order depend on each other's entries and are posted in any order |
| Ledger, `internal/store/accounting`, `internal/accounting` | journal entries, periods | idempotent entry, reversal, close and reopen a period, the entry builders | an entry is built from balances that other entries move |
| Production runs, `internal/store/productionrun` | run, plan line, receipts, cost price claim | receive (partial, final), reverse, edit under an optional lock version | three places hold the same quantity, two hold the same value, and a worker posts later |
| Mail queue, campaign dispatch | queued mail, cursors | send, retry, mark | at-least-once sending |
| The rest | | | PLM (tech cards, materials), reports (JPK, OSS, analytics), FX, media, auth, DTOs |

How the parts interact: checkout calls the order store and Stripe in turn; the
store changes stock, packaging claims and outbox in its own transaction (the
packaging reserve and consume are separate transactions after it); payment
monitors, the webhook, the lazy check on an order's page and the cleanup worker
call `OrderPaymentDone` or `ExpireOrderPayment`; admins and customers call the
cancel, ship, deliver and refund operations at any time, the admin's refund with
a Stripe call before it. The storefront holds units in memory while a session
shops and hands the holds to the order it submits; the order's end frees them.
The accounting worker reads the outbox and the production receipts on a ticker
and posts to the ledger; operators close months, reprocess events and reverse
receipts meanwhile. PROJECT.json lists the components with their status and,
under `hazards`, the places where a test would hardly reach.

What makes these parts correct: no unit of stock is sold twice, lost or restored
twice; what the books say came back is what is on the shelf; refunds never
exceed the order and the fee is refunded once; nothing is booked as refunded that
Stripe did not return; the outbox tells the order's story and the ledger tells it
too, in whatever order the events are posted; an order follows its promised life;
one PaymentIntent pays for one order; a confirmed order is paid in full; no order
awaits its payment for ever; a hold can be released by the order it belongs to and
no cart holds a unit for ever; a run's stock, claims and ledger say the same about
its receipts and its counters forget none of them, its cost is capitalised once and none of it is left in
work in progress.

## Modules

| Module | Models | Built on |
| --- | --- | --- |
| `OrderStatus` | abstract: the life of an order and the moment its revenue is recognised | |
| `OrderStore` | the order store with stock, claims, vouchers, ledger and outbox | instance of `OrderStatus` |
| `OrderStoreProofs` | theorems about `OrderStore` | extends `OrderStore`, `SumTheorems` |
| `SumTheorems` | lemmas about sums over finite sets | |
| `OrderRevalidate` | the store plus `ValidateOrderByUUID`, the one unlocked operation | extends `OrderStore` |
| `PaymentFlow` | one PaymentIntent: SubmitOrder calls, monitors, worker, webhook, lookups, cancellations, restarts | instance of `OrderStatus` |
| `AdminRefund` | the admin's RefundOrder calls, Stripe's refunds and the store | extends `OrderStore` |
| `StockReserve` | cart reservations with their indexes and clock | |
| `AcctOutbox` | the events of an order, the worker that posts them, the ledger, the months | |
| `ProductionReceipt` | one production run: receipts, reversals, edits, stock, posting | |
| `PaymentFlowProofs`, `StockReserveProofs`, `AcctOutboxProofs`, `ProductionReceiptProofs` | theorems about the module they name | extend it and, but for the first, `SumTheorems` |
| `AdminRefundProofs` | theorems about `AdminRefund` | extends `AdminRefund`, `OrderStoreProofs` |
| `MC...` | small instances for TLC | |

### OrderStore

Every operation of the store runs in one SERIALIZABLE transaction that locks the
order row, so each is one action; an operation that returns an error rolls back
and is an action that is not enabled. The variables are the columns named next to
their declarations. A line is a `product_size` row, a product-size pair with
grade A (sellable) or B (seconds). Money is abstracted to what it pays for: an
amount is a number of units of each line and a number of shipping fees, so two
amounts are equal exactly when they pay for the same things; rounding and
currencies are not part of the model. `refundEvents` keeps, per order, the number
of `order_refund` rows and the units in their payloads per disposition. `journal`
is the net of an order's rows in `product_stock_change_history`, `manualJournal`
that of the rows without an order.

Guards are the code's early returns followed by the transition table of
`status.go`. Where the two disagree the model keeps both: `SetTrackingNumber`
accepts a Shipped order and is then refused by the table; `DeliverOrderWithSource`
accepts a Confirmed one and is refused too; `cancelOrder` lets a PendingReturn or
RefundInProgress order pass its own check. `CancelOrderByUser` writes the status
of a paid order without the table (`RequestRefundByUser`).

A promo code is in two places: the row, which `OrderPaymentDone` disables inside its
transaction (`DisableVoucherInTx`), and the process's cache, which `CreateOrder`
reads. Both accesses to the cache are steps of their own: `GetPromoByCode` reads it
before `CreateOrder`'s transaction and the call keeps what it read (`offer`);
`DisablePromo` updates it after the payment has committed (`redeeming` is the payer
between commit and update). `Restart` loses the calls and loads the cache from the
rows.

### PaymentFlow

One PaymentIntent, the SubmitOrder calls made with it (each names the order it
would create), and everyone who can confirm or expire these orders. A store
operation is one step; each read of a row and each Stripe call is a step of its
own, and what it read is kept by the caller (`req[r]`, `job[a]`) until it is
used. So the model has the windows the code has: between the expiry's look at
the intent and its transaction, between publication of `order_id` and the
invoice, between the read of the payment row and `OrderPaymentDone`.
`Restart` loses requests, jobs and monitors and re-arms a monitor for each order
that awaits payment, as `initAddressesFromUnpaidOrders` does. Stripe is external:
`Pay` is the customer confirming at the amount the intent has at that moment, and
the event is delivered until it is acknowledged. Stock, vouchers and refunds are
left to `OrderStore`; amounts are small numbers because the comparison of amounts
is what matters here.

### AdminRefund

The handler as the code has it: an unlocked read that fixes the scope and the
amount (`StartRefund`), the Stripe call (`Refund`, or `RefundAnswerLost`,
`RefundFails`), then the store's own `RefundOrder` of `OrderStore`
(`BookRefund`, `BookingFails`). The store decides again under its lock, so a call
may move money and book nothing, or book what an earlier call moved. Amounts are
numbers here, because Stripe compares them. Stripe is external: it repeats its
answer to a key it has seen and refuses more than is left of the charge. That a
key expires at Stripe after 24 hours is not modelled.

### StockReserve

Every operation runs under one mutex and is one action. A time is a countdown:
`Tick` brings all deadlines closer, and one value stands for everything past. The
three index lists are only searched, filtered and summed over, so each is a count
per key; a duplicate or a missing entry shows as a count other than one. A refused
call still uses up the session's rate. `claimant` is a history variable: the order
that last committed a hold. The stock the callers read from the database is the
constant `Stock`.

### AcctOutbox

One action per event processed: `ProcessEvent` is the worker's handler up to the
transaction that posts the entries and sets `processed_at`, with the outcomes
posted, deferred, skipped, needs review. Event ids name entries too, since the
code's source keys are one per event; that makes `CreateJournalEntries`
idempotent as the unique key does. `skipEvent` writes twice without a transaction:
`CrashInSkip` is the stop between the writes. Which events end in `skipEvent` is
`Skips`. The order's life is the environment, cut to what `OrderStore` shows of
it; the VAT rate and the settlement may arrive late or never. Amounts are exact: a
net price, its VAT and a cost per unit.

### ProductionReceipt

`PostProductionRunReceipt` and `ReverseProductionRunReceipt` are one transaction
each, with the roll-up on the plan line, stock, cost-price claim, status and lock
version. The worker's posting is two steps, `BuildReceipt` (facts and entry read
on the pool) and `PostReceipt` (the transaction that locks the receipt), because a
reversal may come between them. Money is in cents with the code's two roundings
(`RoundDiv` half away from zero, `RoundBank` half to even), since the split of
the run's cost between partial receipts, write-off and final is what can go wrong.
A save of the run may carry any counters from `Counts` (the DTO passes on what the
payload holds): they are written when no receipt is live and replaced by the stored
ones when one is. The lock version is optional: a save that sends it is refused once
another command has moved the version, a save without it overwrites what happened
since. A run may also be created with counters.

### Mutants

An operator whose comment begins with "Mutant:" is not part of a specification.
It is a plausible mistake in the definition it stands before; put in its place, it
makes the property that PROJECT.json pairs it with fail.

## What the runs check

Passing runs:

- `order_refunds` (17,260 states): one order on the A and B rows of one product,
  up to two units each, with manual corrections up to 3. Two units on two rows
  are the least that allow a sequence of partial refunds with different
  dispositions, then the rest. Checked: `StockMatchesBooks`,
  `LedgerFollowsStatus`, `RefundedAmountIsDue`, `OutboxFollowsOrder`,
  `RefundedHoldsNoPackaging`, `StockMovesAreJournalled`, `TypeOK`.
- `order_race` (1,062,080 states up to symmetry): two orders, one unit, one
  voucher: who gets the last unit, who redeems the voucher and who still reads it in
  the cache, and a stock report (`JournalAddsUp`) that sums over both.
  `RedeemedVoucherNotGiven`: an order gets a redeemed voucher only from a read of the
  cache made before the payment that redeemed it had updated the cache.
  `KeepsPromise` is the refinement of `OrderStatus`. Orders are symmetric: no
  definition distinguishes them.
- `payment_submit` (about 2.7 million states): two SubmitOrder calls with one
  intent and one failure, lost answer or crash anywhere. `OneOrderPerIntent`:
  the check before creation races, the unique key on `payment.client_secret`
  decides, and the loser's order never gets further.
- `payment_life` (446,044 states): one SubmitOrder call, two amounts, a visitor's
  lookup, one failure or crash, under fairness: `ConfirmedIsPaid` (a customer who
  pays early at an old amount never gets an order confirmed for less than it
  costs), `AmountAgreed`, `KeepsPromise`, `AwaitingResolved`.

- `admin_refund` (129,621 states up to symmetry of the calls): two RefundOrder
  calls at once on an order with one unit on each of two lines, with lost answers,
  refusals, crashes between Stripe and the store, and repetitions without limit.
  `StripeCoversBooks`: the shop never books more as refunded than Stripe returned.
- `stock_reserve` (248,250 states): two sessions, two items, two orders.
  `IndexesExact`, `CommittedHoldReleasable` (a renewal drops the order's name from
  the record; the order can free the hold all the same), `CapsRespected`,
  `OnlyCommitOverholds` (no reservation takes a unit others hold; a commit, which
  revives expired holds, can), and `CartHoldsEnd` under fairness.
- `acct_outbox` (405,675 states): one order of each recognition chain through
  payment, shipping, delivery and refund, its events posted in every order over two
  months, with a late VAT rate, a late settlement, a reprocessed event and a crash.
  `DeliveredDrains`, `ReversesOnlyWhatIsBooked`, `BooksTellTheOrder`, and
  `RefundsEnd` under fairness.
- `production_receipts` (1,696,280 states): up to three receipts of one run,
  posted late or failed, reversed and received again, with one disturbance
  anywhere: a material move, a save of the run with counters typed in, a sale, an
  entry reversal or a restart. `UnitsTellReceipts` (stock is what the live receipts
  counted, and the counters hold at least that), `ReceiptsOwnCounters` (while a
  receipt is live, no save changes what was typed), `ClaimsMatchLedger`,
  `CapitalisedOnce`, `FinalClosesRun`, `CostPriceEarned` (a claim without a live
  good receipt comes only from typed good units), `NothingStrandsInWip`,
  `CostPriceCovered` (for counters without typed units).

Runs that show a statement of the code's own comments to fail (PROJECT.json,
`findings`, quotes each line):

- `unlocked_revalidate`: `ValidateOrderByUUID` reads the order without a lock and
  rewrites its lines later; with an invoice in between, a later expiry restores
  fewer units than the invoice took.
- `expiry_race`: the customer pays between the expiry's look at the intent and
  its transaction; the order is cancelled though the payment succeeded.
- `refund_scope`: two refunds of one unit each of a two-unit line have the same
  scope, so the same idempotency key; Stripe answers the second with the first and
  moves nothing, and the store books both. With lines of one unit
  `StripeCoversBooks` holds (`admin_refund`).
- `revenue_hole`: the delivered event gives up waiting for the prepayment while the
  paid event still waits for its VAT rate; the prepayment posts later, nothing is
  left to recognise its revenue, and the month closes. The run is restricted to
  behaviours in which the rate is missing at first and the settlement is there, so
  that the wait for the rate is the only cause.

### Behaviour seen in the models

Not contradicted by a property of a run, but worth knowing.

Order store and payments:
- A single-use voucher is checked at creation and disabled at payment, so two
  orders created before either is paid both redeem it. So does an order created
  between the commit of another's payment and its cache update. What does hold is
  `RedeemedVoucherNotGiven`.
- The guard against writing off goods that never left (`lifecycle.go:267`) looks at
  status Confirmed; after the buyer's refund request it is RefundInProgress, and the
  write-off goes through.
- An order cancelled before its invoice keeps an expected amount of 0; each delivery
  of its payment's webhook is answered with a 5xx, without end.
- `wasUpdated` survives a rolled-back attempt of `OrderPaymentDone`, so a
  confirmation can be queued by a call that updated nothing.
- An idempotent retry of SubmitOrder may write a total to the intent that was read
  before the order was repriced. With a single call `AmountAgreed` holds.
- The tracking code of a shipped order cannot be corrected and a Confirmed order
  cannot be delivered: the table refuses what the code around it provides for.
- A packaging claim reserved after its order was cancelled stays open; a
  confirmation mail is lost when the process stops, or the monitor is cancelled,
  between commit and queueing; the PaymentIntent of a cancelled order stays payable.

Admin refunds:
- An amount of 0 is left out of Stripe's parameters, which asks for all that is
  left. A partial refund asks Stripe for the fee again, though the store books it
  once. An order paid with a promo code is refunded gross of the promo.
- Stripe is called before the store validates the request: money that was returned
  may be refused by the store and stay unbooked (`BookingFails`). `StripeCoversBooks`
  is about the other direction.

Cart reservations:
- While an invoice has already reduced the database stock, the committed hold still
  counts: a unit can be withheld from others for that time, never sold twice.
- A late `Release` of one order also frees a hold that was committed again to
  another order.

Accounting:
- A refund that posts while the shipped event is deferred sees no transit entry; the
  cost the shipped event then moves to 1140 stays there, which
  `accounting/orderdelivery.go` says cannot happen.

Production:
- The counters of a plan line are not the sum over its receipts that
  `productionrun.go:264` takes them for: what was typed before the first receipt
  stays in them, and receipts add to it. The final's valuation reads the counters, so
  a typed good unit lets a final of nothing but scrap claim the product's cost price,
  and typed defects make more scrap normal in the frozen cost price than in the
  ledger. Hence the conditions on `Typed` in `CostPriceEarned` and `CostPriceCovered`.
- `productionrun.go:267` says that the DTO zeroes the counters of new lines;
  `dto/productionrun.go:353` passes them on.
- A fresh form can move a partially received run back to `open`, and a second one
  cancels or closes it, although `productionrun.go:217` refuses the direct way.
- A received run with material issued to it can never be closed, since consumed
  material still counts as issued and returns are refused.
- A receipt whose posting is pending when the final freezes the cost price makes that
  price lower than the ledger's finished goods; a late partial may relieve a cent too
  much; reversing a partial's entry by hand after the final can leave a difference on
  1120. These are why `NothingStrandsInWip` and `CostPriceCovered` have the
  conditions they have.
- That costs are capitalised once rests on a single worker (`.do/app.yaml:583`,
  `instance_count: 1`): two could read the same facts.

### Bounds

`MaxQty` is the code's cap on a cart line, here 1 or 2. `MaxStock` bounds a
manual correction. `MaxAmount` bounds totals: 2 is enough for less, equal and
more. `MaxFaults` bounds failed calls, lost answers and crashes together: 1 puts
one failure at any point of any interleaving; two failures in one behaviour are
not covered. Order and request sets have two members where competition matters.

`AdminRefund`: prices 2 and 3 and a fee of 4, so that no two scopes have the same
value; two calls at once, any number in turn. `StockReserve`: all times 1, so each
deadline is ahead, due or past; the caps (1 hold a session, 1 unit, 2 holds in
all, 1 refresh, 2 calls a window) are small enough to be met. `AcctOutbox`: two
units make a partial and a full refund; two months are one that closes and one
that does not; limits of 1 attempt, so that waiting and giving up both happen;
`MaxReprocess` 1; `MaxRefunds` 1. `ProductionReceipt`: `MaxReceipts` 3 is a partial,
a final and one received again; the deliveries are one good unit, and two scrapped
with one second, so a series can have no good units, abnormal scrap or both; the
typed counters are none, or one good unit and two defects; a run starts with its
material, or with no cost at all, and one that starts with counters has its invoices
too (`MCInit`), which keeps the instance small; 25
cents of material, with or without 10 of invoices, do not divide evenly by 2, 3 or 4;
a normal loss of a quarter leaves some scrap normal; `MaxDisturbances` 1 puts one
disturbance anywhere; the theorems are about all other values. Every behaviour within these bounds is explored.

### Deadlock

The order store and the reservations never stop in the runs (stock can be
corrected, the clock runs). The others may: when every request has ended and
nothing is pending or due there is nothing left to do, so their configurations do
not check deadlock.

### Fairness

`FairPaySpec` assumes that the clock moves, that a request that has begun goes on
(or is ended by a restart), that the cleanup worker, a ticker that lives as long as
the process and starts with it, runs its sweep and each call of it again and
again, and that Stripe delivers an event until it is answered with 2xx, the
handler running to its end each time. Nothing is assumed of customers, admins,
lookups or monitors: a monitor may die with its process or its context, and
`AwaitingResolved` rests on the worker alone.

`StockReserve`: the clock runs and the cleanup goroutine's ticker fires (weak
fairness); sessions and orders may stop at any time. `AcctOutbox`: a retry delay
ends (weak), and an event that is listed again and again is processed (strong,
because a tick works through everything it has listed, so an event that keeps
coming back to the head of the list cannot hold up the others). Orders, operators, the
VAT rate and the settlement are not fair. `AdminRefund` and `ProductionReceipt` have
safety properties only.

## What is proved

The theorems hold for all values of the constants that satisfy the named `ASSUME`
of the module, so for any number of orders, products, sessions, requests, receipts
and any bounds. In each module an inductive invariant is shown to hold of the
initial states and to be kept by every action, one lemma per action; each listed
theorem is a consequence.

### Sums

Half of the properties add something up: a journal over orders, holds over
sessions, entries over receipts, refunds over keys. `SumTheorems` has what they
need of `SumFunctionOnSet`: a sum is empty, integer or natural, monotone, changes
by what one element changes, splits into parts, adds and scales. Instead of
induction each proof takes a smallest subset of the set for which the claim fails
(the subsets of a finite set are well founded under inclusion) and removes one
element of it.

### OrderStore

Assumptions: `ConstantsAssumption` (stock is a function to naturals, the bounds are
naturals, "no promo" is not a voucher) and, for the report, `OrdersAssumption` (the
orders are finitely many).

- `Invariance`: `Spec => []IndInv`;
- from it `TypeCorrect`, `StockAccounted`, `LedgerSound`, `RefundsAreDue`,
  `OutboxSound`, `RefundFreesPackaging`;
- `StockJournalled`: the action property `StockMovesAreJournalled`;
- `RedeemedVoucherKept`: the action property `RedeemedVoucherNotGiven`;
- `ReportAddsUp`: `JournalAddsUp`, from the per-step property and the sums;
- `Refinement`: `Spec => KeepsPromise`, the store implements `OrderStatus`.

`IndInv` is the conjunction of those invariants and `OrderShape`. None is inductive
alone. That stock stays a natural number after a refund needs the ledger within
the lines (`LedgerFollowsStatus`); a refund step keeps that because a refundable
order has units left, which needs its lines to be non-empty (`OrderShape`) and
its status to tell how far the ledger got. `StockMatchesBooks` after an expiry
needs that nothing was booked back before, which follows from
`LedgerFollowsStatus` and `RefundedAmountIsDue` together. `OutboxFollowsOrder`
ties the paid row to the status. `VoucherBooks` says where a redeemed voucher may
still be allowed: in the row not at all, in the cache only while a payment that
redeemed it is between its commit and its cache update, and `RedeemedVoucherKept`
rests on it. The
refinement goes action by action, using the transition table where the code's own
guard is wider.

### PaymentFlow

Assumption: `PaymentAssumption` (the actors' names are distinct, amounts go up to at
least 1). `PayTypeCorrect`, `NeverSoldTwice` (`OneOrderPerIntent`),
`OnlyPaidIsConfirmed` (`ConfirmedIsPaid`), `PaymentKeepsPromise` (the refinement of
`OrderStatus`), and `AmountOfOneCall` (`AmountAgreed`) for an intent used by one
SubmitOrder call: with two it does not hold, see above.

The invariant `PayInv` says what each caller may still rely on between its steps,
since anything may happen between a read and its use. `JobOK`: an expected amount
that was read and is not 0 is the order's total, which is final once there is an
invoice, and a received amount belongs to an intent that has succeeded for good; so
a comparison made with old values is still right when `OrderPaymentDone` runs.
`ReqOK`: a SubmitOrder call past its link has a linked order, and past its invoice
the total it read. `RowOK` ties status, payment row and link together, `OneLinked`
is the unique key. For `AmountAgreed` the invariant `Alone` adds that a single call
never finds another's order, so that the amount it corrects on the intent in the end
is its own order's.

### AdminRefund

Assumptions: those of `OrderStore`, `PricesAssumption` (prices and fee are positive,
the discount is at most a price), `SkusAssumption` (finitely many products).
`RefundTypeCorrect`, and `StripeAlwaysCovers`: `StripeCoversBooks` for lines of one
unit and no discount, the conditions of the run; `refund_scope` shows the first to
be needed, and an order paid with a promo code is refunded gross of it.

`RefundInv` adds three things to the store's `IndInv`. `StripeTells`: each refund at
Stripe was at least the worth of its key's scope when it was asked for, and that
worth only shrinks as refunds are booked (`ScopeShrinks`); a refund for everything
leaves nothing of the charge. `CallTells`: the same of what a call holds, and a call
that reaches the store of a charged order has its refund at Stripe. `BooksRest`:
either the whole charge was returned, or what is booked is covered by a set of
partial refunds whose units are all in the ledger. The last is where one unit a line
matters: a partial booking asks for units that are not in the ledger, so its refund
is none of those already used, and the set can grow by it.

### StockReserve

Assumption: `ReserveAssumption` (finite sessions and items, times and the rate at
least 1). `TypeCorrect`, `IndexesAlwaysExact`, `HoldsReleasable`
(`CommittedHoldReleasable`), `CapsHold`, and the action property
`ReservingNeverOverholds` (`OnlyCommitOverholds`). The invariant is the conjunction
of the four and `ClaimantsHold`: the history names no order for a hold that is gone,
so an index emptied by a release is missed by nobody. The caps and the held units
are sums over sessions and items; the action property needs that a reservation
changes the hold of one session only.

### AcctOutbox

Assumption: `OutboxAssumption` (at least one unit, price and month of at least 1,
VAT and cost naturals, orphan limit not below the dead-letter limit).
`OutboxTypeCorrect`, `DeliveredAlwaysDrains`, `NeverReversesMore`
(`ReversesOnlyWhatIsBooked`), `BooksAlwaysTell` (`BooksTellTheOrder`).

The invariant says, per order, what every entry in the ledger looks like whatever
the order of posting (`EntriesTell`): the paid entry is a prepayment or a sale by
its chain, the shipped entry moves the whole order to transit, the delivered one
turns exactly the whole order into a sale, and a refund reverses either its share of
the sale or, only while the order is not delivered, of the prepayment. The last is
the heart: a refund that unwinds the prepayment of an undelivered order and a
delivered sale never meet, so the balance the delivered event reads is that of the
whole order (`WholeOrder`). Balances are then three entries and the sum of the
refunds (`BalanceIs`), which scales with the units returned (`RefundSums`), and
these are at most the units of the order (`RefundsCounted`).

### ProductionReceipt

Assumption: `ReceiptAssumption` (bounds are naturals, a delivery counts something,
the loss rate is a fraction). `ReceiptTypeCorrect`, `UnitsAlwaysTold`,
`CountersOwned` (`ReceiptsOwnCounters`), `ClaimsAlwaysMatch`,
`CapitalisedAtMostOnce`, `FinalAlwaysCloses`, `CostPriceAlwaysEarned`,
`NothingEverStrands` (`NothingStrandsInWip`) and
`CostPriceAlwaysCovered` (`CostPriceCovered`).

All but the last two come from `IndInv`: the run's invariants, that the worker builds
only for a receipt without an entry (`BuiltUnposted`) and that capital stays under
its peak with the entry in the worker's hands (`PeakHolds`). `ReceiptsOwnCounters`
and `CostPriceEarned` are action properties, proved per step: a receipt and its
reversal move counters and live sums alike (`DeliveryTyped`, `ReversalTyped`), and a
save writes the counters only when nothing is live (`CountersWritten`).

The last two are about roundings, for every plan, cost, loss rate and order of
postings. `WipInv` adds: only a final writes off; once it is posted it took all that
was left, and without material moves a late partial takes at most a cent more
(`WipTaken`); an entry built but not posted still fits (`BuiltTakes`); and the frozen
cost price is at most the normal share of the run's cost, or already covered by the
goods in the ledger (`CostFrozen`), unless units were typed into the counters. All three are claimed as long as no entry is
reversed by hand, the condition of the properties themselves. The arithmetic is in
lemmas on `RoundDiv` and `RoundBank`, multiplied out so that no division is left.

### Only model-checked

Liveness (`AwaitingResolved`, `CartHoldsEnd`, `RefundsEnd`) is out of the prover's
reach. The four runs that expect a violation have nothing to prove.

## Not modelled

Within the order store: comments, reviews, shipping labels, listings, actual
shipping cost (they touch none of this state); decimal amounts, rounding and
currencies. Of promo codes: the admin's create, edit, disable and delete, which write row
and cache and may allow a redeemed voucher again. Of stock: manual corrections of seconds. Of packaging: on-hand
quantities and recipes. Of payments: pre-order sessions, disputes,
`GetOrderInvoice`. Of the refund handler: loyalty and page revalidation after it.

Of reservations: `Reserve` without the availability check, which has no caller
outside tests (nor has `ReleaseSession`, which is modelled). Of the outbox: disputes,
edits of the VAT rate between sale and refund, the shipping, discount and fee lines,
an order whose chain changes midway, reversal of an order's entries by hand, two
workers at once. Of the ledger: the other gates of ClosePeriod, manual entries, B2B
documents, the pulls of material movements, opex, shipping and development costs
(material movements are taken as posted to 1120).

Of production: auxiliary runs, colour variants, several plan lines, cut receipts and
lays, the deprecated receive call (`admin/productionrun.go:534`: it makes a final
receipt of the counters it read before the transaction and sets the counters to them,
so a receipt posted in between would be lost from the counters), the replay of a command
by its idempotency key, the worker's skip stamps, scan order and batch limit. The
facts of a receipt are three reads on the pool and one step here.

The tech card, material, report, analytics, media, translation and access-control
parts are apart from these paths and mostly CRUD or I/O; generated code and DTO
conversion are left out. They make up most of the repository's lines.

## Plan

Done: `OrderStatus`, `OrderStore`, `OrderRevalidate`, `PaymentFlow`, `AdminRefund`,
`StockReserve`, `AcctOutbox`, `ProductionReceipt`, and the proofs of every safety
property their passing runs check.

1. Statements that go beyond the runs' instances, such as a form of
   `StripeCoversBooks` for lines of several units and for orders with a promo code,
   and what remains of `AmountAgreed` with several calls.
2. `GetOrderInvoice` as a second way into `PaymentFlow`, with the PaymentIntent
   created inside a database transaction, and the monitor registry with its tokens.
3. Mail queue and campaign dispatch, if their state proves worth it.
