---------------------------- MODULE PaymentFlow -----------------------------
(***************************************************************************)
(* One Stripe PaymentIntent on its way through the shop: the SubmitOrder    *)
(* calls made with it (apisrv/frontend/order_submit.go), the paths that     *)
(* confirm or expire an order (payment/stripe: expiry monitor, webhook,     *)
(* CheckForTransactions; ordercleanup: the worker), the cancellations that   *)
(* bypass them, the customer paying at any moment, and a process that can   *)
(* stop at any moment.                                                      *)
(*                                                                         *)
(* A store operation is one step (one locked transaction, see OrderStore);  *)
(* each read of a row and each call to Stripe is a step of its own, and     *)
(* what it read is kept in the record of the caller.                        *)
(***************************************************************************)
EXTENDS Integers

CONSTANTS
    Requests,       \* SubmitOrder calls; each names the order it creates
    Lookups,        \* visitors and admins opening an order's page
    NoOrder,        \* no order_id in the PaymentIntent's metadata
    MaxAmount,      \* bound on order totals and PaymentIntent amounts
    MaxFaults       \* bound on failed calls, lost acknowledgements and crashes

ASSUME PaymentAssumption ==
    /\ NoOrder \notin Requests
    /\ (Requests \cup Lookups) \cap {"monitor", "cleaner", "webhook"} = {}
    /\ Requests \cap Lookups = {}
    /\ MaxAmount \in Nat \ {0}
    /\ MaxFaults \in Nat

VARIABLES
    row,        \* row[o]: customer_order and payment rows of order o
    intent,     \* the PaymentIntent at Stripe
    event,      \* the payment_intent.succeeded event Stripe has to deliver
    req,        \* req[r]: where SubmitOrder call r stands
    job,        \* job[a]: what confirmation or expiry actor a is doing
    armed,      \* armed[o]: an expiry monitor is registered for o (monCtxt)
    overdue,    \* overdue[o]: o's payment.expired_at has passed
    emails,     \* emails[o]: order confirmations queued
    faults      \* failures so far

payVars == <<row, intent, event, req, job, armed, overdue, emails, faults>>

Amount == 1 .. MaxAmount

\* Who confirms or expires orders.  A request joins in when it finds that the
\* customer has paid already.
Expirers == {"monitor", "cleaner"}
Checkers == Lookups \cup Requests
Actors == Expirers \cup Checkers \cup {"webhook"}

Rows ==
    [status : {"NoOrder", "Placed", "AwaitingPayment", "Confirmed", "Cancelled"},
     total : 0 .. MaxAmount,        \* customer_order.total_price
     expected : 0 .. MaxAmount,     \* payment.transaction_amount_payment_currency
     linked : BOOLEAN,              \* payment.client_secret is this intent
     done : BOOLEAN,                \* payment.is_transaction_done
     flagged : BOOLEAN]             \* the underpaid-for-review comment

SubmitSteps ==
    {"start", "existing", "created", "lost", "linked", "checked", "updated",
     "repriced", "retried", "invoiced", "monitored", "totalled", "unsynced", "done",
     "failed"}

JobSteps == {"idle", "look", "paid", "unpaid", "tx", "notify", "cancelIntent"}

Idle == [pc |-> "idle", order |-> NoOrder, expected |-> 0, received |-> 0,
         touched |-> FALSE]

PayInit ==
    /\ row = [o \in Requests |->
                [status |-> "NoOrder", total |-> 0, expected |-> 0,
                 linked |-> FALSE, done |-> FALSE, flagged |-> FALSE]]
    /\ \E a \in Amount :
          intent = [status |-> "open", amount |-> a, received |-> 0,
                    order |-> NoOrder]
    /\ event = [pending |-> FALSE, order |-> NoOrder]
    /\ req = [r \in Requests |-> [pc |-> "start", paid |-> FALSE, total |-> 0]]
    /\ job = [a \in Actors |-> Idle]
    /\ armed = [o \in Requests |-> FALSE]
    /\ overdue = [o \in Requests |-> FALSE]
    /\ emails = [o \in Requests |-> 0]
    /\ faults = 0

\* A call that fails, while the bound on failures allows it.
Fault == faults < MaxFaults /\ faults' = faults + 1
NoFault == UNCHANGED faults

(***************************************************************************)
(* Store operations (OrderStore), as they change an order's rows           *)
(***************************************************************************)
\* cancelOrder leaves the payment row as it is.
Cancelled(o) == [row EXCEPT ![o].status =
                    IF @ \in {"Placed", "AwaitingPayment"} THEN "Cancelled" ELSE @]

\* Mutant: expiry without its status check.
ExpiredUnchecked(o) ==
    [row EXCEPT ![o] = [@ EXCEPT !.status = "Cancelled", !.expected = 0,
                                 !.linked = FALSE]]

\* ExpireOrderPayment clears the payment row, client_secret included; nothing
\* happens to an order that is not awaiting payment.
Expired(o) ==
    IF row[o].status = "AwaitingPayment" /\ ~row[o].done
    THEN [row EXCEPT ![o] = [@ EXCEPT !.status = "Cancelled", !.expected = 0,
                                      !.linked = FALSE]]
    ELSE row

(***************************************************************************)
(* SubmitOrder                                                             *)
(***************************************************************************)
Goto(r, pc) == req' = [req EXCEPT ![r].pc = pc]

\* The request gives up and cancels its order; a failed cancel is only logged.
GiveUp(r) ==
    /\ Goto(r, "failed")
    /\ \/ row' = Cancelled(r) /\ NoFault
       \/ UNCHANGED row /\ Fault

\* Mutant: only an order that awaits payment counts.
LinkedAwaiting ==
    {o \in Requests : row[o].linked /\ row[o].status = "AwaitingPayment"}

\* GetOrderByPaymentIntentId: the order a retry is answered with.
Linked == {o \in Requests : row[o].linked}

\* Mutant: the retry is answered without reading the order's total.
AnswerUnread(r, o) == Goto(r, "existing")

\* existingOrderResponse starts from the total the existing order has now.
AnswerWith(r, o) ==
    req' = [req EXCEPT ![r].pc = "existing", ![r].total = row[o].total]

SubmitExisting(r) ==
    /\ req[r].pc = "start"
    /\ \E o \in Linked : AnswerWith(r, o)
    /\ UNCHANGED <<row, intent, event, job, armed, overdue, emails, faults>>

\* Mutant: whatever the intent asks for will do.
AnyAmount(r) == TRUE

\* The intent, as it is now, asks for the total as it was read.
InStep(r) == intent.amount = req[r].total

\* ensurePaymentIntentAmountMatchesOrder, with the total read before.
SubmitSync(r) ==
    /\ req[r].pc = "existing"
    /\ \/ /\ intent.status = "succeeded" \/ InStep(r)
          /\ Goto(r, "done") /\ UNCHANGED intent /\ NoFault
       \/ /\ intent.status = "open" /\ ~InStep(r)
          /\ intent' = [intent EXCEPT !.amount = req[r].total]
          /\ Goto(r, "done") /\ NoFault
       \/ /\ intent.status = "canceled" /\ ~InStep(r)
          /\ Goto(r, "failed") /\ UNCHANGED intent /\ NoFault
       \/ Goto(r, "failed") /\ UNCHANGED intent /\ Fault
    /\ UNCHANGED <<row, event, job, armed, overdue, emails>>

\* No order has the intent yet: CreateOrder, with an expected amount of 0.
SubmitCreate(r) ==
    /\ req[r].pc = "start"
    /\ Linked = {}
    /\ \E t \in Amount :
          row' = [row EXCEPT ![r].status = "Placed", ![r].total = t]
    /\ Goto(r, "created")
    /\ UNCHANGED <<intent, event, job, armed, overdue, emails, faults>>

\* AssociatePaymentIntentWithOrder: payment.client_secret is UNIQUE, so the
\* loser of a race drops its order.
SubmitLink(r) ==
    /\ req[r].pc = "created"
    /\ \/ /\ Linked = {}
          /\ row' = [row EXCEPT ![r].linked = TRUE]
          /\ Goto(r, "linked")
          /\ NoFault
       \/ /\ Linked # {}
          /\ Goto(r, "lost")
          /\ \/ row' = Cancelled(r) /\ NoFault
             \/ UNCHANGED row /\ Fault
       \/ Goto(r, "failed") /\ row' = Cancelled(r) /\ Fault
    /\ UNCHANGED <<intent, event, job, armed, overdue, emails>>

\* The loser looks the winner up again; it may be unlinked by now.
SubmitLost(r) ==
    /\ req[r].pc = "lost"
    /\ \/ \E o \in Linked : AnswerWith(r, o) /\ NoFault
       \/ Linked = {} /\ Goto(r, "failed") /\ NoFault
       \/ Goto(r, "failed") /\ Fault
    /\ UNCHANGED <<row, intent, event, job, armed, overdue, emails>>

\* Has the customer paid before the order was submitted?  An error counts as no.
SubmitCheck(r) ==
    /\ req[r].pc = "linked"
    /\ \E paid \in BOOLEAN :
          /\ req' = [req EXCEPT ![r].pc = "checked", ![r].paid = paid]
          /\ \/ paid = (intent.status = "succeeded") /\ NoFault
             \/ ~paid /\ Fault
    /\ UNCHANGED <<row, intent, event, job, armed, overdue, emails>>

\* UpdatePaymentIntentWithOrderNew publishes the order_id, unless the intent was
\* seen paid.  Stripe refuses it once the intent is closed.
SubmitUpdate(r) ==
    /\ req[r].pc = "checked"
    /\ \/ /\ req[r].paid
          /\ Goto(r, "updated") /\ UNCHANGED <<row, intent>> /\ NoFault
       \/ /\ ~req[r].paid /\ intent.status = "open"
          /\ intent' = [intent EXCEPT !.order = r]
          /\ Goto(r, "updated") /\ UNCHANGED row /\ NoFault
       \/ /\ ~req[r].paid /\ intent.status # "open"
          /\ GiveUp(r) /\ UNCHANGED intent
       \/ /\ ~req[r].paid
          /\ Goto(r, "failed") /\ row' = Cancelled(r) /\ UNCHANGED intent /\ Fault
    /\ UNCHANGED <<event, job, armed, overdue, emails>>

\* InsertFiatInvoice succeeds: the total is final and expected.
InvoiceIssued(r) ==
    /\ row[r].status = "Placed"
    /\ row' = [row EXCEPT ![r] = [@ EXCEPT !.status = "AwaitingPayment",
                 !.expected = row[r].total, !.linked = TRUE, !.done = FALSE]]
    /\ req' = [req EXCEPT ![r].pc = "invoiced", ![r].total = row[r].total]
    /\ NoFault

\* Issued, or ErrOrderItemsUpdated with a new total, or refused: sold out, or
\* no longer Placed.
SubmitInvoice(r) ==
    /\ req[r].pc = "updated"
    /\ \/ InvoiceIssued(r)
       \/ /\ row[r].status = "Placed"
          /\ \E t \in Amount : row' = [row EXCEPT ![r].total = t]
          /\ Goto(r, "repriced") /\ NoFault
       \/ GiveUp(r)
    /\ UNCHANGED <<intent, event, job, armed, overdue, emails>>

\* retryInsertFiatInvoiceAfterItemsUpdated: the intent gets the new total, then
\* the invoice is tried once more.  A failure leaves the order Placed.
SubmitReprice(r) ==
    /\ req[r].pc = "repriced"
    /\ \/ /\ intent.status = "open"
          /\ intent' = [intent EXCEPT !.amount = row[r].total]
          /\ Goto(r, "retried") /\ NoFault
       \/ /\ intent.status # "open"
          /\ Goto(r, "failed") /\ UNCHANGED intent /\ NoFault
       \/ Goto(r, "failed") /\ UNCHANGED intent /\ Fault
    /\ UNCHANGED <<row, event, job, armed, overdue, emails>>

SubmitRetry(r) ==
    /\ req[r].pc = "retried"
    /\ InvoiceIssued(r) \/ (Goto(r, "failed") /\ UNCHANGED row /\ NoFault)
    /\ UNCHANGED <<intent, event, job, armed, overdue, emails>>

\* StartMonitoringPayment
SubmitMonitor(r) ==
    /\ req[r].pc = "invoiced"
    /\ armed' = [armed EXCEPT ![r] = TRUE]
    /\ Goto(r, "monitored")
    /\ UNCHANGED <<row, intent, event, job, overdue, emails, faults>>

\* UpdateTotalPaymentCurrency writes the total it read, whatever became of the
\* order since.
SubmitTotal(r) ==
    /\ req[r].pc = "monitored"
    /\ \/ /\ row' = [row EXCEPT ![r].expected = req[r].total]
          /\ Goto(r, "totalled") /\ NoFault
       \/ Goto(r, "failed") /\ UNCHANGED row /\ Fault
    /\ UNCHANGED <<intent, event, job, armed, overdue, emails>>

\* The intent is read once more: paid meanwhile (reconciled at once by
\* CheckForTransactions), agreeing with the total, or to be corrected.
SubmitFetch(r) ==
    /\ req[r].pc = "totalled"
    /\ \/ /\ intent.status = "succeeded"
          /\ job' = [job EXCEPT ![r] = [Idle EXCEPT !.pc = "look", !.order = r,
                                                   !.expected = req[r].total]]
          /\ Goto(r, "done") /\ NoFault
       \/ /\ intent.status # "succeeded"
          /\ Goto(r, IF InStep(r) THEN "done" ELSE "unsynced")
          /\ UNCHANGED job /\ NoFault
       \/ Goto(r, "failed") /\ UNCHANGED job /\ Fault
    /\ UNCHANGED <<row, intent, event, armed, overdue, emails>>

SubmitAmount(r) ==
    /\ req[r].pc = "unsynced"
    /\ \/ /\ intent.status = "open"
          /\ intent' = [intent EXCEPT !.amount = req[r].total]
          /\ Goto(r, "done") /\ NoFault
       \/ /\ intent.status # "open"
          /\ Goto(r, "failed") /\ UNCHANGED intent /\ NoFault
       \/ Goto(r, "failed") /\ UNCHANGED intent /\ Fault
    /\ UNCHANGED <<row, event, job, armed, overdue, emails>>

SubmitOrder(r) ==
    \/ SubmitExisting(r) \/ SubmitSync(r) \/ SubmitCreate(r) \/ SubmitLink(r)
    \/ SubmitLost(r) \/ SubmitCheck(r) \/ SubmitUpdate(r) \/ SubmitInvoice(r)
    \/ SubmitReprice(r) \/ SubmitRetry(r) \/ SubmitMonitor(r) \/ SubmitTotal(r)
    \/ SubmitFetch(r) \/ SubmitAmount(r)

(***************************************************************************)
(* Confirming and expiring                                                 *)
(***************************************************************************)
\* A monitor that was cancelled has lost its context: its next call fails.
CtxAlive(a) == a = "monitor" => armed[job[a].order]

\* The end of a's work: it returns, a monitor removes its entry, the webhook
\* answers Stripe (2xx when ok, else the event stays to be delivered again, as
\* it does when the answer is lost) and frees the monitor of a handled order.
Finish(a, ok, freeMonitor) ==
    /\ job' = [job EXCEPT ![a] = Idle]
    /\ armed' = IF a = "monitor" \/ (a = "webhook" /\ freeMonitor)
                THEN [armed EXCEPT ![job[a].order] = FALSE] ELSE armed
    /\ \/ a = "webhook" /\ ok /\ event' = [event EXCEPT !.pending = FALSE] /\ NoFault
       \/ a = "webhook" /\ ok /\ UNCHANGED event /\ Fault
       \/ (a # "webhook" \/ ~ok) /\ UNCHANGED event /\ NoFault

\* Mutant: the worker relies on the monitors too.
DueWhileArmed(a, o) == overdue[o] /\ armed[o]

\* The monitor's timer fires, or the worker's query finds the order.
DueForExpiry(a, o) ==
    /\ overdue[o]
    /\ IF a = "monitor" THEN armed[o] ELSE row[o].status = "AwaitingPayment"

\* expireOrderPayment, from the monitor's timer or for an order the worker
\* finds past its expiry: the payment row is read, without a lock.
StartExpiry(a, o) ==
    /\ job[a].pc = "idle"
    /\ DueForExpiry(a, o)
    /\ IF row[o].done \/ ~row[o].linked
       THEN /\ armed' = IF a = "monitor" THEN [armed EXCEPT ![o] = FALSE] ELSE armed
            /\ UNCHANGED job
       ELSE /\ job' = [job EXCEPT ![a] = [Idle EXCEPT !.pc = "look", !.order = o,
                                                !.expected = row[o].expected]]
            /\ UNCHANGED armed
    /\ UNCHANGED <<row, intent, event, req, overdue, emails, faults>>

\* A customer or an admin opens an order that awaits payment.
StartLookup(a, o) ==
    /\ job[a].pc = "idle"
    /\ row[o].status = "AwaitingPayment"
    /\ job' = [job EXCEPT ![a] = [Idle EXCEPT !.pc = "look", !.order = o,
                                  !.expected = row[o].expected]]
    /\ UNCHANGED <<row, intent, event, req, armed, overdue, emails, faults>>

\* confirmPaymentFromWebhook, up to its read of the payment row.
DeliverWebhook ==
    /\ event.pending
    /\ job["webhook"].pc = "idle"
    /\ IF event.order = NoOrder
       THEN event' = [event EXCEPT !.pending = FALSE] /\ UNCHANGED job
       ELSE /\ job' = [job EXCEPT !["webhook"] =
                 [pc |-> "paid", order |-> event.order, touched |-> FALSE,
                  expected |-> row[event.order].expected,
                  received |-> intent.received]]
            /\ UNCHANGED event
    /\ UNCHANGED <<row, intent, req, armed, overdue, emails, faults>>

\* PaymentIntents.Get.  CheckForTransactions has asked for the order's status
\* before, and gives up when it no longer awaits payment.
Look(a) ==
    /\ job[a].pc = "look"
    /\ CtxAlive(a)
    /\ LET awaited == a \in Expirers \/ row[job[a].order].status = "AwaitingPayment"
       IN  \/ /\ awaited /\ intent.status = "succeeded"
              /\ job' = [job EXCEPT ![a].pc = "paid", ![a].received = intent.received]
              /\ UNCHANGED <<event, armed>> /\ NoFault
           \/ /\ a \in Expirers /\ intent.status # "succeeded"
              /\ job' = [job EXCEPT ![a].pc = "unpaid"]
              /\ UNCHANGED <<event, armed>> /\ NoFault
           \/ /\ a \in Checkers /\ (~awaited \/ intent.status # "succeeded")
              /\ Finish(a, TRUE, FALSE)
    /\ UNCHANGED <<row, intent, req, overdue, emails>>

\* The call to Stripe or to the store fails: the actor gives up, and a webhook
\* answers 5xx.
CallFails(a) ==
    /\ job[a].pc \in {"look", "tx", "unpaid"}
    /\ job' = [job EXCEPT ![a] = Idle]
    /\ armed' = IF a = "monitor" THEN [armed EXCEPT ![job[a].order] = FALSE] ELSE armed
    /\ Fault
    /\ UNCHANGED <<row, intent, event, req, overdue, emails>>

\* Mutant: an expected amount of 0 asks for nothing.
NeverUnfinalized(a) == FALSE

\* The payment row was read before the invoice wrote the amount.
Unfinalized(a) == job[a].expected = 0
Underpaid(a) == ~Unfinalized(a) /\ job[a].received < job[a].expected

\* updateOrderAsPaid: the amount Stripe received against the expected amount as
\* it was read.  An amount not final yet is an error, to be tried again; too
\* little is flagged for review and the order left alone.
UpdateOrderAsPaid(a) ==
    /\ job[a].pc = "paid"
    /\ CtxAlive(a)
    /\ \/ /\ Unfinalized(a)
          /\ Finish(a, FALSE, FALSE) /\ UNCHANGED row
       \/ /\ Underpaid(a)
          /\ row' = [row EXCEPT ![job[a].order].flagged = TRUE]
          /\ Finish(a, TRUE, FALSE)
       \/ /\ ~Unfinalized(a) /\ ~Underpaid(a)
          /\ job' = [job EXCEPT ![a].pc = "tx"]
          /\ UNCHANGED <<row, event, armed>> /\ NoFault
    /\ UNCHANGED <<intent, req, overdue, emails>>

\* flagUnderpaidForReview failed, which is only logged: the caller ends as if it
\* had not.
FlagFails(a) ==
    /\ job[a].pc = "paid"
    /\ CtxAlive(a)
    /\ Underpaid(a)
    /\ job' = [job EXCEPT ![a] = Idle]
    /\ armed' = IF a = "monitor" THEN [armed EXCEPT ![job[a].order] = FALSE] ELSE armed
    /\ event' = [event EXCEPT !.pending = @ /\ a # "webhook"]
    /\ Fault
    /\ UNCHANGED <<row, intent, req, overdue, emails>>

\* OrderPaymentDone: confirms an order that awaits payment, writing back the
\* payment row as it was read, and does nothing otherwise.  An attempt the
\* database rolls back is repeated, with wasUpdated still set.
OrderPaymentDone(a) ==
    LET o == job[a].order
    IN  /\ job[a].pc = "tx"
        /\ CtxAlive(a)
        /\ \/ /\ row[o].status = "AwaitingPayment"
              /\ row' = [row EXCEPT ![o] = [@ EXCEPT !.status = "Confirmed",
                           !.done = TRUE, !.expected = job[a].expected]]
              /\ job' = [job EXCEPT ![a].pc = "notify"]
              /\ UNCHANGED <<event, armed>> /\ NoFault
           \/ /\ row[o].status = "AwaitingPayment"
              /\ job' = [job EXCEPT ![a].touched = TRUE]
              /\ UNCHANGED <<row, event, armed>> /\ Fault
           \/ /\ row[o].status # "AwaitingPayment" /\ job[a].touched
              /\ job' = [job EXCEPT ![a].pc = "notify"]
              /\ UNCHANGED <<row, event, armed>> /\ NoFault
           \/ /\ row[o].status # "AwaitingPayment" /\ ~job[a].touched
              /\ Finish(a, TRUE, TRUE) /\ UNCHANGED row
        /\ UNCHANGED <<intent, req, overdue, emails>>

\* The rest of updateOrderAsPaid: the confirmation is queued.
Notify(a) ==
    /\ job[a].pc = "notify"
    /\ CtxAlive(a)
    /\ emails' = [emails EXCEPT ![job[a].order] = @ + 1]
    /\ Finish(a, TRUE, TRUE)
    /\ UNCHANGED <<row, intent, req, overdue>>

\* expireOrderPayment of an intent seen unpaid: the store expires the order if
\* it still awaits payment, and the monitor's entry goes.
ExpireUnpaid(a) ==
    /\ job[a].pc = "unpaid"
    /\ CtxAlive(a)
    /\ row' = Expired(job[a].order)
    /\ armed' = [armed EXCEPT ![job[a].order] = FALSE]
    /\ job' = [job EXCEPT ![a].pc = "cancelIntent"]
    /\ UNCHANGED <<intent, event, req, overdue, emails, faults>>

\* cancelPaymentIntent; its error is ignored.
CancelIntent(a) ==
    /\ job[a].pc = "cancelIntent"
    /\ \/ /\ intent' = [intent EXCEPT !.status =
                          IF @ = "open" THEN "canceled" ELSE @]
          /\ NoFault
       \/ UNCHANGED intent /\ Fault
    /\ job' = [job EXCEPT ![a] = Idle]
    /\ UNCHANGED <<row, event, req, armed, overdue, emails>>

\* A cancelled monitor gives up where it stands.
MonitorAborts ==
    /\ job["monitor"].pc \notin {"idle", "cancelIntent"}
    /\ ~CtxAlive("monitor")
    /\ job' = [job EXCEPT !["monitor"] = Idle]
    /\ UNCHANGED <<row, intent, event, req, armed, overdue, emails, faults>>

JobStep(a) ==
    \/ Look(a) \/ CallFails(a) \/ UpdateOrderAsPaid(a) \/ FlagFails(a)
    \/ OrderPaymentDone(a) \/ Notify(a) \/ ExpireUnpaid(a) \/ CancelIntent(a)

(***************************************************************************)
(* The customer, the admin, the clock, the process                         *)
(***************************************************************************)
\* The customer confirms the card payment, at whatever amount the intent has;
\* Stripe will deliver the event with the metadata of this moment.
Pay ==
    /\ intent.status = "open"
    /\ intent' = [intent EXCEPT !.status = "succeeded", !.received = intent.amount]
    /\ event' = [pending |-> TRUE, order |-> intent.order]
    /\ UNCHANGED <<row, req, job, armed, overdue, emails, faults>>

\* CancelOrderByUser and the admin's CancelOrder: the store only.
CancelOrder(o) ==
    /\ row[o].status \in {"Placed", "AwaitingPayment"}
    /\ row' = Cancelled(o)
    /\ UNCHANGED <<intent, event, req, job, armed, overdue, emails, faults>>

\* CancelOrderInvoice: the store-level expiry, without asking Stripe.
CancelOrderInvoice(o) ==
    /\ row[o].status = "AwaitingPayment"
    /\ row' = Expired(o)
    /\ armed' = [armed EXCEPT ![o] = FALSE]
    /\ UNCHANGED <<intent, event, req, job, overdue, emails, faults>>

\* cancelStuckPlacedOrders, a day after the request.
CancelStuckPlaced(o) ==
    /\ row[o].status = "Placed"
    /\ req[o].pc \in {"existing", "lost", "done", "failed"}
    /\ row' = Cancelled(o)
    /\ UNCHANGED <<intent, event, req, job, armed, overdue, emails, faults>>

TimePasses(o) ==
    /\ armed[o] \/ row[o].status = "AwaitingPayment"
    /\ ~overdue[o]
    /\ overdue' = [overdue EXCEPT ![o] = TRUE]
    /\ UNCHANGED <<row, intent, event, req, job, armed, emails, faults>>

\* The process stops and starts again: requests and jobs are lost, and
\* initAddressesFromUnpaidOrders watches every order that awaits payment.
Restart ==
    /\ Fault
    /\ req' = [r \in Requests |->
                 IF req[r].pc \in {"start", "done"} THEN req[r]
                 ELSE [req[r] EXCEPT !.pc = "failed"]]
    /\ job' = [a \in Actors |-> Idle]
    /\ armed' = [o \in Requests |-> row[o].status = "AwaitingPayment"]
    /\ UNCHANGED <<row, intent, event, overdue, emails>>

PayNext ==
    \/ \E r \in Requests : SubmitOrder(r)
    \/ \E a \in Expirers, o \in Requests : StartExpiry(a, o)
    \/ \E a \in Lookups, o \in Requests : StartLookup(a, o)
    \/ \E o \in Requests :
          \/ CancelOrder(o) \/ CancelOrderInvoice(o)
          \/ CancelStuckPlaced(o) \/ TimePasses(o)
    \/ \E a \in Actors : JobStep(a)
    \/ DeliverWebhook \/ MonitorAborts \/ Pay \/ Restart

PaySpec == PayInit /\ [][PayNext]_payVars

\* The clock moves, a request that has begun runs on, the cleanup worker ticks
\* for ever, and Stripe delivers an event until it is acknowledged.  Nothing is
\* assumed of customers or of monitors (they die with the process).
FairPaySpec ==
    /\ PaySpec
    /\ \A o \in Requests : WF_payVars(TimePasses(o))
    /\ \A r \in Requests : WF_payVars(req[r].pc # "start" /\ SubmitOrder(r))
    /\ \A o \in Requests : WF_payVars(StartExpiry("cleaner", o))
    /\ WF_payVars(JobStep("cleaner"))
    /\ WF_payVars(DeliverWebhook)
    /\ WF_payVars(JobStep("webhook"))

(***************************************************************************)
(* Correctness                                                             *)
(***************************************************************************)
\* The shape of the state; failures are bounded, and no amount is above the
\* bound (Rows, SubmitSteps and JobSteps say which stages there are).
PayTypeOK ==
    /\ row \in [Requests -> Rows]
    /\ intent \in [status : {"open", "succeeded", "canceled"}, amount : Amount,
                   received : 0 .. MaxAmount, order : Requests \cup {NoOrder}]
    /\ event \in [pending : BOOLEAN, order : Requests \cup {NoOrder}]
    /\ req \in [Requests -> [pc : SubmitSteps, paid : BOOLEAN, total : 0 .. MaxAmount]]
    /\ job \in [Actors -> [pc : JobSteps, order : Requests \cup {NoOrder},
                           expected : 0 .. MaxAmount, received : 0 .. MaxAmount,
                           touched : BOOLEAN]]
    /\ armed \in [Requests -> BOOLEAN]
    /\ overdue \in [Requests -> BOOLEAN]
    /\ emails \in [Requests -> Nat]
    /\ faults \in 0 .. MaxFaults

\* An order is confirmed only for a succeeded intent that brought in the whole
\* total, whichever path confirmed it, however early the customer paid and
\* however old the payment row was that the path had read (updateOrderAsPaid).
ConfirmedIsPaid ==
    \A o \in Requests :
        row[o].status = "Confirmed" =>
            /\ intent.status = "succeeded"
            /\ intent.received >= row[o].total
            /\ row[o].expected = row[o].total

\* Concurrent and repeated SubmitOrder calls with one intent never sell twice:
\* at most one order awaits or has its payment, and only that one is linked.
OneOrderPerIntent ==
    \A o, p \in Requests :
        /\ row[o].linked /\ row[p].linked => o = p
        /\ (/\ row[o].status \in {"AwaitingPayment", "Confirmed"}
            /\ row[p].status \in {"AwaitingPayment", "Confirmed"}) => o = p

\* When SubmitOrder has answered and the customer can still pay, the intent
\* asks for exactly the order's total.
AmountAgreed ==
    \A r \in Requests :
        (/\ req[r].pc = "done"
         /\ row[r].status = "AwaitingPayment"
         /\ intent.status = "open") => intent.amount = row[r].total

\* What the payment paths do to an order is part of its promised life.
Promise == INSTANCE OrderStatus
             WITH Orders <- Requests,
                  status <- [o \in Requests |-> row[o].status],
                  revenue <- [o \in Requests |-> row[o].done]

KeepsPromise == Promise!AbsSpec

\* An order does not await its payment for ever: it is confirmed, cancelled or,
\* when the customer paid too little, flagged for review, though requests die,
\* monitors are lost and calls fail (the cleanup worker's safety net).
AwaitingResolved ==
    \A o \in Requests :
        row[o].status = "AwaitingPayment" ~>
            row[o].status # "AwaitingPayment" \/ row[o].flagged

(***************************************************************************)
(* A statement of the code's comments that the code does not keep          *)
(***************************************************************************)
\* payment.go: ExpireOrderPayment never cancels a payment that actually
\* succeeded on Stripe.
NeverExpiresPaid ==
    [][\A a \in Expirers, o \in Requests :
          (/\ job[a].pc = "unpaid" /\ job'[a].pc = "cancelIntent"
           /\ row'[o].status # row[o].status) => intent.status # "succeeded"]_payVars
=============================================================================
