------------------------- MODULE PaymentFlowProofs --------------------------
(***************************************************************************)
(* Proofs about PaymentFlow, for any number of SubmitOrder calls, lookups,  *)
(* amounts and failures.                                                    *)
(***************************************************************************)
EXTENDS PaymentFlow, TLAPS

(***************************************************************************)
(* The inductive invariant                                                 *)
(***************************************************************************)
Invoiceless == {"NoOrder", "Placed"}

\* An order's rows by themselves: what is expected is nothing or the total, and
\* nothing before there is an invoice; only a linked order awaits its payment;
\* the payment is done exactly when the order is confirmed.
RowOK(o) ==
    /\ row[o].status = "NoOrder" => ~row[o].linked
    /\ row[o].status \in Invoiceless => row[o].expected = 0
    /\ row[o].status # "NoOrder" => row[o].total \in Amount
    /\ row[o].expected \in {0, row[o].total}
    /\ row[o].done <=> row[o].status = "Confirmed"
    /\ row[o].status \in {"AwaitingPayment", "Confirmed"} => row[o].linked
    /\ row[o].status = "Confirmed" =>
          /\ intent.status = "succeeded"
          /\ intent.received >= row[o].total
          /\ row[o].expected = row[o].total

OneLinked == \A o, p \in Requests : row[o].linked /\ row[p].linked => o = p

\* Between its steps a SubmitOrder call relies on this about its order: it is
\* still linked if it is still Placed, and its total is still the one read once
\* the invoice is out.
ReqOK(r) ==
    /\ req[r].pc = "start" => row[r].status = "NoOrder"
    /\ req[r].pc \notin {"start", "existing", "done", "failed"} =>
          row[r].status # "NoOrder"
    /\ req[r].pc \in {"linked", "checked", "updated", "repriced", "retried"}
          /\ row[r].status = "Placed" => row[r].linked
    /\ req[r].pc = "existing" => req[r].total \in Amount
    /\ req[r].pc \in {"invoiced", "monitored", "totalled", "unsynced"} =>
          /\ row[r].status \notin Invoiceless
          /\ req[r].total = row[r].total

\* What a confirming or expiring actor has read, however long ago: an expected
\* amount of nothing or the total, which is final by then, and a received amount
\* that is the intent's for good.
JobFits(pc, o, expected, received) ==
    pc # "idle" =>
        /\ o \in Requests
        /\ expected # 0 => /\ row[o].status \notin Invoiceless
                           /\ expected = row[o].total
        /\ pc \in {"paid", "tx", "notify"} => /\ intent.status = "succeeded"
                                              /\ received = intent.received
        /\ pc = "tx" => expected # 0 /\ received >= expected
JobOK(a) == JobFits(job[a].pc, job[a].order, job[a].expected, job[a].received)

EventOK == event.pending => intent.status = "succeeded"

PayInv ==
    /\ PayTypeOK
    /\ \A o \in Requests : RowOK(o)
    /\ OneLinked
    /\ \A r \in Requests : ReqOK(r)
    /\ \A a \in Actors : JobOK(a)
    /\ EventOK

\* The first state.
LEMMA PayInitInv == PayInit => PayInv
<1>. SUFFICES ASSUME PayInit PROVE PayInv
    OBVIOUS
<1>1. PayTypeOK
    BY PaymentAssumption
       DEF PayInit, PayTypeOK, Rows, Amount, SubmitSteps, JobSteps, Idle
<1>. QED
    BY <1>1 DEF PayInit, PayInv, RowOK, OneLinked, ReqOK, JobOK, JobFits, EventOK,
                Idle,
                Invoiceless, Actors

(***************************************************************************)
(* How an order's rows change                                              *)
(***************************************************************************)
\* Order o's rows become these (a review flag apart); the others stay.
RowBecomes(o, status, total, expected, linked, done) ==
    /\ row' \in [Requests -> Rows]
    /\ \A p \in Requests \ {o} : row'[p] = row[p]
    /\ row'[o].status = status
    /\ row'[o].total = total
    /\ row'[o].expected = expected
    /\ row'[o].linked = linked
    /\ row'[o].done = done

RowKept(o) ==
    RowBecomes(o, row[o].status, row[o].total, row[o].expected, row[o].linked,
               row[o].done)
RowSubmitted(o) ==
    /\ row[o].status = "NoOrder"
    /\ \E t \in Amount : RowBecomes(o, "Placed", t, row[o].expected, row[o].linked,
                                    row[o].done)
RowLinked(o) ==
    /\ row[o].status # "NoOrder"
    /\ Linked = {}
    /\ RowBecomes(o, row[o].status, row[o].total, row[o].expected, TRUE, row[o].done)
RowRepriced(o) ==
    /\ row[o].status = "Placed"
    /\ \E t \in Amount : RowBecomes(o, "Placed", t, row[o].expected, row[o].linked,
                                    row[o].done)
RowInvoiced(o) ==
    /\ row[o].status = "Placed"
    /\ row[o].linked
    /\ RowBecomes(o, "AwaitingPayment", row[o].total, row[o].total, TRUE, FALSE)
RowTotalled(o) ==
    /\ row[o].status \notin Invoiceless
    /\ RowBecomes(o, row[o].status, row[o].total, row[o].total, row[o].linked,
                  row[o].done)
RowCancelled(o) ==
    /\ row[o].status \in {"Placed", "AwaitingPayment"}
    /\ RowBecomes(o, "Cancelled", row[o].total, row[o].expected, row[o].linked,
                  row[o].done)
RowExpired(o) ==
    /\ row[o].status = "AwaitingPayment"
    /\ RowBecomes(o, "Cancelled", row[o].total, 0, FALSE, row[o].done)
RowConfirmed(o) ==
    /\ row[o].status = "AwaitingPayment"
    /\ intent.status = "succeeded"
    /\ intent.received >= row[o].total
    /\ RowBecomes(o, "Confirmed", row[o].total, row[o].total, row[o].linked, TRUE)

\* The last two, a cancellation and no change are all that happens to an order
\* from outside its SubmitOrder call.
RowResolved(o) ==
    RowKept(o) \/ RowCancelled(o) \/ RowExpired(o) \/ RowConfirmed(o)

RowStep(o) ==
    \/ RowResolved(o) \/ RowSubmitted(o) \/ RowLinked(o) \/ RowRepriced(o)
    \/ RowInvoiced(o) \/ RowTotalled(o)

\* cancelOrder and ExpireOrderPayment, as steps of an order's rows.
LEMMA StoreCancels ==
    ASSUME PayTypeOK, NEW o \in Requests
    PROVE  /\ row' = Cancelled(o) => RowCancelled(o) \/ RowKept(o)
           /\ row' = Expired(o) => RowExpired(o) \/ RowKept(o)
           /\ UNCHANGED row => RowKept(o)
<1>0. row \in [Requests -> Rows]
    BY DEF PayTypeOK
<1>1. ASSUME row' = Cancelled(o) PROVE RowCancelled(o) \/ RowKept(o)
    BY <1>0, <1>1 DEF Cancelled, RowCancelled, RowKept, RowBecomes, Rows
<1>2. ASSUME UNCHANGED row PROVE RowKept(o)
    BY <1>0, <1>2 DEF RowKept, RowBecomes
<1>3. ASSUME row' = Expired(o) PROVE RowExpired(o) \/ RowKept(o)
    <2>1. CASE row[o].status = "AwaitingPayment" /\ ~row[o].done
        <3>1. 0 \in 0 .. MaxAmount
            BY PaymentAssumption
        <3>2. row' = [row EXCEPT ![o] = [@ EXCEPT !.status = "Cancelled",
                                            !.expected = 0, !.linked = FALSE]]
            BY <1>3, <2>1 DEF Expired
        <3>. QED
            BY <1>0, <2>1, <3>1, <3>2 DEF RowExpired, RowBecomes, Rows
    <2>2. CASE ~(row[o].status = "AwaitingPayment" /\ ~row[o].done)
        BY <1>2, <1>3, <2>2 DEF Expired
    <2>. QED
        BY <2>1, <2>2
<1>. QED
    BY <1>1, <1>2, <1>3

\* InsertFiatInvoice, when it succeeds for an order that is linked.
LEMMA StoreInvoices ==
    ASSUME PayTypeOK, NEW r \in Requests, ReqOK(r),
           req[r].pc \in {"updated", "retried"}, InvoiceIssued(r)
    PROVE  RowInvoiced(r)
<1>1. row \in [Requests -> Rows]
    BY DEF PayTypeOK
<1>2. row[r].status = "Placed" /\ row[r].linked
    BY DEF InvoiceIssued, ReqOK
<1>3. row[r].total \in 0 .. MaxAmount
    BY <1>1 DEF Rows
<1>4. row' = [row EXCEPT ![r] = [@ EXCEPT !.status = "AwaitingPayment",
                !.expected = row[r].total, !.linked = TRUE, !.done = FALSE]]
    BY DEF InvoiceIssued
<1>. QED
    BY <1>1, <1>2, <1>3, <1>4 DEF RowInvoiced, RowBecomes, Rows

\* A SubmitOrder call changes no rows but its order's, and those so.
LEMMA SubmitRows ==
    ASSUME PayInv, NEW r \in Requests, SubmitOrder(r)
    PROVE  RowStep(r)
<1>0. PayTypeOK /\ RowOK(r) /\ ReqOK(r) /\ row \in [Requests -> Rows]
        /\ row[r] \in Rows
    BY DEF PayInv, PayTypeOK
<1>k. /\ row' = Cancelled(r) => RowStep(r)
      /\ UNCHANGED row => RowStep(r)
    BY <1>0, StoreCancels DEF RowStep, RowResolved
<1>1. CASE SubmitCreate(r)
    <2>1. PICK t \in Amount : row' = [row EXCEPT ![r].status = "Placed", ![r].total = t]
        BY <1>1 DEF SubmitCreate
    <2>2. t \in 0 .. MaxAmount
        BY DEF Amount
    <2>3. RowBecomes(r, "Placed", t, row[r].expected, row[r].linked, row[r].done)
        BY <1>0, <2>1, <2>2 DEF RowBecomes, Rows
    <2>4. row[r].status = "NoOrder"
        BY <1>0, <1>1 DEF SubmitCreate, ReqOK
    <2>. QED
        BY <2>3, <2>4 DEF RowStep, RowSubmitted
<1>2. CASE SubmitLink(r)
    <2>1. CASE Linked = {} /\ row' = [row EXCEPT ![r].linked = TRUE]
        <3>1. RowBecomes(r, row[r].status, row[r].total, row[r].expected, TRUE,
                         row[r].done)
            BY <1>0, <2>1 DEF RowBecomes, Rows
        <3>2. row[r].status # "NoOrder"
            BY <1>0, <1>2 DEF SubmitLink, ReqOK
        <3>. QED
            BY <2>1, <3>1, <3>2 DEF RowStep, RowLinked
    <2>2. CASE row' = Cancelled(r) \/ UNCHANGED row
        BY <1>k, <2>2
    <2>. QED
        BY <1>2, <2>1, <2>2 DEF SubmitLink
<1>3. CASE SubmitUpdate(r)
    BY <1>3, <1>k DEF SubmitUpdate, GiveUp
<1>4. CASE SubmitInvoice(r)
    <2>1. CASE InvoiceIssued(r)
        BY <1>0, <1>4, <2>1, StoreInvoices DEF SubmitInvoice, RowStep
    <2>2. ASSUME NEW t \in Amount, row[r].status = "Placed",
                 row' = [row EXCEPT ![r].total = t]
          PROVE  RowStep(r)
        <3>1. t \in 0 .. MaxAmount
            BY DEF Amount
        <3>2. RowBecomes(r, "Placed", t, row[r].expected, row[r].linked, row[r].done)
            BY <1>0, <2>2, <3>1 DEF RowBecomes, Rows
        <3>. QED
            BY <2>2, <3>2 DEF RowStep, RowRepriced
    <2>3. CASE GiveUp(r)
        BY <1>k, <2>3 DEF GiveUp
    <2>. QED
        BY <1>4, <2>1, <2>2, <2>3 DEF SubmitInvoice
<1>5. CASE SubmitRetry(r)
    <2>1. CASE InvoiceIssued(r)
        BY <1>0, <1>5, <2>1, StoreInvoices DEF SubmitRetry, RowStep
    <2>2. CASE UNCHANGED row
        BY <1>k, <2>2
    <2>. QED
        BY <1>5, <2>1, <2>2 DEF SubmitRetry
<1>6. CASE SubmitTotal(r)
    <2>1. CASE row' = [row EXCEPT ![r].expected = req[r].total]
        <3>1. row[r].status \notin Invoiceless /\ req[r].total = row[r].total
            BY <1>0, <1>6 DEF SubmitTotal, ReqOK
        <3>2. row[r].total \in 0 .. MaxAmount
            BY <1>0 DEF Rows
        <3>3. RowBecomes(r, row[r].status, row[r].total, row[r].total,
                         row[r].linked, row[r].done)
            BY <1>0, <2>1, <3>1, <3>2 DEF RowBecomes, Rows
        <3>. QED
            BY <3>1, <3>3 DEF RowStep, RowTotalled
    <2>2. CASE UNCHANGED row
        BY <1>k, <2>2
    <2>. QED
        BY <1>6, <2>1, <2>2 DEF SubmitTotal
<1>7. CASE \/ SubmitExisting(r) \/ SubmitSync(r) \/ SubmitLost(r) \/ SubmitCheck(r)
           \/ SubmitReprice(r) \/ SubmitMonitor(r) \/ SubmitFetch(r)
           \/ SubmitAmount(r)
    BY <1>7, <1>k DEF SubmitExisting, SubmitSync, SubmitLost, SubmitCheck,
                      SubmitReprice, SubmitMonitor, SubmitFetch, SubmitAmount
<1>. QED
    BY <1>1, <1>2, <1>3, <1>4, <1>5, <1>6, <1>7 DEF SubmitOrder

\* A confirming or expiring actor changes no rows but its order's, and those so.
LEMMA JobRows ==
    ASSUME PayInv, NEW a \in Actors, JobStep(a)
    PROVE  RowResolved(job[a].order) /\ job[a].order \in Requests
<1>0. PayTypeOK /\ JobOK(a) /\ row \in [Requests -> Rows]
    BY DEF PayInv, PayTypeOK
<1>1. job[a].pc # "idle"
    BY DEF JobStep, Look, CallFails, UpdateOrderAsPaid, FlagFails,
           OrderPaymentDone, Notify, ExpireUnpaid, CancelIntent
<1>2. PICK o \in Requests : o = job[a].order
    BY <1>0, <1>1 DEF JobOK, JobFits
<1>k. /\ row' = Expired(o) => RowResolved(o)
      /\ UNCHANGED row => RowResolved(o)
    BY <1>0, StoreCancels DEF RowResolved
<1>3. CASE UpdateOrderAsPaid(a)
    <2>1. CASE row' = [row EXCEPT ![o].flagged = TRUE]
        <3>1. RowKept(o)
            BY <1>0, <2>1 DEF RowKept, RowBecomes, Rows
        <3>. QED
            BY <1>2, <3>1 DEF RowResolved
    <2>. QED
        BY <1>2, <1>3, <1>k, <2>1 DEF UpdateOrderAsPaid
<1>4. CASE OrderPaymentDone(a)
    <2>1. CASE /\ row[o].status = "AwaitingPayment"
               /\ row' = [row EXCEPT ![o] = [@ EXCEPT !.status = "Confirmed",
                            !.done = TRUE, !.expected = job[a].expected]]
        <3>1. /\ intent.status = "succeeded"
              /\ intent.received >= row[o].total
              /\ job[a].expected = row[o].total
            BY <1>0, <1>2, <1>4 DEF OrderPaymentDone, JobOK, JobFits
        <3>2. row[o].total \in 0 .. MaxAmount
            BY <1>0 DEF Rows
        <3>3. RowBecomes(o, "Confirmed", row[o].total, row[o].total, row[o].linked,
                         TRUE)
            BY <1>0, <2>1, <3>1, <3>2 DEF RowBecomes, Rows
        <3>. QED
            BY <1>2, <2>1, <3>1, <3>3 DEF RowResolved, RowConfirmed
    <2>. QED
        BY <1>2, <1>4, <1>k, <2>1 DEF OrderPaymentDone
<1>5. CASE ExpireUnpaid(a)
    BY <1>2, <1>5, <1>k DEF ExpireUnpaid
<1>6. CASE Look(a) \/ CallFails(a) \/ FlagFails(a) \/ Notify(a) \/ CancelIntent(a)
    BY <1>2, <1>6, <1>k DEF Look, CallFails, FlagFails, Notify, CancelIntent
<1>. QED
    BY <1>3, <1>4, <1>5, <1>6 DEF JobStep

\* Every step changes at most one order's rows, in one of nine ways; five of
\* them are its SubmitOrder call's.
LEMMA RowsStep ==
    ASSUME PayInv, [PayNext]_payVars
    PROVE  \/ UNCHANGED row
           \/ \E o \in Requests : SubmitOrder(o) /\ RowStep(o)
           \/ \E o \in Requests : RowResolved(o)
<1>0. PayTypeOK
    BY DEF PayInv
<1>1. ASSUME NEW o \in Requests,
             CancelOrder(o) \/ CancelOrderInvoice(o) \/ CancelStuckPlaced(o)
      PROVE  RowResolved(o)
    <2>1. row' = Cancelled(o) \/ row' = Expired(o)
        BY <1>1 DEF CancelOrder, CancelOrderInvoice, CancelStuckPlaced
    <2>. QED
        BY <1>0, <2>1, StoreCancels DEF RowResolved
<1>2. ASSUME NEW a, NEW o, StartExpiry(a, o) \/ StartLookup(a, o)
      PROVE  UNCHANGED row
    BY <1>2 DEF StartExpiry, StartLookup
<1>3. ASSUME NEW o, TimePasses(o)
      PROVE  UNCHANGED row
    BY <1>3 DEF TimePasses
<1>4. CASE DeliverWebhook \/ MonitorAborts \/ Pay \/ Restart \/ UNCHANGED payVars
    BY <1>4 DEF DeliverWebhook, MonitorAborts, Pay, Restart, payVars
<1>. QED
    BY <1>1, <1>2, <1>3, <1>4, SubmitRows, JobRows DEF PayNext

(***************************************************************************)
(* The intent and the order's rows over one step                           *)
(***************************************************************************)
\* The intent keeps its shape, and a payment received is received for good.
LEMMA IntentStep ==
    ASSUME PayInv, [PayNext]_payVars
    PROVE  /\ intent' \in [status : {"open", "succeeded", "canceled"},
                           amount : Amount, received : 0 .. MaxAmount,
                           order : Requests \cup {NoOrder}]
           /\ intent.status = "succeeded" =>
                /\ intent'.status = "succeeded"
                /\ intent'.received = intent.received
<1>. DEFINE Intents == [status : {"open", "succeeded", "canceled"}, amount : Amount,
                        received : 0 .. MaxAmount, order : Requests \cup {NoOrder}]
            Ok == /\ intent' \in Intents
                  /\ intent.status = "succeeded" =>
                        /\ intent'.status = "succeeded"
                        /\ intent'.received = intent.received
<1>. SUFFICES Ok
    OBVIOUS
<1>0. intent \in Intents
    BY DEF PayInv, PayTypeOK
<1>k. UNCHANGED intent => Ok
    BY <1>0
<1>a. ASSUME NEW n \in Amount, intent.status = "open",
             intent' = [intent EXCEPT !.amount = n]
      PROVE  Ok
    BY <1>0, <1>a
<1>1. ASSUME NEW r \in Requests, SubmitOrder(r)
      PROVE  Ok
    <2>0. RowOK(r) /\ ReqOK(r)
        BY DEF PayInv
    <2>1. CASE SubmitSync(r)
        <3>1. req[r].total \in Amount
            BY <2>0, <2>1 DEF SubmitSync, ReqOK
        <3>. HIDE DEF Ok
        <3>. QED
            BY <1>k, <1>a, <2>1, <3>1 DEF SubmitSync
    <2>2. CASE SubmitUpdate(r)
        <3>1. CASE intent.status = "open" /\ intent' = [intent EXCEPT !.order = r]
            BY <1>0, <3>1
        <3>. HIDE DEF Ok
        <3>. QED
            BY <1>k, <2>2, <3>1 DEF SubmitUpdate
    <2>3. CASE SubmitReprice(r)
        <3>1. row[r].total \in Amount
            BY <2>0, <2>3 DEF SubmitReprice, ReqOK, RowOK
        <3>. HIDE DEF Ok
        <3>. QED
            BY <1>k, <1>a, <2>3, <3>1 DEF SubmitReprice
    <2>4. CASE SubmitAmount(r)
        <3>1. req[r].total \in Amount
            BY <2>0, <2>4 DEF SubmitAmount, ReqOK, RowOK, Invoiceless
        <3>. HIDE DEF Ok
        <3>. QED
            BY <1>k, <1>a, <2>4, <3>1 DEF SubmitAmount
    <2>5. CASE \/ SubmitExisting(r) \/ SubmitCreate(r) \/ SubmitLink(r)
               \/ SubmitLost(r) \/ SubmitCheck(r) \/ SubmitInvoice(r)
               \/ SubmitRetry(r) \/ SubmitMonitor(r) \/ SubmitTotal(r)
               \/ SubmitFetch(r)
        BY <1>k, <2>5 DEF SubmitExisting, SubmitCreate, SubmitLink, SubmitLost,
              SubmitCheck, SubmitInvoice, SubmitRetry, SubmitMonitor,
              SubmitTotal, SubmitFetch
    <2>. QED
        BY <1>1, <2>1, <2>2, <2>3, <2>4, <2>5 DEF SubmitOrder
<1>2. ASSUME NEW a \in Actors, JobStep(a)
      PROVE  Ok
    <2>1. CASE CancelIntent(a)
        <3>1. CASE intent' = [intent EXCEPT !.status =
                                IF @ = "open" THEN "canceled" ELSE @]
            BY <1>0, <3>1
        <3>. HIDE DEF Ok
        <3>. QED
            BY <1>k, <2>1, <3>1 DEF CancelIntent
    <2>2. CASE \/ Look(a) \/ CallFails(a) \/ UpdateOrderAsPaid(a) \/ FlagFails(a)
               \/ OrderPaymentDone(a) \/ Notify(a) \/ ExpireUnpaid(a)
        BY <1>k, <2>2 DEF Look, CallFails, UpdateOrderAsPaid, FlagFails,
              OrderPaymentDone, Notify, ExpireUnpaid
    <2>. QED
        BY <1>2, <2>1, <2>2 DEF JobStep
<1>3. CASE Pay
    <2>1. intent.amount \in 0 .. MaxAmount
        BY <1>0 DEF Amount
    <2>. QED
        BY <1>0, <1>3, <2>1 DEF Pay
<1>4. ASSUME NEW a, NEW o, StartExpiry(a, o) \/ StartLookup(a, o)
      PROVE  UNCHANGED intent
    BY <1>4 DEF StartExpiry, StartLookup
<1>5. ASSUME NEW o, \/ CancelOrder(o) \/ CancelOrderInvoice(o)
                    \/ CancelStuckPlaced(o) \/ TimePasses(o)
      PROVE  UNCHANGED intent
    BY <1>5 DEF CancelOrder, CancelOrderInvoice, CancelStuckPlaced, TimePasses
<1>6. CASE DeliverWebhook \/ MonitorAborts \/ Restart \/ UNCHANGED payVars
    BY <1>k, <1>6 DEF DeliverWebhook, MonitorAborts, Restart, payVars
<1>. HIDE DEF Ok
<1>. QED
    BY <1>k, <1>1, <1>2, <1>3, <1>4, <1>5, <1>6 DEF PayNext

\* An order that was submitted stays so; once invoiced it stays so, and its
\* total is final; while Placed it is not unlinked.
Later(o) ==
    /\ row[o].status # "NoOrder" => row'[o].status # "NoOrder"
    /\ row[o].status \notin Invoiceless =>
          row'[o].status \notin Invoiceless /\ row'[o].total = row[o].total
    /\ row'[o].status = "Placed" =>
          row[o].status \in Invoiceless /\ (row[o].linked => row'[o].linked)

\* What a step of an order's rows leaves true of them.
LEMMA RowStepOK ==
    ASSUME PayTypeOK, NEW o \in Requests, RowOK(o), RowStep(o),
           intent.status = "succeeded" =>
                /\ intent'.status = "succeeded"
                /\ intent'.received = intent.received
    PROVE  RowOK(o)' /\ Later(o)
<1>0. row[o].total \in 0 .. MaxAmount /\ row[o].expected \in 0 .. MaxAmount
        /\ row[o].linked \in BOOLEAN /\ row[o].done \in BOOLEAN
    BY DEF PayTypeOK, Rows
<1>1. CASE RowKept(o)
    BY <1>0, <1>1 DEF RowKept, RowBecomes, RowOK, Later, Invoiceless
<1>2. CASE RowSubmitted(o)
    BY <1>0, <1>2, PaymentAssumption
       DEF RowSubmitted, RowBecomes, RowOK, Later, Invoiceless, Amount
<1>3. CASE RowLinked(o)
    BY <1>0, <1>3 DEF RowLinked, RowBecomes, RowOK, Later, Invoiceless
<1>4. CASE RowRepriced(o)
    BY <1>0, <1>4 DEF RowRepriced, RowBecomes, RowOK, Later, Invoiceless
<1>5. CASE RowInvoiced(o)
    BY <1>0, <1>5 DEF RowInvoiced, RowBecomes, RowOK, Later, Invoiceless
<1>6. CASE RowTotalled(o)
    BY <1>0, <1>6 DEF RowTotalled, RowBecomes, RowOK, Later, Invoiceless
<1>7. CASE RowCancelled(o)
    BY <1>0, <1>7 DEF RowCancelled, RowBecomes, RowOK, Later, Invoiceless
<1>8. CASE RowExpired(o)
    BY <1>0, <1>8 DEF RowExpired, RowBecomes, RowOK, Later, Invoiceless
<1>9. CASE RowConfirmed(o)
    BY <1>0, <1>9 DEF RowConfirmed, RowBecomes, RowOK, Later, Invoiceless
<1>. QED
    BY <1>1, <1>2, <1>3, <1>4, <1>5, <1>6, <1>7, <1>8, <1>9 DEF RowStep, RowResolved

\* A step links an order only while none is linked.
LEMMA RowStepLinks ==
    ASSUME PayTypeOK, OneLinked, NEW o \in Requests, RowOK(o), RowStep(o)
    PROVE  OneLinked' /\ row' \in [Requests -> Rows]
<1>1. /\ row' \in [Requests -> Rows]
      /\ \A p \in Requests \ {o} : row'[p] = row[p]
    BY DEF RowStep, RowResolved, RowKept, RowSubmitted, RowLinked, RowRepriced, RowInvoiced,
           RowTotalled, RowCancelled, RowExpired, RowConfirmed, RowBecomes
<1>2. row'[o].linked => row[o].linked \/ Linked = {}
    BY DEF RowStep, RowResolved, RowKept, RowSubmitted, RowLinked, RowRepriced, RowInvoiced,
           RowTotalled, RowCancelled, RowExpired, RowConfirmed, RowBecomes
<1>. QED
    BY <1>1, <1>2 DEF OneLinked, Linked

\* The rows keep their part of the invariant.
LEMMA RowsOK ==
    ASSUME PayInv, [PayNext]_payVars
    PROVE  /\ row' \in [Requests -> Rows]
           /\ OneLinked'
           /\ \A o \in Requests : RowOK(o)' /\ Later(o)
           /\ \A o \in Requests : \/ SubmitOrder(o)
                                  \/ row[o].status = "NoOrder" =>
                                        row'[o].status = "NoOrder"
<1>0. PayTypeOK /\ OneLinked /\ \A o \in Requests : RowOK(o)
    BY DEF PayInv
<1>1. intent.status = "succeeded" => /\ intent'.status = "succeeded"
                                     /\ intent'.received = intent.received
    BY IntentStep
<1>2. ASSUME NEW o \in Requests, row'[o] = row[o]
      PROVE  RowOK(o)' /\ Later(o)
    BY <1>0, <1>1, <1>2 DEF RowOK, Later, Invoiceless
<1>3. CASE UNCHANGED row
    BY <1>0, <1>2, <1>3 DEF PayTypeOK, OneLinked
<1>4. ASSUME NEW o \in Requests, RowStep(o)
      PROVE  /\ \A p \in Requests \ {o} : row'[p] = row[p]
             /\ row' \in [Requests -> Rows]
             /\ OneLinked'
             /\ \A p \in Requests : RowOK(p)' /\ Later(p)
    <2>1. RowOK(o)' /\ Later(o)
        BY <1>0, <1>1, <1>4, RowStepOK
    <2>2. OneLinked' /\ row' \in [Requests -> Rows]
        BY <1>0, <1>4, RowStepLinks
    <2>3. \A p \in Requests \ {o} : row'[p] = row[p]
        BY <1>4
           DEF RowStep, RowResolved, RowKept, RowSubmitted, RowLinked, RowRepriced, RowInvoiced,
               RowTotalled, RowCancelled, RowExpired, RowConfirmed, RowBecomes
    <2>. QED
        BY <1>2, <2>1, <2>2, <2>3
<1>5. ASSUME NEW o \in Requests, RowResolved(o), row[o].status = "NoOrder"
      PROVE  row'[o].status = "NoOrder"
    BY <1>5 DEF RowResolved, RowKept, RowCancelled, RowExpired, RowConfirmed,
                RowBecomes
<1>6. CASE \E o \in Requests : RowResolved(o)
    <2>1. PICK o \in Requests : RowResolved(o)
        BY <1>6
    <2>2. RowStep(o)
        BY <2>1 DEF RowStep
    <2>. QED
        BY <1>4, <1>5, <2>1, <2>2
<1>. QED
    BY <1>3, <1>4, <1>6, RowsStep

(***************************************************************************)
(* The SubmitOrder calls                                                   *)
(***************************************************************************)
ReqRecords == [pc : SubmitSteps, paid : BOOLEAN, total : 0 .. MaxAmount]

\* Call r goes to a stage, with a total and an answer it has or has just read;
\* the other calls stand where they are.
ReqBecomes(r, pc, total) ==
    /\ req' \in [Requests -> ReqRecords]
    /\ \A q \in Requests \ {r} : req'[q] = req[q]
    /\ req'[r].pc = pc
    /\ req'[r].total = total

\* The three ways a call moves on.
LEMMA ReqWrites ==
    ASSUME PayTypeOK, NEW r \in Requests, NEW pc \in SubmitSteps
    PROVE  /\ Goto(r, pc) => ReqBecomes(r, pc, req[r].total)
           /\ \A t \in 0 .. MaxAmount :
                req' = [req EXCEPT ![r].pc = pc, ![r].total = t] =>
                    ReqBecomes(r, pc, t)
           /\ \A paid \in BOOLEAN :
                req' = [req EXCEPT ![r].pc = pc, ![r].paid = paid] =>
                    ReqBecomes(r, pc, req[r].total)
<1>0. req \in [Requests -> ReqRecords]
    BY DEF PayTypeOK, ReqRecords
<1>1. ASSUME Goto(r, pc) PROVE ReqBecomes(r, pc, req[r].total)
    BY <1>0, <1>1 DEF Goto, ReqBecomes, ReqRecords
<1>2. ASSUME NEW t \in 0 .. MaxAmount,
             req' = [req EXCEPT ![r].pc = pc, ![r].total = t]
      PROVE  ReqBecomes(r, pc, t)
    BY <1>0, <1>2 DEF ReqBecomes, ReqRecords
<1>3. ASSUME NEW paid \in BOOLEAN,
             req' = [req EXCEPT ![r].pc = pc, ![r].paid = paid]
      PROVE  ReqBecomes(r, pc, req[r].total)
    BY <1>0, <1>3 DEF ReqBecomes, ReqRecords
<1>. QED
    BY <1>1, <1>2, <1>3

\* The total of a linked order is an amount.
LEMMA LinkedTotal ==
    ASSUME PayInv, NEW o \in Linked
    PROVE  row[o].total \in Amount /\ row[o].total \in 0 .. MaxAmount
BY DEF PayInv, RowOK, Linked, Amount

\* Where a SubmitOrder step leads, and what holds there.
LEMMA SubmitMoves ==
    ASSUME PayInv, NEW r \in Requests, SubmitOrder(r)
    PROVE  \E pc \in SubmitSteps \ {"start"}, t \in 0 .. MaxAmount :
              /\ ReqBecomes(r, pc, t)
              /\ pc \notin {"existing", "done", "failed"} =>
                    row[r].status # "NoOrder" \/ row'[r].status # "NoOrder"
              /\ pc = "existing" => t \in Amount
              /\ pc \in {"linked", "checked", "updated", "repriced", "retried"} =>
                    /\ row[r].status # "NoOrder"
                    /\ row'[r].linked \/ (row[r].status = "Placed" => row[r].linked)
              /\ pc \in {"invoiced", "monitored", "totalled", "unsynced"} =>
                    /\ row[r].status \notin Invoiceless \/ row'[r].status \notin Invoiceless
                    /\ t = row[r].total
                    /\ row'[r].total = row[r].total
<1>. DEFINE Ok(pc, t) ==
              /\ ReqBecomes(r, pc, t)
              /\ pc \notin {"existing", "done", "failed"} =>
                    row[r].status # "NoOrder" \/ row'[r].status # "NoOrder"
              /\ pc = "existing" => t \in Amount
              /\ pc \in {"linked", "checked", "updated", "repriced", "retried"} =>
                    /\ row[r].status # "NoOrder"
                    /\ row'[r].linked \/ (row[r].status = "Placed" => row[r].linked)
              /\ pc \in {"invoiced", "monitored", "totalled", "unsynced"} =>
                    /\ row[r].status \notin Invoiceless \/ row'[r].status \notin Invoiceless
                    /\ t = row[r].total
                    /\ row'[r].total = row[r].total
            Goal == \E pc \in SubmitSteps \ {"start"}, t \in 0 .. MaxAmount : Ok(pc, t)
<1>. SUFFICES Goal
    OBVIOUS
<1>0. /\ PayTypeOK /\ RowOK(r) /\ ReqOK(r)
      /\ req[r].total \in 0 .. MaxAmount
      /\ row[r].total \in 0 .. MaxAmount
    BY DEF PayInv, PayTypeOK, Rows
<1>1. ASSUME NEW pc \in {"done", "failed"}, Goto(r, pc)
      PROVE  Goal
    <2>1. pc \in SubmitSteps \ {"start"}
        BY DEF SubmitSteps
    <2>2. Ok(pc, req[r].total)
        BY <1>0, <1>1, <2>1, ReqWrites
    <2>. HIDE DEF Ok
    <2>. QED
        BY <1>0, <2>1, <2>2
<1>2. ASSUME NEW o \in Linked, AnswerWith(r, o)
      PROVE  Goal
    <2>1. "existing" \in SubmitSteps \ {"start"}
        BY DEF SubmitSteps
    <2>2. row[o].total \in Amount /\ row[o].total \in 0 .. MaxAmount
        BY LinkedTotal
    <2>3. Ok("existing", row[o].total)
        BY <1>0, <1>2, <2>1, <2>2, ReqWrites DEF AnswerWith
    <2>. HIDE DEF Ok
    <2>. QED
        BY <2>1, <2>2, <2>3
<1>3. ASSUME InvoiceIssued(r), req[r].pc \in {"updated", "retried"}
      PROVE  Goal
    <2>1. "invoiced" \in SubmitSteps \ {"start"}
        BY DEF SubmitSteps
    <2>2. ReqBecomes(r, "invoiced", row[r].total)
        BY <1>0, <1>3, <2>1, ReqWrites DEF InvoiceIssued
    <2>3. row'[r].status = "AwaitingPayment" /\ row'[r].total = row[r].total
        BY <1>0, <1>3, StoreInvoices DEF RowInvoiced, RowBecomes
    <2>4. Ok("invoiced", row[r].total)
        BY <2>2, <2>3 DEF Invoiceless
    <2>. HIDE DEF Ok
    <2>. QED
        BY <1>0, <2>1, <2>4
<1>4. CASE SubmitCreate(r)
    <2>1. "created" \in SubmitSteps \ {"start"}
        BY DEF SubmitSteps
    <2>2. PICK t \in Amount : row' = [row EXCEPT ![r].status = "Placed", ![r].total = t]
        BY <1>4 DEF SubmitCreate
    <2>3. row'[r].status = "Placed"
        BY <1>0, <2>2 DEF PayTypeOK, Rows
    <2>4. Ok("created", req[r].total)
        BY <1>0, <1>4, <2>1, <2>3, ReqWrites DEF SubmitCreate
    <2>. HIDE DEF Ok
    <2>. QED
        BY <1>0, <2>1, <2>4
<1>5. CASE SubmitLink(r)
    <2>0. row[r].status # "NoOrder"
        BY <1>0, <1>5 DEF SubmitLink, ReqOK
    <2>1. CASE row' = [row EXCEPT ![r].linked = TRUE] /\ Goto(r, "linked")
        <3>1. "linked" \in SubmitSteps \ {"start"}
            BY DEF SubmitSteps
        <3>2. row'[r].linked
            BY <1>0, <2>1 DEF PayTypeOK, Rows
        <3>3. Ok("linked", req[r].total)
            BY <1>0, <2>0, <2>1, <3>1, <3>2, ReqWrites
        <3>. HIDE DEF Ok
        <3>. QED
            BY <1>0, <3>1, <3>3
    <2>2. CASE Goto(r, "lost")
        <3>1. "lost" \in SubmitSteps \ {"start"}
            BY DEF SubmitSteps
        <3>2. Ok("lost", req[r].total)
            BY <1>0, <2>0, <2>2, <3>1, ReqWrites
        <3>. HIDE DEF Ok
        <3>. QED
            BY <1>0, <3>1, <3>2
    <2>. HIDE DEF Goal
    <2>. QED
        BY <1>1, <1>5, <2>1, <2>2 DEF SubmitLink
<1>6. ASSUME NEW pc \in {"checked", "updated", "repriced", "retried"},
             ReqBecomes(r, pc, req[r].total),
             req[r].pc \in {"linked", "checked", "updated", "repriced"}
      PROVE  Goal
    <2>1. pc \in SubmitSteps \ {"start"}
        BY DEF SubmitSteps
    <2>2. Ok(pc, req[r].total)
        BY <1>0, <1>6 DEF ReqOK
    <2>. HIDE DEF Ok
    <2>. QED
        BY <1>0, <2>1, <2>2
<1>7. ASSUME NEW pc \in {"monitored", "totalled", "unsynced"}, Goto(r, pc),
             req[r].pc \in {"invoiced", "monitored", "totalled"},
             row'[r].total = row[r].total
      PROVE  Goal
    <2>1. pc \in SubmitSteps \ {"start"}
        BY DEF SubmitSteps
    <2>2. ReqBecomes(r, pc, req[r].total)
        BY <1>0, <1>7, <2>1, ReqWrites
    <2>3. Ok(pc, req[r].total)
        BY <1>0, <1>7, <2>2 DEF ReqOK, Invoiceless
    <2>. HIDE DEF Ok
    <2>. QED
        BY <1>0, <2>1, <2>3
<1>8. CASE SubmitCheck(r)
    <2>1. "checked" \in SubmitSteps
        BY DEF SubmitSteps
    <2>2. ReqBecomes(r, "checked", req[r].total)
        BY <1>0, <1>8, <2>1, ReqWrites DEF SubmitCheck
    <2>. HIDE DEF Goal
    <2>. QED
        BY <1>6, <1>8, <2>2 DEF SubmitCheck
<1>a. ASSUME NEW pc \in {"updated", "repriced", "retried"}, Goto(r, pc)
      PROVE  ReqBecomes(r, pc, req[r].total)
    <2>1. pc \in SubmitSteps
        BY DEF SubmitSteps
    <2>. QED
        BY <1>0, <1>a, <2>1, ReqWrites
<1>. HIDE DEF Goal
<1>9. CASE SubmitUpdate(r)
    BY <1>1, <1>6, <1>9, <1>a DEF SubmitUpdate, GiveUp
<1>10. CASE SubmitInvoice(r)
    BY <1>1, <1>3, <1>6, <1>10, <1>a DEF SubmitInvoice, GiveUp
<1>11. CASE SubmitReprice(r)
    BY <1>1, <1>6, <1>11, <1>a DEF SubmitReprice
<1>12. CASE SubmitRetry(r)
    BY <1>1, <1>3, <1>12 DEF SubmitRetry
<1>13. CASE SubmitMonitor(r)
    BY <1>7, <1>13 DEF SubmitMonitor
<1>14. CASE SubmitTotal(r)
    <2>1. CASE row' = [row EXCEPT ![r].expected = req[r].total]
        <3>1. row'[r].total = row[r].total
            BY <1>0, <2>1 DEF PayTypeOK, Rows
        <3>. QED
            BY <1>1, <1>7, <1>14, <3>1 DEF SubmitTotal
    <2>. QED
        BY <1>1, <1>14, <2>1 DEF SubmitTotal
<1>15. CASE SubmitFetch(r)
    BY <1>1, <1>7, <1>15 DEF SubmitFetch
<1>16. CASE SubmitExisting(r) \/ SubmitSync(r) \/ SubmitLost(r) \/ SubmitAmount(r)
    BY <1>1, <1>2, <1>16 DEF SubmitExisting, SubmitSync, SubmitLost, SubmitAmount
<1>. QED
    BY <1>4, <1>5, <1>8, <1>9, <1>10, <1>11, <1>12, <1>13, <1>14, <1>15, <1>16
       DEF SubmitOrder

\* What a call relies on while it does not move.
LEMMA ReqWaits ==
    ASSUME NEW r \in Requests, ReqOK(r), Later(r), req'[r] = req[r],
           row[r].status = "NoOrder" => row'[r].status = "NoOrder"
    PROVE  ReqOK(r)'
BY DEF ReqOK, Later, Invoiceless

\* The calls keep their part of the invariant.
LEMMA ReqsOK ==
    ASSUME PayInv, [PayNext]_payVars
    PROVE  /\ req' \in [Requests -> ReqRecords]
           /\ \A r \in Requests : ReqOK(r)'
<1>0. /\ \A r \in Requests : ReqOK(r) /\ Later(r) /\ RowOK(r)'
      /\ \A o \in Requests : \/ SubmitOrder(o)
                             \/ row[o].status = "NoOrder" =>
                                   row'[o].status = "NoOrder"
      /\ req \in [Requests -> ReqRecords]
    BY RowsOK DEF PayInv, PayTypeOK, ReqRecords
<1>1. ASSUME NEW r \in Requests, SubmitOrder(r)
      PROVE  /\ req' \in [Requests -> ReqRecords]
             /\ \A q \in Requests : ReqOK(q)'
    <2>1. PICK pc \in SubmitSteps \ {"start"}, t \in 0 .. MaxAmount :
              /\ ReqBecomes(r, pc, t)
              /\ pc \notin {"existing", "done", "failed"} =>
                    row[r].status # "NoOrder" \/ row'[r].status # "NoOrder"
              /\ pc = "existing" => t \in Amount
              /\ pc \in {"linked", "checked", "updated", "repriced", "retried"} =>
                    /\ row[r].status # "NoOrder"
                    /\ row'[r].linked \/ (row[r].status = "Placed" => row[r].linked)
              /\ pc \in {"invoiced", "monitored", "totalled", "unsynced"} =>
                    /\ row[r].status \notin Invoiceless \/ row'[r].status \notin Invoiceless
                    /\ t = row[r].total
                    /\ row'[r].total = row[r].total
        BY <1>1, SubmitMoves
    <2>2. /\ req' \in [Requests -> ReqRecords]
          /\ \A q \in Requests \ {r} : req'[q] = req[q]
          /\ req'[r].pc = pc /\ req'[r].total = t
        BY <2>1 DEF ReqBecomes
    <2>3. \A q \in Requests \ {r} : row'[q] = row[q]
        BY <1>1, SubmitRows
           DEF RowStep, RowResolved, RowKept, RowSubmitted, RowLinked, RowRepriced,
               RowInvoiced, RowTotalled, RowCancelled, RowExpired, RowConfirmed,
               RowBecomes
    <2>4. \A q \in Requests \ {r} : ReqOK(q)'
        BY <1>0, <2>2, <2>3, ReqWaits
    <2>5. ReqOK(r)'
        <3>1. pc \notin {"existing", "done", "failed"} => row'[r].status # "NoOrder"
            BY <1>0, <2>1 DEF Later
        <3>2. pc \in {"linked", "checked", "updated", "repriced", "retried"}
                /\ row'[r].status = "Placed" => row'[r].linked
            BY <1>0, <2>1 DEF Later, Invoiceless
        <3>. QED
            BY <1>0, <2>1, <2>2, <3>1, <3>2 DEF ReqOK, Later
    <2>. QED
        BY <2>2, <2>4, <2>5
<1>2. ASSUME \A o \in Requests : ~SubmitOrder(o), NEW r \in Requests,
             req'[r] = req[r]
      PROVE  ReqOK(r)'
    BY <1>0, <1>2, ReqWaits
<1>3. CASE UNCHANGED req /\ \A o \in Requests : ~SubmitOrder(o)
    BY <1>0, <1>2, <1>3
<1>4. CASE Restart /\ \A o \in Requests : ~SubmitOrder(o)
    <2>1. ASSUME NEW r \in Requests
          PROVE  /\ req'[r] \in ReqRecords
                 /\ req'[r] = req[r] \/ req'[r].pc = "failed"
        <3>1. PICK q \in ReqRecords : q = req[r]
            BY <1>0
        <3>2. PICK f : f = [q EXCEPT !.pc = "failed"]
            OBVIOUS
        <3>3. f \in ReqRecords /\ f.pc = "failed"
            BY <3>2 DEF ReqRecords, SubmitSteps
        <3>4. req'[r] = req[r] \/ req'[r] = f
            BY <1>4, <3>1, <3>2 DEF Restart
        <3>. QED
            BY <1>0, <3>3, <3>4
    <2>2. req' \in [Requests -> ReqRecords]
        <3>1. PICK g : g = [r \in Requests |-> req'[r]]
            OBVIOUS
        <3>2. req' = g
            BY <1>4, <3>1 DEF Restart
        <3>. QED
            BY <2>1, <3>1, <3>2
    <2>3. ASSUME NEW r \in Requests, req'[r].pc = "failed"
          PROVE  ReqOK(r)'
        BY <2>3 DEF ReqOK
    <2>. QED
        BY <1>2, <1>4, <2>1, <2>2, <2>3
<1>5. UNCHANGED req \/ Restart \/ \E r \in Requests : SubmitOrder(r)
    <2>1. ASSUME NEW a, NEW o, StartExpiry(a, o) \/ StartLookup(a, o)
          PROVE  UNCHANGED req
        BY <2>1 DEF StartExpiry, StartLookup
    <2>2. ASSUME NEW o, \/ CancelOrder(o) \/ CancelOrderInvoice(o)
                        \/ CancelStuckPlaced(o) \/ TimePasses(o)
          PROVE  UNCHANGED req
        BY <2>2 DEF CancelOrder, CancelOrderInvoice, CancelStuckPlaced, TimePasses
    <2>3. ASSUME NEW a, JobStep(a)
          PROVE  UNCHANGED req
        BY <2>3 DEF JobStep, Look, CallFails, UpdateOrderAsPaid, FlagFails,
                    OrderPaymentDone, Notify, ExpireUnpaid, CancelIntent
    <2>4. CASE DeliverWebhook \/ MonitorAborts \/ Pay \/ UNCHANGED payVars
        BY <2>4 DEF DeliverWebhook, MonitorAborts, Pay, payVars
    <2>. QED
        BY <2>1, <2>2, <2>3, <2>4 DEF PayNext
<1>. QED
    BY <1>1, <1>3, <1>4, <1>5

(***************************************************************************)
(* The actors                                                              *)
(***************************************************************************)
JobRecords ==
    [pc : JobSteps, order : Requests \cup {NoOrder}, expected : 0 .. MaxAmount,
     received : 0 .. MaxAmount, touched : BOOLEAN]

\* Actor a stands here now; the others stand where they are.
JobBecomes(a, pc, order, expected, received) ==
    /\ job' \in [Actors -> JobRecords]
    /\ \A b \in Actors \ {a} : job'[b] = job[b]
    /\ job'[a].pc = pc
    /\ job'[a].order = order
    /\ job'[a].expected = expected
    /\ job'[a].received = received

\* The ways an actor moves on.
LEMMA JobWrites ==
    ASSUME PayTypeOK, NEW a \in Actors
    PROVE  /\ job' = [job EXCEPT ![a] = Idle] => JobBecomes(a, "idle", NoOrder, 0, 0)
           /\ \A pc \in JobSteps :
                job' = [job EXCEPT ![a].pc = pc] =>
                    JobBecomes(a, pc, job[a].order, job[a].expected, job[a].received)
           /\ \A pc \in JobSteps, n \in 0 .. MaxAmount :
                job' = [job EXCEPT ![a].pc = pc, ![a].received = n] =>
                    JobBecomes(a, pc, job[a].order, job[a].expected, n)
           /\ job' = [job EXCEPT ![a].touched = TRUE] =>
                JobBecomes(a, job[a].pc, job[a].order, job[a].expected,
                           job[a].received)
           /\ \A o \in Requests, e \in 0 .. MaxAmount :
                job' = [job EXCEPT ![a] = [Idle EXCEPT !.pc = "look", !.order = o,
                                                       !.expected = e]] =>
                    JobBecomes(a, "look", o, e, 0)
           /\ \A o \in Requests, e \in 0 .. MaxAmount, n \in 0 .. MaxAmount :
                job' = [job EXCEPT ![a] =
                          [pc |-> "paid", order |-> o, touched |-> FALSE,
                           expected |-> e, received |-> n]] =>
                    JobBecomes(a, "paid", o, e, n)
<1>0. job \in [Actors -> JobRecords]
    BY DEF PayTypeOK, JobRecords
<1>1. ASSUME job' = [job EXCEPT ![a] = Idle]
      PROVE  JobBecomes(a, "idle", NoOrder, 0, 0)
    <2>1. Idle \in JobRecords /\ Idle.pc = "idle" /\ Idle.order = NoOrder
            /\ Idle.expected = 0 /\ Idle.received = 0
        BY PaymentAssumption DEF Idle, JobRecords, JobSteps
    <2>. QED
        BY <1>0, <1>1, <2>1 DEF JobBecomes
<1>2. ASSUME NEW pc \in JobSteps, job' = [job EXCEPT ![a].pc = pc]
      PROVE  JobBecomes(a, pc, job[a].order, job[a].expected, job[a].received)
    BY <1>0, <1>2 DEF JobBecomes, JobRecords
<1>3. ASSUME NEW pc \in JobSteps, NEW n \in 0 .. MaxAmount,
             job' = [job EXCEPT ![a].pc = pc, ![a].received = n]
      PROVE  JobBecomes(a, pc, job[a].order, job[a].expected, n)
    BY <1>0, <1>3 DEF JobBecomes, JobRecords
<1>4. ASSUME job' = [job EXCEPT ![a].touched = TRUE]
      PROVE  JobBecomes(a, job[a].pc, job[a].order, job[a].expected,
                        job[a].received)
    BY <1>0, <1>4 DEF JobBecomes, JobRecords
<1>5. ASSUME NEW o \in Requests, NEW e \in 0 .. MaxAmount,
             job' = [job EXCEPT ![a] = [Idle EXCEPT !.pc = "look", !.order = o,
                                                    !.expected = e]]
      PROVE  JobBecomes(a, "look", o, e, 0)
    <2>1. Idle \in JobRecords /\ Idle.received = 0
        BY PaymentAssumption DEF Idle, JobRecords, JobSteps
    <2>2. PICK j : j = [Idle EXCEPT !.pc = "look", !.order = o, !.expected = e]
        OBVIOUS
    <2>3. /\ j \in JobRecords /\ j.pc = "look" /\ j.order = o /\ j.expected = e
          /\ j.received = 0
        BY <2>1, <2>2 DEF JobRecords, JobSteps
    <2>. QED
        BY <1>0, <1>5, <2>2, <2>3 DEF JobBecomes
<1>6. ASSUME NEW o \in Requests, NEW e \in 0 .. MaxAmount, NEW n \in 0 .. MaxAmount,
             job' = [job EXCEPT ![a] =
                       [pc |-> "paid", order |-> o, touched |-> FALSE,
                        expected |-> e, received |-> n]]
      PROVE  JobBecomes(a, "paid", o, e, n)
    <2>1. PICK j : j = [pc |-> "paid", order |-> o, touched |-> FALSE,
                        expected |-> e, received |-> n]
        OBVIOUS
    <2>2. /\ j \in JobRecords /\ j.pc = "paid" /\ j.order = o /\ j.expected = e
          /\ j.received = n
        BY <2>1 DEF JobRecords, JobSteps
    <2>. QED
        BY <1>0, <1>6, <2>1, <2>2 DEF JobBecomes
<1>. QED
    BY <1>1, <1>2, <1>3, <1>4, <1>5, <1>6

\* Where a step leads an actor: to rest, or to a stage it has read enough for.
LEMMA JobMoves ==
    ASSUME PayInv, [PayNext]_payVars, ~Restart
    PROVE  \/ UNCHANGED job
           \/ \E a \in Actors, pc \in JobSteps, o \in Requests \cup {NoOrder},
                 e \in 0 .. MaxAmount, n \in 0 .. MaxAmount :
                JobBecomes(a, pc, o, e, n) /\ JobFits(pc, o, e, n)
<1>. DEFINE Goal == \E a \in Actors, pc \in JobSteps, o \in Requests \cup {NoOrder},
                       e \in 0 .. MaxAmount, n \in 0 .. MaxAmount :
                         JobBecomes(a, pc, o, e, n) /\ JobFits(pc, o, e, n)
<1>0. PayTypeOK /\ 0 \in 0 .. MaxAmount
    BY PaymentAssumption DEF PayInv
<1>i. ASSUME NEW a \in Actors, job' = [job EXCEPT ![a] = Idle]
      PROVE  Goal
    <2>1. JobBecomes(a, "idle", NoOrder, 0, 0) /\ "idle" \in JobSteps
        BY <1>0, <1>i, JobWrites DEF JobSteps
    <2>2. JobFits("idle", NoOrder, 0, 0)
        BY DEF JobFits
    <2>. QED
        BY <1>0, <2>1, <2>2
<1>l. ASSUME NEW a \in Actors, NEW o \in Requests, NEW e \in 0 .. MaxAmount,
             job' = [job EXCEPT ![a] = [Idle EXCEPT !.pc = "look", !.order = o,
                                                    !.expected = e]],
             e # 0 => row[o].status \notin Invoiceless /\ e = row[o].total
      PROVE  Goal
    <2>1. JobBecomes(a, "look", o, e, 0) /\ "look" \in JobSteps
        BY <1>0, <1>l, JobWrites DEF JobSteps
    <2>2. JobFits("look", o, e, 0)
        BY <1>l DEF JobFits
    <2>. QED
        BY <1>0, <2>1, <2>2
<1>e. ASSUME NEW o \in Requests
      PROVE  /\ row[o].expected \in 0 .. MaxAmount
             /\ row[o].expected # 0 => /\ row[o].status \notin Invoiceless
                                       /\ row[o].expected = row[o].total
    BY DEF PayInv, PayTypeOK, RowOK, Rows
<1>1. ASSUME NEW r \in Requests, SubmitOrder(r)
      PROVE  UNCHANGED job \/ Goal
    <2>1. CASE SubmitFetch(r)
        <3>1. /\ req[r].total \in 0 .. MaxAmount
              /\ row[r].status \notin Invoiceless /\ req[r].total = row[r].total
            BY <2>1 DEF SubmitFetch, PayInv, PayTypeOK, ReqOK
        <3>2. r \in Actors
            BY DEF Actors, Checkers
        <3>. HIDE DEF Goal
        <3>. QED
            BY <1>l, <2>1, <3>1, <3>2 DEF SubmitFetch
    <2>2. CASE \/ SubmitExisting(r) \/ SubmitSync(r) \/ SubmitCreate(r)
               \/ SubmitLink(r) \/ SubmitLost(r) \/ SubmitCheck(r)
               \/ SubmitUpdate(r) \/ SubmitInvoice(r) \/ SubmitReprice(r)
               \/ SubmitRetry(r) \/ SubmitMonitor(r) \/ SubmitTotal(r)
               \/ SubmitAmount(r)
        BY <2>2 DEF SubmitExisting, SubmitSync, SubmitCreate, SubmitLink, SubmitLost,
              SubmitCheck, SubmitUpdate, SubmitInvoice, SubmitReprice, SubmitRetry,
              SubmitMonitor, SubmitTotal, SubmitAmount
    <2>. QED
        BY <1>1, <2>1, <2>2 DEF SubmitOrder
<1>2. ASSUME NEW a \in Actors, NEW o \in Requests, StartExpiry(a, o) \/ StartLookup(a, o)
      PROVE  UNCHANGED job \/ Goal
    <2>1. \/ UNCHANGED job
          \/ job' = [job EXCEPT ![a] = [Idle EXCEPT !.pc = "look", !.order = o,
                                          !.expected = row[o].expected]]
        BY <1>2 DEF StartExpiry, StartLookup
    <2>. HIDE DEF Goal
    <2>. QED
        BY <1>l, <1>e, <2>1
<1>3. ASSUME NEW a \in Actors, JobStep(a)
      PROVE  UNCHANGED job \/ Goal
    <2>0. /\ job[a] \in JobRecords /\ JobOK(a)
          /\ job[a].pc \in JobSteps
          /\ job[a].order \in Requests \cup {NoOrder}
          /\ job[a].expected \in 0 .. MaxAmount
          /\ job[a].received \in 0 .. MaxAmount
          /\ intent.received \in 0 .. MaxAmount
        BY DEF PayInv, PayTypeOK, JobRecords
    <2>m. ASSUME NEW pc \in JobSteps, job' = [job EXCEPT ![a].pc = pc],
                 JobFits(pc, job[a].order, job[a].expected, job[a].received)
          PROVE  Goal
        <3>1. JobBecomes(a, pc, job[a].order, job[a].expected, job[a].received)
            BY <1>0, <2>m, JobWrites
        <3>. QED
            BY <2>0, <2>m, <3>1
    <2>1. CASE Look(a)
        <3>1. CASE /\ intent.status = "succeeded"
                   /\ job' = [job EXCEPT ![a].pc = "paid",
                                         ![a].received = intent.received]
            <4>1. "paid" \in JobSteps
                BY DEF JobSteps
            <4>2. JobBecomes(a, "paid", job[a].order, job[a].expected, intent.received)
                BY <1>0, <2>0, <3>1, <4>1, JobWrites
            <4>3. JobFits("paid", job[a].order, job[a].expected, intent.received)
                BY <2>0, <2>1, <3>1 DEF Look, JobOK, JobFits
            <4>. QED
                BY <2>0, <4>1, <4>2, <4>3
        <3>2. CASE job' = [job EXCEPT ![a].pc = "unpaid"]
            <4>1. "unpaid" \in JobSteps
                BY DEF JobSteps
            <4>2. JobFits("unpaid", job[a].order, job[a].expected, job[a].received)
                BY <2>0, <2>1 DEF Look, JobOK, JobFits
            <4>. HIDE DEF Goal
            <4>. QED
                BY <2>m, <3>2, <4>1, <4>2
        <3>3. CASE Finish(a, TRUE, FALSE)
            <4>. HIDE DEF Goal
            <4>. QED
                BY <1>i, <3>3 DEF Finish
        <3>. HIDE DEF Goal
        <3>. QED
            BY <2>1, <3>1, <3>2, <3>3 DEF Look
    <2>2. CASE UpdateOrderAsPaid(a)
        <3>1. CASE /\ ~Unfinalized(a) /\ ~Underpaid(a)
                   /\ job' = [job EXCEPT ![a].pc = "tx"]
            <4>1. "tx" \in JobSteps
                BY DEF JobSteps
            <4>2. JobFits("tx", job[a].order, job[a].expected, job[a].received)
                BY <2>0, <2>2, <3>1
                   DEF UpdateOrderAsPaid, Unfinalized, Underpaid, JobOK, JobFits
            <4>. HIDE DEF Goal
            <4>. QED
                BY <2>m, <3>1, <4>1, <4>2
        <3>2. CASE job' = [job EXCEPT ![a] = Idle]
            <4>. HIDE DEF Goal
            <4>. QED
                BY <1>i, <3>2
        <3>. HIDE DEF Goal
        <3>. QED
            BY <2>2, <3>1, <3>2 DEF UpdateOrderAsPaid, Finish
    <2>3. CASE OrderPaymentDone(a)
        <3>1. CASE job' = [job EXCEPT ![a].pc = "notify"]
            <4>1. "notify" \in JobSteps
                BY DEF JobSteps
            <4>2. JobFits("notify", job[a].order, job[a].expected, job[a].received)
                BY <2>0, <2>3 DEF OrderPaymentDone, JobOK, JobFits
            <4>. HIDE DEF Goal
            <4>. QED
                BY <2>m, <3>1, <4>1, <4>2
        <3>2. CASE job' = [job EXCEPT ![a].touched = TRUE]
            <4>1. JobBecomes(a, job[a].pc, job[a].order, job[a].expected,
                             job[a].received)
                BY <1>0, <3>2, JobWrites
            <4>. QED
                BY <2>0, <4>1 DEF JobOK
        <3>3. CASE job' = [job EXCEPT ![a] = Idle]
            <4>. HIDE DEF Goal
            <4>. QED
                BY <1>i, <3>3
        <3>. HIDE DEF Goal
        <3>. QED
            BY <2>3, <3>1, <3>2, <3>3 DEF OrderPaymentDone, Finish
    <2>4. CASE ExpireUnpaid(a)
        <3>1. "cancelIntent" \in JobSteps
            BY DEF JobSteps
        <3>2. JobFits("cancelIntent", job[a].order, job[a].expected, job[a].received)
            BY <2>0, <2>4 DEF ExpireUnpaid, JobOK, JobFits
        <3>. HIDE DEF Goal
        <3>. QED
            BY <2>4, <2>m, <3>1, <3>2 DEF ExpireUnpaid
    <2>5. CASE CallFails(a) \/ FlagFails(a) \/ Notify(a) \/ CancelIntent(a)
        <3>1. job' = [job EXCEPT ![a] = Idle]
            BY <2>5 DEF CallFails, FlagFails, Notify, CancelIntent, Finish
        <3>. HIDE DEF Goal
        <3>. QED
            BY <1>i, <3>1
    <2>. HIDE DEF Goal
    <2>. QED
        BY <1>3, <2>1, <2>2, <2>3, <2>4, <2>5 DEF JobStep
<1>4. CASE DeliverWebhook
    <2>1. CASE event.order = NoOrder
        BY <1>4, <2>1 DEF DeliverWebhook
    <2>2. CASE event.order # NoOrder
        <3>1. /\ event.order \in Requests /\ intent.received \in 0 .. MaxAmount
              /\ intent.status = "succeeded"
            BY <1>4, <2>2 DEF DeliverWebhook, PayInv, PayTypeOK, EventOK
        <3>2. PICK o \in Requests : o = event.order
            BY <3>1
        <3>3. PICK e \in 0 .. MaxAmount : e = row[o].expected
            BY <1>e
        <3>4. PICK n \in 0 .. MaxAmount : n = intent.received
            BY <3>1
        <3>5. "webhook" \in Actors /\ "paid" \in JobSteps
            BY DEF Actors, JobSteps
        <3>6. job' = [job EXCEPT !["webhook"] =
                        [pc |-> "paid", order |-> o, touched |-> FALSE,
                         expected |-> e, received |-> n]]
            BY <1>4, <2>2, <3>2, <3>3, <3>4 DEF DeliverWebhook
        <3>7. JobBecomes("webhook", "paid", o, e, n)
            BY <1>0, <3>5, <3>6, JobWrites
        <3>8. JobFits("paid", o, e, n)
            BY <1>e, <3>1, <3>3, <3>4 DEF JobFits
        <3>. QED
            BY <3>5, <3>7, <3>8
    <2>. QED
        BY <2>1, <2>2
<1>5. CASE MonitorAborts
    <2>1. "monitor" \in Actors
        BY DEF Actors, Expirers
    <2>2. Goal
        <3>. HIDE DEF Goal
        <3>. QED
            BY <1>5, <1>i, <2>1 DEF MonitorAborts
    <2>. QED
        BY <2>2
<1>6. ASSUME NEW o \in Requests, \/ CancelOrder(o) \/ CancelOrderInvoice(o)
                                 \/ CancelStuckPlaced(o) \/ TimePasses(o)
      PROVE  UNCHANGED job
    BY <1>6 DEF CancelOrder, CancelOrderInvoice, CancelStuckPlaced, TimePasses
<1>7. CASE Pay \/ UNCHANGED payVars
    BY <1>7 DEF Pay, payVars
<1>8. Expirers \subseteq Actors /\ Lookups \subseteq Actors
    BY DEF Actors, Checkers
<1>. HIDE DEF Goal
<1>. QED
    BY <1>1, <1>2, <1>3, <1>4, <1>5, <1>6, <1>7, <1>8 DEF PayNext, Goal

\* What an actor has read stays true of its order and of the intent.
LEMMA FitsLater ==
    ASSUME NEW pc, NEW o, NEW e, NEW n, JobFits(pc, o, e, n),
           \A p \in Requests : Later(p),
           intent.status = "succeeded" => /\ intent'.status = "succeeded"
                                          /\ intent'.received = intent.received
    PROVE  JobFits(pc, o, e, n)'
BY DEF JobFits, Later

\* The actors keep their part of the invariant.
LEMMA JobsOK ==
    ASSUME PayInv, [PayNext]_payVars
    PROVE  /\ job' \in [Actors -> JobRecords]
           /\ \A a \in Actors : JobOK(a)'
<1>0. /\ job \in [Actors -> JobRecords] /\ \A a \in Actors : JobOK(a)
      /\ \A p \in Requests : Later(p)
    BY RowsOK DEF PayInv, PayTypeOK, JobRecords
<1>1. intent.status = "succeeded" => /\ intent'.status = "succeeded"
                                     /\ intent'.received = intent.received
    BY IntentStep
<1>2. ASSUME NEW a \in Actors, job'[a] = job[a]
      PROVE  JobOK(a)'
    <2>1. JobFits(job[a].pc, job[a].order, job[a].expected, job[a].received)
        BY <1>0 DEF JobOK
    <2>2. PICK pc, o, e, n : /\ pc = job[a].pc /\ o = job[a].order
                             /\ e = job[a].expected /\ n = job[a].received
        OBVIOUS
    <2>3. JobFits(pc, o, e, n)'
        BY <1>0, <1>1, <2>1, <2>2, FitsLater
    <2>. QED
        BY <1>2, <2>2, <2>3 DEF JobOK
<1>3. CASE UNCHANGED job
    BY <1>0, <1>2, <1>3
<1>4. ASSUME NEW a \in Actors, NEW pc, NEW o, NEW e, NEW n,
             JobBecomes(a, pc, o, e, n), JobFits(pc, o, e, n)
      PROVE  /\ job' \in [Actors -> JobRecords]
             /\ \A b \in Actors : JobOK(b)'
    <2>1. JobFits(pc, o, e, n)'
        BY <1>0, <1>1, <1>4, FitsLater
    <2>2. JobOK(a)'
        BY <1>4, <2>1 DEF JobOK, JobBecomes
    <2>. QED
        BY <1>2, <1>4, <2>2 DEF JobBecomes
<1>5. CASE Restart
    <2>1. Idle \in JobRecords /\ Idle.pc = "idle"
        BY PaymentAssumption DEF Idle, JobRecords, JobSteps
    <2>. QED
        BY <1>5, <2>1 DEF Restart, JobOK, JobFits
<1>. QED
    BY <1>3, <1>4, <1>5, JobMoves

(***************************************************************************)
(* The rest of the state                                                   *)
(***************************************************************************)
EventRecords == [pending : BOOLEAN, order : Requests \cup {NoOrder}]

\* Stripe has a succeeded event to deliver only for a succeeded intent.
LEMMA EventsOK ==
    ASSUME PayInv, [PayNext]_payVars
    PROVE  event' \in EventRecords /\ EventOK'
<1>0. event \in EventRecords /\ EventOK
    BY DEF PayInv, PayTypeOK, EventRecords
<1>1. intent.status = "succeeded" => intent'.status = "succeeded"
    BY IntentStep
<1>2. CASE \/ UNCHANGED event
           \/ event' = [event EXCEPT !.pending = FALSE]
           \/ \E a \in Actors : event' = [event EXCEPT !.pending = @ /\ a # "webhook"]
    <2>1. event' \in EventRecords /\ (event'.pending => event.pending)
        BY <1>0, <1>2 DEF EventRecords
    <2>. QED
        BY <1>0, <1>1, <2>1 DEF EventOK
<1>3. CASE Pay
    <2>0. /\ intent \in [status : {"open", "succeeded", "canceled"}, amount : Amount,
                         received : 0 .. MaxAmount, order : Requests \cup {NoOrder}]
        BY DEF PayInv, PayTypeOK
    <2>1. intent'.status = "succeeded"
        BY <1>3, <2>0 DEF Pay
    <2>2. event' \in EventRecords
        BY <1>3, <2>0 DEF Pay, EventRecords
    <2>. QED
        BY <2>1, <2>2 DEF EventOK
<1>4. ASSUME NEW r \in Requests, SubmitOrder(r)
      PROVE  UNCHANGED event
    BY <1>4 DEF SubmitOrder, SubmitExisting, SubmitSync, SubmitCreate, SubmitLink,
          SubmitLost, SubmitCheck, SubmitUpdate, SubmitInvoice, SubmitReprice,
          SubmitRetry, SubmitMonitor, SubmitTotal, SubmitFetch, SubmitAmount
<1>5. ASSUME NEW a \in Actors, JobStep(a)
      PROVE  \/ UNCHANGED event
             \/ event' = [event EXCEPT !.pending = FALSE]
             \/ event' = [event EXCEPT !.pending = @ /\ a # "webhook"]
    BY <1>5 DEF JobStep, Look, CallFails, UpdateOrderAsPaid, FlagFails,
          OrderPaymentDone, Notify, ExpireUnpaid, CancelIntent, Finish
<1>6. ASSUME NEW a, NEW o, StartExpiry(a, o) \/ StartLookup(a, o)
      PROVE  UNCHANGED event
    BY <1>6 DEF StartExpiry, StartLookup
<1>7. ASSUME NEW o, \/ CancelOrder(o) \/ CancelOrderInvoice(o)
                    \/ CancelStuckPlaced(o) \/ TimePasses(o)
      PROVE  UNCHANGED event
    BY <1>7 DEF CancelOrder, CancelOrderInvoice, CancelStuckPlaced, TimePasses
<1>8. CASE DeliverWebhook \/ MonitorAborts \/ Restart \/ UNCHANGED payVars
    BY <1>2, <1>8 DEF DeliverWebhook, MonitorAborts, Restart, payVars
<1>. QED
    BY <1>2, <1>3, <1>4, <1>5, <1>6, <1>7, <1>8 DEF PayNext

\* The monitors, the clock, the mails and the failures keep their types.
LEMMA CountersTyped ==
    ASSUME PayInv, [PayNext]_payVars
    PROVE  /\ armed' \in [Requests -> BOOLEAN]
           /\ overdue' \in [Requests -> BOOLEAN]
           /\ emails' \in [Requests -> Nat]
           /\ faults' \in 0 .. MaxFaults
<1>0. /\ armed \in [Requests -> BOOLEAN] /\ overdue \in [Requests -> BOOLEAN]
      /\ emails \in [Requests -> Nat] /\ faults \in 0 .. MaxFaults
    BY DEF PayInv, PayTypeOK
<1>f. Fault \/ NoFault => faults' \in 0 .. MaxFaults
    BY <1>0, PaymentAssumption DEF Fault, NoFault
<1>1. ASSUME NEW r \in Requests, SubmitOrder(r)
      PROVE  /\ armed' \in [Requests -> BOOLEAN] /\ UNCHANGED <<overdue, emails>>
             /\ Fault \/ NoFault
    <2>1. CASE SubmitMonitor(r)
        BY <1>0, <2>1 DEF SubmitMonitor, NoFault
    <2>2. CASE SubmitExisting(r) \/ SubmitSync(r) \/ SubmitCreate(r) \/ SubmitLink(r)
                 \/ SubmitLost(r) \/ SubmitCheck(r)
        BY <1>0, <2>2 DEF SubmitExisting, SubmitSync, SubmitCreate, SubmitLink,
              SubmitLost, SubmitCheck, NoFault
    <2>3. CASE SubmitUpdate(r) \/ SubmitInvoice(r)
        BY <1>0, <2>3 DEF SubmitUpdate, SubmitInvoice, GiveUp, InvoiceIssued
    <2>4. CASE SubmitReprice(r) \/ SubmitRetry(r) \/ SubmitTotal(r) \/ SubmitFetch(r)
                 \/ SubmitAmount(r)
        BY <1>0, <2>4 DEF SubmitReprice, SubmitRetry, SubmitTotal, SubmitFetch,
              SubmitAmount, InvoiceIssued
    <2>. QED
        BY <1>1, <2>1, <2>2, <2>3, <2>4 DEF SubmitOrder
<1>2. ASSUME NEW a \in Actors, JobStep(a)
      PROVE  /\ armed' \in [Requests -> BOOLEAN] /\ UNCHANGED overdue
             /\ emails' \in [Requests -> Nat]
             /\ Fault \/ NoFault
    <2>k. ASSUME NEW ok, NEW free, Finish(a, ok, free)
          PROVE  armed' \in [Requests -> BOOLEAN] /\ (Fault \/ NoFault)
        BY <1>0, <2>k DEF Finish
    <2>1. CASE Look(a) \/ UpdateOrderAsPaid(a) \/ OrderPaymentDone(a)
        BY <1>0, <2>1, <2>k DEF Look, UpdateOrderAsPaid, OrderPaymentDone
    <2>2. CASE CallFails(a) \/ FlagFails(a)
        BY <1>0, <2>2 DEF CallFails, FlagFails
    <2>3. CASE Notify(a)
        <3>1. PICK o \in Requests : o = job[a].order
            BY <2>3 DEF Notify, PayInv, JobOK, JobFits
        <3>2. emails' = [emails EXCEPT ![o] = @ + 1]
            BY <2>3, <3>1 DEF Notify
        <3>3. emails' \in [Requests -> Nat]
            BY <1>0, <3>2
        <3>. QED
            BY <2>3, <2>k, <3>3 DEF Notify
    <2>4. CASE ExpireUnpaid(a) \/ CancelIntent(a)
        BY <1>0, <2>4 DEF ExpireUnpaid, CancelIntent, NoFault
    <2>. QED
        BY <1>2, <2>1, <2>2, <2>3, <2>4 DEF JobStep
<1>3. ASSUME NEW a, NEW o, StartExpiry(a, o) \/ StartLookup(a, o)
      PROVE  armed' \in [Requests -> BOOLEAN] /\ UNCHANGED <<overdue, emails, faults>>
    BY <1>0, <1>3 DEF StartExpiry, StartLookup
<1>4. ASSUME NEW o, \/ CancelOrder(o) \/ CancelOrderInvoice(o)
                    \/ CancelStuckPlaced(o) \/ TimePasses(o)
      PROVE  /\ armed' \in [Requests -> BOOLEAN] /\ overdue' \in [Requests -> BOOLEAN]
             /\ UNCHANGED <<emails, faults>>
    BY <1>0, <1>4 DEF CancelOrder, CancelOrderInvoice, CancelStuckPlaced, TimePasses
<1>5. CASE Restart
    BY <1>0, <1>5, <1>f DEF Restart
<1>6. CASE DeliverWebhook \/ MonitorAborts \/ Pay \/ UNCHANGED payVars
    BY <1>0, <1>6 DEF DeliverWebhook, MonitorAborts, Pay, payVars
<1>. QED
    BY <1>0, <1>1, <1>2, <1>3, <1>4, <1>5, <1>6, <1>f DEF PayNext

----------------------------------------------------------------------------
\* Every step keeps the inductive invariant.
LEMMA PayNextInv == PayInv /\ [PayNext]_payVars => PayInv'
<1>. SUFFICES ASSUME PayInv, [PayNext]_payVars PROVE PayInv'
    OBVIOUS
<1>1. PayTypeOK'
    BY RowsOK, IntentStep, ReqsOK, JobsOK, EventsOK, CountersTyped
       DEF PayTypeOK, ReqRecords, JobRecords, EventRecords
<1>. QED
    BY <1>1, RowsOK, ReqsOK, JobsOK, EventsOK DEF PayInv

\* The invariant holds throughout.
LEMMA PayInvHolds == PaySpec => []PayInv
BY PayInitInv, PayNextInv, PTL DEF PaySpec

\* The state keeps its shape, whatever fails and whenever the process stops.
THEOREM PayTypeCorrect == PaySpec => []PayTypeOK
<1>1. PayInv => PayTypeOK
    BY DEF PayInv
<1>. QED
    BY <1>1, PayInvHolds, PTL

\* Any number of concurrent and repeated SubmitOrder calls with one intent sell
\* one order at most (the UNIQUE client_secret and the lookup by intent).
THEOREM NeverSoldTwice == PaySpec => []OneOrderPerIntent
<1>1. PayInv => OneOrderPerIntent
    BY DEF PayInv, OneOrderPerIntent, OneLinked, RowOK
<1>. QED
    BY <1>1, PayInvHolds, PTL

\* An order is confirmed only for a succeeded intent that brought in the whole
\* total, whichever path confirms it and however old what it had read
\* (updateOrderAsPaid, OrderPaymentDone).
THEOREM OnlyPaidIsConfirmed == PaySpec => []ConfirmedIsPaid
<1>1. PayInv => ConfirmedIsPaid
    BY DEF PayInv, ConfirmedIsPaid, RowOK
<1>. QED
    BY <1>1, PayInvHolds, PTL

(***************************************************************************)
(* The promised life of an order                                           *)
(***************************************************************************)
Stands == [o \in Requests |-> row[o].status]
Recognised == [o \in Requests |-> row[o].done]

\* One order's rows change: its status and its revenue do.
LEMMA BecomesPromise ==
    ASSUME PayTypeOK, NEW o \in Requests, NEW st, NEW t, NEW e, NEW l, NEW d,
           RowBecomes(o, st, t, e, l, d)
    PROVE  /\ Stands' = [Stands EXCEPT ![o] = st]
           /\ Recognised' = [Recognised EXCEPT ![o] = d]
           /\ Stands[o] = row[o].status /\ Recognised[o] = row[o].done
BY DEF RowBecomes, Stands, Recognised

\* A change that leaves status and revenue leaves the abstract state.
LEMMA SamePromise ==
    ASSUME PayTypeOK, NEW o \in Requests, NEW t, NEW e, NEW l,
           RowBecomes(o, row[o].status, t, e, l, row[o].done)
    PROVE  UNCHANGED <<Stands, Recognised>>
<1>1. /\ row[o].status = row'[o].status /\ row[o].done = row'[o].done
      /\ \A p \in Requests \ {o} : row'[p] = row[p]
    BY DEF RowBecomes
<1>. QED
    BY <1>1 DEF Stands, Recognised

\* An abstract move that leaves the revenue.
LEMMA GoPromise ==
    ASSUME PayTypeOK, NEW o \in Requests, NEW from, NEW to, NEW t, NEW e, NEW l, NEW d,
           RowBecomes(o, to, t, e, l, d), row[o].status \in from, d = row[o].done
    PROVE  Promise!Go(o, from, to)
<1>1. /\ Stands' = [Stands EXCEPT ![o] = to]
      /\ Recognised' = [Recognised EXCEPT ![o] = d]
      /\ Stands[o] = row[o].status /\ Recognised[o] = row[o].done
    BY BecomesPromise
<1>2. Recognised' = Recognised
    BY <1>1 DEF Recognised
<1>. QED
    BY <1>1, <1>2 DEF Promise!Go, Stands, Recognised

\* Every step of the rows is a step of the promise, or none.
LEMMA RowStepPromise ==
    ASSUME PayTypeOK, NEW o \in Requests, RowOK(o), RowStep(o)
    PROVE  Promise!AbsNext \/ UNCHANGED <<Stands, Recognised>>
<1>0. row[o].done \in BOOLEAN
    BY DEF PayTypeOK, Rows
<1>1. CASE RowKept(o) \/ RowLinked(o) \/ RowTotalled(o)
    BY <1>1, SamePromise DEF RowKept, RowLinked, RowTotalled
<1>2. CASE RowRepriced(o)
    <2>1. PICK t \in Amount : RowBecomes(o, "Placed", t, row[o].expected,
                                         row[o].linked, row[o].done)
        BY <1>2 DEF RowRepriced
    <2>2. row[o].status = "Placed"
        BY <1>2 DEF RowRepriced
    <2>. QED
        BY <2>1, <2>2, SamePromise
<1>3. CASE RowSubmitted(o)
    <2>1. Promise!Go(o, {"NoOrder"}, "Placed")
        BY <1>3, GoPromise DEF RowSubmitted
    <2>. QED
        BY <2>1 DEF Promise!AbsNext, Promise!Submit
<1>4. CASE RowInvoiced(o)
    <2>1. row[o].done = FALSE
        BY <1>0, <1>4 DEF RowInvoiced, RowOK
    <2>2. Promise!Go(o, {"Placed"}, "AwaitingPayment")
        BY <1>4, <2>1, GoPromise DEF RowInvoiced
    <2>. QED
        BY <2>2 DEF Promise!AbsNext, Promise!Invoice
<1>5. CASE RowCancelled(o) \/ RowExpired(o)
    <2>1. Promise!Go(o, {"Placed", "AwaitingPayment"}, "Cancelled")
        BY <1>5, GoPromise DEF RowCancelled, RowExpired
    <2>. QED
        BY <2>1 DEF Promise!AbsNext, Promise!Abandon
<1>6. CASE RowConfirmed(o)
    <2>1. /\ row'[o].status = "Confirmed"
          /\ row'[o].done
          /\ row'[o].done = TRUE
          /\ \A p \in Requests \ {o} : row'[p] = row[p]
        BY <1>6 DEF RowConfirmed, RowBecomes
    <2>11. /\ Stands' = [Stands EXCEPT ![o] = "Confirmed"]
           /\ Stands[o] = row[o].status
        BY <2>1 DEF Stands
    <2>12. Recognised' = [Recognised EXCEPT ![o] = TRUE]
        BY <2>1 DEF Recognised
    <2>2. Promise!Sell(o, {"AwaitingPayment"})
        BY <1>6, <2>11, <2>12 DEF RowConfirmed, Promise!Sell, Stands, Recognised
    <2>. QED
        BY <2>2 DEF Promise!AbsNext, Promise!Pay
<1>. QED
    BY <1>1, <1>2, <1>3, <1>4, <1>5, <1>6 DEF RowStep, RowResolved

\* Every step of the payment paths is a step of the promise, or none.
LEMMA NextPromise ==
    PayInv /\ [PayNext]_payVars => [Promise!AbsNext]_<<Stands, Recognised>>
<1>. SUFFICES ASSUME PayInv, [PayNext]_payVars
              PROVE  Promise!AbsNext \/ UNCHANGED <<Stands, Recognised>>
    OBVIOUS
<1>1. CASE UNCHANGED row
    BY <1>1 DEF Stands, Recognised
<1>2. CASE \E o \in Requests : RowStep(o)
    BY <1>2, RowStepPromise DEF PayInv
<1>. QED
    BY <1>1, <1>2, RowsStep DEF RowStep

\* What the checkout, the webhook, the monitors, the worker and the
\* cancellations do to an order together is a life the abstract specification
\* allows, and revenue is recognised by a confirmation only.
THEOREM PaymentKeepsPromise == PaySpec => KeepsPromise
<1>1. PayInit => Promise!AbsInit
    BY DEF PayInit, Promise!AbsInit
<1>2. PayInv /\ [PayNext]_payVars =>
        [Promise!AbsNext]_<<[o \in Requests |-> row[o].status],
                            [o \in Requests |-> row[o].done]>>
    BY NextPromise DEF Stands, Recognised
<1>. QED
    BY <1>1, <1>2, PayInvHolds, PTL
       DEF PaySpec, KeepsPromise, Promise!AbsSpec, Promise!absVars

(***************************************************************************)
(* The amount of a single call                                             *)
(***************************************************************************)
OneCall == \A r, s \in Requests : r = s

\* Alone, a call never meets another's order, so the amount it leaves on the
\* intent is its own order's.
Alone(r) ==
    /\ req[r].pc \notin {"existing", "lost"}
    /\ req[r].pc = "created" => ~row[r].linked
    /\ req[r].pc = "done" /\ row[r].status = "AwaitingPayment"
          /\ intent.status = "open" => intent.amount = row[r].total

\* A step of anyone else leaves the amount of an open intent, and brings no
\* order to await payment.
LEMMA OthersLeaveAmount ==
    ASSUME PayInv, [PayNext]_payVars, NEW r \in Requests,
           \A q \in Requests : ~SubmitOrder(q)
    PROVE  /\ intent'.status = "open" => /\ intent.status = "open"
                                         /\ intent'.amount = intent.amount
           /\ row'[r].status = "AwaitingPayment" =>
                row[r].status = "AwaitingPayment" /\ row'[r].total = row[r].total
           /\ row'[r].linked => row[r].linked
           /\ req'[r].pc = req[r].pc \/ req'[r].pc = "failed"
<1>0. /\ intent \in [status : {"open", "succeeded", "canceled"}, amount : Amount,
                     received : 0 .. MaxAmount, order : Requests \cup {NoOrder}]
      /\ req[r] \in ReqRecords
    BY DEF PayInv, PayTypeOK, ReqRecords
<1>1. UNCHANGED row \/ \E o \in Requests : RowResolved(o)
    BY RowsStep
<1>2. ASSUME NEW o \in Requests, RowResolved(o)
      PROVE  /\ row'[r].status = "AwaitingPayment" =>
                  row[r].status = "AwaitingPayment" /\ row'[r].total = row[r].total
             /\ row'[r].linked => row[r].linked
    BY <1>2 DEF RowResolved, RowKept, RowCancelled, RowExpired, RowConfirmed,
                RowBecomes
<1>3. \/ UNCHANGED <<intent, req>>
      \/ Pay
      \/ Restart
      \/ \E a \in Actors : CancelIntent(a)
    <2>1. ASSUME NEW a, NEW o, StartExpiry(a, o) \/ StartLookup(a, o)
          PROVE  UNCHANGED <<intent, req>>
        BY <2>1 DEF StartExpiry, StartLookup
    <2>2. ASSUME NEW o, \/ CancelOrder(o) \/ CancelOrderInvoice(o)
                        \/ CancelStuckPlaced(o) \/ TimePasses(o)
          PROVE  UNCHANGED <<intent, req>>
        BY <2>2 DEF CancelOrder, CancelOrderInvoice, CancelStuckPlaced, TimePasses
    <2>3. ASSUME NEW a \in Actors, JobStep(a)
          PROVE  UNCHANGED <<intent, req>> \/ CancelIntent(a)
        BY <2>3 DEF JobStep, Look, CallFails, UpdateOrderAsPaid, FlagFails,
                    OrderPaymentDone, Notify, ExpireUnpaid
    <2>4. CASE DeliverWebhook \/ MonitorAborts \/ UNCHANGED payVars
        BY <2>4 DEF DeliverWebhook, MonitorAborts, payVars
    <2>. QED
        BY <2>1, <2>2, <2>3, <2>4 DEF PayNext
<1>4. ASSUME NEW a \in Actors, CancelIntent(a)
      PROVE  /\ intent'.status = "open" => UNCHANGED intent
             /\ UNCHANGED req
    BY <1>0, <1>4 DEF CancelIntent
<1>5. CASE Pay
    BY <1>0, <1>1, <1>2, <1>5 DEF Pay
<1>6. CASE Restart
    <2>1. req'[r].pc = req[r].pc \/ req'[r].pc = "failed"
        <3>1. [req[r] EXCEPT !.pc = "failed"].pc = "failed"
            BY <1>0 DEF ReqRecords
        <3>2. req'[r] = req[r] \/ req'[r] = [req[r] EXCEPT !.pc = "failed"]
            BY <1>6 DEF Restart
        <3>. QED
            BY <3>1, <3>2
    <2>. QED
        BY <1>0, <1>1, <1>2, <1>6, <2>1 DEF Restart
<1>. QED
    BY <1>0, <1>1, <1>2, <1>3, <1>4, <1>5, <1>6


\* A call's own steps leave it alone and the amount right.
LEMMA OwnSteps ==
    ASSUME PayInv, OneCall, NEW r \in Requests, Alone(r), SubmitOrder(r)
    PROVE  Alone(r)'
<1>0. /\ PayTypeOK /\ RowOK(r) /\ ReqOK(r) /\ req \in [Requests -> ReqRecords]
      /\ row \in [Requests -> Rows]
      /\ intent \in [status : {"open", "succeeded", "canceled"}, amount : Amount,
                     received : 0 .. MaxAmount, order : Requests \cup {NoOrder}]
    BY DEF PayInv, PayTypeOK, ReqRecords
<1>1. ASSUME NEW o \in Linked PROVE row[r].linked
    BY <1>1 DEF OneCall, Linked
<1>g. ASSUME NEW pc \in SubmitSteps, Goto(r, pc)
      PROVE  req'[r].pc = pc
    BY <1>0, <1>g DEF Goto, ReqRecords
<1>f. ASSUME Goto(r, "failed") PROVE Alone(r)'
    <2>1. req'[r].pc = "failed"
        BY <1>f, <1>g DEF SubmitSteps
    <2>. QED
        BY <2>1 DEF Alone
<1>m. ASSUME NEW pc \in {"linked", "checked", "updated", "repriced", "retried",
                         "invoiced", "monitored", "totalled", "unsynced"},
             req'[r].pc = pc
      PROVE  Alone(r)'
    BY <1>m DEF Alone
<1>n. ASSUME NEW pc \in {"linked", "updated", "repriced", "retried",
                         "monitored", "totalled", "unsynced"},
             Goto(r, pc)
      PROVE  Alone(r)'
    <2>1. pc \in SubmitSteps
        BY DEF SubmitSteps
    <2>. QED
        BY <1>g, <1>m, <1>n, <2>1
<1>v. ASSUME InvoiceIssued(r) PROVE Alone(r)'
    <2>1. req'[r].pc = "invoiced"
        BY <1>0, <1>v DEF InvoiceIssued, ReqRecords
    <2>. QED
        BY <1>m, <2>1
<1>2. CASE SubmitExisting(r) \/ SubmitSync(r) \/ SubmitLost(r)
    BY <1>0, <1>1, <1>2 DEF SubmitExisting, SubmitSync, SubmitLost, Alone, ReqOK, RowOK
<1>3. CASE SubmitCreate(r)
    <2>1. req'[r].pc = "created"
        BY <1>3, <1>g DEF SubmitCreate, SubmitSteps
    <2>2. ~row[r].linked
        BY <1>0, <1>3 DEF SubmitCreate, ReqOK, RowOK
    <2>3. PICK t \in Amount : row' = [row EXCEPT ![r].status = "Placed", ![r].total = t]
        BY <1>3 DEF SubmitCreate
    <2>4. row'[r].linked = row[r].linked
        BY <1>0, <2>3 DEF Rows
    <2>. QED
        BY <2>1, <2>2, <2>4 DEF Alone
<1>4. CASE SubmitLink(r)
    <2>1. Linked = {}
        BY <1>1, <1>4 DEF SubmitLink, Alone
    <2>. QED
        BY <1>4, <1>f, <1>n, <2>1 DEF SubmitLink
<1>5. CASE SubmitCheck(r)
    <2>1. req'[r].pc = "checked"
        BY <1>0, <1>5 DEF SubmitCheck, ReqRecords
    <2>. QED
        BY <1>m, <2>1
<1>6. CASE SubmitUpdate(r)
    BY <1>6, <1>f, <1>n DEF SubmitUpdate, GiveUp
<1>7. CASE SubmitInvoice(r)
    BY <1>7, <1>f, <1>n, <1>v DEF SubmitInvoice, GiveUp
<1>8. CASE SubmitReprice(r)
    BY <1>8, <1>f, <1>n DEF SubmitReprice
<1>9. CASE SubmitRetry(r)
    BY <1>9, <1>f, <1>v DEF SubmitRetry
<1>10. CASE SubmitMonitor(r)
    BY <1>10, <1>n DEF SubmitMonitor
<1>11. CASE SubmitTotal(r)
    BY <1>11, <1>f, <1>n DEF SubmitTotal
<1>12. CASE SubmitFetch(r)
    <2>0. UNCHANGED <<row, intent>> /\ req[r].total = row[r].total
        BY <1>0, <1>12 DEF SubmitFetch, ReqOK
    <2>1. CASE Goto(r, "done") /\ intent.status = "succeeded"
        <3>1. req'[r].pc = "done"
            BY <1>g, <2>1 DEF SubmitSteps
        <3>. QED
            BY <2>0, <2>1, <3>1 DEF Alone
    <2>2. CASE Goto(r, "done") /\ InStep(r)
        <3>1. req'[r].pc = "done"
            BY <1>g, <2>2 DEF SubmitSteps
        <3>. QED
            BY <2>0, <2>2, <3>1 DEF Alone, InStep
    <2>. QED
        BY <1>12, <1>f, <1>n, <2>1, <2>2 DEF SubmitFetch
<1>13. CASE SubmitAmount(r)
    <2>1. CASE /\ intent' = [intent EXCEPT !.amount = req[r].total]
               /\ Goto(r, "done")
        <3>1. req'[r].pc = "done"
            BY <1>g, <2>1 DEF SubmitSteps
        <3>2. intent'.amount = row[r].total /\ row' = row
            BY <1>0, <1>13, <2>1 DEF SubmitAmount, ReqOK
        <3>. QED
            BY <3>1, <3>2 DEF Alone
    <2>. QED
        BY <1>13, <1>f, <2>1 DEF SubmitAmount
<1>. QED
    BY <1>2, <1>3, <1>4, <1>5, <1>6, <1>7, <1>8, <1>9, <1>10, <1>11, <1>12, <1>13
       DEF SubmitOrder

\* A call that is made only once: when it has answered and the customer can
\* still pay, the intent asks for exactly the order's total (the amount
\* SubmitOrder reads back and corrects).
THEOREM AmountOfOneCall == OneCall => (PaySpec => []AmountAgreed)
<1>. SUFFICES ASSUME OneCall PROVE PaySpec => []AmountAgreed
    OBVIOUS
<1>. DEFINE Inv == \A r \in Requests : Alone(r)
<1>1. PayInit => Inv
    <2>. SUFFICES ASSUME PayInit, NEW r \in Requests PROVE Alone(r)
        OBVIOUS
    <2>1. req[r].pc = "start"
        BY DEF PayInit
    <2>. QED
        BY <2>1 DEF Alone
<1>2. PayInv /\ Inv /\ [PayNext]_payVars => Inv'
    <2>. SUFFICES ASSUME PayInv, [PayNext]_payVars, NEW r \in Requests, Alone(r)
                  PROVE  Alone(r)'
        OBVIOUS
    <2>1. CASE \E q \in Requests : SubmitOrder(q)
        <3>1. SubmitOrder(r)
            BY <2>1 DEF OneCall
        <3>. QED
            BY <3>1, OwnSteps
    <2>2. CASE \A q \in Requests : ~SubmitOrder(q)
        BY <2>2, OthersLeaveAmount DEF Alone
    <2>. QED
        BY <2>1, <2>2
<1>3. Inv => AmountAgreed
    BY DEF Alone, AmountAgreed
<1>. HIDE DEF Inv
<1>. QED
    BY <1>1, <1>2, <1>3, PayInvHolds, PTL DEF PaySpec
=============================================================================
