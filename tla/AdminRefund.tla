---------------------------- MODULE AdminRefund ----------------------------
(***************************************************************************)
(* The admin's RefundOrder handler (internal/apisrv/admin/order.go) between *)
(* Stripe and the order store.  A call reads the order without a lock,      *)
(* computes an amount, asks Stripe to move it and only then has the store   *)
(* book the refund; calls of two admins interleave, and a call may stop     *)
(* after any step (an error, a lost answer, a crash) and be repeated.       *)
(*                                                                         *)
(* The store is OrderStore's; amounts are numbers here, because Stripe      *)
(* compares them.  Stripe itself is external: it repeats its answer to a    *)
(* key it has seen and refuses more than is left of the charge.             *)
(***************************************************************************)
EXTENDS OrderStore

CONSTANTS
    Calls,          \* RefundOrder requests that can be in flight together
    Price,          \* product_price_with_sale of a line
    ShippingCost,   \* shipment cost in the order's currency
    Discount        \* what a promo code takes off an order's total

ASSUME PricesAssumption ==
    /\ Price \in [Lines -> Nat \ {0}]
    /\ ShippingCost \in Nat \ {0}
    /\ Discount \in Nat /\ \A l \in Lines : Discount <= Price[l]
ASSUME SkusAssumption == IsFiniteSet(Skus)

VARIABLES
    call,       \* the request and the progress of each RPC
    charge,     \* Stripe: what the order's PaymentIntent collected
    refunds     \* Stripe: the refunds of the charge, by idempotency key

stripeVars == <<charge, refunds>>
refundVarsAll == <<vars, call, charge, refunds>>

(***************************************************************************)
(* Amounts                                                                 *)
(***************************************************************************)
FullCharge == -1        \* amount = nil: Stripe refunds what is left

Value(units, fees) ==
    SumFunctionOnSet([l \in Lines |-> Price[l] * units[l]], Lines) + fees * ShippingCost

\* What the customer pays (SubtotalWithPromo: the discount is on the total).
Total(o) ==
    Value(items[o], IF freeShipping[o] THEN 0 ELSE 1)
      - (IF promo[o] = NoPromo THEN 0 ELSE Discount)

Paid(o) == SumFunctionOnSet([r \in refunds[o] |-> r.amount], refunds[o])
Left(o) == charge[o] - Paid(o)
Booked(o) == Value(refundedAmount[o].goods, refundedAmount[o].shipping)

\* Mutant: the shipping fee is left out of what Stripe is asked for.
RefundAmountWithoutFee(o, ask, shipping) ==
    IF status[o] = "Confirmed" THEN FullCharge
    ELSE IF ask = Nothing THEN Value(Remaining(o), 0)
    ELSE Value(Requested(o, ask), 0)

\* The amount of a request, from the order as the handler read it.  A partial
\* refund adds the fee whether or not it was refunded before.
RefundAmount(o, ask, shipping) ==
    IF status[o] = "Confirmed" THEN FullCharge
    ELSE IF ask = Nothing
         THEN Value(Remaining(o), IF FeeDue(o, shipping) THEN 1 ELSE 0)
         ELSE Value(Requested(o, ask),
                    IF shipping /\ ~freeShipping[o] THEN 1 ELSE 0)

\* Mutant: the key leaves out which items are refunded.
KeyWithoutItems(ask, shipping, amount) ==
    [full |-> ask = Nothing, shipping |-> shipping]

\* RefundIdempotencyKey: the scope of the refund.
RefundIdempotencyKey(ask, shipping, amount) ==
    [full |-> ask = Nothing, units |-> ask, shipping |-> shipping,
     amount |-> amount]

Keys == [full : BOOLEAN, units : [Lines -> 0 .. MaxQty], shipping : BOOLEAN,
         amount : Nat \cup {FullCharge}]
Idle == [pc |-> "idle"]
Requests == [pc : {"stripe", "store"}, order : Orders,
             ask : [Lines -> 0 .. MaxQty], shipping : BOOLEAN,
             amount : Nat \cup {FullCharge}]

----------------------------------------------------------------------------
RefundInit ==
    /\ Init
    /\ call = [c \in Calls |-> Idle]
    /\ charge = [o \in Orders |-> 0]
    /\ refunds = [o \in Orders |-> {}]

\* The handler up to the payment: unlocked read, status and scope checks, the
\* amount.  A Confirmed order always gets its shipping back.  Orders that were
\* not paid by card skip Stripe.
StartRefund(c, o, ask, refundShipping) ==
    LET shipping == refundShipping \/ status[o] = "Confirmed"
    IN  /\ call[c] = Idle
        /\ status[o] \in RefundableStatuses
        /\ status[o] = "Confirmed" => ask = Nothing
        /\ call' = [call EXCEPT ![c] =
              [pc |-> IF charge[o] > 0 THEN "stripe" ELSE "store", order |-> o,
               ask |-> ask, shipping |-> shipping,
               amount |-> RefundAmount(o, ask, shipping)]]
        /\ UNCHANGED <<vars, stripeVars>>

\* Stripe's side of Refund: `moved` is a new refund, if the key is new and the
\* charge still covers it.  An amount of 0 is left out of the parameters, which
\* asks for everything.
KeyOf(c) == RefundIdempotencyKey(call[c].ask, call[c].shipping, call[c].amount)
Seen(c) == \E r \in refunds[call[c].order] : r.key = KeyOf(c)
Asked(c) ==
    IF call[c].amount \in {FullCharge, 0} THEN Left(call[c].order) ELSE call[c].amount
Covered(c) == Asked(c) > 0 /\ Asked(c) <= Left(call[c].order)

StripeRefunds(c) ==
    \/ Seen(c) /\ UNCHANGED refunds
    \/ /\ ~Seen(c)
       /\ Covered(c)
       /\ refunds' = [refunds EXCEPT ![call[c].order] =
                         @ \cup {[key |-> KeyOf(c), amount |-> Asked(c)]}]

Refund(c) ==
    /\ call[c].pc = "stripe"
    /\ StripeRefunds(c)
    /\ call' = [call EXCEPT ![c].pc = "store"]
    /\ UNCHANGED <<vars, charge>>

\* Stripe moved the money, the answer did not arrive.
RefundAnswerLost(c) ==
    /\ call[c].pc = "stripe"
    /\ StripeRefunds(c)
    /\ call' = [call EXCEPT ![c] = Idle]
    /\ UNCHANGED <<vars, charge>>

\* Stripe refuses, or cannot be reached.
RefundFails(c) ==
    /\ call[c].pc = "stripe"
    /\ call' = [call EXCEPT ![c] = Idle]
    /\ UNCHANGED <<vars, stripeVars>>

\* The store books the refund, under its own lock and checks.
BookRefund(c, disposition) ==
    /\ call[c].pc = "store"
    /\ RefundOrder(call[c].order, call[c].ask, call[c].shipping, disposition)
    /\ call' = [call EXCEPT ![c] = Idle]
    /\ UNCHANGED stripeVars

\* The disposition is refused, the store returns an error or the process stops:
\* what Stripe did stays done.
BookingFails(c) ==
    /\ call[c].pc = "store"
    /\ call' = [call EXCEPT ![c] = Idle]
    /\ UNCHANGED <<vars, stripeVars>>

\* The order's life around the refunds (what a payment does to the promo cache
\* matters to no order that exists).
PayByCard(o) ==
    /\ OrderPaymentDone(o)
    /\ charge' = [charge EXCEPT ![o] = Total(o)]
    /\ UNCHANGED <<call, refunds>>

OrderLife(o) ==
    /\ \/ \E v \in Vouchers \cup {NoPromo} : GetPromoByCode(o, v)
       \/ \E cart \in Carts, free \in BOOLEAN : CreateOrder(o, cart, free)
       \/ \E cart \in Carts : CreateCustomOrder(o, cart)
       \/ InvoiceIssued(o)
       \/ RequestRefundByUser(o)
       \/ SetTrackingNumber(o)
       \/ DeliverOrderWithSource(o)
       \/ SetOrderStatusToPendingReturn(o)
    /\ UNCHANGED <<call, stripeVars>>

RefundNext ==
    \/ \E o \in Orders : PayByCard(o) \/ OrderLife(o)
    \/ \E c \in Calls :
        \/ \E o \in Orders, ask \in [Lines -> 0 .. MaxQty], sh \in BOOLEAN :
              StartRefund(c, o, ask, sh)
        \/ Refund(c)
        \/ RefundAnswerLost(c)
        \/ RefundFails(c)
        \/ \E d \in Dispositions : BookRefund(c, d)
        \/ BookingFails(c)

RefundSpec == RefundInit /\ [][RefundNext]_refundVarsAll

(***************************************************************************)
(* Correctness                                                             *)
(***************************************************************************)
\* The shape of the state: a refund at Stripe moves money and is filed under the
\* whole scope it was asked for (RefundIdempotencyKey).
RefundTypeOK ==
    /\ call \in [Calls -> Requests \cup {Idle}]
    /\ charge \in [Orders -> Nat]
    /\ refunds \in [Orders -> SUBSET [key : Keys, amount : Nat \ {0}]]

\* The shop never books more as refunded than Stripe returned: whatever two
\* admins ask for at once, whichever answer is lost and whatever is repeated,
\* each booking rests on a Stripe refund of its own that covers it
\* (RefundIdempotencyKey against what RefundOrder accepts).  It holds for
\* lines of one unit: two refunds of one unit each of a larger line have the
\* same scope, so the same key, and the second moves no money.
StripeCoversBooks ==
    \A o \in Orders : charge[o] > 0 => Booked(o) <= Paid(o)
=============================================================================
