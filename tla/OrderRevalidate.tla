-------------------------- MODULE OrderRevalidate ---------------------------
(***************************************************************************)
(* The order store together with the one operation that does not lock the   *)
(* order row: ValidateOrderByUUID (store/order/validation.go).  It reads the *)
(* order and its status outside any transaction and rewrites the lines in a  *)
(* later one, so the other operations can run in between.                   *)
(***************************************************************************)
EXTENDS OrderStore

VARIABLE checking   \* checking[o]: the order as a running validation read it

Idle == [busy |-> FALSE, items |-> Nothing, promo |-> NoPromo]

revVars == <<vars, checking>>

\* The unlocked read: only a Placed order is validated further.
ValidateRead(o) ==
    /\ ~checking[o].busy
    /\ status[o] = "Placed"
    /\ checking' = [checking EXCEPT ![o] =
          [busy |-> TRUE, items |-> items[o], promo |-> Applicable(promo[o])]]
    /\ UNCHANGED vars

\* The transaction: the lines that were read are cut to the present stock; if
\* that or a price changed anything they replace the order's lines, and the
\* refund ledger goes with the deleted rows (ON DELETE CASCADE).  An empty
\* result is an error, and so is the cancel attempted before it: both are
\* rolled back.
ValidateCommit(o, repriced, free) ==
    LET seen == checking[o]
        valid == InStock(seen.items)
        changed == valid # Nothing /\ (valid # seen.items \/ repriced)
    IN  /\ seen.busy
        /\ items' = IF changed THEN [items EXCEPT ![o] = valid] ELSE items
        /\ ledger' = IF changed THEN [ledger EXCEPT ![o] = Nothing] ELSE ledger
        /\ promo' = IF changed THEN [promo EXCEPT ![o] = seen.promo] ELSE promo
        /\ freeShipping' = IF changed THEN [freeShipping EXCEPT ![o] = free]
                                      ELSE freeShipping
        /\ checking' = [checking EXCEPT ![o] = Idle]
        /\ UNCHANGED <<status, paymentVars, stockVars, refundedAmount,
                       shippingRefunded, refundEvents, events, claim,
                       promoVars>>

RevInit == Init /\ checking = [o \in Orders |-> Idle]

RevNext ==
    \/ Next /\ UNCHANGED checking
    \/ \E o \in Orders :
          \/ ValidateRead(o)
          \/ \E repriced, free \in BOOLEAN : ValidateCommit(o, repriced, free)

RevSpec == RevInit /\ [][RevNext]_revVars

\* A cancelled order has put back every unit its invoice took, so its journal
\* nets to nothing (ExpireOrderPayment and cancelOrder restore the units
\* insertOrderInvoice reduced).
CancelledRestoresAll ==
    \A o \in Orders : status[o] = "Cancelled" => journal[o] = Nothing
=============================================================================
