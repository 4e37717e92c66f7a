---------------------------- MODULE OrderStatus ----------------------------
(***************************************************************************)
(* The life of an order as the rest of the shop may rely on it, stated      *)
(* without stock, payments, ledgers or rows: where an order stands and      *)
(* whether its revenue has been recognised.  OrderStore implements it.      *)
(***************************************************************************)

CONSTANT Orders

VARIABLES
    status,     \* status[o]: where order o stands, "NoOrder" before it exists
    revenue     \* revenue[o]: o's sale has been handed to accounting

absVars == <<status, revenue>>

(* Names of entity.OrderStatusName *)
Statuses ==
    {"NoOrder", "Placed", "AwaitingPayment", "Confirmed", "Shipped",
     "Delivered", "Cancelled", "PendingReturn", "RefundInProgress",
     "Refunded", "PartiallyRefunded"}

\* Statuses an order can only have once it has been paid for.
SoldStatuses ==
    {"Confirmed", "Shipped", "Delivered", "PendingReturn",
     "RefundInProgress", "Refunded", "PartiallyRefunded"}

\* Statuses no operation may leave.
FinalStatuses == {"Cancelled", "Refunded"}

AbsInit ==
    /\ status = [o \in Orders |-> "NoOrder"]
    /\ revenue = [o \in Orders |-> FALSE]

\* An order in one of the statuses `from` goes to `to`; its revenue stands.
Go(o, from, to) ==
    /\ status[o] \in from
    /\ status' = [status EXCEPT ![o] = to]
    /\ UNCHANGED revenue

\* An order becomes a sale: the only step that recognises revenue.
Sell(o, from) ==
    /\ status[o] \in from
    /\ status' = [status EXCEPT ![o] = "Confirmed"]
    /\ revenue' = [revenue EXCEPT ![o] = TRUE]

Submit(o)        == Go(o, {"NoOrder"}, "Placed")
SellByHand(o)    == Sell(o, {"NoOrder"})
Invoice(o)       == Go(o, {"Placed"}, "AwaitingPayment")
Pay(o)           == Sell(o, {"AwaitingPayment"})
Abandon(o)       == Go(o, {"Placed", "AwaitingPayment"}, "Cancelled")
Ship(o)          == Go(o, {"Confirmed"}, "Shipped")
Arrive(o)        == Go(o, {"Shipped"}, "Delivered")
AskRefund(o)     == Go(o, {"Confirmed"}, "RefundInProgress")
AskReturn(o)     == Go(o, {"Shipped", "Delivered"}, "PendingReturn")
GiveBackAll(o)   == Go(o, SoldStatuses \ {"Shipped", "Refunded"}, "Refunded")
GiveBackSome(o)  == Go(o, {"RefundInProgress", "PendingReturn", "Delivered",
                           "PartiallyRefunded"}, "PartiallyRefunded")

AbsNext ==
    \E o \in Orders :
        \/ Submit(o) \/ SellByHand(o) \/ Invoice(o) \/ Pay(o) \/ Abandon(o)
        \/ Ship(o) \/ Arrive(o) \/ AskRefund(o) \/ AskReturn(o)
        \/ GiveBackAll(o) \/ GiveBackSome(o)

AbsSpec == AbsInit /\ [][AbsNext]_absVars
============================================================================
