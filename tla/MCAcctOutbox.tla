---------------------------- MODULE MCAcctOutbox ----------------------------
(* A small instance of AcctOutbox for TLC. *)
EXTENDS AcctOutbox, TLC

\* The behaviours in which only the VAT rate is late: an order's settlement is
\* captured before the worker takes up its paid event, and the operator adds the
\* rate when the worker has already given the delivered event up.
OnlyRateLate ==
    \A o \in Orders :
        /\ Pending(o, Paid) /\ ~order[o].settled => event'[o][Paid] = event[o][Paid]
        /\ rateKnown' # rateKnown => event[o][Delivered].state = "skipped"

RateLateSpec == Init /\ ~rateKnown /\ [][Next /\ OnlyRateLate]_vars
=============================================================================
