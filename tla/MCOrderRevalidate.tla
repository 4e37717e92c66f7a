------------------------- MODULE MCOrderRevalidate --------------------------
(* A small instance of OrderRevalidate for TLC. *)
EXTENDS OrderRevalidate

CONSTANTS o1, s1

NoVouchers == {}
ThreeUnits == [l \in Lines |-> IF l[2] = "A" THEN 3 ELSE 0]
=============================================================================
