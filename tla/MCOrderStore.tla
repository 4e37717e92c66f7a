---------------------------- MODULE MCOrderStore ----------------------------
(* Small instances of OrderStore for TLC. *)
EXTENDS OrderStore, TLC

CONSTANTS o1, o2, s1, v1

OneOrder == {o1}
TwoOrders == {o1, o2}
OneVoucher == {v1}
NoVouchers == {}
MCSymmetry == Permutations(TwoOrders)

\* One unit of grade A, none of grade B.
LastUnit == [l \in Lines |-> IF l[2] = "A" THEN 1 ELSE 0]

\* Two units of grade A, one of grade B.
SomeSeconds == [l \in Lines |-> IF l[2] = "A" THEN 2 ELSE 1]
=============================================================================
