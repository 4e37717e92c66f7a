--------------------------- MODULE MCAdminRefund ---------------------------
(* Small instances of AdminRefund for TLC. *)
EXTENDS AdminRefund, TLC

CONSTANTS o1, s1, v1, c1, c2

NoVouchers == {}
\* A grade A line of 2, a grade B line of 3.
MCPrice == [l \in Lines |-> IF l[2] = "A" THEN 2 ELSE 3]
OneEach == [l \in Lines |-> 1]
TwoOfA == [l \in Lines |-> IF l[2] = "A" THEN 2 ELSE 0]
CallSymmetry == Permutations(Calls)
=============================================================================
