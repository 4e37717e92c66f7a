--------------------------- MODULE MCStockReserve ---------------------------
(* A small instance of StockReserve for TLC. *)
EXTENDS StockReserve, TLC

CONSTANTS s1, s2, i1, i2

\* Two units of one item, one of the other.
MCStock == [i \in Items |-> IF i = i1 THEN 2 ELSE 1]
=============================================================================
