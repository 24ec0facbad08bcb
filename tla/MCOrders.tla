------------------------------ MODULE MCOrders ------------------------------
(* Small instances of Orders for TLC. *)
EXTENDS Orders

CONSTANTS r1, r2, r3

TwoRequests   == {r1, r2}
ThreeRequests == {r1, r2, r3}

\* In 4 bits, 6 * 2 wraps below zero and 6 * 3 wraps to 2.
SomePrices     == {-1, 6}
SomeStocks     == {-1, 3}
SomeQuantities == 0..3
=============================================================================
