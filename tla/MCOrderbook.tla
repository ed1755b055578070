---------------------------- MODULE MCOrderbook -----------------------------
(***************************************************************************)
(* Orderbook with keys of four bits, two of which are the price.           *)
(***************************************************************************)
EXTENDS Orderbook

\* The key with these bits, the most significant first.
Id(a, b, c, d) == [i \in 0..3 |-> <<a, b, c, d>>[i + 1]]

\* Three prices, the lowest with two orders.
FourKeys == {Id(0,0,0,1), Id(0,0,1,0), Id(0,1,1,1), Id(1,0,0,0)}
=============================================================================
