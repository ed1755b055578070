--------------------------- MODULE MCMarketReads ---------------------------
(***************************************************************************)
(* MarketReads with small constants: an owner with an open-orders account, *)
(* an MSRM and an SRM account.                                             *)
(***************************************************************************)
EXTENDS MarketReads, TLC

CONSTANTS o1, o2, a1, m1, s1

Balances == (m1 :> {0, 1}) @@ (s1 :> {None, 100})

\* The owner has an order and tokens of both kinds, or neither account nor order.
Starts ==
  {[at |-> 0, accounts |-> {a1}, holding |-> (m1 :> 1) @@ (s1 :> 100),
    book |-> (o1 :> [side |-> "buy", openOrders |-> a1]) @@ (o2 :> None)],
   [at |-> 0, accounts |-> {}, holding |-> (m1 :> 0) @@ (s1 :> 100),
    book |-> (o1 :> None) @@ (o2 :> None)]}

\* The bound: calls of one kind, and changes of what they read.  The two kinds
\* share nothing but the chain.
Same(f) == \A i \in DOMAIN past : past[i][f] = past[1][f]
Begun(kind) == \E c \in Call : call[c] # IdleCall /\ call[c].kind = kind

OneKind ==
  \/ ~Begun("discount") /\ Same("holding")
  \/ ~Begun("orders") /\ Same("book") /\ Same("accounts")

\* Symmetry: calls are interchangeable.
Symmetry == Permutations(Call)
=============================================================================
