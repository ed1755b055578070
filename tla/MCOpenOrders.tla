---------------------------- MODULE MCOpenOrders ----------------------------
(***************************************************************************)
(* OpenOrdersClient with small constants.                                  *)
(***************************************************************************)
EXTENDS OpenOrdersClient, TLC

CONSTANT CallerAccount  \* an address a caller may pass

\* Callers pass nothing, a key pair, or an address.
AnyOption ==
  {[account |-> None, key |-> None],
   [account |-> CallerAccount, key |-> None],
   [account |-> None, key |-> CallerAccount]}

\* Symmetry: calls are interchangeable.
CallSymmetry == Permutations(Call)
=============================================================================
