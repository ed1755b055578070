--------------------------- MODULE MCSwapAccounts ---------------------------
(***************************************************************************)
(* SwapAccounts with small constants: srm and btc are quoted in both       *)
(* stable coins, ftt in USDT only.                                         *)
(***************************************************************************)
EXTENDS SwapAccounts, TLC

CONSTANTS srm, btc, ftt

FiveMarkets ==
  {<<Usdc, srm>>, <<Usdc, btc>>, <<Usdt, srm>>, <<Usdt, btc>>, <<Usdt, ftt>>}

\* Through USDC, through USDT, direct, and direct on a market not listed.
SomePairs == {<<srm, btc>>, <<srm, ftt>>, <<Usdc, srm>>, <<ftt, Usdc>>}

\* Symmetry: calls are interchangeable, and so are addresses.
CallSymmetry == Permutations(Call) \cup Permutations(Account)
=============================================================================
