----------------------------- MODULE SwapQueries -----------------------------
(***************************************************************************)
(* What the swap client tells before a swap is made: the tokens there are, *)
(* and those that each can be swapped with.                                *)
(***************************************************************************)
EXTENDS SwapPaths

Quoted(coin) == {t \in Mint : <<coin, t>> \in Listed}

Tokens == Quoted(Usdc) \cup Quoted(Usdt)

\* The coin and all other tokens quoted in it, if the token itself is.
QuotedWith(coin, mint) ==
  IF mint \in Quoted(coin) THEN {coin} \cup (Quoted(coin) \ {mint}) ELSE {}

\* Mutant: one coin is enough.
Pairs_OneCoin(mint) ==
  IF mint \in Quoted(Usdc) THEN QuotedWith(Usdc, mint) ELSE QuotedWith(Usdt, mint)

Pairs(mint) == QuotedWith(Usdc, mint) \cup QuotedWith(Usdt, mint)

\* swap throws if a market of its path is not listed.
HasPath(from, to) == SwapPath(from, to) \subseteq Listed

\* pairs offers exactly what swap can do: for each of tokens, the stable coins
\* that it is quoted in, and every other token that a swap finds a path to.
\* Where the token list quotes one stable coin in the other, more is offered: for
\* a token with both coins, a swap over the two that swap takes for a direct one.
PairsArePaths ==
  \A from \in Tokens \ Usdx : \A to \in Mint \ {from} :
    /\ HasPath(from, to) => to \in Pairs(from)
    /\ to \in Pairs(from) /\ to \notin Tokens \cap Usdx => HasPath(from, to)
==============================================================================
