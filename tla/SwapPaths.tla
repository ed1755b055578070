------------------------------ MODULE SwapPaths ------------------------------
(***************************************************************************)
(* The markets over which the swap client swaps one token for another.  A  *)
(* market is a pair <<quote, base>> with one of the two stable coins as    *)
(* its quote.  A swap from or to a stable coin is direct and has one leg,  *)
(* any other goes through one stable coin and has two.                     *)
(***************************************************************************)
EXTENDS Naturals

CONSTANTS
  Usdc, Usdt,
  Mint,    \* tokens, the stable coins among them
  Listed   \* the markets of the token list

Usdx == {Usdc, Usdt}

ASSUME MintAssumption == Usdx \subseteq Mint

Direct(from, to) == from \in Usdx \/ to \in Usdx

Legs(quote, from, to) ==
  IF from \in Usdx THEN {<<from, to>>}
  ELSE IF to \in Usdx THEN {<<to, from>>}
  ELSE {<<quote, from>>, <<quote, to>>}

\* The stable coin through which swap goes, and which the other calls try first.
FirstQuote(from, to) ==
  IF Legs(Usdc, from, to) \subseteq Listed THEN Usdc ELSE Usdt

SwapPath(from, to) == Legs(FirstQuote(from, to), from, to)
==============================================================================
