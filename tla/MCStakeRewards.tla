--------------------------- MODULE MCStakeRewards ---------------------------
(***************************************************************************)
(* StakeRewards with small constants.                                      *)
(***************************************************************************)
EXTENDS StakeRewards

CONSTANTS r1, r2, r3, v1, v2

OneHeld == <<v1>>
TwoDropped == <<r1, r2>>

SmallTerms == [startBalance : 0 .. 9, periodCount : 1 .. 5]
=============================================================================
