--------------------------- MODULE MCStakeSession ---------------------------
(***************************************************************************)
(* StakeSession with small constants: two networks, the first with two     *)
(* registrars.                                                             *)
(***************************************************************************)
EXTENDS StakeSession, TLC

CONSTANTS mainnet, devnet, srm, msrm, token1, v1, i1, i2, i3

TwoNetworks == (srm :> mainnet) @@ (msrm :> mainnet) @@ (token1 :> devnet)
FirstListed == (mainnet :> srm) @@ (devnet :> token1)
=============================================================================
