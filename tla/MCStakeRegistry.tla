--------------------------- MODULE MCStakeRegistry ---------------------------
(***************************************************************************)
(* StakeRegistry with small constants: two registrars on one network.      *)
(***************************************************************************)
EXTENDS StakeRegistry, TLC

CONSTANTS srm, msrm, main

HomeOf == (srm :> main) @@ (msrm :> main)
FirstOf == main :> srm

\* Symmetry: calls are interchangeable, and so are addresses of withdrawals.
Symmetry == Permutations(Call) \cup Permutations(Withdrawal)
=============================================================================
