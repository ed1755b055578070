----------------------------- MODULE MCMultisig -----------------------------
(***************************************************************************)
(* Multisig with small constants: two multisigs, three owners.             *)
(***************************************************************************)
EXTENDS Multisig, TLC

CONSTANTS m1, m2, ann, bob, cy

OwnerLists ==
  {<<ann, bob>>, <<cy, ann>>, <<ann, ann, bob, cy>>, <<ann, bob, cy, cy, cy>>}

Enter == {[owners |-> <<cy, ann>>, threshold |-> 2]}

Changes ==
  {[kind |-> "owners", owners |-> <<cy, ann>>], [kind |-> "threshold", threshold |-> 1],
   [kind |-> "idl"], [kind |-> "program"]}

Made(m, owners, threshold) ==
  [of |-> m, owners |-> owners, threshold |-> threshold, seqno |-> 0,
   past |-> <<owners>>, size |-> MultisigSize(Len(owners))]

Starts ==
  {(m1 :> Made(m1, <<ann, bob>>, 2)) @@ (m2 :> None),
   (m1 :> Made(m1, <<ann, bob>>, 1)) @@ (m2 :> Made(m2, <<cy, ann>>, 1))}

\* Symmetry: keys of transactions are interchangeable.
Symmetry == Permutations(TxKey)
=============================================================================
