----------------------------- MODULE MCPoolSetup -----------------------------
(***************************************************************************)
(* PoolSetup with small constants: two tokens, one of them wrapped SOL.    *)
(* c1 makes a pool; c2 makes another, perhaps under the same address, or   *)
(* uses that of c1.  Callers also err: lengths that differ, accounts that  *)
(* are exchanged, a token twice, no address.                               *)
(***************************************************************************)
EXTENDS PoolSetup

CONSTANTS c1, c2, A

Simple(mints, accounts, amounts) ==
  [kind |-> "simple", mints |-> mints, accounts |-> accounts, amounts |-> amounts]

Swap(mints, given, accounts, amounts, address) ==
  [kind |-> "swap", mints |-> mints, given |-> given, accounts |-> accounts,
   amounts |-> amounts, address |-> address]

Use(action, accounts, amounts, swaps, tokens) ==
  [kind |-> "execute", action |-> action, pool |-> SimplePool(c1),
   mints |-> <<A, Sol>>, accounts |-> accounts, amounts |-> amounts, swaps |-> swaps,
   tokens |-> tokens, holder |-> Associated(Creator, PoolMint(c1))]

OfA == Associated(Creator, A)
OfSol == Associated(Creator, Sol)

Requests ==
  (c1 :> {Simple(<<A, Sol>>, <<OfA, OfSol>>, <<2, 1>>),
          Simple(<<A, Sol>>, <<OfSol, OfA>>, <<1, 1>>),
          Simple(<<A, A>>, <<OfA, OfA>>, <<1, 1>>),
          Simple(<<A>>, <<OfA, OfSol>>, <<1, 1>>),
          Swap(<<A, Sol>>, <<Sol, A>>, <<OfSol, OfA>>, <<1, 2>>, "seed"),
          Swap(<<A, Sol>>, <<A, Sol>>, <<OfA, OfSol>>, <<2, 2>>, "account"),
          Swap(<<A>>, <<A, Sol>>, <<OfA, OfSol>>, <<1, 1>>, "seed")})
  @@ (c2 :> {Swap(<<Sol, A, A>>, <<A, Sol>>, <<OfA, OfSol>>, <<2, 2>>, "seed"),
             Swap(<<A, Sol>>, <<A, Sol>>, <<OfA, OfSol>>, <<1, 1>>, "account"),
             Swap(<<A, Sol>>, <<A, Sol>>, <<OfA, OfSol>>, <<1, 1>>, "none"),
             Simple(<<Sol, A>>, <<OfSol, OfA>>, <<1, 2>>),
             Use("create", <<OfA, Creator>>, <<1, 1>>, <<>>, 1),
             Use("create", <<OfA, OfSol>>, <<1>>, <<>>, 1),
             Use("redeem", <<OfA, Creator>>, <<1, 1>>, <<>>, 1),
             Use("redeem", <<OfA, OfSol>>, <<-1, 2>>, <<>>, 1),
             Use("swap", <<OfA, OfSol>>, <<-1, 1>>, <<1, -1>>, 0),
             Use("swap", <<OfA, Creator>>, <<1, -1>>, <<-1, 1>>, 0),
             Use("swap", <<OfA, Creator>>, <<-1, 1>>, <<1, -1>>, 0)})
=============================================================================
