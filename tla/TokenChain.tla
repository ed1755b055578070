----------------------------- MODULE TokenChain -----------------------------
(***************************************************************************)
(* What the set-up of a pool and its use leave to the chain: the           *)
(* instructions of the system, token, associated token, pool and swap      *)
(* programs that the clients send, each with the condition under which it  *)
(* is accepted and its effect.  A transaction is executed as a whole or    *)
(* not at all.  Rents and fees are left out.                               *)
(***************************************************************************)
EXTENDS Integers, Sequences, SequencesExt

CONSTANTS
  Creator,  \* the user, who pays and signs; also the address of the user's SOL
  Sol,      \* the mint of wrapped SOL
  None

\* Addresses: of a key pair made by a call, of an associated token account, of a
\* pool under an address that the caller chooses, of what a program signs for.
Key(c, name) == [call |-> c, name |-> name]
Associated(owner, mint) == [owner |-> owner, mint |-> mint]
Seeded(s) == [seed |-> s]
Signer(pool) == [signs |-> pool]

-----------------------------------------------------------------------------
(* Instructions.                                                           *)

CreateMint(mint, authority) ==
  [op |-> "createMint", mint |-> mint, authority |-> authority]

\* A token account, with SOL of the user's to wrap.
CreateAccount(account, owner, mint, lamports) ==
  [op |-> "createAccount", account |-> account, owner |-> owner, mint |-> mint,
   lamports |-> lamports]

CreateAssociated(owner, mint) ==
  CreateAccount(Associated(owner, mint), owner, mint, 0)

MintTo(mint, account, amount, by) ==
  [op |-> "mintTo", mint |-> mint, account |-> account, amount |-> amount, by |-> by]

SetAuthority(mint, by, authority) ==
  [op |-> "setAuthority", mint |-> mint, by |-> by, authority |-> authority]

Transfer(from, to, amount, by) ==
  [op |-> "transfer", from |-> from, to |-> to, amount |-> amount, by |-> by]

Approve(account, delegate, amount) ==
  [op |-> "approve", account |-> account, delegate |-> delegate, amount |-> amount]

CloseAccount(account, by) == [op |-> "close", account |-> account, by |-> by]

\* The account of the pool is made under the key that signs, and initialised.
\* mints: what the program then mints itself, to the holder.
Initialize(pool, key, mint, vaults, holder, mints) ==
  [op |-> "initialize", pool |-> pool, key |-> key, mint |-> mint,
   vaults |-> vaults, holder |-> holder, mints |-> mints]

\* moves[i] of asset i go from accounts[i] to the pool, or back if negative; burns
\* of the pool token are burnt, or minted if negative.
Execute(pool, by, accounts, moves, holder, burns) ==
  [op |-> "execute", pool |-> pool, by |-> by, accounts |-> accounts,
   moves |-> moves, holder |-> holder, burns |-> burns]

-----------------------------------------------------------------------------
\* Tokens may be moved by the owner, or by the delegate up to what is approved.
MayMove(ch, a, amount, by) ==
  /\ a \in DOMAIN ch.account \ {Creator}
  /\ amount <= ch.account[a].amount
  /\ \/ ch.account[a].owner = by
     \/ ch.account[a].delegate = by /\ amount <= ch.account[a].allowance

IsOf(ch, a, mint) == a \in DOMAIN ch.account /\ ch.account[a].mint = mint

Allowed(ch, s, signers) ==
  CASE s.op = "createMint" ->
         s.mint \in signers /\ s.mint \notin DOMAIN ch.mint
    [] s.op = "createAccount" ->
         /\ s.account \in signers \cup {Associated(s.owner, s.mint)}
         /\ s.account \notin DOMAIN ch.account
         /\ s.mint \in DOMAIN ch.mint
         /\ s.lamports \in 0 .. ch.account[Creator].amount
    [] s.op = "mintTo" ->
         /\ IsOf(ch, s.account, s.mint)
         /\ s.by \in signers /\ ch.mint[s.mint].authority = s.by
    [] s.op = "setAuthority" ->
         /\ s.mint \in DOMAIN ch.mint
         /\ s.by \in signers /\ ch.mint[s.mint].authority = s.by
    [] s.op = "transfer" ->
         /\ s.by \in signers /\ MayMove(ch, s.from, s.amount, s.by)
         /\ s.from # s.to /\ IsOf(ch, s.to, ch.account[s.from].mint)
    [] s.op = "approve" ->
         s.account \in DOMAIN ch.account /\ ch.account[s.account].owner = Creator
    [] s.op = "close" ->
         /\ s.account \in DOMAIN ch.account
         /\ s.by \in signers /\ ch.account[s.account].owner = s.by
    [] s.op = "initialize" ->
         /\ s.key \in signers /\ s.pool \notin DOMAIN ch.pool
         /\ s.mint \in DOMAIN ch.mint
         /\ ch.mint[s.mint].authority = Signer(s.pool)
         /\ IsOf(ch, s.holder, s.mint)
         /\ \A i \in DOMAIN s.vaults :
              /\ s.vaults[i] \in DOMAIN ch.account
              /\ ch.account[s.vaults[i]].owner = Signer(s.pool)
    [] s.op = "execute" ->
         /\ s.by \in signers
         /\ IsOf(ch, s.holder, ch.pool[s.pool].mint)
         /\ s.burns > 0 => MayMove(ch, s.holder, s.burns, s.by)
         /\ \A i \in DOMAIN s.moves :
              LET vault == ch.pool[s.pool].vaults[i]
              IN  /\ IsOf(ch, s.accounts[i], ch.account[vault].mint)
                  /\ s.moves[i] > 0 => MayMove(ch, s.accounts[i], s.moves[i], s.by)
                  /\ -s.moves[i] <= ch.account[vault].amount

-----------------------------------------------------------------------------
\* The accounts after gain[a] has been added to each; what a delegate moves is
\* taken from its allowance.
Gain(ch, gain, by) ==
  [a \in DOMAIN ch.account |->
     IF a \notin DOMAIN gain THEN ch.account[a]
     ELSE [ch.account[a] EXCEPT
             !.amount = @ + gain[a],
             !.allowance = IF ch.account[a].delegate = by /\ gain[a] < 0
                           THEN @ + gain[a] ELSE @]]

NewAccount(owner, mint, amount) ==
  [owner |-> owner, mint |-> mint, amount |-> amount, delegate |-> None,
   allowance |-> 0]

Minted(ch, mint, account, amount, by) ==
  [ch EXCEPT !.mint[mint].supply = @ + amount,
             !.account = Gain(ch, account :> amount, by)]

Effect(ch, s) ==
  CASE s.op = "createMint" ->
         [ch EXCEPT !.mint = @ @@ (s.mint :> [authority |-> s.authority, supply |-> 0])]
    [] s.op = "createAccount" ->
         [ch EXCEPT !.account =
            [@ EXCEPT ![Creator].amount = @ - s.lamports]
              @@ (s.account :> NewAccount(s.owner, s.mint, s.lamports))]
    [] s.op = "mintTo" -> Minted(ch, s.mint, s.account, s.amount, s.by)
    [] s.op = "setAuthority" -> [ch EXCEPT !.mint[s.mint].authority = s.authority]
    [] s.op = "transfer" ->
         [ch EXCEPT !.account =
            Gain(ch, (s.from :> -s.amount) @@ (s.to :> s.amount), s.by)]
    [] s.op = "approve" ->
         [ch EXCEPT !.account[s.account].delegate = s.delegate,
                    !.account[s.account].allowance = s.amount]
    [] s.op = "close" ->
         [ch EXCEPT !.account =
            [a \in DOMAIN @ \ {s.account} |->
               IF a = Creator
               THEN [@[a] EXCEPT !.amount = @ + ch.account[s.account].amount]
               ELSE @[a]]]
    [] s.op = "initialize" ->
         LET after == Minted(ch, s.mint, s.holder, s.mints, Signer(s.pool))
         IN  [after EXCEPT !.pool = @ @@ (s.pool :>
                [mint |-> s.mint, vaults |-> s.vaults,
                 \* history: what the pool begins with
                 begins |-> [i \in DOMAIN s.vaults |-> ch.account[s.vaults[i]].amount],
                 issued |-> after.account[s.holder].amount])]
    [] s.op = "execute" ->
         LET pool == ch.pool[s.pool]
             side(seq, sign) ==
               [a \in {seq[i] : i \in DOMAIN seq} |->
                  sign * s.moves[CHOOSE i \in DOMAIN seq : seq[i] = a]]
             moved == [ch EXCEPT !.account =
                         Gain(ch, side(s.accounts, -1) @@ side(pool.vaults, 1), s.by)]
         IN  Minted(moved, pool.mint, s.holder, -s.burns, s.by)

\* A transaction executed: the chain after it, or None if it is refused.
Executed(ch, tx) ==
  FoldLeft(LAMBDA now, s :
             IF now = None \/ ~ Allowed(now, s, tx.signers \cup {Creator})
             THEN None ELSE Effect(now, s),
           ch, tx.steps)
=============================================================================
