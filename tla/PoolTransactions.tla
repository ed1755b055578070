-------------------------- MODULE PoolTransactions --------------------------
(***************************************************************************)
(* The transactions of the class Pool of spl-token-swap: which accounts    *)
(* they create, approve, use, revoke and close, and who signs.  Amounts    *)
(* are in the instructions as far as they are bounds on what the swap      *)
(* program may take.                                                       *)
(*                                                                         *)
(* An account is a pair: the user's accounts are <<User, k>>, those that a *)
(* call c makes with new Account() are <<c, k>>, where k is "A" or "B" for *)
(* the pool's two tokens and "LP" for its pool token.  The key pair of the *)
(* transfer authority that c makes is c itself.                            *)
(***************************************************************************)
EXTENDS Integers, Sequences

CONSTANTS
  Call,       \* asynchronous calls, each made once
  User,       \* holder of the accounts there were before
  Authority,  \* the pool's own address, which the swap program signs for
  None

ASSUME UserAssumption == User \notin Call /\ Authority \notin Call

Side == {"A", "B"}
Other(k) == CHOOSE l \in Side : l # k

UserAccounts == {User} \X {"A", "B", "LP"}

-----------------------------------------------------------------------------
(* Instructions, those that are to undo them at the end, and new key pairs *)
(* that must sign.                                                         *)

Part(do, undo, signers) == [do |-> do, undo |-> undo, signers |-> signers]

Nothing == Part(<<>>, <<>>, {})

p (+) q == Part(p.do \o q.do, p.undo \o q.undo, p.signers \cup q.signers)

\* An account for wrapped SOL is closed again.
CreateTokenAccount(account, isWrapped) ==
  Part(<<[op |-> "create", account |-> account]>>,
       IF isWrapped THEN <<[op |-> "close", account |-> account]>> ELSE <<>>,
       {account})

\* Mutant: the approval stays.
ApproveTransfer_NoRevoke(account, delegate, amount) ==
  Part(<<[op |-> "approve", account |-> account, to |-> delegate,
          amount |-> amount]>>, <<>>, {})

ApproveTransfer(account, delegate, amount) ==
  Part(<<[op |-> "approve", account |-> account, to |-> delegate,
          amount |-> amount]>>,
       <<[op |-> "revoke", account |-> account]>>, {})

\* Version 1 of the program moves the user's tokens as the pool's authority, the
\* latest version as the transfer authority made for the transaction.
Delegate(config, c) == IF config.latest THEN c ELSE Authority

TransferSigner(config, c) ==
  IF config.latest THEN Part(<<>>, <<>>, {c}) ELSE Nothing

\* The token account used for the token k: a new one if k is wrapped SOL.
Token(config, c, k) == IF k = config.wrapped THEN <<c, k>> ELSE <<User, k>>

Wrap(config, c, k) ==
  IF k = config.wrapped THEN CreateTokenAccount(<<c, k>>, TRUE) ELSE Nothing

\* The pool tokens go to the account passed, or to a new one.
PoolTokenAccount(c, r) == IF r.lp THEN <<User, "LP">> ELSE <<c, "LP">>

NewPoolTokenAccount(c, r) ==
  IF r.lp THEN Nothing ELSE CreateTokenAccount(<<c, "LP">>, FALSE)

-----------------------------------------------------------------------------
(* Instructions of the swap program: from[a] is the most it may take out   *)
(* of the account a, by is who it takes it as.                             *)

SwapProgram(config, c, from, to) ==
  [op |-> "swapProgram", by |-> Delegate(config, c), from |-> from, to |-> to]

DepositInstruction(config, c, sourceA, sourceB, poolAccount, maxA, maxB) ==
  SwapProgram(config, c,
    [a \in {sourceA, sourceB} |-> IF a = sourceA THEN maxA ELSE maxB], {poolAccount})

DepositExactOneInstruction(config, c, source, poolAccount, amount) ==
  SwapProgram(config, c, [a \in {source} |-> amount], {poolAccount})

WithdrawInstruction(config, c, poolAccount, accountA, accountB, amount) ==
  SwapProgram(config, c, [a \in {poolAccount} |-> amount], {accountA, accountB})

WithdrawExactOneInstruction(config, c, poolAccount, account, max) ==
  SwapProgram(config, c, [a \in {poolAccount} |-> max], {account})

SwapInstruction(config, c, source, destination, amount) ==
  SwapProgram(config, c, [a \in {source} |-> amount], {destination})

-----------------------------------------------------------------------------
(* The transactions.  A request r has the amounts the caller passes and    *)
(* the side of the token that goes in, or comes out, alone.                *)

Transaction(part, instruction) ==
  [steps |-> part.do \o <<instruction>> \o part.undo, signers |-> part.signers]

\* Mutant: the second account is approved for an authority of its own.
AddLiquidity_TwoAuthorities(config, c, r) ==
  Transaction(
    Wrap(config, c, "A") (+) Wrap(config, c, "B") (+) NewPoolTokenAccount(c, r)
      (+) ApproveTransfer(Token(config, c, "A"), Delegate(config, c), r.amounts.A)
      (+) TransferSigner(config, c)
      (+) ApproveTransfer(Token(config, c, "B"),
            IF config.latest THEN None ELSE Authority, r.amounts.B),
    DepositInstruction(config, c, Token(config, c, "A"), Token(config, c, "B"),
                       PoolTokenAccount(c, r), r.amounts.A, r.amounts.B))

AddLiquidity(config, c, r) ==
  Transaction(
    Wrap(config, c, "A") (+) Wrap(config, c, "B") (+) NewPoolTokenAccount(c, r)
      (+) ApproveTransfer(Token(config, c, "A"), Delegate(config, c), r.amounts.A)
      (+) TransferSigner(config, c)
      (+) ApproveTransfer(Token(config, c, "B"), Delegate(config, c), r.amounts.B),
    DepositInstruction(config, c, Token(config, c, "A"), Token(config, c, "B"),
                       PoolTokenAccount(c, r), r.amounts.A, r.amounts.B))

\* The account approved is the new one if the token is wrapped SOL; the account
\* the deposit is to be taken from is the caller's in any case.
AddSingleSidedLiquidity(config, c, r) ==
  Transaction(
    Wrap(config, c, r.side) (+) NewPoolTokenAccount(c, r)
      (+) ApproveTransfer(Token(config, c, r.side), Delegate(config, c),
                          r.amounts[r.side])
      (+) TransferSigner(config, c),
    DepositExactOneInstruction(config, c, <<User, r.side>>,
                               PoolTokenAccount(c, r), r.amounts[r.side]))

RemoveLiquidity(config, c, r) ==
  Transaction(
    Wrap(config, c, "A") (+) Wrap(config, c, "B")
      (+) ApproveTransfer(<<User, "LP">>, Delegate(config, c), r.amounts.LP)
      (+) TransferSigner(config, c),
    WithdrawInstruction(config, c, <<User, "LP">>, Token(config, c, "A"),
                        Token(config, c, "B"), r.amounts.LP))

\* Nothing is wrapped here: the caller passes the account.
WithdrawSingleSidedLiquidity(config, c, r) ==
  Transaction(
    ApproveTransfer(<<User, "LP">>, Delegate(config, c), r.amounts.LP)
      (+) TransferSigner(config, c),
    WithdrawExactOneInstruction(config, c, <<User, "LP">>, <<User, r.side>>,
                                r.amounts.LP))

Swap(config, c, r) ==
  Transaction(
    Wrap(config, c, r.side) (+) Wrap(config, c, Other(r.side))
      (+) ApproveTransfer(Token(config, c, r.side), Delegate(config, c),
                          r.amounts[r.side])
      (+) TransferSigner(config, c),
    SwapInstruction(config, c, Token(config, c, r.side),
                    Token(config, c, Other(r.side)), r.amounts[r.side]))

-----------------------------------------------------------------------------
(* Executing a transaction, in a chain with the accounts open.             *)

Accounts(tx, op) == {tx.steps[i].account : i \in
                       {j \in DOMAIN tx.steps : tx.steps[j].op = op}}

\* A closed account is gone when the transaction ends.
OpenAfter(tx, open) == (open \cup Accounts(tx, "create")) \ Accounts(tx, "close")

OpenAt(tx, i, open) ==
  open \cup {tx.steps[j].account : j \in {k \in 1..(i - 1) : tx.steps[k].op = "create"}}

\* At step i, d may move n tokens out of the account a.
Approved(tx, i, a, d, n) ==
  \E j \in 1..(i - 1) :
    LET step == tx.steps[j]
    IN  /\ step.op = "approve"
        /\ step.account = a /\ step.to = d /\ step.amount >= n
        /\ \A k \in (j + 1)..(i - 1) :
             tx.steps[k].op \in {"approve", "revoke"} => tx.steps[k].account # a

\* Approvals that the transaction makes and does not take back.
LeftApproved(tx) ==
  {a \in Accounts(tx, "approve") :
     \E i \in DOMAIN tx.steps :
       /\ tx.steps[i].op = "approve" /\ tx.steps[i].account = a
       /\ \A j \in (i + 1)..Len(tx.steps) :
            tx.steps[j].op = "revoke" => tx.steps[j].account # a}

\* Every account exists that is used, every new key pair has signed, and the swap
\* program may take what it is told to.
WellFormed(tx, open) ==
  \A i \in DOMAIN tx.steps :
    LET step == tx.steps[i]
    IN  /\ step.op = "create" =>
             step.account \in tx.signers /\ step.account \notin OpenAt(tx, i, open)
        /\ step.op \in {"approve", "revoke", "close"} =>
             step.account \in OpenAt(tx, i, open)
        /\ step.op = "swapProgram" =>
             /\ DOMAIN step.from \cup step.to \subseteq OpenAt(tx, i, open)
             /\ step.by \in tx.signers \cup {Authority}
             /\ \A a \in DOMAIN step.from :
                  Approved(tx, i, a, step.by, step.from[a])
=============================================================================
