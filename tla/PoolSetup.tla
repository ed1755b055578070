------------------------------ MODULE PoolSetup ------------------------------
(***************************************************************************)
(* Making a pool, which takes two transactions: initializeSimplePool of    *)
(* the pool package, and makeInitializePoolTransaction of spl-token-swap.  *)
(* And using one: execute of the pool package, with a throwaway delegate   *)
(* that is to limit what the pool may take.  Calls overlap; transactions   *)
(* land late, or never, and their senders give up.                         *)
(***************************************************************************)
EXTENDS TokenChain

CONSTANTS
  Call,      \* asynchronous calls, each made once
  Lqd,       \* owners of the accounts for fees
  FeeOwner,
  Asset,     \* mints there are, with wrapped SOL among them
  Request,   \* Request[c]: what the caller of c may ask for
  Funds,     \* what the user has of each
  Supply,    \* pool tokens that a pool begins with
  MaxMove,   \* bound on what a pool asks for
  MaxSpends  \* bound on payments of the user's from the same accounts

ASSUME BoundsAssumption == {Funds, Supply, MaxMove, MaxSpends} \subseteq Nat
ASSUME AssetAssumption == Sol \in Asset

VARIABLES
  chain,    \* mints, token accounts and pools
  call,     \* call[c]: where the call c stands
  pending,  \* <<c, n>>: the n-th transaction of c is in flight
  spends

vars == <<chain, call, pending, spends>>

\* The user's token accounts, and the address at which the user's SOL lies.
Own == {Creator} \cup {Associated(Creator, m) : m \in Asset}

-----------------------------------------------------------------------------
(* initializeSimplePool.  Vaults are added in the order in which their     *)
(* addresses are found.                                                    *)

PoolMint(c) == Key(c, "mint")
SimplePool(c) == Key(c, "pool")
Vault(c, m) == Associated(Signer(SimplePool(c)), m)

Vaults(c, r, order) ==
  [i \in DOMAIN order |-> CreateAssociated(Signer(SimplePool(c)), r.mints[order[i]])]

Transfers(c, r, order) ==
  [i \in DOMAIN order |->
     Transfer(r.accounts[order[i]], Vault(c, r.mints[order[i]]), r.amounts[order[i]],
              Creator)]

Setup(c, r, order) ==
  [steps |-> <<CreateMint(PoolMint(c), Creator),
               CreateAssociated(Creator, PoolMint(c)),
               CreateAssociated(Lqd, PoolMint(c))>> \o Vaults(c, r, order),
   signers |-> {PoolMint(c)}]

\* Mutant: the authority is handed over before it is used.
Issue_AuthorityFirst(c) ==
  <<SetAuthority(PoolMint(c), Creator, Signer(SimplePool(c))),
    MintTo(PoolMint(c), Associated(Creator, PoolMint(c)), Supply, Creator)>>

\* The user mints the first pool tokens, the pool any others.
Issue(c) ==
  <<MintTo(PoolMint(c), Associated(Creator, PoolMint(c)), Supply, Creator),
    SetAuthority(PoolMint(c), Creator, Signer(SimplePool(c)))>>

\* Mutant: the vaults are passed in the order in which they were added.
VaultAddresses_AsAdded(c, r, order) == [i \in DOMAIN order |-> Vault(c, r.mints[order[i]])]

VaultAddresses(c, r, order) == [i \in DOMAIN r.mints |-> Vault(c, r.mints[i])]

Finalize(c, r, order) ==
  [steps |-> Issue(c) \o Transfers(c, r, order)
     \o <<Initialize(SimplePool(c), SimplePool(c), PoolMint(c), VaultAddresses(c, r, order),
                     Associated(Creator, PoolMint(c)), 0)>>,
   signers |-> {SimplePool(c)}]

-----------------------------------------------------------------------------
(* makeInitializePoolTransaction.  The caller passes a key pair for the    *)
(* pool or a seed; the same may be passed to another call.                 *)

SwapPool(r) == Seeded(r.address)
PoolKey(r) == IF r.address = "seed" THEN Creator ELSE SwapPool(r)

Holding(c, i) == [call |-> c, holding |-> i]

\* holdingAccounts: the last account made for the mint.
HoldingOf(c, r, m) ==
  Holding(c, CHOOSE i \in DOMAIN r.mints :
               r.mints[i] = m /\ \A j \in DOMAIN r.mints : r.mints[j] = m => j <= i)

AccountsTransaction(c, r) ==
  [steps |-> <<CreateMint(PoolMint(c), Signer(SwapPool(r)))>>
     \o [i \in DOMAIN r.mints |->
           CreateAccount(Holding(c, i), Signer(SwapPool(r)), r.mints[i], 0)]
     \o <<CreateAccount(Key(c, "depositor"), Creator, PoolMint(c), 0),
          CreateAccount(Key(c, "fee"), FeeOwner, PoolMint(c), 0)>>,
   signers |-> {PoolMint(c), Key(c, "depositor"), Key(c, "fee")}
                 \cup {Holding(c, i) : i \in DOMAIN r.mints}]

Wrapped(c) == Key(c, "wrapped")

\* A source of wrapped SOL is a new account, whatever the caller passes.
SourceTransfer(c, r, i) ==
  LET account == IF r.given[i] = Sol THEN Wrapped(c) ELSE r.accounts[i]
  IN  (IF r.given[i] = Sol
       THEN <<CreateAccount(account, Creator, Sol, r.amounts[i])>> ELSE <<>>)
        \o <<Transfer(account, HoldingOf(c, r, r.given[i]), r.amounts[i], Creator)>>

InitializeSwap(c, r) ==
  Initialize(SwapPool(r), PoolKey(r), PoolMint(c),
             <<HoldingOf(c, r, r.given[1]), HoldingOf(c, r, r.given[2])>>,
             Key(c, "depositor"), Supply)

WrappedKey(c, r) == {Wrapped(c) : i \in {j \in DOMAIN r.given : r.given[j] = Sol}}

\* Mutant: the wrapped account stays.
CleanUp_Nothing(c, r) == <<>>

CleanUp(c, r) ==
  IF WrappedKey(c, r) = {} THEN <<>> ELSE <<CloseAccount(Wrapped(c), Creator)>>

PoolTransaction(c, r) ==
  [steps |-> FlattenSeq([i \in DOMAIN r.given |-> SourceTransfer(c, r, i)])
               \o <<InitializeSwap(c, r)>> \o CleanUp(c, r),
   signers |-> {PoolKey(r)} \cup WrappedKey(c, r)]

-----------------------------------------------------------------------------
(* execute.  r.amounts is the expected basket; r.swaps, for a swap, the    *)
(* quantities asked for.                                                   *)

Delegate(c) == Key(c, "delegate")

IsWrapped(r, i) == r.accounts[i] = Creator /\ r.mints[i] = Sol

ApproveDelegate(c, r, i, amount, approveZero) ==
  IF IsWrapped(r, i) THEN <<CreateAccount(Wrapped(c), Delegate(c), Sol, amount)>>
  ELSE IF amount > 0 \/ approveZero
  THEN <<Approve(r.accounts[i], Delegate(c), amount)>> ELSE <<>>

ApproveAll(c, r, amounts, approveZero) ==
  FlattenSeq([i \in DOMAIN r.accounts |->
                ApproveDelegate(c, r, i, amounts[i], approveZero)])

\* Mutant: what is expected back is approved as well.
Due_Abs(amount) == IF amount < 0 THEN -amount ELSE amount

\* A negative quantity of the basket is to be paid.
Due(amount) == IF amount < 0 THEN -amount ELSE 0

Approvals(c, r) ==
  CASE r.action = "create" -> ApproveAll(c, r, r.amounts, TRUE)
    [] r.action = "redeem" ->
         <<Approve(r.holder, Delegate(c), r.tokens)>>
           \o ApproveAll(c, r, [i \in DOMAIN r.amounts |-> Due(r.amounts[i])], FALSE)
    [] r.action = "swap" -> ApproveAll(c, r, r.swaps, FALSE)

\* moves, burns: what the pool program asks for when it runs.
ExecuteTransaction(c, r, moves) ==
  LET wrapped == {i \in DOMAIN r.accounts : IsWrapped(r, i)}
      account(i) == IF i \in wrapped THEN Wrapped(c) ELSE r.accounts[i]
      burns == CASE r.action = "create" -> -r.tokens
                 [] r.action = "redeem" -> r.tokens
                 [] r.action = "swap"   -> 0
  IN  [steps |-> Approvals(c, r)
         \o <<Execute(r.pool, Delegate(c), [i \in DOMAIN r.accounts |-> account(i)],
                      moves, r.holder, burns)>>
         \o (IF wrapped = {} THEN <<>> ELSE <<CloseAccount(Wrapped(c), Delegate(c))>>),
       signers |-> {Delegate(c)} \cup {Wrapped(c) : i \in wrapped}]

-----------------------------------------------------------------------------
(* The calls.                                                              *)
(*   building  the rents are asked for, addresses are being found          *)
(*   first     the first transaction is sent and waits for confirmation    *)
(*   second    so is the second                                            *)
(*   done      the call has returned      failed   the call has thrown     *)

Idle == [pc |-> "idle"]
Transactions(r) == IF r.kind = "execute" THEN {1} ELSE {1, 2}

\* Sequences of the numbers 1 .. n, each once.
Orders(n) == {o \in [1 .. n -> 1 .. n] : \A i, j \in 1 .. n : i # j => o[i] # o[j]}

Init ==
  /\ chain = [mint |-> [m \in Asset |-> [authority |-> None, supply |-> Funds]],
              account |-> [a \in Own |->
                 NewAccount(Creator, IF a = Creator THEN Sol ELSE a.mint, Funds)],
              pool |-> <<>>]
  /\ call = [c \in Call |-> Idle]
  /\ pending = {}
  /\ spends = 0

\* The lengths that each function asks for.
LengthsAgree(r) ==
  /\ r.kind = "simple" => Len(r.accounts) = Len(r.mints)
  /\ r.kind # "swap" => Len(r.amounts) = Len(r.mints)

\* Without a key pair and a seed the address of the pool is read from a field that
\* key pairs do not have, and every source must be of a mint of the pool.
Throws(r) ==
  \/ ~ LengthsAgree(r)
  \/ r.kind = "swap" /\ (r.address = "none" \/ Len(r.given) < 2)
  \/ r.kind = "swap" /\ \E i \in DOMAIN r.given : \A j \in DOMAIN r.mints :
       r.given[i] # r.mints[j]

\* A pool is used after loadPoolInfo has found it.
Begin(c, r) ==
  /\ call[c] = Idle
  /\ r.kind = "execute" =>
       /\ r.pool \in DOMAIN chain.pool
       /\ r.mints = [i \in DOMAIN chain.pool[r.pool].vaults |->
                      chain.account[chain.pool[r.pool].vaults[i]].mint]
  /\ call' = [call EXCEPT ![c] =
       [pc |-> IF Throws(r) THEN "failed" ELSE "building", request |-> r,
        order |-> <<>>,
        \* history: how each transaction ended, whether it had a reason to be
        \* refused, and what it cost the user
        landed |-> [n \in Transactions(r) |-> "no"], excused |-> FALSE,
        spent |-> [a \in Own |-> 0]]]
  /\ UNCHANGED <<chain, pending, spends>>

\* The transactions are built and the first is sent.
SendFirst(c, order) ==
  /\ call[c].pc = "building"
  /\ call' = [call EXCEPT ![c].pc = "first", ![c].order = order]
  /\ pending' = pending \cup {<<c, 1>>}
  /\ UNCHANGED <<chain, spends>>

\* Confirmed, the first is followed by the second: by initializePool if it was
\* executed, by the script of the pool package whatever became of it.
SendSecond(c) ==
  /\ call[c].pc = "first"
  /\ 2 \in Transactions(call[c].request)
  /\ call[c].landed[1] # "no"
  /\ call[c].request.kind = "swap" => call[c].landed[1] = "ok"
  /\ call' = [call EXCEPT ![c].pc = "second"]
  /\ pending' = pending \cup {<<c, 2>>}
  /\ UNCHANGED <<chain, spends>>

\* The last transaction is confirmed.
Return(c) ==
  /\ call[c].pc \in {"first", "second"}
  /\ LET last == call[c].landed[IF call[c].pc = "first" THEN 1 ELSE 2]
     IN  /\ last # "no"
         /\ call[c].pc = "first" => 2 \notin Transactions(call[c].request)
         /\ call' = [call EXCEPT ![c].pc =
              IF last = "ok" \/ call[c].request.kind # "swap" THEN "done" ELSE "failed"]
  /\ UNCHANGED <<chain, pending, spends>>

\* A request fails, preflight refuses, or confirmTransaction reports an error or gives
\* up; what is in flight may still be executed.
Throw(c) ==
  /\ call[c].pc \in {"building", "first", "second"}
  /\ call' = [call EXCEPT ![c].pc = "failed"]
  /\ UNCHANGED <<chain, pending, spends>>

-----------------------------------------------------------------------------
(* The chain.                                                              *)

Build(c, n, moves) ==
  LET r == call[c].request
      o == call[c].order
  IN  CASE r.kind = "simple"  -> IF n = 1 THEN Setup(c, r, o) ELSE Finalize(c, r, o)
        [] r.kind = "swap"    -> IF n = 1 THEN AccountsTransaction(c, r)
                                          ELSE PoolTransaction(c, r)
        [] r.kind = "execute" -> ExecuteTransaction(c, r, moves)

\* What a pool may take of each token for what execute was asked.
Limit(r, i) ==
  CASE r.action = "create" -> r.amounts[i]
    [] r.action = "redeem" -> IF r.amounts[i] < 0 THEN -r.amounts[i] ELSE 0
    [] r.action = "swap"   -> IF r.swaps[i] > 0 THEN r.swaps[i] ELSE 0

Distinct(s) == \A i, j \in DOMAIN s : i # j => s[i] # s[j]

Balance(a) == chain.account[a].amount

\* Tokens in the order of the vaults, and the accounts that are to pay them.
Tokens(r) == IF r.kind = "swap" THEN r.given ELSE r.mints

Source(r, i) ==
  IF r.kind = "swap" /\ r.given[i] = Sol THEN Creator ELSE r.accounts[i]

SourceIsFit(r, i) ==
  \/ Source(r, i) = Associated(Creator, Tokens(r)[i])
  \/ Source(r, i) = Creator /\ Tokens(r)[i] = Sol /\ r.kind # "simple"

\* A reason for the chain to refuse a transaction: the request, the user's funds, the
\* pool, or that the first transaction was not executed; never how it was built.
HasReason(c, n, moves) ==
  LET r == call[c].request
  IN  \/ ~ Distinct(Tokens(r))
      \/ \E i \in DOMAIN Tokens(r) : ~ SourceIsFit(r, i)
      \/ n = 2 /\ call[c].landed[1] # "ok"
      \/ n = 2 /\ \E i \in DOMAIN r.amounts : r.amounts[i] > Balance(Source(r, i))
      \/ r.kind = "swap" /\ SwapPool(r) \in DOMAIN chain.pool
      \/ r.kind = "execute" /\
           \/ \E i \in DOMAIN moves :
                \/ moves[i] > Limit(r, i) \/ moves[i] > Balance(Source(r, i))
                \/ IsWrapped(r, i) /\ Limit(r, i) > Balance(Source(r, i))
                \/ -moves[i] > chain.account[chain.pool[r.pool].vaults[i]].amount
                \/ IsWrapped(r, i) /\ r.action = "swap" /\ r.swaps[i] < 0
           \/ r.action = "redeem" /\ r.tokens > chain.account[r.holder].amount

Moves(c) ==
  IF call[c].request.kind = "execute"
  THEN [DOMAIN call[c].request.accounts -> -MaxMove .. MaxMove] ELSE {<<>>}

Lands(c, n, moves) ==
  /\ <<c, n>> \in pending
  /\ moves \in Moves(c)
  /\ pending' = pending \ {<<c, n>>}
  /\ LET after == Executed(chain, Build(c, n, moves))
     IN  IF after = None
         THEN /\ call' = [call EXCEPT ![c].landed[n] = "refused",
                                      ![c].excused = HasReason(c, n, moves)]
              /\ chain' = chain
         ELSE /\ chain' = after
              /\ call' = [call EXCEPT
                   ![c].landed[n] = "ok",
                   ![c].spent = [a \in Own |->
                      @[a] + Balance(a) - after.account[a].amount]]
  /\ UNCHANGED spends

\* The user pays from the same accounts meanwhile.
Spend(a) ==
  /\ spends < MaxSpends /\ Balance(a) > 0
  /\ chain' = [chain EXCEPT !.account[a].amount = @ - 1]
  /\ spends' = spends + 1
  /\ UNCHANGED <<call, pending>>

Next ==
  \/ \E c \in Call :
       \/ \E r \in Request[c] : Begin(c, r)
       \/ call[c].pc = "building"
            /\ \E order \in Orders(Len(call[c].request.mints)) : SendFirst(c, order)
       \/ SendSecond(c)
       \/ Return(c)
       \/ Throw(c)
       \/ \E n \in {1, 2} : <<c, n>> \in pending /\
            \E moves \in Moves(c) : Lands(c, n, moves)
  \/ \E a \in Own : Spend(a)

Spec == Init /\ [][Next]_vars

-----------------------------------------------------------------------------
(* Properties.                                                             *)

Begun == {c \in Call : call[c].pc # "idle" /\ ~ Throws(call[c].request)}

Making == {c \in Begun : call[c].request.kind # "execute"}

PoolOf(c) ==
  IF call[c].request.kind = "simple" THEN SimplePool(c) ELSE SwapPool(call[c].request)

\* The second transaction of a call is in flight only when the first has landed.
TypeOK ==
  /\ DOMAIN chain = {"mint", "account", "pool"}
  /\ \A m \in DOMAIN chain.mint : chain.mint[m].supply \in Nat
  /\ \A a \in DOMAIN chain.account :
       /\ chain.account[a].mint \in DOMAIN chain.mint
       /\ chain.account[a].amount \in Nat /\ chain.account[a].allowance \in Nat
  /\ \A c \in Call :
       call[c].pc \in {"idle", "building", "first", "second", "done", "failed"}
  /\ \A c \in Begun : call[c].landed \in
       [Transactions(call[c].request) -> {"no", "ok", "refused"}]
  /\ \A t \in pending :
       /\ t[1] \in Begun /\ call[t[1]].landed[t[2]] = "no"
       /\ t[2] = 2 => call[t[1]].landed[1] # "no"
  /\ spends \in Nat

\* "So they get reverted if the pool creation fails": whichever of the two
\* transactions is lost, refused or late, and whatever else uses the accounts, the
\* user's tokens are the user's or in a vault of a pool that exists; and there are
\* no pool tokens of a pool that does not.
TokensAreInPools ==
  /\ \A a \in DOMAIN chain.account :
       chain.account[a].mint \in Asset /\ chain.account[a].amount > 0 =>
         \/ chain.account[a].owner = Creator
         \/ \E p \in DOMAIN chain.pool :
              \E i \in DOMAIN chain.pool[p].vaults : chain.pool[p].vaults[i] = a
  /\ \A m \in DOMAIN chain.mint \ Asset :
       chain.mint[m].supply > 0 => \E p \in DOMAIN chain.pool : chain.pool[p].mint = m

\* A pool that exists is whole: however the addresses were found and the calls
\* interleaved, each vault is of the token, and began with the amount, that the
\* caller named in its place; its first pool tokens were all the user's; and from
\* then on the pool alone can mint more.
PoolIsWhole ==
  /\ \A p \in DOMAIN chain.pool :
       \E c \in Making : PoolOf(c) = p /\ call[c].landed[2] = "ok"
  /\ \A c \in Making :
       call[c].landed[2] = "ok" =>
         LET pool == chain.pool[PoolOf(c)]
         IN  /\ pool.mint = PoolMint(c)
             /\ pool.issued = Supply
             /\ chain.mint[pool.mint].authority = Signer(PoolOf(c))
             /\ \A i \in DOMAIN pool.vaults :
                  /\ chain.account[pool.vaults[i]].mint = Tokens(call[c].request)[i]
                  /\ chain.account[pool.vaults[i]].owner = Signer(PoolOf(c))
                  /\ pool.begins[i] = call[c].request.amounts[i]

\* No tokens outside pools, and no pool that lacks any.
PoolsAreSound == TokensAreInPools /\ PoolIsWhole

\* No transaction, however it ends, leaves SOL in an account that was made to wrap
\* it, or in one whose key is thrown away.
NothingLeftWrapped ==
  \A a \in DOMAIN chain.account :
    chain.account[a].mint = Sol =>
      \/ a \in Own
      \/ \E c \in Making : chain.account[a].owner = Signer(PoolOf(c))

\* A transaction is refused for what was asked, for the funds or for the pool, never
\* for how it was built: accounts are made before they are used, authorities are
\* used before they are handed over, and every key signs.
RefusedForCause ==
  \A c \in Begun :
    (\E n \in DOMAIN call[c].landed : call[c].landed[n] = "refused") => call[c].excused

\* The delegate limits what the pool takes: whatever the pool asks for by the time
\* the transaction lands, it costs the user no more of any token than the basket
\* expected, or the quantities offered, when it was built.
NeverMoreThanExpected ==
  \A c \in Begun :
    LET r == call[c].request
    IN  \A a \in Own : call[c].spent[a] > 0 =>
          \E i \in DOMAIN Tokens(r) :
            /\ a = Source(r, i)
            /\ call[c].spent[a] <= IF r.kind = "execute" THEN Limit(r, i) ELSE r.amounts[i]
=============================================================================
