-------------------------------- MODULE Pools --------------------------------
(***************************************************************************)
(* The class Pool of spl-token-swap over a chain that others change too:   *)
(* its cache of the pool's mint and holdings, and the calls that read it,  *)
(* build a transaction and send it.  Calls overlap as in OpenOrdersClient: *)
(* the node's answer is one moment, the continuation after it another, and *)
(* a transaction may land after its sender has given up.                   *)
(***************************************************************************)
EXTENDS PoolTransactions, FiniteSets

CONSTANTS
  Request,     \* Request[c]: what the caller of c may ask for
  Config,      \* pools: program version, which token is wrapped SOL, curve
  PoolState,   \* what trades make of a pool
  SlipUnit,    \* slippage tolerances are fractions slip / SlipUnit
  SixMinutes,  \* cache durations
  Hour,
  Start,       \* the time at which the Pool object is made
  MaxClock,    \* bound on time
  MaxTrades    \* bound on trades of others

\* addLiquidity, removeLiquidity and swap send what they build; the one sided
\* transactions are sent by the caller.
Kind == {"add", "addOne", "remove", "withdrawOne", "swap"}
Key == {"mint", "A", "B"}
Duration == {0, SixMinutes, Hour}

ASSUME SlipAssumption == SlipUnit \in Nat \ {0}
ASSUME TimeAssumption ==
  /\ SixMinutes \in Nat /\ Hour \in Nat /\ Start \in Nat
  /\ 0 < SixMinutes /\ SixMinutes < Hour
ASSUME PoolAssumption ==
  /\ PoolState \subseteq [Key -> Nat \ {0}]
  /\ Config \subseteq [latest : BOOLEAN, wrapped : Side \cup {None},
                       constantPrice : BOOLEAN]
\* provides: the tokens for which removeLiquidity is passed an account.
ASSUME RequestAssumption ==
  Request \in [Call -> SUBSET
    [kind : Kind, side : Side, amounts : [Side \cup {"LP"} -> Nat],
     slip : 0..SlipUnit, lp : BOOLEAN, provides : SUBSET Side]]

VARIABLES
  clock,      \* timeMs()
  config,     \* the pool, decoded when it was loaded
  pool,       \* chain: supply of the pool token, and what the pool holds
  open,       \* chain: the user's token accounts
  approved,   \* chain: those with a delegate
  cache,      \* _mintAccountsCache, _tokenAccountsCache; asOf is history
  call,       \* call[c]: where the call c stands
  pending,    \* calls whose transaction is in flight
  past,       \* history: every <<value, time>> of each key
  trades      \* how often others have traded

vars == <<clock, config, pool, open, approved, cache, call, pending, past, trades>>
chain == <<pool, open, approved, past, trades>>

-----------------------------------------------------------------------------
Entry == [value : Nat, ts : Nat, asOf : Nat]

\* A call of cached.
Unread == [state |-> "idle"]
Failed == [state |-> "failed"]
Returned(duration, value) ==
  [state |-> "returned", duration |-> duration, value |-> value]

Asked == [state : {"asked"}, duration : Duration, start : Nat]
Answered == [state : {"answered"}, duration : Duration, start : Nat,
             value : Nat, asOf : Nat]
Read == Asked \cup Answered \cup [state : {"returned"}, duration : Duration, value : Nat]
          \cup {Unread, Failed}

(***************************************************************************)
(* pc:  reading   mint and holdings are read through the cache             *)
(*      sent      sendTransaction waits for the confirmation               *)
(*      done      the call has returned     failed   the call has thrown   *)
(***************************************************************************)
Idle == [pc |-> "idle"]

Running ==
  [pc : {"reading", "sent", "done", "failed"},
   request : UNION {Request[c] : c \in Call},
   read : [Key -> Read],
   \* history: how the transaction ended, the pool a deposit then found
   outcome : {"none", "ok", "malformed", "slippage", "refused"},
   found : [Key -> Nat]]

\* A swap reads no holdings.
Needs(kind) == IF kind = "swap" THEN {"mint"} ELSE Key

TypeOK ==
  /\ clock \in Nat
  /\ config \in Config
  /\ pool \in [Key -> Nat \ {0}]
  /\ open \subseteq (Call \cup {User}) \X {"A", "B", "LP"}
  /\ approved \subseteq (Call \cup {User}) \X {"A", "B", "LP"}
  /\ cache \in [Key -> Entry \cup {None}]
  /\ call \in [Call -> Running \cup {Idle}]
  /\ pending \subseteq Call
  /\ \A c \in pending :
       /\ call[c].pc \in {"sent", "failed"} /\ call[c].outcome = "none"
       /\ \A k \in Needs(call[c].request.kind) : call[c].read[k].state = "returned"
  /\ past \in [Key -> SUBSET (Nat \X Nat)]
  /\ trades \in Nat

Init ==
  /\ clock = Start
  /\ config \in Config
  /\ pool \in PoolState
  /\ open = UserAccounts
  /\ approved = {}
  /\ cache = [k \in Key |-> None]
  /\ call = [c \in Call |-> Idle]
  /\ pending = {}
  /\ past = [k \in Key |-> {<<pool[k], clock>>}]
  /\ trades = 0

-----------------------------------------------------------------------------
(* cached.                                                                 *)

CacheHit(k, d) == cache[k] # None /\ clock - cache[k].ts < d

\* cached, to its first await: a young enough entry, or a request.
Cached(k, d) ==
  IF CacheHit(k, d) THEN Returned(d, cache[k].value)
  ELSE [state |-> "asked", duration |-> d, start |-> clock]

\* The node evaluates the request.
NodeReads(c, k) ==
  /\ call[c] # Idle
  /\ call[c].read[k].state = "asked"
  /\ call' = [call EXCEPT ![c].read[k] =
       [state |-> "answered", duration |-> @.duration, start |-> @.start,
        value |-> pool[k], asOf |-> clock]]
  /\ UNCHANGED <<clock, config, chain, cache, pending>>

\* Mutant: the entry is stamped when the answer arrives.
StoreInCache_StampedOnArrival(c, k) ==
  /\ call[c] # Idle
  /\ call[c].read[k].state = "answered"
  /\ cache' = [cache EXCEPT ![k] =
       [value |-> call[c].read[k].value, ts |-> clock,
        asOf |-> call[c].read[k].asOf]]
  /\ call' = [call EXCEPT ![c].read[k] = Returned(@.duration, @.value)]
  /\ UNCHANGED <<clock, config, chain, pending>>

\* cached, after its await: the answer is stored under the time at which it was
\* requested, whatever the cache holds by now.
StoreInCache(c, k) ==
  /\ call[c] # Idle
  /\ call[c].read[k].state = "answered"
  /\ cache' = [cache EXCEPT ![k] =
       [value |-> call[c].read[k].value, ts |-> call[c].read[k].start,
        asOf |-> call[c].read[k].asOf]]
  /\ call' = [call EXCEPT ![c].read[k] = Returned(@.duration, @.value)]
  /\ UNCHANGED <<clock, config, chain, pending>>

-----------------------------------------------------------------------------
(* The calls.                                                              *)

\* How old each call lets the mint and the holdings be.
Age(kind, k) ==
  CASE kind \in {"remove", "swap"}               -> Hour
    [] kind = "add" /\ k = "mint"                -> SixMinutes
    [] kind = "add" /\ k # "mint"                -> 0
    [] kind \in {"addOne", "withdrawOne"}        -> 0

\* One sided calls are for pools of constant price, which version 1 lacks.
Begin(c, r) ==
  /\ call[c] = Idle
  /\ r.kind \in {"addOne", "withdrawOne"} => config.latest /\ config.constantPrice
  /\ call' = [call EXCEPT ![c] =
       [pc |-> "reading", request |-> r,
        read |-> [k \in Key |-> IF k = "mint" THEN Cached(k, Age(r.kind, k)) ELSE Unread],
        outcome |-> "none", found |-> [k \in Key |-> 0]]]
  /\ UNCHANGED <<clock, config, chain, cache, pending>>

HasReturned(c, k) == call[c].read[k].state = "returned"

\* The holdings are read one after the other, after the mint.
ReadHolding(c, k) ==
  /\ call[c].pc = "reading"
  /\ k \in Needs(call[c].request.kind) \cap Side
  /\ call[c].read[k] = Unread
  /\ \A l \in {"mint"} \cup {m \in Side : k = "B" /\ m = "A"} : HasReturned(c, l)
  /\ call' = [call EXCEPT ![c].read[k] = Cached(k, Age(call[c].request.kind, k))]
  /\ UNCHANGED <<clock, config, chain, cache, pending>>

HasRead(c) ==
  /\ call[c].pc = "reading"
  /\ \A k \in Needs(call[c].request.kind) : HasReturned(c, k)

\* removeLiquidity wants an account for each token that it does not wrap.
Provided(r) ==
  r.kind = "remove" => \A k \in Side \ {config.wrapped} : k \in r.provides

Build(c) ==
  LET r == call[c].request
  IN  CASE r.kind = "add"         -> AddLiquidity(config, c, r)
        [] r.kind = "addOne"      -> AddSingleSidedLiquidity(config, c, r)
        [] r.kind = "remove"      -> RemoveLiquidity(config, c, r)
        [] r.kind = "withdrawOne" -> WithdrawSingleSidedLiquidity(config, c, r)
        [] r.kind = "swap"        -> Swap(config, c, r)

SendTransaction(c) ==
  /\ HasRead(c)
  /\ Provided(call[c].request)
  /\ call' = [call EXCEPT ![c].pc = "sent"]
  /\ pending' = pending \cup {c}
  /\ UNCHANGED <<clock, config, chain, cache>>

\* A request fails: of the mint or a holding, of the rent exemption, or the one
\* that sends the transaction; or an account is not provided.
RequestFails(c) ==
  /\ call[c].pc = "reading"
  /\ call' = [call EXCEPT ![c].pc = "failed",
       ![c].read = [k \in Key |-> IF @[k].state \in {"asked", "answered"}
                                  THEN Failed ELSE @[k]]]
  /\ UNCHANGED <<clock, config, chain, cache, pending>>

\* confirmTransaction gives up; the transaction may still be in flight.
ConfirmTimesOut(c) ==
  /\ call[c].pc = "sent"
  /\ call' = [call EXCEPT ![c].pc = "failed"]
  /\ UNCHANGED <<clock, config, chain, cache, pending>>

-----------------------------------------------------------------------------
(* Deposits.                                                               *)

\* What the call c has read.
Used(c) == [k \in Key |-> call[c].read[k].value]

CeilDiv(a, b) == (a + b - 1) \div b
Min(a, b) == IF a <= b THEN a ELSE b

\* Mutant: the larger of the two.
Liquidity_Max(r, used) ==
  LET Worth(k) == (r.amounts[k] * (SlipUnit - r.slip) * used["mint"])
                    \div (SlipUnit * used[k])
  IN  IF Worth("A") >= Worth("B") THEN Worth("A") ELSE Worth("B")

\* The pool tokens that addLiquidity asks for: what the smaller of the two amounts
\* is worth, less the tolerance.  Encoding drops the fraction.
Liquidity(r, used) ==
  LET Worth(k) == (r.amounts[k] * (SlipUnit - r.slip) * used["mint"])
                    \div (SlipUnit * used[k])
  IN  Min(Worth("A"), Worth("B"))

\* What the swap program takes for them.
Price(liquidity, k) == CeilDiv(liquidity * pool[k], pool["mint"])

Deposit(c) ==
  LET r == call[c].request
      liquidity == Liquidity(r, Used(c))
      took == [k \in Side |-> Price(liquidity, k)]
  IN  [outcome |-> IF liquidity = 0 THEN "refused"
                   ELSE IF \E k \in Side : took[k] > r.amounts[k] THEN "slippage"
                   ELSE "ok",
       pool |-> [k \in Key |-> pool[k] + IF k = "mint" THEN liquidity ELSE took[k]]]

-----------------------------------------------------------------------------
(* The chain.  A transaction that expires stays pending for ever.          *)

SetPool(p) ==
  /\ pool' = p
  /\ past' = [k \in Key |-> past[k] \cup {<<p[k], clock>>}]

\* The transaction is executed, or refused as a whole; a sender that still waits is
\* told.
Executed(c, outcome) ==
  /\ pending' = pending \ {c}
  /\ call' = [call EXCEPT
       ![c].outcome = outcome,
       ![c].found = IF call[c].request.kind = "add" THEN pool ELSE @,
       ![c].pc = IF @ # "sent" THEN @ ELSE IF outcome = "ok" THEN "done" ELSE "failed"]
  /\ IF outcome = "ok"
     THEN /\ open' = OpenAfter(Build(c), open)
          /\ approved' = approved \cup LeftApproved(Build(c))
     ELSE UNCHANGED <<open, approved>>
  /\ UNCHANGED <<clock, config, cache, trades>>

DepositLands(c) ==
  /\ c \in pending
  /\ call[c].request.kind = "add"
  /\ WellFormed(Build(c), open)
  /\ LET deposit == Deposit(c)
     IN  /\ Executed(c, deposit.outcome)
         /\ IF deposit.outcome = "ok" THEN SetPool(deposit.pool)
                                      ELSE UNCHANGED <<pool, past>>

\* What other transactions make of the pool is left open.
OtherLands(c) ==
  /\ c \in pending
  /\ call[c].request.kind # "add"
  /\ WellFormed(Build(c), open)
  /\ \E p \in PoolState : SetPool(p)
  /\ Executed(c, "ok")

\* For want of funds, for example, or of what a swap must yield.
TransactionErrs(c) ==
  /\ c \in pending
  /\ Executed(c, IF WellFormed(Build(c), open) THEN "refused" ELSE "malformed")
  /\ UNCHANGED <<pool, past>>

\* Others deposit, withdraw and swap.
OthersTrade(p) ==
  /\ trades < MaxTrades
  /\ trades' = trades + 1
  /\ p # pool
  /\ SetPool(p)
  /\ UNCHANGED <<clock, config, open, approved, cache, call, pending>>

Tick ==
  /\ clock < MaxClock
  /\ clock' = clock + 1
  /\ past' = [k \in Key |-> past[k] \cup {<<pool[k], clock + 1>>}]
  /\ UNCHANGED <<config, pool, open, approved, cache, call, pending, trades>>

-----------------------------------------------------------------------------
Next ==
  \/ \E c \in Call :
       \/ \E r \in Request[c] : Begin(c, r)
       \/ \E k \in Key : NodeReads(c, k) \/ StoreInCache(c, k) \/ ReadHolding(c, k)
       \/ SendTransaction(c)
       \/ RequestFails(c)
       \/ ConfirmTimesOut(c)
       \/ DepositLands(c)
       \/ OtherLands(c)
       \/ TransactionErrs(c)
  \/ \E p \in PoolState : OthersTrade(p)
  \/ Tick

Spec == Init /\ [][Next]_vars

-----------------------------------------------------------------------------
(* Properties.                                                             *)

\* However transactions of overlapping calls land, none leaves an approval on an
\* account of the user, or an account that was made to wrap SOL.
NothingLeftBehind ==
  /\ approved = {}
  /\ open \subseteq UserAccounts \cup (Call \X {"LP"})

\* A transaction is executed or refused for what the pool then is, never for how it
\* was built: whatever the version of the program and whichever token is wrapped,
\* accounts exist when they are used, and the swap program may take what it is
\* told to.  Except for a deposit of wrapped SOL alone, where makeAddSingleSided-
\* LiquidityTransaction approves one account and deposits from another.
OnlyThePoolRefuses ==
  \A c \in Call :
    call[c] # Idle /\ call[c].outcome = "malformed" =>
      call[c].request.kind = "addOne" /\ call[c].request.side = config.wrapped

\* addLiquidity's slippageTolerance: a deposit is refused for slippage only if one
\* of the tokens per pool token has become dearer by more than the tolerance since
\* the call read it, be it in a supply six minutes old or in holdings read after
\* one another.
SlippageIsTolerated ==
  \A c \in Call :
    call[c] # Idle /\ call[c].request.kind = "add" /\ call[c].outcome = "slippage" =>
      \E k \in Side :
        LET used  == Used(c)
            found == call[c].found
        IN  found[k] * used["mint"] * (SlipUnit - call[c].request.slip)
              > used[k] * found["mint"] * SlipUnit

\* The read of the key k by the call c, as its caller sees it.
ReadOf(c, k) ==
  IF call[c] = Idle THEN Unread
  ELSE LET read == call[c].read[k]
       IN  CASE read.state \in {"asked", "answered"} ->
                  [state |-> "asked", key |-> k, tolerance |-> read.duration,
                   start |-> read.start]
             [] read.state = "returned" ->
                  [state |-> "returned", key |-> k, tolerance |-> read.duration,
                   value |-> read.value]
             [] read.state \in {"idle", "failed"} -> read

Reads == INSTANCE BoundedStaleness WITH
  Value <- Nat, Reader <- Call \X Key, Tolerance <- Duration,
  now <- clock, source <- pool, read <- [r \in Call \X Key |-> ReadOf(r[1], r[2])]

\* cached keeps what cacheDurationMs promises: every mint and holding it returns is
\* what the chain had while it ran or less than cacheDurationMs before, however
\* the reads of overlapping calls, with different durations, interleave.
ReadsAreFreshEnough == Reads!Spec
=============================================================================
