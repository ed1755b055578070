# A verification project for serum-ts

serum-ts is a monorepo of TypeScript clients for programs on the Solana
blockchain: the Serum DEX, its swap front end, token-swap pools, and the
staking and lockup application of the registry program. The programs that run
on chain are not in the repository. What the repository is responsible for is
what happens on the client's side of an asynchronous interface: requests that
are answered late, in another order than they were made or not at all,
transactions that may land after their sender has given up, caches, a store
that several unfinished calls write to, and the decoding of data structures
that the programs keep in accounts.

The modules here model that. JavaScript is single-threaded: an asynchronous
function runs without interruption from one `await` to the next, and any other
function may run in between. So an action of these modules is one piece of a
function between two awaits (or one event handler), with every assignment and
dispatch it makes. The RPC node, the chain, the on-chain programs and the
wallet are modelled only as far as the code depends on them. Definitions of
that kind are marked `external` in `PROJECT.json`.

## 1. Inventory

Paths are relative to `src/packages`.

| Part | Source | State it keeps | Operations | What is hard |
|---|---|---|---|---|
| Market: open orders and orders | `serum/src/market.ts` | `_openOrdersAccountsCache`, keyed by owner | `findOpenOrdersAccountsForOwner`, `makePlaceOrderTransaction`, `placeOrder`, `_sendTransaction` | overlapping lookups, answers older than the entry they overwrite, invalidation of an entry while a lookup waits, transactions that land late |
| Market: an owner's orders, fee discounts, cancel, settle, match | `serum/src/market.ts`, `fees.ts` | `_feeDiscountKeysCache` | `loadOrdersForOwner`, `findFeeDiscountKeys`, `findBestFeeDiscountKey`, `make...Transaction` | answers of several requests, each of its own moment, joined; a list from a cache among them |
| Event queue and fills | `serum/src/queue.ts`, `market.ts` | none; decodes a ring buffer | `decodeQueue`, `loadEventQueue`, `loadFills`, `parseFillEvent` | wrap-around, limits above and below the ring, a ring not yet filled, signs of fees |
| Slab and order book | `serum/src/slab.ts`, `market.ts` | a decoded snapshot, modified in place by `getL2` | `Slab.get`, `Slab.items`, `Orderbook.decode`, `getL2` | tree walks, suspended generators, shared number objects |
| DEX instructions, layouts, errors, market list | `serum/src/instructions.ts`, `layout.js`, ... | none | encoding and decoding of bytes | bytes only |
| stake-ui store | `stake-ui/src/store` | the redux state | one reducer case per action | in-place changes of shared arrays, resets |
| stake-ui session | `stake-ui/src/components/common` | wallets with their listeners, reward-queue subscriptions | connect, disconnect, change of network, bootstrap, shutdown, refresh, change of registrar, new vesting account | calls of an earlier session that finish in a later one, effects, events of old wallets |
| stake-ui staking and withdrawals | `stake-ui/src/components/Stake.tsx`, `common/MyNode.tsx` | part of the store | create a stake account, start and end withdrawals, list pending withdrawals | a list answered after the registrar or the list changed, three transactions in a row |
| stake-ui rewards | `stake-ui/src/components/rewards`, `utils/registry.ts` | vendors fetched by the page | drop, claim, expire; choose the reward to offer | a ring, its cursors and the member copied at different moments |
| stake-ui vesting accounts | `stake-ui/src/components/lockups` | the list in the store, a card per account | create, deposit, withdraw, list; the schedule | cards that keep their state by position, lists stored whole |
| stake-ui multisig | `stake-ui/src/components/multisig` | the account and its transactions as fetched and notified | create, propose, approve, execute | owners who change while the page shows their approvals, subscriptions that start late |
| swap client | `swap/src/index.ts` | the open-orders accounts of a wallet, on chain | `tokens`, `pairs`, `initAccounts`, `closeAccounts`, `estimate`, `swap` | a `catch` that takes every error for another route |
| token-swap pools | `spl-token-swap/src/pools.ts`, `instructions.ts` | `_mintAccountsCache`, `_tokenAccountsCache` | deposits and withdrawals on one side or both, `swap`, `initializePool` | a cached supply divided by fresh reserves; accounts made for wrapped SOL, approvals and their signers, in two versions of the program; a pool made by two transactions |
| pool package | `pool/src` | none | `initializeSimplePool`, `execute`, `getBasket`, encodings | the split into two transactions, the order of vaults, a throwaway delegate |
| provider and helpers | `common/src/provider.ts` | none | `send`, `sendAll` (in `StakeRegistry`) | the third of three transactions failing |
| token, associated-token, borsh, tokens | `token`, `associated-token`, `borsh`, `tokens` | none | encodings, tables | bytes only |

How they interact: `swap`, `stake-ui` and applications call `serum`, `common`
and the program clients; those call the node. In `stake-ui` the components
share the store, through dispatches, and the wallet, through events; the node
calls back into it for the reward queue it is subscribed to.

`PROJECT.json` lists, under `hazards`, everything in this code that we found
hard to test, each at its line, with the property that covers it or a note on
why there is none.

## 2. Modules

| Module | What it is |
|---|---|
| `BoundedStaleness` | abstract: a read that returns a value the source had at a moment the reader accepts |
| `OpenOrdersClient` | the open-orders cache, lookups and `placeOrder` of `Market`; implements `BoundedStaleness` |
| `OpenOrdersProofs` | its inductive invariant, its safety theorems and its refinement, proved |
| `MCOpenOrders` | model-checking instance |
| `MarketReads` | `loadOrdersForOwner` and `findBestFeeDiscountKey`, each joining several requests and a cache |
| `MCMarketReads` | model-checking instance |
| `Fifo` | abstract: a bounded first-in first-out queue |
| `EventQueue` | ring buffer, `decodeQueue`, `loadFills`, `parseFillEvent`; its pending part implements `Fifo` |
| `MCEventQueue` | model-checking instance |
| `MarketReadsProofs` | of `MarketReads`: its inductive invariant and both its properties; of `EventQueue`: its properties and its refinement; of `Slab` and `Orderbook`: that a slab stays a crit-bit tree, `GetFindsOrders` and `ItemsInOrder`, proved |
| `Slab` | crit-bit tree, `Slab.get`, and the DEX program's insertion and removal |
| `Orderbook` | decoding, the generator `items`, `getL2`; extends `Slab` |
| `MCOrderbook` | model-checking instance |
| `StakeStore` | the redux store of stake-ui: one operator on states per action type |
| `StakeSession` | the life of a session over that store; extends `StakeStore` |
| `StakeSessionProofs` | its inductive invariant and all its safety properties, proved |
| `MCStakeSession` | model-checking instance |
| `StakeRegistry` | the staking page over that store, with `send` and `sendAll`; extends `StakeStore` |
| `StakeRegistryProofs` | its inductive invariant and all its properties, proved |
| `MCStakeRegistry` | model-checking instance |
| `StakeRewards` | rewards and vesting accounts: the chain, the copies, the buttons and cards, the vesting schedule |
| `StakeRewardsProofs` | its invariant, that no reward is forfeited, the offer, the list and cards, the schedule, proved |
| `MCStakeRewards` | model-checking instance |
| `Multisig` | the multisig page, its dialogs and the program |
| `MultisigProofs` | its inductive invariant and all its properties, proved |
| `MCMultisig` | model-checking instance |
| `SwapPaths` | the markets over which a swap goes |
| `SwapQueries` | `tokens` and `pairs`; extends `SwapPaths` |
| `SwapAccounts` | the open-orders accounts of a wallet under `initAccounts`, `closeAccounts` and `swap`; extends `SwapPaths`, instantiates `SwapQueries` |
| `SwapProofs` | its inductive invariant and all its properties, proved |
| `MCSwapAccounts` | model-checking instance |
| `PoolTransactions` | what the five transactions of a pool create, approve, use, revoke and close |
| `Pools` | the cache of a pool, its calls and their transactions; extends `PoolTransactions`, implements `BoundedStaleness` |
| `PoolsProofs` | its inductive invariant, all its properties and its refinement, proved |
| `MCPools` | model-checking instance |
| `TokenChain` | the instructions of the token, pool and swap programs: when each is accepted, what it does |
| `PoolSetup` | making a pool in two transactions, in both packages, and `execute`; extends `TokenChain` |
| `MCPoolSetup` | model-checking instance |

### 2.1 OpenOrdersClient

One record per asynchronous call holds its program counter and the local
variables the code keeps across awaits: the owner, `cacheDurationMs`, `now` of
the lookup, the list found, the address chosen. `cache` is
`_openOrdersAccountsCache`; an entry has, besides the accounts and `ts`, a
history field `asOf`, the time at which the node read the list.

* `Lookup` is the code up to the first await: a cache hit is answered at once.
* `GetProgramAccounts` is the node evaluating the request, `StoreInCache` the
  continuation. They are apart, so that an answer can be older than the entry
  it overwrites.
* `BuildWithNewAccount` and `BuildWithAccount` are the two branches of
  `makePlaceOrderTransaction`; both may end in `built` or, if a later part of
  the function throws (a payer that is the wallet itself, a size below one lot,
  a price below one tick), in `failed`. The first marks the cache entry expired
  in either case.
* `SendTransaction` and `ConfirmTimesOut` are `_sendTransaction`; a
  transaction lands once, errs, or expires, also after its sender gave up.
* `CloseOpenOrders` is the chain's side of closing an account, by anyone.

Left out: amounts, prices, the instructions' contents, the fee-discount key
(only that its request may fail), wrapped SOL accounts.

### 2.2 EventQueue

`slots`, `head` and `count` are the account as the layouts of `queue.ts` decode
it. The DEX program pushes behind the pending events and consumes from the
head; a consumed slot keeps its bytes until it is overwritten. `LoadFills`
decodes at the moment the node reads the account (what happens between reading
and answering cannot change what is decoded). `FillEvent` says what the DEX
program reports of one trade to each side, `ParseFillEvent` is the code's
inversion. Divisions are kept as exact ratios: `divideBnToNumber` goes through
floating point, which is not modelled.

### 2.3 Slab and Orderbook

A key is a function from bit numbers to bits. `Get` is the loop of `Slab.get`,
with the prefix test and the choice of the child. The tree is made and changed
by the DEX program, modelled from what the decoder requires: every shape it can
take for the given keys is reached. (It takes the lowest free index for a new
node; the reader never depends on which index a node has.) `Items`, `Pop` and
`IteratorEnds` are the generator: its stack is in the state, so that its
consumer can call `getL2` between two orders. `Collected` is the loop of `getL2` as
a fold; `GetL2` answers with it and has its side effect: `iadd` adds in place to
the quantity object of the level's first order. `IsCritBit` says what a slab must
be for the code to read it: the DEX program's insertion and removal keep it so
(proved), nothing in the package checks it.

### 2.4 StakeStore and StakeSession

`StakeStore` has one operator per reducer case, from state to state, so that
components dispatch by composing them. The array `initialState.lockup.vestings`
is modelled by a reference (`Shared`) and its contents (`shared`), since the
reducer's copy of `initialState` is one level deep and `unshift` works in
place.

`StakeSession` composes the store with the wallets (`WalletProvider` makes one
per network; the listeners of the old ones stay), the asynchronous calls
(bootstrap, refresh, change of registrar, new vesting account), each with what
it captured when it began (their number and how many are under way at a time,
`MaxOverlap`, are bounds; they are interchangeable and taken in a fixed order), the reward-queue subscriptions and the chain. An
action of a call is one answer with the dispatches that follow it.

The effect of `BootstrapProvider` runs after the render that follows a
dispatch. Two guards say so: `Bootstrap` and `Shutdown` need their trigger,
and every handler needs both triggers clear (`EffectsRun`).

Simplifications, each with its reason:

* accounts always fetched and stored together have one key (a registrar with
  its mint and reward queue; the vaults of a member), and the three requests of
  `fetchRegistrars` are one, whose failure ends the call at any of them;
* one user; the address of a member account is a function of the registrar;
* vestings and withdrawals are sets: their order is only shown, not used;
* a `fetchMembers` of which one request failed gives up the other answers:
  they could only add vaults, which nothing relates to the failed bootstrap.

### 2.5 SwapAccounts

A market is a pair of a stable coin and a token; `Listed` is the token list.
`Legs` gives the markets a call needs over one stable coin: one for a direct
swap, two for a transitive one. `FirstQuote` is `usdcPathExists` (these are in
`SwapPaths`): `swap` decides
by the token list alone, while `initAccounts` and `closeAccounts` try USDC and
catch. `Throw` is that `catch`: of a transitive attempt over USDC it makes a new
attempt over USDT, whatever the error was, and of every other the end of the
call.

`Look` is the node evaluating `findForMarketAndOwner` for one leg.
`InitAccounts`, `CloseAccounts` and `Swap` are the code between the last of these
answers and the next await, with the errors it throws. `MakeCreateAccount` is the
continuation of one `makeCreateAccountTransaction`: its instruction joins the
others in the order of the code. `Send`, `ConfirmTimesOut` and the `Transaction...`
actions are the provider and the chain; a transaction is executed as a whole or
not at all, and also after its sender gave up.

Four history variables serve the properties: `always` (the markets that had an
account all through a call), `closed`, `faulty` (calls of which a request
failed) and `overlapped`.

Simplifications: the requests of `Market.load`, of `estimate` and of the
associated token addresses change nothing and appear only in that they may fail
(`RequestFails`); amounts are left out; the signers that `swapTransitiveIxs`
adds without need are a reason for a failure before sending.

`SwapQueries` is `tokens` and `pairs` for one token list. `PairsHavePaths`
instantiates it for every token list of the tokens there are and compares `Pairs`
with the paths `swap` can take.

### 2.6 StakeRegistry

The same store after a bootstrap, and the calls of the staking page:
`CreateStakeAccount`, `RedeemPoolTokens`, `EndPendingWithdrawal`, the effect
of `RedemptionList` (`RequestList`) and `RegistrarSwitch`. A call keeps the
registrar, the member and, for a change of registrar, the accounts of the render
in which it began (`Begin`), and dispatches into the store as it is when its
answers come. `SendTransaction` and `Confirmed` are `Provider.sendAll` (all
transactions signed first, each sent when the one before is confirmed) and
`send`, its case of one transaction. An answer of the node is read at one moment
(`NodeReads`) and stored at another (`ListAnswered`, `WithdrawalFetched`).

The list of pending withdrawals is stored without the registrar it is of, and a
withdrawal is stored whatever registrar is selected by then; so what the page
shows can be wrong until the next change of registrar, which resets it. The
history variable `since` remembers the three ways in which that happens, and the
properties say that there is no fourth:

* `crossed`: a call begun under another registrar has dispatched;
* `outdated`: an answer that the node read before a dispatch was stored after it
  (a list requested before an unstaking or a completion ended, answered after);
* `listLost`: a list was never stored, because its request failed (it has no
  handler) or because a new withdrawal became the whole list before.

Simplifications: the list is a set (a withdrawal that is both in the list read
and created afterwards is shown twice); the addresses that `createStakeAccount`
generates are not kept, only which of its three transactions were executed.

### 2.7 PoolTransactions and Pools

A transaction is composed of parts, each with the instructions it adds, those
that undo them at the end and the key pairs that must sign: `CreateTokenAccount`
and `ApproveTransfer` are the two helpers at the end of `pools.ts`, `Delegate`
and `TransferSigner` the two uses of `isLatest`. An instruction of the swap
program has the accounts it takes from, with the most it may take, and those it
gives to. `WellFormed` is what the token program asks of such a list: accounts
exist, new key pairs have signed, and each amount is approved for the authority
that takes it.

`Pools` runs these over a cache and a chain. A call reads the supply and then
the two holdings through `Cached`; as in `OpenOrdersClient`, the node's answer
(`NodeReads`) and its arrival (`StoreInCache`) are apart. Each call lets them be
of the age the code passes (`Age`): 0, six minutes or an hour. `Liquidity` is
what `addLiquidity` asks for, the fraction dropped as the encoding does. When a
deposit lands, `Deposit` is the swap program's answer, for the pool as it is
then; what other transactions make of the pool is left open. The history fields
`found` and `took` keep the pool that a deposit met and what it took.

Simplifications: amounts of one sided calls and swaps are only bounds, since
their prices are the program's; a swap also reads the mints of its two tokens,
whose decimals never change; an undoing instruction may use an account that was
closed earlier in the same transaction, as the token program of that time
allowed.

### 2.8 TokenChain and PoolSetup

`TokenChain` has an operator for each instruction the clients send, `Allowed`, the
condition under which its program accepts it, and `Effect`; `Executed` is the
runtime, which executes all of a transaction or none.

`PoolSetup` builds the transactions out of these as the code does.
`initializeSimplePool` gives `Setup` and `Finalize`; the addresses of the vaults
are found in any order, in which they are added to both transactions, while
`VaultAddresses` follows the assets. `makeInitializePoolTransaction` gives
`AccountsTransaction` and `PoolTransaction`; the caller names the pool by a key or
a seed, which another call may have used too, and without either the call throws
(`Throws`, `pools.ts:934`). `ExecuteTransaction` is `execute`, with the approvals
for its delegate made from the expected basket. `SendFirst`, `SendSecond` and
`Return` are `initializePool`, which goes on only if the first transaction was
executed, and the script of the pool package, which goes on whatever became of it.
Transactions land late, are refused or never land. A pool program asks for any
amounts up to a bound (`Moves`), so what limits it is what was approved.

Simplifications: rents and fees are left out; `makeInitializePoolTransaction` is
called with two sources (a third would pay into an account that is not the
pool's); fees of the pool programs are not taken.

### 2.9 MarketReads

`past` is the history of the chain, each state with the time since when it holds. A
call of `loadOrdersForOwner` has three requests, for bids, asks and open-orders
accounts, and one of `findBestFeeDiscountKey` two, for MSRM and SRM accounts; each
is evaluated in a state of its own, between the call's `from` and `to`. `Store` writes
a list into its cache under the time at which its call began, `CacheHit` accepts
it for the caller's `cacheDurationMs`. `Best` is the sort and its first element, where the
order of two equal accounts is the node's. The properties are stated over the
states of `past` that a caller must accept: those during the call and, as far as a
cached list may be used, those of the accepted age before.

### 2.10 StakeRewards

The chain has the ring of reward events (`queue`), what was dropped, expired and
claimed, the member with its cursor, and the vesting accounts. The page has
copies: queue, member and pool tokens are notified one by one (`updates`), the
vendors of the rewards are fetched when the queue changes (`fetches`), vesting
accounts are stored by the calls that change them. `NextReward` is the choice of
`Rewards.tsx`; `ClaimClicked`, `Drop...`, the expiry, the new vesting account, deposits and
withdrawals are the calls. `cards` are the mounted `VestingAccountCard`s: React
gives a card of the list without a key the state of its position, and every
render makes it ask again (`Asked`). `CumulativeVesting` is the schedule drawn.

Left out: amounts other than the schedule's, which vaults and mints are used, the
expiry times (a reward may expire at any moment).

### 2.11 Multisig

An answer of the node may be what the chain held at any moment since the request:
`request[n].may` collects what it can still be answered with. The page
(`MultisigInstance`) has the account and the list; each listed transaction is an
item (`txAccount`) with a state of its own, made from the list when it is mounted
(`Mounted`) and from then on updated by its subscription only, which begins some
time after it is asked for (`SubscriptionStarts`). `SignerRows` is what an item
draws, `RemainingAccounts` what `execute` signs with. The program refuses what the
errors of its interface name; owners act elsewhere too. Accounts an instruction
names are kept only as far as they may be asked to sign.

## 3. Runs

| Run | Instance | Checks |
|---|---|---|
| `open_orders` | 1 owner, 2 calls, 2 addresses, durations 0 and 1, times 2 to 3 | `TypeOK`, `CreatesOnlyIfAbsent`, refinement `ReadsAreFreshEnough` |
| `market_reads` | 1 open-orders account, 2 orders, 1 account each of MSRM and SRM, 2 calls of one kind, durations 0 and 1, times 0 to 1, 2 changes | `OwnOrdersAreShown`, `DiscountIsDue` |
| `event_queue` | 3 slots, 5 events, limits 0, 2 and 4 | `TypeOK`, `AnswerIsLatest`, `FillsShowTrades`, refinement `PendingIsFifo` |
| `orderbook` | 4 keys of 4 bits with 3 prices, depths 0 to 2, 2 calls of `getL2` | `ItemsInOrder`, `GetFindsOrders`, `FirstL2IsBest` |
| `stake_session` | 2 networks, 3 registrars (members for 2), 1 vesting account, 3 calls, 2 at a time, 2 wallets | `WalletIsKnown`, `MemberIsWhole`, `SelectedIsSubscribed`, `BootstrappedIsPopulated`, liveness `SpinnerEnds` |
| `stake_session_pages` | the same with 2 calls | violation of `AlwaysPopulated` |
| `stake_registry` | 2 registrars on one network, 2 withdrawals, 4 calls | `RegistryOfRegistrar`, `MemberIsReady`, `ListIsTrue` |
| `rewards` | 3 rewards, a ring of 3, 2 vesting accounts, 2 calls, 3 steps of the user or others | `OfferIsOldestClaimable`, `VestingsAreShown`, action property `NoneForfeited` |
| `multisig` | 2 multisigs, 3 owners, 2 transactions, 4 changes to propose, 2 calls, 3 steps | `TickMeansApproval`, `PageIsCurrent`, `WalletCanExecute` |
| `swap` | 5 markets, 4 pairs of tokens, 2 calls, 4 addresses; every token list of the 3 tokens | `TypeOK`, `OnePath`, `NoNeedlessAccount`, `InitProvides`, `OneAccountEach`, `PairsHavePaths` |
| `pools` | 2 calls, 2 pools (one of each program version, with either token wrapped), 7 kinds of request, times 2 to 3, 1 trade of others | `NothingLeftBehind`, `OnlyThePoolRefuses`, `SlippageIsTolerated`, refinement `ReadsAreFreshEnough` |
| `pool_setup` | 2 calls, 2 tokens (one of them wrapped SOL) with 3 of each, 1 payment elsewhere, moves of -2 to 2 | `PoolsAreSound`, `NothingLeftWrapped`, `RefusedForCause`, `NeverMoreThanExpected` |

Why the bounds are enough for what is asked:

* *Open orders.* Two calls give every pair of lookup and lookup, lookup and
  `placeOrder`, and `placeOrder` twice, in every interleaving; two addresses
  leave room for a second account. Durations 0 and 1 with two moments separate
  "during the call", "within the duration" and "too old". Owners do not
  interact (the cache is keyed by owner), and the proofs cover any number of
  everything.
* *Market reads.* Two changes of the chain let each of three requests see another
  state, and an order go and come between them; the second call is served what the
  first has cached. The two kinds of call share nothing but the chain, so a state
  constraint keeps them apart. The proofs cover any number of everything.
* *Event queue.* Five events overrun three slots and leave the head at every
  place; limits lie below and above the ring, and 0 is the value the code takes
  for "none". The proofs cover any ring and limit.
* *Order book.* Four keys of four bits give trees of every shape with up to
  four leaves, prices with one and with two orders, and removal from each.
  Quantities are all 1: sizes are then counts, which is enough to see an order
  counted twice. The proofs cover ids of any length and any number of orders.
* *Session.* Two networks are needed for a change of network, two registrars on
  one of them for a change of registrar; one registrar has no member account,
  so that the branch without a member is taken. Three calls are a bootstrap
  interrupted by a shutdown, the next bootstrap and one call of the user's, or a
  bootstrap and two changes of registrar; that two of them are under way at a time
  keeps the graph small enough for liveness, and every pair overlaps.
* *Registry.* Two registrars are needed for a change. Four calls are an
  unstaking, the list, a completion and a change of registrar, or a creation and
  a change back and forth with one call over: each property relates at most
  three of them. Two withdrawals tell a list that lost one from an empty one.
  The initial states have every set of members and withdrawals.
* *Swap.* Of the four pairs one has both paths, one only the path over USDT,
  one is direct and one is on a market that is not listed. Two calls give
  `initAccounts` against itself, against `closeAccounts` and against `swap`; four
  addresses are two that exist and two that a transitive call creates. That each
  call is over in bounded steps makes the run finite; the proofs cover any token
  list and any number of calls. `PairsHavePaths` is checked for each of the 256
  token lists that three tokens and two coins can have, where a coin may be listed
  in the other.
* *Pools.* One call is each of the operations, with each token wrapped and with
  and without an account for the pool tokens; the other fills the cache with what
  may be an hour old, and its transaction changes the pool under way. One trade of
  others is enough for a supply and holdings that do not belong together. Two
  moments tell a duration of 0, of one tick and of more. Supplies of 2 and 4 with
  tolerances of 0 and one half make prices that change within the tolerance
  and beyond it.
* *Pool set-up.* Of two calls, the one makes a pool of either kind, the other
  makes another, perhaps under the same address, or uses the first. Callers also err
  (lengths that differ, accounts exchanged, a token twice, no address). One of two
  tokens is wrapped SOL; funds of 3 are enough for one pool and short for two. A
  pool that asks for up to 2 in either direction asks for less, as much and more than
  a basket of 1 expects.
* *Rewards.* A ring of 3 holds two events, so that a third reward overwrites the
  oldest. Three steps (calls, visits, what others do) are a change, an action on the
  copies from before it, and one more; answers and notifications are not counted. Of
  the two vesting accounts one is there and the other is made. The schedule is
  proved for any terms.
* *Multisig.* The lists of owners have the wallet at different places, a name twice,
  and as many names as do not fit into the account as it was made. Three steps are a proposal, a change and an
  approval or execution; the multisigs have thresholds of 1 and 2.

Deadlock is not checked, because every instance stops when its bounds (calls,
events, time, calls of `getL2`) are used up.

One run ends in a violation: the code does not do what a comment says of it.
`PROJECT.json`, `findings`, quotes both. A bootstrap that is still waiting when the
network changes finishes into the new session, which is then shown without its
accounts (`AlwaysPopulated`). `BootstrappedIsPopulated` shows that nothing else is
to blame: as long as no call of an earlier session has dispatched anything since
the last shutdown (`leftover`, a history variable), a bootstrapped store has what
the pages read.

Other divergences from what comments and documentation say, and oddities we met,
have no run of their own. Where a property has an exception for one, it says so.

In `serum`:

* A lookup already waiting when `placeOrder` marks the entry expired, "to refresh
  the cache of open order accounts on next fetch" (`market.ts:608`), stores its older
  list under its own time (`:367`), so the next fetch may not refresh.
* `getL2` adds up sizes in place (`market.ts:1397`) in the number objects of the orders
  themselves (`:1401`): a second call counts them again, and `items` then yields the
  first order of a level with the level's size. `FirstL2IsBest` is about the first call.

In `swap`:

* `initAccounts`, documented to throw if all accounts exist (`index.ts:177`), throws
  inside its attempt over USDC (`:278`); the `catch` (`:342`) takes that for a missing
  path and creates accounts on the USDT markets. What holds instead is `InitProvides`.
* `pairs`, "all candidate tokens that can be swapped with the given token"
  (`index.ts:160`), leaves out, for a stable coin, the tokens quoted in it, though the
  documentation calls it with USDC (`:58`). Where one stable coin is quoted in the
  other it offers, for a token, the other coin, to which `swap` then finds no market.
  `PairsHavePaths` holds for the rest.
* The default bound, ".5% error off the estimate" (`index.ts:565`) or "0.05%" (`:969`), is
  1%: `new BN(99.5)` keeps the integer part (`:568`).

In `spl-token-swap`:

* `makeAddSingleSidedLiquidityTransaction` approves the account it makes for
  wrapped SOL and deposits from the caller's account (`pools.ts:578`, `:592`).
  `OnlyThePoolRefuses` excepts that case, which the run `pools` reaches.
* `pools.ts:312` calls the tolerance one "between setting input amounts and on
  chain transaction"; it is counted from a supply that may be six minutes older.
  `SlippageIsTolerated` says so.
* Without an account or a seed, `makeInitializePoolTransaction` reads `pubkey` of an
  `Account`, which has only `publicKey` (`pools.ts:934`), and throws. `PoolSetup` has it
  as a call that throws.

In `stake-ui`:

* `RegistrySetRegistrar` and `CommonDidShutdown` copy `initialState` one level
  deep (`reducer.ts:60`), so a vesting account created after a shutdown is
  unshifted into `initialState`'s own array and every later reset "of
  everything" restores it. `StakeStore` models the array (`Shared`), and
  every run of `StakeSession` takes the step.
* The deposit and withdrawal dialogs share one maximum and keep a selection that may
  be stale, and compare an amount displayed with one in base units
  (`MyNode.tsx:690`, comment at `:765`).
* A `disabled` condition of the claim button reads `reward.unlockedAlloc`, which no reward
  has; a reward that has expired stays offered until the queue changes or the page
  is opened again; a reward whose mint is not in the store breaks its list item.
* A vesting account made for another beneficiary is not stored, as the wallet does
  not own it; a card withdraws the amount in the state of its position; the last date
  of the chart may be up to `periodCount - 1` seconds early.

### Fairness

Only `SpinnerEnds`, of `stake_session`, needs any. React runs the effect of a render,
and every request or digest a call waits for is answered or gives up with an
error; since a call has finitely many steps and each is made once, weak fairness on
all of these together says so for each. web3's
connection has a timeout, and the error path is one of the steps. Nothing is
assumed about the user or the wallet. `SpinnerEnds` is the strongest statement
that holds: `bootstrap` has no `finally`, so after an error the store stays in
`IsBootstrapping` and only the notification tells the user.

## 4. Proofs

`OpenOrdersProofs`, `MarketReadsProofs`, `StakeSessionProofs`, `StakeRegistryProofs`,
`StakeRewardsProofs`, `MultisigProofs`, `SwapProofs` and `PoolsProofs` are checked by TLAPS for all values of the constants that satisfy the named assumptions.
Each inductive invariant was checked by TLC, on the instance of the component's run,
before it was proved.

**OpenOrdersClient.** Assumptions: `DurationAssumption` (durations are
naturals), `ClockAssumption` (`Date.getTime()` is not below any duration in
use, so `ts = 0` is always expired), `NoneAssumption`, `OptionAssumption`.
`CreatesOnlyIfAbsent` speaks of the past of the chain and is not inductive: it
follows from where the list a call holds came from. The inductive invariant
`IInv` therefore relates every call and every cache entry to history: what the
node answered was the owner's list at a recorded time `asOf` not before the
lookup's `now`; an entry's `ts` is not after its `asOf` and its list was
the owner's at `asOf`; a list that was returned is fresh enough for its call;
and a call past its lookup has an entry in the cache. `Init => IInv` and one
lemma per action give `Invariance`; `TypeCorrect`, `CreatesOnlyIfAbsentHolds`
and `InvalidationHasEntryHolds` follow. `ReadsRefine` shows with the same
invariant that each step is a step of `BoundedStaleness` or a stutter. `Pools`
implements the same specification.

**EventQueue.** Assumptions: the ring has at least one slot, limits and amounts
are naturals, multipliers positive. `Wrap...` are the lemmas about indices
modulo the size of the ring. `RingHoldsLog`, that counted back from the newest
the slots hold the last `AllocLen` events and zeros beyond them, is inductive
with the type invariant; `AnswerIsLatest` and `PendingIsFifo` rest on it.
`FillsShowTrades` is arithmetic on the four cases of buyer or seller, maker or
taker.

**Slab and Orderbook.** Assumptions: `KeyAssumption` (keys are strings of `KeyBits`
bits, at least one), `SlabAssumption` (quantities are naturals, `Null` is no index).
`IsCritBit` is stated without reference to paths, so that it can be proved without
induction over the tree. A node *extends* another if it is as long or longer and begins
with the same bits; every node extends the root (`RootOK`), a child extends its parent
and has the bit of its side next (`ChildrenOK`), and a node that extends another extends
its child on that side (`BranchesOK`). `InsertKeepsCritBit` and `RemoveKeepsCritBit` show
that the tree stays one; for each, one lemma says what changes (`InsertGrafts`,
`RemovePrunes`) and the others take the parts of `IsCritBit` in turn.

`Slab.get` and the descent of an insertion are recursive functions. `PathsEnd` shows, by
the well-foundedness of the naturals, that such a function exists when every step goes to
a longer node, and `PathsStay` that from a set no step leaves only values of its ends are
reached. With the set of nodes that the wanted leaf extends this gives `GetFindsTheLeaf`;
with that of all nodes, `GetFindsNoOther`; together `GetFindsOrders`.

`ItemsInOrder` is not inductive: it says nothing of what the generator has yet to do.
`BookIInv` does: of two nodes on the stack everything below the upper comes first
(`StackInv`), what was yielded comes before everything below a node on the stack
(`OutInv`), and a leaf that was not yielded extends one of them (`RestInv`). All three
are about keys, so `getL2`, which changes quantities alone (`RequantifiedKeeps`), keeps
them in the middle of an iteration. At the end the stack is empty: the keys yielded are a
bijection on those of the book.

**SwapAccounts.** Assumptions: `MintAssumption` (the stable coins are tokens),
`PairAssumption` (callers pass two different tokens). None of the properties is
inductive. `IInv` says of each call what its lookups still stand for:
`AbsentInv`, that a leg on which nothing was found, or an account is created, was
without an account at some moment of the call; `FoundInv`, that a leg on which
something was found has an account or had one closed; `PathInv`, that an
`initAccounts` on another path than `swap`'s, with no failed request, got there
because every leg of `swap`'s path was found; `InitInv`, that its instructions
cover the legs without an account. `ThrowStep`, `SamePathStep` and `ChainStep` are
the three kinds of step, and the lemma of each action reduces to one of them.

`OneAccountEach` has an invariant of its own over `IInv`: `LoneInv`, that until calls
overlap at most one is under way, transaction included, that what it has looked up is
still so, and that it creates at most one account on a market, and only on one
without (`CleanInv`). That a sender may have given up on a transaction which lands
later is why "under way" includes what is in flight. `LoneStep` covers every step that
leaves the chain alone; the landing of a transaction is the case that needs the
invariant. `PairsHavePathsHolds` is set theory, for every token list.

**MarketReads.** Assumption: `ReadsAssumption` (in particular, the owner's token
accounts are finitely many, so that a sorted list of them has a first). Both
properties compare a result with states of the past, which the calls do not
remember. `IInv` says of each part of a call, and of each cache entry, from which
state of `past` it is: `Known` for the calls, `CacheInv` for the entries, whose state
is not older than their stamp, and `BookInv`, that an order's id always means the
same order. `Grows` is what every step leaves true of `past`; one set of lemmas shows
that it keeps every such fact, so that each action has only its own new fact to
prove. `OwnOrdersAreShownHolds` follows from `Invariance`; `DiscountIsDueHolds` also needs that
some account of a finite list comes first in `Precedes`: the one with the fewest
before it, by the well-foundedness of `<`.

**StakeSession.** Assumptions: `ConfigAssumption` (a network's first registrar is on
that network), `SessionAssumption` (member accounts are of registrars; bounds are
numbers). What the store has after a bootstrap was put there by a call that has been
through seven awaits, so `BootstrappedIsPopulated` and the second half of
`MemberIsWhole` say nothing of the states on the way. `IInv` follows every call begun
in the present session (`Own`): `StageInv` says what it has stored by each stage,
`SwitchInv` that a change of registrar began in a complete store, `BootstrapInv` what
the store has once it is shown. That is claimed as long as no call of an earlier
session has dispatched (`leftover`); `WalletIsKnown`, `SelectedIsSubscribed` and that
the member is the registrar's are invariant without that condition. The lemmas about
the reducer (`Grows`: what every dispatch keeps) show that a call takes nothing from
what another has stored, so each action has only its own call to account for.

**StakeRegistry.** Assumptions: `ConfigAssumption`, `RegistryAssumption` (`None` is no
withdrawal, list or account). `ListIsTrue` relates the list to the chain after any
number of answers that were on their way at the same time. `AnswerInv` says what an
answer still stands for when it is stored: unless a dispatch has made it out of date
(`dirty`), it has every withdrawal of its registrar but those of unstakings that are
not finished, and each as it is but those whose completion was given up. `ListInv`
says the same of the list shown; `CallInv` and `RedeemInv` give what the transactions
may still do. Every step either marks the answers it makes out of date or leaves what
they stand for; lists that are stored against a mark set `since`. `MemberInv` gives
`MemberIsReady`.

**Multisig.** Assumptions: `MultisigAssumption` (in particular, an address holds one
account, and a multisig at the start is in its first version), `NullAssumption`. The
page joins flags and owners that were read at different moments. `Versions` and
`TxVersions` are what the chain once held: every account in an answer, a notification or
on the page names owners who were in force under its number, and the signers of every
transaction have approved it under the owners it was proposed to, since the program
takes back neither (`PageInv`, `NetInv`). Equal numbers then mean equal owners, which is
`TickMeansApproval`. For `PageIsCurrent`: the last notification on its way is of what
the chain holds (`HeardInv`), and the last list asked for will have what a dialog
reported (`LastList`), unless proposals overlapped (`FlagInv`). `TypeOK` is proved, too,
and is in no run.

**StakeRewards.** Assumption: `RewardsAssumption` (the ring has at least two slots and
room for what is in it at the start, where no reward or account is listed twice;
`None` is no address). Which reward is offered depends on three copies of different
moments, and the transaction is executed later still. `CopiesInv` says that every copy,
stored or on its way, is a past one: a past ring still has its rewards at their cursors
(`IsRing`; `PushRing` and `RingHolds` are the arithmetic of the ring), a past
member has claimed and staked no more than the member has. Hence what the page passes
over is `Lost`, which nothing undoes (`LostStays`), and `ClaimInv` keeps it so until the
transaction is executed; `NoneForfeited` follows, since staking waits for all rewards.
`NewestInv`, that the last copy on its way is the account as it is, gives
`OfferIsOldestClaimable`. For `VestingsAreShown`: `AccountInv` says what the answer of
each call has of the vesting accounts, `PairInv` that of two calls one of which may store
over the other the accounts are excused, `ListedInv` that every other account is in the
list once and as it is unless a call is about to put it there, `CardsInv` that a card is
waiting for its own account or has what it was told of it. The schedule
(`ScheduleKeepsPace`, in no run) is integer arithmetic over any terms: it ends with the
whole amount and is never behind equal periods, nor ahead by as much as one unit per
period.

**Pools.** Assumptions: `UserAssumption` (the user and the pool's authority are none of
the calls, that is, no new key pair), `SlipAssumption`, `TimeAssumption` (durations are
naturals, six minutes less than an hour), `PoolAssumption` (pools hold something of each
token), `RequestAssumption`. A transaction is a sequence that depends on the version of
the program, the token wrapped, the side and whether an account was passed: some twenty
sequences, of which the instance's run takes a few. The proof takes none of them one by
one. `Builds` says what a part of a transaction is: what it makes it makes once, what it
approves is there, all that it makes but an account for pool tokens is closed by what
undoes it, and all that it approves is revoked. Parts of that kind can be joined
(`BuildsJoin`), and a whole of them is `Harmless` and, if the program takes no more than
was granted, well-formed (`TransactionFacts`). Each of the five transactions is then such
a whole (`AddLiquidityIsSound` and so on), in whatever chain it lands, provided that the
call has no account there yet. That is `OpenOK`, part of the inductive invariant. The
rest of `IInv` relates the cache and each call's reads to `past`, as for
`OpenOrdersClient`, says in which order a call reads (`InTurn`) and how its transaction
ended (`Ended`). `SlippageIsTolerated` is arithmetic on two roundings: `CostsMore` shows
that they are both in the depositor's favour. `ReadsRefine` maps every read of every key
to a reader of `BoundedStaleness`.

**Only model-checked.** Liveness (`SpinnerEnds`); `FirstL2IsBest`, a fold over the
orders of the book; the properties of `PoolSetup`, whose chain executes transactions of
any length by folding over their instructions.

## 5. Plan

Done: the modules above. Left: `FirstL2IsBest` and the properties of `PoolSetup`, as far
as what a fold computes can be had without induction over its sequence.

## 6. Not modelled, and why

* Encodings and decodings of bytes, tables of addresses, generated interface
  descriptions, rendering: they keep no state and have no control, and a property
  of them is a unit test.
* Cancelling, settling and matching orders, the helpers of `common`, the instructions for
  admin controlled pools, `createPoolTokens`: each builds one transaction from its
  arguments, keeps nothing and decides nothing. `getBasket` is only simulated.
* `estimate` and the bound made of it: one line of arithmetic on the answer to a
  simulation.
* Two actions of the store: `CommonWalletSetProvider`, which the model of the session
  does without, as a wallet is named by its place among those made; and
  `CommonOwnedTokenAccountsUpdate`, by which the dialogs for tokens of the wallet
  store one balance after their transaction.
* The on-chain programs are not in the repository; they are modelled as far as the
  code depends on them and marked `external`.
* Floating-point conversions are exact here.
