---------------------------- MODULE MarketReads ----------------------------
(***************************************************************************)
(* Two reads of Market that put together what several requests and a cache *)
(* return: loadOrdersForOwner joins both sides of the book with the        *)
(* owner's open-orders accounts, and findBestFeeDiscountKey chooses among  *)
(* the owner's MSRM and SRM accounts.                                      *)
(*                                                                         *)
(* Each request is evaluated by the node at a moment of its own, and an    *)
(* account list may come from the cache, so the answers need not fit       *)
(* together.  The history of the chain is kept to say what remains true.   *)
(*                                                                         *)
(* OpenOrdersClient models placeOrder, which uses the same cache.          *)
(***************************************************************************)
EXTENDS Integers, Sequences, FiniteSets

CONSTANTS
  Order,        \* ids of orders
  OpenOrders,   \* addresses of the owner's open-orders accounts
  Foreign,      \* the open-orders account of somebody else
  MsrmAccount,  \* addresses of the owner's token accounts
  SrmAccount,
  Balance,      \* the balances each token account may have, in whole tokens
  Start,        \* the states the chain may be in at first
  Duration,     \* the values of cacheDurationMs used
  SupportsSrm,  \* whether the market's program knows fee discounts
  Call,         \* the calls, each made once
  MaxTime,      \* bound on the clock
  MaxChanges,   \* bound on changes of the chain
  None          \* null: no account, no order

TokenAccount == MsrmAccount \cup SrmAccount

\* A state of the chain, and since when: the open-orders accounts and the token
\* accounts of the owner, and the orders on the book.
ChainState ==
  [at : Nat, accounts : SUBSET OpenOrders, holding : [TokenAccount -> Nat \cup {None}],
   book : [Order -> [side : {"buy", "sell"}, openOrders : OpenOrders \cup {Foreign}]
                      \cup {None}]]

ASSUME ReadsAssumption ==
  /\ Foreign \notin OpenOrders
  /\ MsrmAccount \cap SrmAccount = {} /\ None \notin TokenAccount
  /\ IsFiniteSet(TokenAccount)
  /\ \A t \in TokenAccount : Balance[t] \subseteq Nat \cup {None}
  /\ Start \subseteq ChainState
  /\ Duration \subseteq Nat
  /\ SupportsSrm \in BOOLEAN
  /\ MaxTime \in Nat /\ MaxChanges \in Nat

VARIABLES
  now,    \* the client's clock, in milliseconds
  past,   \* the chain: its states and since when it was in each, the last the present
  cache,  \* _openOrdersAccountsCache and _feeDiscountKeysCache, for this owner
  call

vars == <<now, past, cache, call>>

chain == past[Len(past)]

-----------------------------------------------------------------------------
(* Fees.                                                                   *)

\* getFeeTier: an MSRM gives the highest, else a tier each for 100, 1000, and so on
\* to a million SRM.
FeeTier(msrm, srm) ==
  IF msrm >= 1 THEN 6 ELSE Cardinality({n \in 2 .. 6 : srm >= 10 ^ n})

TierOf(t, balance) ==
  IF t \in MsrmAccount THEN FeeTier(balance, 0) ELSE FeeTier(0, balance)

\* The token accounts of a set that there are, as findFeeDiscountKeys lists them.
Accounts(tokens, holding) ==
  {[pubkey |-> t, balance |-> holding[t], feeTier |-> TierOf(t, holding[t])] :
     t \in {t \in tokens : holding[t] # None}}

\* Mutant: the larger balance comes first, of whatever token.
Precedes_ByBalance(a, b) == a.balance > b.balance

\* The order in which findFeeDiscountKeys sorts.
Precedes(a, b) ==
  \/ a.feeTier > b.feeTier
  \/ a.feeTier = b.feeTier /\ a.balance > b.balance

\* The first account of the sorted list, if there is any; which of two equal ones
\* comes first is the node's order.
Best(accounts) ==
  IF accounts = {} THEN [pubkey |-> None, feeTier |-> 0]
  ELSE LET first == CHOOSE a \in accounts : \A b \in accounts : ~Precedes(b, a)
       IN [pubkey |-> first.pubkey, feeTier |-> first.feeTier]

-----------------------------------------------------------------------------
(* The caches.                                                             *)

NoEntry == [ts |-> None]

\* Mutant: a cached list of any age will do.
CacheHit_OfAnyAge(kind, duration) == cache[kind] # NoEntry

\* A cached list younger than the caller accepts.
CacheHit(kind, duration) ==
  cache[kind] # NoEntry /\ now - cache[kind].ts < duration

\* Stored under the time at which the call began.
Store(c, kind, accounts) ==
  cache' = [cache EXCEPT ![kind] = [ts |-> call[c].start, accounts |-> accounts]]

-----------------------------------------------------------------------------
IdleCall == [pc |-> "idle"]

Init ==
  /\ now = 0
  /\ \E state \in Start : past = <<state>>
  /\ cache = [kind \in {"openOrders", "feeDiscount"} |-> NoEntry]
  /\ call = [c \in Call |-> IdleCall]

Running(c, kind) == call[c].pc = "running" /\ call[c].kind = kind

\* start, when the call began; from and to, which states the chain was in when it
\* began and ended, are history.
Done(kind, duration, start, from, result) ==
  [pc |-> "done", kind |-> kind, duration |-> duration, start |-> start,
   from |-> from, to |-> Len(past), result |-> result]

Pending == [state |-> "asked"]
Read(value) == [state |-> "read", value |-> value]
Arrived(value) == [state |-> "arrived", value |-> value]

-----------------------------------------------------------------------------
(* loadOrdersForOwner.                                                     *)

\* The three requests are made at once; the accounts may come from the cache.
LoadOrdersForOwner(c, duration) ==
  /\ call[c] = IdleCall
  /\ call' = [call EXCEPT ![c] =
       [pc |-> "running", kind |-> "orders", duration |-> duration, start |-> now,
        from |-> Len(past), bids |-> Pending, asks |-> Pending,
        accounts |-> IF CacheHit("openOrders", duration)
                     THEN Arrived(cache["openOrders"].accounts) ELSE Pending]]
  /\ UNCHANGED <<now, past, cache>>

\* What the slab of a side holds: each order with its open-orders account.
Orders(book, side) ==
  {[orderId |-> o, openOrders |-> book[o].openOrders] :
     o \in {o \in Order : book[o] # None /\ book[o].side = side}}

\* loadBids, loadAsks: when the answer arrives makes no difference.
LoadBids(c) ==
  /\ Running(c, "orders")
  /\ call[c].bids = Pending
  /\ call' = [call EXCEPT ![c].bids = Arrived(Orders(chain.book, "buy"))]
  /\ UNCHANGED <<now, past, cache>>

LoadAsks(c) ==
  /\ Running(c, "orders")
  /\ call[c].asks = Pending
  /\ call' = [call EXCEPT ![c].asks = Arrived(Orders(chain.book, "sell"))]
  /\ UNCHANGED <<now, past, cache>>

\* The node evaluates the request for the accounts, of a call that has failed
\* meanwhile, too.
AccountsRead(c) ==
  /\ Running(c, "orders") \/ call[c].pc = "failed"
  /\ call[c].accounts = Pending
  /\ call' = [call EXCEPT ![c].accounts = Read(chain.accounts)]
  /\ UNCHANGED <<now, past, cache>>

\* The list arrives and is cached.
AccountsArrive(c) ==
  /\ Running(c, "orders") \/ call[c].pc = "failed"
  /\ call[c].accounts.state = "read"
  /\ Store(c, "openOrders", call[c].accounts.value)
  /\ call' = [call EXCEPT ![c].accounts = Arrived(@.value)]
  /\ UNCHANGED <<now, past>>

\* The ids of the orders of these accounts.
FilterForOpenOrders(bids, asks, accounts) ==
  {o.orderId : o \in {o \in bids \cup asks : o.openOrders \in accounts}}

\* All three have arrived.
OrdersLoaded(c) ==
  /\ Running(c, "orders")
  /\ \A part \in {"bids", "asks", "accounts"} : call[c][part].state = "arrived"
  /\ call' = [call EXCEPT ![c] =
       Done("orders", @.duration, @.start, @.from,
            FilterForOpenOrders(@.bids.value, @.asks.value, @.accounts.value))]
  /\ UNCHANGED <<now, past, cache>>

\* A request of loadOrdersForOwner fails; what else it has asked for goes on.
OrdersFail(c) ==
  /\ Running(c, "orders")
  /\ call' = [call EXCEPT ![c] = [pc |-> "failed", kind |-> "orders", start |-> @.start, accounts |-> @.accounts]]
  /\ UNCHANGED <<now, past, cache>>

-----------------------------------------------------------------------------
(* findBestFeeDiscountKey.                                                 *)

\* A cached list is used at once, and an empty one where there are no discounts.
FindBestFeeDiscountKey(c, duration) ==
  LET Returns(accounts) == Done("discount", duration, now, Len(past), Best(accounts))
  IN /\ call[c] = IdleCall
     /\ IF CacheHit("feeDiscount", duration)
        THEN /\ call' = [call EXCEPT ![c] = Returns(cache["feeDiscount"].accounts)]
             /\ UNCHANGED cache
        ELSE IF SupportsSrm
        THEN /\ call' = [call EXCEPT ![c] =
                  [pc |-> "running", kind |-> "discount", duration |-> duration,
                   start |-> now, from |-> Len(past), msrm |-> Pending, srm |-> Pending]]
             /\ UNCHANGED cache
        ELSE /\ call' = [call EXCEPT ![c] = Returns({})]
             /\ cache' = [cache EXCEPT !["feeDiscount"] = [ts |-> now, accounts |-> {}]]
     /\ UNCHANGED <<now, past>>

\* The MSRM accounts; the SRM accounts are asked for when they have arrived.
MsrmArrive(c) ==
  /\ Running(c, "discount")
  /\ call[c].msrm = Pending
  /\ call' = [call EXCEPT ![c].msrm = Arrived(Accounts(MsrmAccount, chain.holding))]
  /\ UNCHANGED <<now, past, cache>>

SrmRead(c) ==
  /\ Running(c, "discount")
  /\ call[c].msrm # Pending /\ call[c].srm = Pending
  /\ call' = [call EXCEPT ![c].srm = Read(Accounts(SrmAccount, chain.holding))]
  /\ UNCHANGED <<now, past, cache>>

\* The sorted list is cached, its first account returned.
SrmArrive(c) ==
  /\ Running(c, "discount")
  /\ call[c].srm.state = "read"
  /\ LET accounts == call[c].msrm.value \cup call[c].srm.value
     IN /\ Store(c, "feeDiscount", accounts)
        /\ call' = [call EXCEPT ![c] =
             Done("discount", @.duration, @.start, @.from, Best(accounts))]
  /\ UNCHANGED <<now, past>>

\* Nothing is cached.
DiscountFails(c) ==
  /\ Running(c, "discount")
  /\ call' = [call EXCEPT ![c] = [pc |-> "rejected", kind |-> "discount"]]
  /\ UNCHANGED <<now, past, cache>>

-----------------------------------------------------------------------------
(* Time, and the chain.                                                    *)

Tick ==
  /\ now < MaxTime
  /\ now' = now + 1
  /\ UNCHANGED <<past, cache, call>>

Becomes(state) ==
  /\ Len(past) <= MaxChanges
  /\ past' = Append(past, [state EXCEPT !.at = now])
  /\ UNCHANGED <<now, cache, call>>

CreateOpenOrders(a) ==
  /\ a \notin chain.accounts
  /\ Becomes([chain EXCEPT !.accounts = @ \cup {a}])

\* An account with orders is not closed.
CloseOpenOrders(a) ==
  /\ a \in chain.accounts
  /\ \A o \in Order : chain.book[o] # None => chain.book[o].openOrders # a
  /\ Becomes([chain EXCEPT !.accounts = @ \ {a}])

\* An id is used once.
NewOrder(o, side, a) ==
  /\ \A i \in DOMAIN past : past[i].book[o] = None
  /\ a \in chain.accounts \cup {Foreign}
  /\ Becomes([chain EXCEPT !.book[o] = [side |-> side, openOrders |-> a]])

OrderGone(o) ==
  /\ chain.book[o] # None
  /\ Becomes([chain EXCEPT !.book[o] = None])

\* Tokens are received or sent, accounts made or closed.
Transfer(t, balance) ==
  /\ chain.holding[t] # balance
  /\ Becomes([chain EXCEPT !.holding[t] = balance])

Next ==
  \/ Tick
  \/ \E a \in OpenOrders : CreateOpenOrders(a) \/ CloseOpenOrders(a)
  \/ \E o \in Order :
       \/ OrderGone(o)
       \/ \E side \in {"buy", "sell"}, a \in OpenOrders \cup {Foreign} : NewOrder(o, side, a)
  \/ \E t \in TokenAccount : \E balance \in Balance[t] : Transfer(t, balance)
  \/ \E c \in Call :
       \/ \E d \in Duration : LoadOrdersForOwner(c, d) \/ FindBestFeeDiscountKey(c, d)
       \/ LoadBids(c) \/ LoadAsks(c) \/ AccountsRead(c) \/ AccountsArrive(c)
       \/ OrdersLoaded(c) \/ OrdersFail(c)
       \/ MsrmArrive(c) \/ SrmRead(c) \/ SrmArrive(c) \/ DiscountFails(c)

Spec == Init /\ [][Next]_vars

-----------------------------------------------------------------------------
(* Properties.                                                             *)

Ended(c, kind) == call[c].pc = "done" /\ call[c].kind = kind

\* The states the chain was in while the call ran, and those it was in less than
\* the call's cacheDurationMs before it.
During(c) == {past[i] : i \in call[c].from .. call[c].to}

Acceptable(c) ==
  During(c) \cup
    {past[i] : i \in {i \in 1 .. call[c].from - 1 :
                        past[i + 1].at > call[c].start - call[c].duration}}

\* loadOrdersForOwner, though bids, asks and accounts are of three moments, misses
\* no order that was on the book throughout the call, of an account that there was
\* as long as the caller accepts, and shows none that was not on the book during
\* the call or is not of an account the owner then had.
OwnOrdersAreShown ==
  \A c \in Call : Ended(c, "orders") =>
    LET Resting(o) == {s \in During(c) : s.book[o] # None}
        Had(a)     == {s \in Acceptable(c) : a \in s.accounts}
    IN \A o \in Order :
         /\ o \in call[c].result =>
              \E s \in Resting(o) : Had(s.book[o].openOrders) # {}
         /\ Resting(o) = During(c)
              /\ (\E s \in During(c) : Had(s.book[o].openOrders) = Acceptable(c))
            => o \in call[c].result

\* findBestFeeDiscountKey, though MSRM and SRM accounts are of two moments and the
\* list may come from the cache, names an account that had the tier it is said to
\* have, and none that was of a higher tier as long as the caller accepts is
\* passed over.
DiscountIsDue ==
  \A c \in Call : Ended(c, "discount") =>
    LET best == call[c].result
        TierIn(s, t) == IF s.holding[t] = None THEN 0 ELSE TierOf(t, s.holding[t])
    IN /\ best.pubkey # None =>
            \E s \in Acceptable(c) :
              s.holding[best.pubkey] # None /\ TierIn(s, best.pubkey) = best.feeTier
       /\ \A t \in TokenAccount :
            \E s \in Acceptable(c) : SupportsSrm => TierIn(s, t) <= best.feeTier
=============================================================================
