-------------------------- MODULE OpenOrdersClient --------------------------
(***************************************************************************)
(* The open-orders side of the Market class of the serum package: the      *)
(* cache of an owner's open-orders accounts, the lookups that read it, and *)
(* placeOrder, which looks the accounts up, creates one when it finds none *)
(* and sends the order.  Calls are asynchronous functions of one           *)
(* JavaScript thread: a call runs without interruption from one await to   *)
(* the next, and other calls run while it waits for the RPC node.          *)
(*                                                                         *)
(* The RPC node and the chain are not part of the repository; they appear  *)
(* as the code uses them: getProgramAccounts answers with the accounts     *)
(* that exist at some moment between request and answer, a transaction     *)
(* sent lands once, later, or never, and its sender may stop waiting for   *)
(* it first.                                                               *)
(***************************************************************************)
EXTENDS Integers, FiniteSets

CONSTANTS
  Owner,     \* wallets
  Call,      \* asynchronous calls, each made once
  Account,   \* addresses of open-orders accounts
  Duration,  \* values of cacheDurationMs
  Option,    \* what callers pass as openOrdersAccount and openOrdersAddressKey
  Start,     \* the time at which the Market object is made
  MaxClock,  \* bound on time
  None

Entry == [accounts : SUBSET Account, ts : Nat, asOf : Nat]

ASSUME DurationAssumption == Duration \subseteq Nat
\* Date.getTime() exceeds every cache duration: an entry whose ts is 0 has
\* expired.
ASSUME ClockAssumption == Start \in Nat /\ \A d \in Duration : d <= Start
ASSUME NoneAssumption == None \notin Account /\ None \notin Entry
ASSUME OptionAssumption ==
  Option \subseteq [account : Account \cup {None}, key : Account \cup {None}]

VARIABLES
  clock,    \* Date.getTime()
  chain,    \* chain[o]: o's open-orders accounts for this market, on chain
  cache,    \* _openOrdersAccountsCache; asOf in an entry is history
  call,     \* call[c]: where the call c stands, with its local variables
  used,     \* addresses that new Account() has given out, or that exist
  pending,  \* calls whose transaction is in flight
  past      \* history: every <<accounts, time>> each owner has had

vars == <<clock, chain, cache, call, used, pending, past>>

-----------------------------------------------------------------------------
Idle == [pc |-> "idle"]

(***************************************************************************)
(* pc:  fetching  getProgramAccounts requested, not answered               *)
(*      fetched   answered, but the continuation has not run               *)
(*      found     findOpenOrdersAccountsForOwner has returned `seen`       *)
(*      built     makePlaceOrderTransaction has returned                   *)
(*      sent      _sendTransaction waits for the confirmation              *)
(*      done      the call has returned     failed   the call has thrown   *)
(***************************************************************************)
Running ==
  [pc : {"fetching", "fetched", "found", "built", "sent", "done", "failed"},
   owner : Owner,
   places : BOOLEAN,              \* placeOrder, or a lookup alone
   duration : Duration,           \* cacheDurationMs
   start : Nat,                   \* `now` of the lookup
   seen : SUBSET Account,         \* the accounts the lookup returns
   asOf : Nat,                    \* history: when the node read them
   target : Account \cup {None},  \* openOrdersAddress
   creates : BOOLEAN]             \* the transaction creates target

TypeOK ==
  /\ clock \in Nat
  /\ chain \in [Owner -> SUBSET Account]
  /\ cache \in [Owner -> Entry \cup {None}]
  /\ call \in [Call -> Running \cup {Idle}]
  /\ used \subseteq Account
  /\ pending \subseteq Call
  /\ past \in [Owner -> SUBSET ((SUBSET Account) \X Nat)]

Init ==
  /\ clock = Start
  /\ chain \in [Owner -> SUBSET Account]
  /\ \A o, p \in Owner : o # p => chain[o] \cap chain[p] = {}
  /\ cache = [o \in Owner |-> None]
  /\ call = [c \in Call |-> Idle]
  /\ used = UNION {chain[o] : o \in Owner}
  /\ pending = {}
  /\ past = [o \in Owner |-> {<<chain[o], clock>>}]

-----------------------------------------------------------------------------
(* Lookups: findOpenOrdersAccountsForOwner.                                *)

CacheHit(o, d) == cache[o] # None /\ clock - cache[o].ts < d

Enter(o, places, d, pc, seen, asOf) ==
  [pc |-> pc, owner |-> o, places |-> places, duration |-> d,
   start |-> clock, seen |-> seen, asOf |-> asOf,
   target |-> None, creates |-> FALSE]

\* The call is made and its lookup runs to the first await: a young enough
\* entry answers it, otherwise the node is asked.
Lookup(c, o, places, d) ==
  /\ call[c] = Idle
  /\ call' = [call EXCEPT ![c] =
       IF CacheHit(o, d)
       THEN Enter(o, places, d, "found", cache[o].accounts, cache[o].asOf)
       ELSE Enter(o, places, d, "fetching", {}, 0)]
  /\ UNCHANGED <<clock, chain, cache, used, pending, past>>

\* The node evaluates the request.  The answer may take longer.
GetProgramAccounts(c) ==
  /\ call[c].pc = "fetching"
  /\ call' = [call EXCEPT ![c].pc = "fetched",
                          ![c].seen = chain[call[c].owner],
                          ![c].asOf = clock]
  /\ UNCHANGED <<clock, chain, cache, used, pending, past>>

\* Mutant: the entry is stamped when the answer arrives.
StoreInCache_StampedOnArrival(c) ==
  /\ call[c].pc = "fetched"
  /\ cache' = [cache EXCEPT ![call[c].owner] =
       [accounts |-> call[c].seen, ts |-> clock, asOf |-> call[c].asOf]]
  /\ call' = [call EXCEPT ![c].pc = "found"]
  /\ UNCHANGED <<clock, chain, used, pending, past>>

\* The continuation after the await stores what was answered, under the time
\* at which the lookup began, whatever the cache holds by now.
StoreInCache(c) ==
  /\ call[c].pc = "fetched"
  /\ cache' = [cache EXCEPT ![call[c].owner] =
       [accounts |-> call[c].seen, ts |-> call[c].start, asOf |-> call[c].asOf]]
  /\ call' = [call EXCEPT ![c].pc = "found"]
  /\ UNCHANGED <<clock, chain, used, pending, past>>

-----------------------------------------------------------------------------
(* placeOrder: makePlaceOrderTransaction and _sendTransaction.             *)

Building(c) == call[c].pc = "found" /\ call[c].places

\* A request a call waits for fails: the list of accounts, or, while the
\* transaction is built, the fee-discount keys or the rent exemption.
RequestFails(c) ==
  /\ call[c].pc \in {"fetching", "fetched"} \/ Building(c)
  /\ call' = [call EXCEPT ![c].pc = "failed"]
  /\ UNCHANGED <<clock, chain, cache, used, pending, past>>

\* How the rest of makePlaceOrderTransaction may end: it throws on an invalid
\* payer account, a size below one lot or a price below one tick.
BuildEnds == {"built", "failed"}

\* Mutant: the code looks at the argument openOrdersAccount first.
BuildWithNewAccount_TrustsArgument(c, opt) ==
  /\ Building(c)
  /\ call[c].seen = {} \/ opt.account # None
  /\ \E a \in IF opt.account = None THEN Account \ used ELSE {opt.account},
        end \in BuildEnds :
       /\ call' = [call EXCEPT ![c].pc = end, ![c].target = a,
                               ![c].creates = TRUE]
       /\ used' = used \cup {a}
  /\ cache' = [cache EXCEPT ![call[c].owner].ts = 0]
  /\ UNCHANGED <<clock, chain, pending, past>>

\* Mutant: no key pair is made when the caller passes none.
BuildWithNewAccount_NoKeyPair(c, opt) ==
  /\ Building(c)
  /\ call[c].seen = {}
  /\ \E end \in BuildEnds :
       call' = [call EXCEPT ![c].pc = end, ![c].target = opt.account,
                            ![c].creates = TRUE]
  /\ used' = used \cup {opt.account}
  /\ cache' = [cache EXCEPT ![call[c].owner].ts = 0]
  /\ UNCHANGED <<clock, chain, pending, past>>

\* No account was found.  One is created by the transaction itself, at the
\* address passed as openOrdersAccount or at a new one, and the cache entry is
\* marked expired, also when the transaction is then rejected.
BuildWithNewAccount(c, opt) ==
  /\ Building(c)
  /\ call[c].seen = {}
  /\ \E a \in IF opt.account = None THEN Account \ used ELSE {opt.account},
        end \in BuildEnds :
       /\ call' = [call EXCEPT ![c].pc = end, ![c].target = a,
                               ![c].creates = TRUE]
       /\ used' = used \cup {a}
  /\ cache' = [cache EXCEPT ![call[c].owner].ts = 0]
  /\ UNCHANGED <<clock, chain, pending, past>>

\* Accounts were found: the one the caller named is used, else the first.
BuildWithAccount(c, opt) ==
  /\ Building(c)
  /\ call[c].seen # {}
  /\ \E a \in IF opt.account # None THEN {opt.account}
              ELSE IF opt.key # None THEN {opt.key}
              ELSE call[c].seen,
        end \in BuildEnds :
       call' = [call EXCEPT ![c].pc = end, ![c].target = a]
  /\ UNCHANGED <<clock, chain, cache, used, pending, past>>

SendTransaction(c) ==
  /\ call[c].pc = "built"
  /\ call' = [call EXCEPT ![c].pc = "sent"]
  /\ pending' = pending \cup {c}
  /\ UNCHANGED <<clock, chain, cache, used, past>>

\* confirmTransaction gives up; the transaction may still be in flight.
ConfirmTimesOut(c) ==
  /\ call[c].pc = "sent"
  /\ call' = [call EXCEPT ![c].pc = "failed"]
  /\ UNCHANGED <<clock, chain, cache, used, pending, past>>

-----------------------------------------------------------------------------
(* The chain.                                                              *)

SetChain(o, accounts) ==
  /\ chain' = [chain EXCEPT ![o] = accounts]
  /\ past' = [past EXCEPT ![o] = @ \cup {<<accounts, clock>>}]

OnChain(a) == \E o \in Owner : a \in chain[o]

\* A transaction succeeds when the account it creates does not exist, or the
\* account it uses does, and belongs to the owner.
Succeeds(c) ==
  IF call[c].creates THEN ~OnChain(call[c].target)
                     ELSE call[c].target \in chain[call[c].owner]

Confirmed(c, end) ==
  /\ pending' = pending \ {c}
  /\ call' = [call EXCEPT ![c].pc = IF @ = "sent" THEN end ELSE @]

\* The transaction executes as a whole; a sender still waiting is told.
TransactionLands(c) ==
  /\ c \in pending
  /\ Succeeds(c)
  /\ LET o == call[c].owner
     IN  SetChain(o, IF call[c].creates THEN chain[o] \cup {call[c].target}
                                        ELSE chain[o])
  /\ Confirmed(c, "done")
  /\ UNCHANGED <<clock, cache, used>>

\* The transaction executes with an error and changes nothing.
TransactionErrs(c) ==
  /\ c \in pending
  /\ ~Succeeds(c)
  /\ Confirmed(c, "failed")
  /\ UNCHANGED <<clock, chain, cache, used, past>>

\* The transaction is never executed.
TransactionExpires(c) ==
  /\ c \in pending
  /\ pending' = pending \ {c}
  /\ UNCHANGED <<clock, chain, cache, call, used, past>>

\* An owner closes an account (closeOpenOrders of the swap package).
CloseOpenOrders(o, a) ==
  /\ a \in chain[o]
  /\ SetChain(o, chain[o] \ {a})
  /\ UNCHANGED <<clock, cache, call, used, pending>>

Tick ==
  /\ clock < MaxClock
  /\ clock' = clock + 1
  /\ past' = [o \in Owner |-> past[o] \cup {<<chain[o], clock + 1>>}]
  /\ UNCHANGED <<chain, cache, call, used, pending>>

-----------------------------------------------------------------------------
PlaceOrderStep(c) ==
  \/ \E opt \in Option : BuildWithNewAccount(c, opt) \/ BuildWithAccount(c, opt)
  \/ SendTransaction(c)
  \/ ConfirmTimesOut(c)

Environment ==
  \/ \E c \in Call : \/ TransactionLands(c)
                     \/ TransactionErrs(c)
                     \/ TransactionExpires(c)
  \/ \E o \in Owner, a \in Account : CloseOpenOrders(o, a)
  \/ Tick

Next ==
  \/ \E c \in Call :
       \/ \E o \in Owner, places \in BOOLEAN, d \in Duration :
            Lookup(c, o, places, d)
       \/ GetProgramAccounts(c)
       \/ StoreInCache(c)
       \/ RequestFails(c)
       \/ PlaceOrderStep(c)
  \/ Environment

Spec == Init /\ [][Next]_vars

-----------------------------------------------------------------------------
(* Properties.                                                             *)

\* The read each call makes, as its caller sees it.
ReadOf(c) ==
  IF call[c] = Idle THEN [state |-> "idle"]
  ELSE IF call[c].pc \in {"fetching", "fetched"}
  THEN [state |-> "asked", key |-> call[c].owner,
        tolerance |-> call[c].duration, start |-> call[c].start]
  ELSE IF call[c].pc = "failed" THEN [state |-> "failed"]
  ELSE [state |-> "returned", key |-> call[c].owner,
        tolerance |-> call[c].duration, value |-> call[c].seen]

Reads == INSTANCE BoundedStaleness WITH
  Key <- Owner, Value <- SUBSET Account, Reader <- Call, Tolerance <- Duration,
  now <- clock, source <- chain, read <- [c \in Call |-> ReadOf(c)]

\* findOpenOrdersAccountsForOwner keeps what its parameter cacheDurationMs
\* promises: every list it returns was the owner's list on chain while the
\* call ran or less than cacheDurationMs before it, however lookups, their
\* answers and the invalidations of placeOrder interleave.
ReadsAreFreshEnough == Reads!Spec

\* placeOrder adds the instruction that creates an open-orders account only
\* if the owner had none at some moment that cacheDurationMs still allows.
CreatesOnlyIfAbsent ==
  \A c \in Call : call[c] # Idle /\ call[c].creates =>
    \E p \in past[call[c].owner] :
      p[1] = {} /\ Reads!Fresh(p[2], call[c].start, call[c].duration)

\* When placeOrder marks the owner's entry as expired, the entry exists: the
\* assignment to its ts never hits undefined.
InvalidationHasEntry ==
  \A c \in Call : Building(c) => cache[call[c].owner] # None

=============================================================================
