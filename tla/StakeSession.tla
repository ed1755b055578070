---------------------------- MODULE StakeSession ----------------------------
(***************************************************************************)
(* The life of a stake-ui session: connecting and disconnecting a wallet,  *)
(* changing the network, bootstrapping the store from the chain, shutting  *)
(* down, and what the user may start meanwhile: a refresh, a change of     *)
(* registrar, a new vesting account.                                       *)
(*                                                                         *)
(* Everything runs in one JavaScript thread.  An asynchronous call runs    *)
(* without interruption from one await to the next and keeps what it       *)
(* captured when it began: a wallet object, a network, a registrar.  An    *)
(* action is one such piece, or one event handler, with every dispatch it  *)
(* makes.  The effect of BootstrapProvider runs after the render that      *)
(* follows a dispatch and before any later render, so no other handler     *)
(* comes between a trigger and its effect.                                 *)
(*                                                                         *)
(* The wallet adapter, the RPC node and the chain are not part of the      *)
(* repository; they appear as the code uses them.                          *)
(***************************************************************************)
EXTENDS StakeStore, FiniteSets, Naturals, Sequences

CONSTANTS
  Op,         \* asynchronous calls, each made once
  Members,    \* registrars for which the user has a member account
  MaxOverlap, \* bound on the calls under way at a time
  MaxWallets  \* bound on the wallet objects made, one per change of network

ASSUME SessionAssumption ==
  Members \subseteq Registrar /\ MaxWallets \in Nat \ {0} /\ MaxOverlap \in Nat

VARIABLES
  store,       \* the redux store
  wallets,     \* the Wallet objects WalletProvider has made, the last in use
  op,          \* op[i]: where the call i stands, with what it captured
  subscribed,  \* registrars whose reward queue is subscribed to
  chain,       \* chain[n]: the user's vesting accounts on the network n
  leftover     \* history: a call begun before the last shutdown has
               \* dispatched since then

vars == <<store, wallets, op, subscribed, chain, leftover>>

-----------------------------------------------------------------------------
Kind == {"bootstrap", "refresh", "switch", "vesting"}

(***************************************************************************)
(* What a call awaits: answers from the node, or a digest of memberSeed.   *)
(* A bootstrap goes through the first group in order and then switch; a    *)
(* refresh through the first group; a change of registrar through the      *)
(* second, a new vesting account through the third.                        *)
(***************************************************************************)
Asking ==
  {"registrars", "members", "vaults", "mints", "tokens", "vestings", "create",
   "fetch"}
Digesting == {"seeds", "oldMember", "switch"}
Stage == Asking \cup Digesting \cup {"vestingsRead"}

\* Stages that begin by reading wallet.publicKey, which is null unless the
\* wallet is connected: the call then throws.
NeedsKey == {"members", "tokens", "vestings", "switch", "fetch"}

Idle == [kind |-> "none", stage |-> "idle"]
Ended(kind, how) == [kind |-> kind, stage |-> how]

Call ==
  [kind : Kind, stage : Stage,
   wallet : 1..MaxWallets,
   network : Network,
   registrar : Registrar,              \* the registrar to switch to
   old : Registrar \cup {None},        \* the registrar to switch from
   found : BOOLEAN,                    \* its member is in the store
   waiting : SUBSET Registrar,         \* members whose vaults are not answered
   seen : SUBSET Vesting,              \* vestings the node has answered with
   stale : BOOLEAN]                    \* history: a shutdown came since

Active(i) == op[i].stage \in Stage

TypeOK ==
  /\ IsState(store)
  /\ wallets \in Seq([network : Network, state : {"idle", "asked", "connected"}])
  /\ Len(wallets) \in 1..MaxWallets
  /\ op \in [Op -> Call \cup {Idle}
                     \cup [kind : Kind, stage : {"done", "failed"}]]
  /\ subscribed \subseteq Registrar
  /\ chain \in [Network -> SUBSET Vesting]
  /\ leftover \in BOOLEAN

Init ==
  /\ store = InitialState
  /\ wallets = <<[network |-> Mainnet, state |-> "idle"]>>
  /\ op = [i \in Op |-> Idle]
  /\ subscribed = {}
  /\ chain = [n \in Network |-> {}]
  /\ leftover = FALSE

Current == Len(wallets)

\* The bounds on calls: each is made once, and MaxOverlap are under way at a time.
\* Calls are interchangeable, and taken in a fixed order.
MayBegin ==
  /\ \E i \in Op : op[i] = Idle
  /\ Cardinality({i \in Op : Active(i)}) < MaxOverlap
NextCall == CHOOSE i \in Op : op[i] = Idle

Registrars(n) == {r \in Registrar : Home[r] = n}

\* A handler runs only when the effects of earlier renders have run.
EffectsRun == ~store.bootstrapTrigger /\ ~store.shutdownTrigger

-----------------------------------------------------------------------------
(* Wallets: WalletProvider and the listeners of WalletConnectButton, which *)
(* every wallet made so far keeps.                                         *)

SetWallet(g, state) == wallets' = [wallets EXCEPT ![g].state = state]

ConnectClicked ==
  /\ EffectsRun
  /\ ~store.isWalletConnected
  /\ wallets[Current].state = "idle"
  /\ SetWallet(Current, "asked")
  /\ UNCHANGED <<store, op, subscribed, chain, leftover>>

\* The user approves in the wallet's window, possibly long after.
WalletConnects(g) ==
  /\ EffectsRun
  /\ wallets[g].state = "asked"
  /\ MayBegin  \* the bounds on calls leave room for a bootstrap
  /\ SetWallet(g, "connected")
  /\ store' = TriggerBootstrap(WalletDidConnect(store))
  /\ UNCHANGED <<op, subscribed, chain, leftover>>

OnDisconnect(s) == TriggerShutdown(WalletDidDisconnect(s))

\* disconnect() emits its event only if the wallet was connected.
DisconnectClicked ==
  /\ EffectsRun
  /\ store.isWalletConnected
  /\ SetWallet(Current, "idle")
  /\ store' = IF wallets[Current].state = "connected" THEN OnDisconnect(store)
                                                      ELSE store
  /\ UNCHANGED <<op, subscribed, chain, leftover>>

\* The wallet's side disconnects.
WalletDrops(g) ==
  /\ EffectsRun
  /\ wallets[g].state = "connected"
  /\ SetWallet(g, "idle")
  /\ store' = OnDisconnect(store)
  /\ UNCHANGED <<op, subscribed, chain, leftover>>

\* NetworkSelector.  WalletProvider makes a new wallet for the network; the old
\* one stays as it is.
NetworkSelected(n) ==
  /\ EffectsRun
  /\ n # store.network
  /\ Len(wallets) < MaxWallets
  /\ store' = SetNetwork(store, n)
  /\ wallets' = Append(wallets, [network |-> n, state |-> "idle"])
  /\ UNCHANGED <<op, subscribed, chain, leftover>>

-----------------------------------------------------------------------------
(* Effects of BootstrapProvider, and the calls it and the user begin.      *)

Begin(i, kind, stage, r, old, found) ==
  /\ MayBegin
  /\ i = NextCall
  /\ op' = [op EXCEPT ![i] =
       [kind |-> kind, stage |-> stage, wallet |-> Current,
        network |-> store.network, registrar |-> r, old |-> old,
        found |-> found, waiting |-> {}, seen |-> {}, stale |-> FALSE]]

Bootstrap(i) ==
  /\ store.bootstrapTrigger
  /\ Begin(i, "bootstrap", "registrars", store.registrar, None, FALSE)
  /\ store' = AppWillBootstrap(store)
  /\ UNCHANGED <<wallets, subscribed, chain, leftover>>

\* Mutant: the wallet in use stays connected.
Shutdown_LeavesWallet ==
  /\ store.shutdownTrigger
  /\ store' = DidShutdown(store)
  /\ op' = [i \in Op |-> IF Active(i) THEN [op[i] EXCEPT !.stale = TRUE]
                                      ELSE op[i]]
  /\ leftover' = FALSE
  /\ UNCHANGED <<wallets, subscribed, chain>>

\* The wallet in use is disconnected; what its listeners then dispatch is
\* reset at once.  Calls in flight go on.
Shutdown ==
  /\ store.shutdownTrigger
  /\ SetWallet(Current, "idle")
  /\ store' = DidShutdown(store)
  /\ op' = [i \in Op |-> IF Active(i) THEN [op[i] EXCEPT !.stale = TRUE]
                                      ELSE op[i]]
  /\ leftover' = FALSE
  /\ UNCHANGED <<subscribed, chain>>

\* Header's refresh button.
RefreshClicked(i) ==
  /\ EffectsRun /\ IsAppReady(store)
  /\ Begin(i, "refresh", "registrars", store.registrar, None, FALSE)
  /\ UNCHANGED <<store, wallets, subscribed, chain, leftover>>

\* RegistrarSelect offers the registrars of the network that are in the store,
\* and captures the accounts it was rendered with.  The wallet's key is read
\* before the first await.
RegistrarSelected(i, r) ==
  /\ EffectsRun /\ IsAppReady(store)
  /\ wallets[Current].state = "connected"
  /\ \A s \in {r, store.registrar} :
       s \in Registrars(store.network) /\ Has(store, <<"registrar", s>>)
  /\ r # store.registrar
  /\ Begin(i, "switch", "oldMember", r, store.registrar,
           Has(store, <<"member", r>>))
  /\ UNCHANGED <<store, wallets, subscribed, chain, leftover>>

\* NewVesting, for the user's own benefit.
NewVestingClicked(i) ==
  /\ EffectsRun /\ IsAppReady(store)
  /\ wallets[Current].state = "connected"
  /\ Begin(i, "vesting", "create", store.registrar, None, FALSE)
  /\ UNCHANGED <<store, wallets, subscribed, chain, leftover>>

-----------------------------------------------------------------------------
(* Steps of a call.                                                        *)

At(i, stage) == EffectsRun /\ op[i].stage = stage

\* The call goes on to its next stage, or throws.
Proceed(i, stage) ==
  op' = [op EXCEPT ![i] =
    IF stage \in NeedsKey /\ wallets[op[i].wallet].state # "connected"
    THEN Ended(@.kind, "failed")
    ELSE [@ EXCEPT !.stage = stage]]

End(i, how) == op' = [op EXCEPT ![i] = Ended(@.kind, how)]

Dispatch(i, state) ==
  /\ store' = state
  /\ leftover' = (leftover \/ op[i].stale)

Fresh(kinds, regs) == [k \in kinds \X regs |-> "fresh"]

\* fetchRegistrars: the registrars with their mints and reward queues.
RegistrarsAnswered(i) ==
  /\ At(i, "registrars")
  /\ Dispatch(i, AccountAdd(store,
                            Fresh({"registrar"}, Registrars(op[i].network))))
  /\ Proceed(i, "seeds")
  /\ UNCHANGED <<wallets, subscribed, chain>>

SeedsDigested(i) ==
  /\ At(i, "seeds")
  /\ Proceed(i, "members")
  /\ UNCHANGED <<store, wallets, subscribed, chain, leftover>>

\* fetchMembers, up to the request for each member's vaults.
MembersAnswered(i) ==
  /\ At(i, "members")
  /\ LET members == Members \cap Registrars(op[i].network)
     IN  op' = [op EXCEPT ![i].waiting = members,
                          ![i].stage = IF members = {} THEN "mints"
                                                       ELSE "vaults"]
  /\ UNCHANGED <<store, wallets, subscribed, chain, leftover>>

\* Mutant: the members are added as soon as they are known.
VaultsAnswered_MembersFirst(i, r) ==
  /\ At(i, "vaults")
  /\ r \in op[i].waiting
  /\ Dispatch(i, AccountAdd(store, Fresh({"member"}, {r})))
  /\ op' = [op EXCEPT ![i].waiting = @ \ {r},
                      ![i].stage = IF op[i].waiting = {r} THEN "mints" ELSE @]
  /\ UNCHANGED <<wallets, subscribed, chain>>

\* fetchAndDispatchMemberAccounts of one member; after the last, the members.
VaultsAnswered(i, r) ==
  /\ At(i, "vaults")
  /\ r \in op[i].waiting
  /\ LET s == AccountAdd(store, Fresh({"vaults"}, {r}))
         last == op[i].waiting = {r}
         members == Members \cap Registrars(op[i].network)
     IN  /\ Dispatch(i, IF last THEN AccountAdd(s, Fresh({"member"}, members))
                                ELSE s)
         /\ op' = [op EXCEPT ![i].waiting = @ \ {r},
                             ![i].stage = IF last THEN "mints" ELSE @]
  /\ UNCHANGED <<wallets, subscribed, chain>>

MintsAnswered(i) ==
  /\ At(i, "mints")
  /\ Dispatch(i, AccountAdd(store,
                            Fresh({"poolMint"}, Registrars(op[i].network))))
  /\ Proceed(i, "tokens")
  /\ UNCHANGED <<wallets, subscribed, chain>>

TokensAnswered(i) ==
  /\ At(i, "tokens")
  /\ Dispatch(i, OwnedTokenAccountsSet(store, op[i].network))
  /\ Proceed(i, "vestings")
  /\ UNCHANGED <<wallets, subscribed, chain>>

\* The node evaluates the request for the vestings; the answer may take longer.
NodeReadsVestings(i) ==
  /\ At(i, "vestings")
  /\ op' = [op EXCEPT ![i].seen = chain[op[i].network],
                      ![i].stage = "vestingsRead"]
  /\ UNCHANGED <<store, wallets, subscribed, chain, leftover>>

\* fetchVestingAccounts, the end of refreshAccounts.
VestingsAnswered(i) ==
  /\ At(i, "vestingsRead")
  /\ Dispatch(i, LockupSetVestings(
                   AccountAdd(store, [k \in {"vesting"} \X op[i].seen |-> "fresh"]),
                   op[i].seen))
  /\ IF op[i].kind = "bootstrap" THEN Proceed(i, "switch") ELSE End(i, "done")
  /\ UNCHANGED <<wallets, subscribed, chain>>

OldMemberDigested(i) ==
  /\ At(i, "oldMember")
  /\ Proceed(i, "switch")
  /\ UNCHANGED <<store, wallets, subscribed, chain, leftover>>

\* Mutant: the member is taken for found.
MemberOf_Unchecked(r, found) == r

MemberOf(r, found) == IF found THEN r ELSE None

\* Mutant: the new reward queue is unsubscribed from, in place of the old.
SwitchEnds_UnsubscribesNew(i) ==
  /\ At(i, "switch") /\ op[i].kind = "switch"
  /\ subscribed' = subscribed \ {op[i].registrar}
  /\ Dispatch(i, RegistrySetRegistrar(store, op[i].registrar,
                   MemberOf(op[i].registrar, op[i].found)))
  /\ End(i, "done")
  /\ UNCHANGED <<wallets, chain>>

\* The end of registrarSwitch for RegistrarSelect.
SwitchEnds(i) ==
  /\ At(i, "switch") /\ op[i].kind = "switch"
  /\ subscribed' = (subscribed \ {op[i].old}) \cup {op[i].registrar}
  /\ Dispatch(i, RegistrySetRegistrar(store, op[i].registrar,
                   MemberOf(op[i].registrar, op[i].found)))
  /\ End(i, "done")
  /\ UNCHANGED <<wallets, chain>>

\* The end of registrarSwitch for bootstrap, which looks the registrar up among
\* the accounts it has fetched, and throws if it is not there.
BootstrapEnds(i) ==
  /\ At(i, "switch") /\ op[i].kind = "bootstrap"
  /\ LET r == op[i].registrar
     IN  IF r \in Registrars(op[i].network)
         THEN /\ subscribed' = subscribed \cup {r}
              /\ Dispatch(i, AppDidBootstrap(RegistrySetRegistrar(store, r,
                               MemberOf(r, r \in Members))))
              /\ End(i, "done")
         ELSE /\ End(i, "failed")
              /\ UNCHANGED <<store, subscribed, leftover>>
  /\ UNCHANGED <<wallets, chain>>

\* createVesting is confirmed; the wallet's key is read once more.
VestingCreated(i) ==
  /\ At(i, "create")
  /\ \E v \in Vesting : /\ \A n \in Network : v \notin chain[n]
                        /\ chain' = [chain EXCEPT ![op[i].network] = @ \cup {v}]
                        /\ op' = [op EXCEPT ![i] =
                             IF wallets[@.wallet].state # "connected"
                             THEN Ended(@.kind, "failed")
                             ELSE [@ EXCEPT !.stage = "fetch", !.seen = {v}]]
  /\ UNCHANGED <<store, wallets, subscribed, leftover>>

VestingFetched(i) ==
  /\ At(i, "fetch")
  /\ \E v \in op[i].seen : Dispatch(i, LockupCreateVesting(store, v))
  /\ End(i, "done")
  /\ UNCHANGED <<wallets, subscribed, chain>>

\* A request fails; the call throws.
RequestFails(i) ==
  /\ EffectsRun
  /\ op[i].stage \in Asking \cup {"vestingsRead"}
  /\ End(i, "failed")
  /\ UNCHANGED <<store, wallets, subscribed, chain, leftover>>

-----------------------------------------------------------------------------
User ==
  \/ ConnectClicked
  \/ DisconnectClicked
  \/ \E g \in 1..Len(wallets) : WalletConnects(g) \/ WalletDrops(g)
  \/ \E n \in Network : NetworkSelected(n)
  \/ \E i \in Op : \/ RefreshClicked(i)
                   \/ \E r \in Registrar : RegistrarSelected(i, r)
                   \/ NewVestingClicked(i)

Step(i) ==
  \/ RegistrarsAnswered(i)
  \/ SeedsDigested(i)
  \/ MembersAnswered(i)
  \/ \E r \in Registrar : VaultsAnswered(i, r)
  \/ MintsAnswered(i)
  \/ TokensAnswered(i)
  \/ NodeReadsVestings(i)
  \/ VestingsAnswered(i)
  \/ OldMemberDigested(i)
  \/ SwitchEnds(i)
  \/ BootstrapEnds(i)
  \/ VestingCreated(i)
  \/ VestingFetched(i)
  \/ RequestFails(i)

Effect == (\E i \in Op : Bootstrap(i)) \/ Shutdown

Next == User \/ Effect \/ \E i \in Op : Step(i)

\* Effects run, and every answer comes, or is given up.
Fairness == WF_vars(Effect \/ \E i \in Op : Step(i))

Spec == Init /\ [][Next]_vars /\ Fairness

-----------------------------------------------------------------------------
(* Properties.                                                             *)

\* The store never forgets a connected wallet: unless a shutdown is about to
\* run, the application shows a wallet in use that is connected as connected,
\* whichever wallet's event came last (wallets no longer in use keep their
\* listeners, Header.tsx:329-354).
WalletIsKnown ==
  wallets[Current].state = "connected" /\ ~store.shutdownTrigger
    => store.isWalletConnected

\* A bootstrapped application is subscribed to the reward queue of the selected
\* registrar, in whatever order overlapping changes of registrar end.
SelectedIsSubscribed ==
  store.bootstrapState = "Bootstrapped" => store.registrar \in subscribed

\* What the pages take for granted: the selected registrar is one of the
\* network's and in the store with its mints, the token accounts were fetched,
\* and a member comes with its vaults (Me.tsx:32).
Populated ==
  /\ Home[store.registrar] = store.network
  /\ Has(store, <<"registrar", store.registrar>>)
  /\ Has(store, <<"poolMint", store.registrar>>)
  /\ store.ownedTokenAccounts = store.network
  /\ store.member # None => /\ Has(store, <<"member", store.member>>)
                            /\ Has(store, <<"vaults", store.member>>)

\* Whatever bootstraps and changes of registrar overlap, the selected member is
\* the selected registrar's, unless a change of network waits for its shutdown;
\* and no member is in the store without its vaults, the order in which
\* fetchMembers dispatches them (BootstrapProvider.tsx:255), across any shutdown
\* in between, unless a call of an earlier session has interfered.
MemberIsWhole ==
  /\ ~store.shutdownTrigger => store.member \in {None, store.registrar}
  /\ ~leftover => \A r \in Registrar :
       Has(store, <<"member", r>>) => Has(store, <<"vaults", r>>)

\* A bootstrapped application is populated, as long as no call of an earlier
\* session has interfered.
BootstrappedIsPopulated ==
  store.bootstrapState = "Bootstrapped" /\ ~leftover => Populated

\* BootstrapProvider: refreshAccounts "populates the redux store with all
\* accounts needed for the app to start" (BootstrapProvider.tsx:122).
AlwaysPopulated == store.bootstrapState = "Bootstrapped" => Populated

\* The application does not show "Connecting to" for ever: when a bootstrap runs,
\* the store leaves IsBootstrapping or the bootstrap's error is reported.
SpinnerEnds ==
  \A i \in Op : op[i].kind = "bootstrap" /\ Active(i) ~>
                  \/ op[i].stage = "failed"
                  \/ store.bootstrapState # "IsBootstrapping"
=============================================================================
