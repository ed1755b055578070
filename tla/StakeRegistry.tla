---------------------------- MODULE StakeRegistry ----------------------------
(***************************************************************************)
(* What the user does with a stake once the store is bootstrapped: create  *)
(* a stake account, unstake (redeemPoolTokens), complete a withdrawal      *)
(* (endPendingWithdrawal), and change the registrar; and the requests for  *)
(* the list of pending withdrawals, which RedemptionList makes on every    *)
(* render until the store has one.                                         *)
(*                                                                         *)
(* Each is an asynchronous call that keeps the registrar of the render in  *)
(* which it began, and dispatches into whatever the store is by then.      *)
(*                                                                         *)
(* One user, one wallet, one network, no shutdown: StakeSession has those. *)
(***************************************************************************)
EXTENDS StakeStore, Naturals

CONSTANT Call  \* asynchronous calls, each made once

\* None is no withdrawal, no list of withdrawals and no account of one.
ASSUME RegistryAssumption ==
  /\ None \notin Withdrawal
  /\ \A list \in SUBSET Withdrawal : None # list
  /\ \A account \in [registrar : Registrar, status : {"fresh", "burned"}] : None # account

VARIABLES
  store,        \* the redux store
  call,         \* call[c]: where the call c stands, with its local variables
  watched,      \* registrars whose member is subscribed to
  pending,      \* calls with a transaction in flight
  members,      \* chain: registrars for which the user has a member account
  withdrawals,  \* chain: the user's pending withdrawals
  since         \* history: what happened since the last change of registrar

vars == <<store, call, watched, pending, members, withdrawals, since>>
chain == <<pending, members, withdrawals>>

(***************************************************************************)
(* pc:  preparing  requests, digests and the wallet's signature            *)
(*      sending    the transaction number sent is not confirmed            *)
(*      asked      an account or a list is requested from the node         *)
(*      answered   the node has answered with seen                         *)
(*      vaults     the vaults of the new member are requested              *)
(*      switching  digests of memberSeed                                   *)
(*      done, failed                                                       *)
(* registrar: selected when the call began, target: to be selected; found:  *)
(* its member was in the store; seen: what the node answered, dirty if it is *)
(* older than a dispatch (history).                                        *)
(***************************************************************************)
Idle == [pc |-> "idle"]

Keys(names, registrars) == names \X registrars

\* A store that bootstrap has filled, with no list of withdrawals.
Init ==
  /\ members \in SUBSET Registrar
  /\ withdrawals \in
       [Withdrawal -> [registrar : members, status : {"fresh"}] \cup {None}]
  /\ store = [InitialState EXCEPT
       !.bootstrapState = "Bootstrapped",
       !.isWalletConnected = TRUE,
       !.ownedTokenAccounts = Mainnet,
       !.vestings = {},
       !.member = IF First[Mainnet] \in members THEN First[Mainnet] ELSE None,
       !.accounts = [k \in Keys({"registrar", "poolMint"}, Registrar)
                             \cup Keys({"vaults", "member"}, members) |-> "fresh"]]
  /\ call = [c \in Call |-> Idle]
  /\ watched = {First[Mainnet]} \cap members
  /\ pending = {}
  /\ since = {}

Is(c, kind, pc) == call[c].pc = pc /\ call[c].kind = kind
On(r) == {w \in Withdrawal : withdrawals[w] # None /\ withdrawals[w].registrar = r}
Listed == IF store.pendingWithdrawals = None THEN {} ELSE store.pendingWithdrawals

-----------------------------------------------------------------------------
(* The user's clicks, and the effect of RedemptionList.                    *)

Begin(c, kind, pc, target, w) ==
  /\ call[c] = Idle
  /\ call' = [call EXCEPT ![c] =
       [kind |-> kind, pc |-> pc, registrar |-> store.registrar,
        target |-> target, found |-> Has(store, <<"member", target>>),
        withdrawal |-> w, sent |-> 0, seen |-> <<>>, dirty |-> FALSE]]
  /\ UNCHANGED <<store, watched, chain, since>>

\* The link is there as long as no member is.
CreateStakeAccount(c) ==
  /\ store.member = None
  /\ Begin(c, "create", "preparing", store.registrar, None)

\* The pending withdrawals of the selected member are requested, again on every
\* render, until there are some.
RequestList(c) ==
  /\ store.member # None
  /\ store.pendingWithdrawals = None
  /\ Begin(c, "list", "asked", store.registrar, None)

ListUnderWay ==
  \E c \in Call : /\ Is(c, "list", "asked") \/ Is(c, "list", "answered")
                 /\ call[c].registrar = store.registrar

\* The effect has run when a button of the page is clicked.
ListRequested ==
  store.pendingWithdrawals # None \/ "listLost" \in since \/ ListUnderWay

\* Unstake, with a new address.
RedeemPoolTokens(c, w) ==
  /\ store.member # None
  /\ ListRequested
  /\ withdrawals[w] = None
  /\ \A d \in Call : call[d] # Idle => call[d].withdrawal # w
  /\ Begin(c, "redeem", "preparing", store.registrar, w)

\* The checkmark of a listed withdrawal that is not burned.  Its timelock may be
\* over whenever the user clicks.
EndPendingWithdrawal(c, w) ==
  /\ store.member # None
  /\ w \in Listed
  /\ store.accounts[<<"withdrawal", w>>] = "fresh"
  /\ Begin(c, "complete", "preparing", store.registrar, w)

\* registrarSwitch, with the accounts of the render.
RegistrarSwitch(c, r) ==
  /\ r # store.registrar
  /\ Begin(c, "switch", "switching", r, None)

-----------------------------------------------------------------------------
(* The calls after their first await.                                      *)

Go(c, pc) == call' = [call EXCEPT ![c].pc = pc]

\* rpc, or sendAll, which signs all transactions first.
SendTransaction(c) ==
  /\ call[c].pc = "preparing"
  /\ call' = [call EXCEPT ![c].pc = "sending", ![c].sent = 1]
  /\ pending' = pending \cup {c}
  /\ UNCHANGED <<store, watched, members, withdrawals, since>>

Needed(kind) == IF kind = "create" THEN 3 ELSE 1

\* Dispatches that change a withdrawal make what was read before out of date.
Dirty(calls) ==
  [d \in Call |-> IF calls[d].pc = "answered" THEN [calls[d] EXCEPT !.dirty = TRUE]
                                              ELSE calls[d]]

\* A transaction is confirmed: sendAll sends the next; with the last, a completed
\* withdrawal is marked as burned, and the other calls request what they made.
Confirmed(c) ==
  IF call[c].sent < Needed(call[c].kind)
  THEN /\ call' = [call EXCEPT ![c].sent = @ + 1]
       /\ UNCHANGED <<store, pending>>
  ELSE /\ pending' = pending \ {c}
       /\ IF call[c].kind = "complete"
          THEN /\ store' = RegistryUpdatePendingWithdrawal(
                             store, call[c].withdrawal, "burned")
               /\ call' = Dirty([call EXCEPT ![c].pc = "done"])
          ELSE Go(c, "asked") /\ UNCHANGED store

\* The node evaluates a request for withdrawals: the one, or the list, which it
\* filters by registrar and member.
NodeReads(c) ==
  /\ Is(c, "redeem", "asked") \/ Is(c, "list", "asked")
  /\ LET read == IF call[c].kind = "redeem" THEN {call[c].withdrawal}
                                            ELSE On(call[c].registrar)
     IN  call' = [call EXCEPT
           ![c].pc = "answered",
           ![c].seen = [w \in read |-> withdrawals[w].status]]
  /\ UNCHANGED <<store, watched, chain, since>>

\* What is to be remembered of storing the answer of the call c: that it is of
\* another registrar, that it is older than a dispatch, or that a new withdrawal
\* becomes the whole list although none was requested.
Marks(c) ==
  {m \in {"crossed"} : call[c].registrar # store.registrar}
    \cup {m \in {"outdated"} : call[c].dirty}
    \cup {m \in {"listLost"} : /\ call[c].kind = "redeem"
                               /\ store.pendingWithdrawals = None
                               /\ ~ListUnderWay}

WithdrawalFetched(c) ==
  /\ Is(c, "redeem", "answered")
  /\ LET w == call[c].withdrawal
     IN  store' = RegistryCreatePendingWithdrawal(store, w, call[c].seen[w])
  /\ call' = Dirty([call EXCEPT ![c].pc = "done"])
  /\ since' = since \cup Marks(c)
  /\ UNCHANGED <<watched, chain>>

ListAnswered(c) ==
  /\ Is(c, "list", "answered")
  /\ store' = RegistrySetPendingWithdrawals(store, call[c].seen)
  /\ Go(c, "done")
  /\ since' = since \cup Marks(c)
  /\ UNCHANGED <<watched, chain>>

\* createStakeAccount has the new member, and requests its vaults.
MemberFetched(c) ==
  /\ Is(c, "create", "asked")
  /\ store' = AccountAdd(store, Entry(<<"member", call[c].registrar>>, "fresh"))
  /\ Go(c, "vaults")
  /\ UNCHANGED <<watched, chain, since>>

\* Mutant: the member is not subscribed to.
VaultsFetched_NoSubscription(c) ==
  /\ Is(c, "create", "vaults")
  /\ LET r == call[c].registrar
     IN  store' = RegistrySetMember(AccountAdd(store, Entry(<<"vaults", r>>, "fresh")), r)
  /\ Go(c, "done")
  /\ since' = since \cup Marks(c)
  /\ UNCHANGED <<watched, chain>>

\* createStakeAccount is through.
VaultsFetched(c) ==
  /\ Is(c, "create", "vaults")
  /\ LET r == call[c].registrar
     IN  /\ store' = RegistrySetMember(AccountAdd(store, Entry(<<"vaults", r>>, "fresh")), r)
         /\ watched' = watched \cup {r}
  /\ Go(c, "done")
  /\ since' = since \cup Marks(c)
  /\ UNCHANGED chain

SwitchEnds(c) ==
  /\ Is(c, "switch", "switching")
  /\ LET r == call[c].target
     IN  /\ store' = RegistrySetRegistrar(store, r, IF call[c].found THEN r ELSE None)
         /\ watched' = IF call[c].found THEN watched \cup {r} ELSE watched
  /\ Go(c, "done")
  /\ since' = {}
  /\ UNCHANGED chain

\* A request fails, the wallet does not sign, or a confirmation is given up while
\* its transaction may still be in flight.  Only the list has no handler.
RequestFails(c) ==
  /\ call[c].pc \in {"preparing", "sending", "asked", "vaults"}
  /\ Go(c, "failed")
  /\ since' = since \cup {m \in {"listLost"} : call[c].kind = "list"}
  /\ UNCHANGED <<store, watched, chain>>

-----------------------------------------------------------------------------
(* The chain.                                                              *)

\* The registry program: a member account has an address of its own, and only an
\* open withdrawal of the given member can be completed.
Succeeds(r) ==
  /\ r.kind = "create" /\ r.sent = 3 => r.registrar \notin members
  /\ r.kind = "complete" =>
       withdrawals[r.withdrawal] = [registrar |-> r.registrar, status |-> "fresh"]

TransactionLands(c) ==
  /\ c \in pending
  /\ Succeeds(call[c])
  /\ members' = IF call[c].kind = "create" /\ call[c].sent = 3
                THEN members \cup {call[c].registrar} ELSE members
  /\ withdrawals' =
       IF call[c].kind = "create" THEN withdrawals
       ELSE [withdrawals EXCEPT ![call[c].withdrawal] =
               [registrar |-> call[c].registrar,
                status |-> IF call[c].kind = "redeem" THEN "fresh" ELSE "burned"]]
  /\ IF call[c].pc = "sending" THEN Confirmed(c)
     ELSE pending' = pending \ {c} /\ UNCHANGED <<store, call>>
  /\ UNCHANGED <<watched, since>>

\* The transaction executes with an error, which ends the call and with it the
\* transactions that sendAll would send after it.
TransactionErrs(c) ==
  /\ c \in pending
  /\ pending' = pending \ {c}
  /\ Go(c, "failed")
  /\ UNCHANGED <<store, watched, members, withdrawals, since>>

\* The transaction is never executed.
TransactionExpires(c) ==
  /\ c \in pending
  /\ pending' = pending \ {c}
  /\ UNCHANGED <<store, call, watched, members, withdrawals, since>>

-----------------------------------------------------------------------------
Click(c) ==
  \/ CreateStakeAccount(c)
  \/ RequestList(c)
  \/ \E w \in Withdrawal : RedeemPoolTokens(c, w) \/ EndPendingWithdrawal(c, w)
  \/ \E r \in Registrar : RegistrarSwitch(c, r)

Continue(c) ==
  \/ SendTransaction(c)
  \/ NodeReads(c)
  \/ WithdrawalFetched(c)
  \/ ListAnswered(c)
  \/ MemberFetched(c)
  \/ VaultsFetched(c)
  \/ SwitchEnds(c)
  \/ RequestFails(c)

Transaction(c) == TransactionLands(c) \/ TransactionErrs(c) \/ TransactionExpires(c)

Next == \E c \in Call : Click(c) \/ Continue(c) \/ Transaction(c)

Spec == Init /\ [][Next]_vars

-----------------------------------------------------------------------------
(* Properties.                                                             *)

\* Member and pending withdrawals belong to the selected registrar, unless a call
\* begun under another has dispatched since the last change of registrar, which
\* puts everything right.
RegistryOfRegistrar ==
  "crossed" \notin since =>
    /\ store.member \in {None, store.registrar}
    /\ Listed \subseteq On(store.registrar)

\* Whoever selects a member has subscribed to its account and its vaults before,
\* and the vaults that Me reads are in the store: except that createStakeAccount
\* adds the member first, so that one may select it by changing the registrar and
\* back before its vaults have come, or after the request for them failed.
MemberIsReady ==
  store.member # None =>
    /\ store.member \in watched
    /\ Has(store, <<"member", store.member>>)
    /\ \/ Has(store, <<"vaults", store.member>>)
       \/ \E c \in Call : /\ Is(c, "create", "vaults") \/ Is(c, "create", "failed")
                         /\ call[c].registrar = store.member

\* Nothing that would undo a dispatch has been stored since the last change of
\* registrar, and no list is missing or under way.
ListIsSettled ==
  /\ since = {}
  /\ store.pendingWithdrawals # None
  /\ \A c \in Call : ~Is(c, "list", "asked") /\ ~Is(c, "list", "answered")

\* A settled list has every pending withdrawal of the registrar, also those made
\* while it was under way, except those of an unstaking that did not finish; and
\* those it shows as open are open on the chain, except those whose completion was
\* given up and went through later.
ListIsTrue ==
  LET Of(kind) == {c \in Call : call[c] # Idle /\ call[c].kind = kind}
      Unfinished == {call[c].withdrawal : c \in {c \in Of("redeem") : call[c].pc # "done"}}
      GivenUp == {call[c].withdrawal : c \in {c \in Of("complete") : call[c].pc = "failed"}}
  IN ListIsSettled =>
       /\ On(store.registrar) \ Unfinished \subseteq Listed
       /\ \A w \in Listed \ GivenUp :
            store.accounts[<<"withdrawal", w>>] = withdrawals[w].status
=============================================================================
