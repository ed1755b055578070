------------------------- MODULE StakeSessionProofs -------------------------
(***************************************************************************)
(* Proofs about StakeSession, for any networks, registrars, calls and      *)
(* bounds.                                                                 *)
(*                                                                         *)
(* What a bootstrapped store holds was put there by calls that read the    *)
(* store and the network long before.  The invariant follows each call of  *)
(* the present session, stage by stage, and says what it has stored so     *)
(* far; calls that outlive a shutdown, and what they store, are left to    *)
(* the history variables stale and leftover.                               *)
(***************************************************************************)
EXTENDS StakeSession, SequenceTheorems, TLAPS

HasAll(kind, registrars) == \A r \in registrars : Has(store, <<kind, r>>)

\* The store has all of a network's registrars with their mints, and the token
\* accounts.
Complete(n) ==
  /\ HasAll("registrar", Registrars(n))
  /\ HasAll("poolMint", Registrars(n))
  /\ store.ownedTokenAccounts = n

\* A call that was begun in the present session.
Own(i) == Active(i) /\ ~op[i].stale

\* The call is at one of the stages, or a bootstrap is past them all.
Reached(i, stages) ==
  op[i].stage \in stages \/ (op[i].stage = "switch" /\ op[i].kind = "bootstrap")

MembersOf(i) == Members \cap Registrars(op[i].network)

\* What a call has stored by the stage it is at.
StageInv(i) ==
  /\ op[i].stage = "oldMember" => op[i].kind = "switch"
  /\ Reached(i, {"seeds", "members", "vaults", "mints", "tokens", "vestings",
                 "vestingsRead"})
       => HasAll("registrar", Registrars(op[i].network))
  /\ op[i].stage = "vaults" => HasAll("vaults", MembersOf(i) \ op[i].waiting)
  /\ Reached(i, {"mints", "tokens", "vestings", "vestingsRead"})
       => HasAll("member", MembersOf(i))
  /\ Reached(i, {"tokens", "vestings", "vestingsRead"})
       => HasAll("poolMint", Registrars(op[i].network))
  /\ Reached(i, {"vestings", "vestingsRead"})
       => store.ownedTokenAccounts = op[i].network

\* A change of registrar begins in a bootstrapped store.
SwitchInv(i) ==
  op[i].kind = "switch" =>
    /\ op[i].registrar \in Registrars(op[i].network)
    /\ Complete(op[i].network)
    /\ op[i].found => Has(store, <<"member", op[i].registrar>>)

CallInv(i) ==
  /\ ~store.shutdownTrigger => op[i].network = store.network
  /\ StageInv(i)
  /\ SwitchInv(i)

\* The first half of MemberIsWhole.
MemberOfSelected == ~store.shutdownTrigger => store.member \in {None, store.registrar}

\* The second half.
VaultsBeforeMember ==
  \A r \in Registrar : Has(store, <<"member", r>>) => Has(store, <<"vaults", r>>)

BootstrapInv ==
  store.bootstrapState = "Bootstrapped" =>
    /\ Home[store.registrar] = store.network
    /\ Complete(store.network)
    /\ store.member # None => Has(store, <<"member", store.member>>)

\* As long as only calls of the present session have dispatched in it.
PresentInv ==
  /\ VaultsBeforeMember
  /\ BootstrapInv
  /\ \A i \in Op : Own(i) => CallInv(i)

IInv ==
  /\ TypeOK
  /\ WalletIsKnown
  /\ SelectedIsSubscribed
  /\ MemberOfSelected
  /\ ~leftover => PresentInv

-----------------------------------------------------------------------------
(* What the reducer does to a store.                                       *)

\* What no call dispatches: it shows, hides and shuts down nothing, and removes
\* no account.
Grows(s, t) ==
  /\ IsState(t)
  /\ t.bootstrapTrigger = s.bootstrapTrigger
  /\ t.shutdownTrigger = s.shutdownTrigger
  /\ t.isWalletConnected = s.isWalletConnected
  /\ t.network = s.network
  /\ DOMAIN s.accounts \subseteq DOMAIN t.accounts

SameSelection(s, t) ==
  /\ t.bootstrapState = s.bootstrapState
  /\ t.registrar = s.registrar
  /\ t.member = s.member

LEMMA AccountAddGrows ==
  ASSUME NEW s, IsState(s), NEW a, DOMAIN a \subseteq Key,
         \A k \in DOMAIN a : a[k] = "fresh"
  PROVE  LET t == AccountAdd(s, a)
         IN /\ Grows(s, t)
            /\ SameSelection(s, t)
            /\ t.ownedTokenAccounts = s.ownedTokenAccounts
            /\ \A k : Has(t, k) <=> k \in DOMAIN a \/ Has(s, k)
<1> DEFINE t == AccountAdd(s, a)
           b == [k \in DOMAIN a \cup DOMAIN s.accounts |->
                   IF k \in DOMAIN a THEN a[k] ELSE s.accounts[k]]
<1>1. t = [s EXCEPT !.accounts = b]
  BY DEF AccountAdd
<1>2. DOMAIN b = DOMAIN a \cup DOMAIN s.accounts
  OBVIOUS
<1>3. \A k \in DOMAIN b : b[k] \in {"fresh", "burned"}
  BY DEF IsState
<1> HIDE DEF b
<1>4. IsState(t) /\ t.accounts = b
  BY <1>1, <1>2, <1>3 DEF IsState
<1>5. QED
  BY <1>1, <1>2, <1>4 DEF IsState, Grows, SameSelection, Has

LEMMA FreshGrows ==
  ASSUME NEW s, IsState(s), NEW R \in SUBSET Registrar,
         NEW kind \in {"registrar", "poolMint", "vaults", "member"}
  PROVE  LET t == AccountAdd(s, Fresh({kind}, R))
         IN /\ Grows(s, t)
            /\ SameSelection(s, t)
            /\ t.ownedTokenAccounts = s.ownedTokenAccounts
            /\ \A x, r : Has(t, <<x, r>>) <=> (x = kind /\ r \in R) \/ Has(s, <<x, r>>)
<1> DEFINE a == Fresh({kind}, R)
<1>1. DOMAIN a \subseteq Key /\ \A k \in DOMAIN a : a[k] = "fresh"
  BY DEF Fresh, Key
<1>2. \A x, r : <<x, r>> \in DOMAIN a <=> x = kind /\ r \in R
  BY DEF Fresh
<1> HIDE DEF a
<1> DEFINE t == AccountAdd(s, a)
<1>3. /\ Grows(s, t) /\ SameSelection(s, t)
      /\ t.ownedTokenAccounts = s.ownedTokenAccounts
      /\ \A k : Has(t, k) <=> k \in DOMAIN a \/ Has(s, k)
  BY <1>1, AccountAddGrows
<1> HIDE DEF t
<1>4. \A x, r : Has(t, <<x, r>>) <=> (x = kind /\ r \in R) \/ Has(s, <<x, r>>)
  BY <1>2, <1>3
<1>5. QED
  BY <1>3, <1>4 DEF t, a

LEMMA TokensSetGrows ==
  ASSUME NEW s, IsState(s), NEW n \in Network
  PROVE  LET t == OwnedTokenAccountsSet(s, n)
         IN /\ Grows(s, t)
            /\ SameSelection(s, t)
            /\ t.ownedTokenAccounts = n
            /\ t.accounts = s.accounts
BY DEF OwnedTokenAccountsSet, IsState, Grows, SameSelection

LEMMA VestingsSetGrows ==
  ASSUME NEW s, IsState(s), NEW V \in SUBSET Vesting
  PROVE  LET t == LockupSetVestings(
                    AccountAdd(s, [k \in {"vesting"} \X V |-> "fresh"]), V)
         IN /\ Grows(s, t)
            /\ SameSelection(s, t)
            /\ t.ownedTokenAccounts = s.ownedTokenAccounts
            /\ \A x, r : x # "vesting" => (Has(t, <<x, r>>) <=> Has(s, <<x, r>>))
<1> DEFINE a == [k \in {"vesting"} \X V |-> "fresh"]
           u == AccountAdd(s, a)
<1>1. DOMAIN a \subseteq Key /\ \A k \in DOMAIN a : a[k] = "fresh"
  BY DEF Key
<1>2. \A x, r : <<x, r>> \in DOMAIN a => x = "vesting"
  OBVIOUS
<1> HIDE DEF a
<1>3. /\ Grows(s, u) /\ SameSelection(s, u)
      /\ u.ownedTokenAccounts = s.ownedTokenAccounts
      /\ \A k : Has(u, k) <=> k \in DOMAIN a \/ Has(s, k)
  BY <1>1, AccountAddGrows
<1> HIDE DEF u
<1>4. LET t == LockupSetVestings(u, V)
      IN /\ Grows(u, t) /\ SameSelection(u, t)
         /\ t.ownedTokenAccounts = u.ownedTokenAccounts
         /\ t.accounts = u.accounts
  BY <1>3 DEF LockupSetVestings, IsState, Grows, SameSelection
<1>5. QED
  BY <1>2, <1>3, <1>4 DEF Grows, SameSelection, Has, a, u

LEMMA CreateVestingGrows ==
  ASSUME NEW s, IsState(s), NEW v \in Vesting
  PROVE  LET t == LockupCreateVesting(s, v)
         IN /\ Grows(s, t)
            /\ SameSelection(s, t)
            /\ t.ownedTokenAccounts = s.ownedTokenAccounts
            /\ \A x, r : x # "vesting" => (Has(t, <<x, r>>) <=> Has(s, <<x, r>>))
<1> DEFINE a == Entry(<<"vesting", v>>, "fresh")
           u == IF s.vestings = Shared THEN [s EXCEPT !.shared = @ \cup {v}]
                                       ELSE [s EXCEPT !.vestings = @ \cup {v}]
<1>1. DOMAIN a = {<<"vesting", v>>} /\ a[<<"vesting", v>>] = "fresh"
  BY DEF Entry
<1>2. DOMAIN a \subseteq Key /\ \A k \in DOMAIN a : a[k] = "fresh"
  BY <1>1 DEF Key
<1>3. \A x, r : <<x, r>> \in DOMAIN a => x = "vesting"
  BY <1>1
<1> HIDE DEF a
<1>4. /\ Grows(s, u) /\ SameSelection(s, u)
      /\ u.ownedTokenAccounts = s.ownedTokenAccounts
      /\ u.accounts = s.accounts
  BY DEF IsState, Grows, SameSelection
<1> HIDE DEF u
<1>5. LET t == AccountAdd(u, a)
      IN /\ Grows(u, t) /\ SameSelection(u, t)
         /\ t.ownedTokenAccounts = u.ownedTokenAccounts
         /\ \A k : Has(t, k) <=> k \in DOMAIN a \/ Has(u, k)
  BY <1>2, <1>4, AccountAddGrows DEF Grows
<1>6. LockupCreateVesting(s, v) = AccountAdd(u, a)
  BY DEF LockupCreateVesting, u, a
<1>7. QED
  BY <1>3, <1>4, <1>5, <1>6 DEF Grows, SameSelection, Has

LEMMA SetRegistrarGrows ==
  ASSUME NEW s, IsState(s), NEW r \in Registrar, NEW m \in Registrar \cup {None}
  PROVE  LET t == RegistrySetRegistrar(s, r, m)
         IN /\ Grows(s, t)
            /\ t.bootstrapState = s.bootstrapState
            /\ t.registrar = r /\ t.member = m
            /\ t.ownedTokenAccounts = s.ownedTokenAccounts
            /\ t.accounts = s.accounts
BY DEF RegistrySetRegistrar, IsState, Grows

LEMMA DidBootstrapGrows ==
  ASSUME NEW s, IsState(s)
  PROVE  LET t == AppDidBootstrap(s)
         IN /\ Grows(s, t)
            /\ t.bootstrapState = "Bootstrapped"
            /\ t.registrar = s.registrar /\ t.member = s.member
            /\ t.ownedTokenAccounts = s.ownedTokenAccounts
            /\ t.accounts = s.accounts
BY DEF AppDidBootstrap, IsState, Grows

-----------------------------------------------------------------------------
(* Steps of a call.                                                        *)

OpState == Call \cup {Idle} \cup [kind : Kind, stage : {"done", "failed"}]

\* An action that changes only what one call is at.
LEMMA OneCallChanges ==
  ASSUME op \in [Op -> OpState], NEW i \in Op, NEW x \in OpState,
         op' = [op EXCEPT ![i] = x]
  PROVE  /\ op' \in [Op -> OpState]
         /\ op'[i] = x
         /\ \A j \in Op : j # i => op'[j] = op[j]
OBVIOUS

LEMMA ActiveIsCall ==
  ASSUME op \in [Op -> OpState], NEW i \in Op, Active(i)
  PROVE  op[i] \in Call
<1>1. op[i] # Idle /\ op[i] \notin [kind : Kind, stage : {"done", "failed"}]
  BY DEF Active, Idle, Stage, Asking, Digesting
<1>2. QED
  BY <1>1 DEF OpState

\* A call that an action leaves alone keeps what it relies on, if no account is
\* removed, the network changes only with a shutdown to come, and the token
\* accounts are replaced only by those of the network.
LEMMA CallInvStable ==
  ASSUME NEW j \in Op, op'[j] = op[j], CallInv(j),
         \A k : Has(store, k) => Has(store', k),
         store'.shutdownTrigger
           \/ (~store.shutdownTrigger /\ store'.network = store.network),
         \/ store'.ownedTokenAccounts = store.ownedTokenAccounts
         \/ store'.ownedTokenAccounts = op[j].network
  PROVE  CallInv(j)'
BY DEF CallInv, StageInv, SwitchInv, Reached, HasAll, Complete, MembersOf

\* A step of the call i that dispatches nothing but what Grows allows.
LEMMA CallStep ==
  ASSUME IInv, NEW i \in Op, Active(i), EffectsRun,
         NEW x \in OpState, op' = [op EXCEPT ![i] = x],
         Grows(store, store'), UNCHANGED wallets,
         subscribed' \subseteq Registrar,
         chain' \in [Network -> SUBSET Vesting],
         leftover' \in BOOLEAN, leftover => leftover',
         SelectedIsSubscribed', MemberOfSelected',
         ~leftover' => /\ VaultsBeforeMember'
                       /\ BootstrapInv'
                       /\ (Own(i)' => CallInv(i)'),
         \/ store'.ownedTokenAccounts = store.ownedTokenAccounts
         \/ /\ store'.ownedTokenAccounts = op[i].network
            /\ ~leftover' => Own(i)
  PROVE  IInv'
<1>1. op \in [Op -> OpState]
  BY DEF IInv, TypeOK, OpState
<1>2. op' \in [Op -> OpState] /\ \A j \in Op : j # i => op'[j] = op[j]
  BY <1>1, OneCallChanges
<1>3. TypeOK'
  BY <1>2 DEF IInv, TypeOK, OpState, Grows
<1>4. WalletIsKnown'
  BY DEF IInv, WalletIsKnown, Current, Grows
<1>5. ASSUME ~leftover', NEW j \in Op, j # i, Own(j)'
      PROVE  CallInv(j)'
  <2>1. Own(j) /\ op'[j] = op[j]
    BY <1>2, <1>5 DEF Own, Active
  <2>2. CallInv(j) /\ op[j].network = store.network
    BY <1>5, <2>1 DEF IInv, PresentInv, CallInv, EffectsRun
  <2>3. \A k : Has(store, k) => Has(store', k)
    BY DEF Grows, Has
  <2>4. \/ store'.ownedTokenAccounts = store.ownedTokenAccounts
        \/ store'.ownedTokenAccounts = op[j].network
    <3>1. Own(i) /\ ~leftover => op[i].network = store.network
      BY DEF IInv, PresentInv, CallInv, EffectsRun
    <3>2. QED
      BY <1>5, <2>2, <3>1
  <2>5. QED
    BY <2>1, <2>2, <2>3, <2>4, CallInvStable DEF Grows, EffectsRun
<1>6. QED
  BY <1>3, <1>4, <1>5 DEF IInv, PresentInv

\* The same for a step that leaves the selection alone, and may fetch the token
\* accounts.
LEMMA PlainStep ==
  ASSUME IInv, NEW i \in Op, Active(i), EffectsRun,
         NEW x \in OpState, op' = [op EXCEPT ![i] = x],
         Grows(store, store'), SameSelection(store, store'),
         UNCHANGED <<wallets, subscribed>>,
         chain' \in [Network -> SUBSET Vesting],
         leftover' \in BOOLEAN, leftover => leftover',
         ~leftover' => /\ VaultsBeforeMember'
                       /\ (Own(i)' => CallInv(i)'),
         \/ store'.ownedTokenAccounts = store.ownedTokenAccounts
         \/ /\ store'.ownedTokenAccounts = op[i].network
            /\ ~leftover' => Own(i)
  PROVE  IInv'
<1>1. SelectedIsSubscribed' /\ MemberOfSelected'
  BY DEF IInv, SelectedIsSubscribed, MemberOfSelected, Grows, SameSelection
<1>2. ASSUME ~leftover' PROVE BootstrapInv'
  <2>1. BootstrapInv
    BY <1>2 DEF IInv, PresentInv
  <2>2. store'.ownedTokenAccounts = store.ownedTokenAccounts
          \/ store'.ownedTokenAccounts = store.network
    BY <1>2 DEF IInv, PresentInv, CallInv, EffectsRun
  <2>3. \A k : Has(store, k) => Has(store', k)
    BY DEF Grows, Has
  <2>4. QED
    BY <2>1, <2>2, <2>3
       DEF BootstrapInv, Complete, HasAll, Grows, SameSelection
<1>3. subscribed' \subseteq Registrar
  BY DEF IInv, TypeOK
<1>4. QED
  BY <1>1, <1>2, <1>3, CallStep

\* A call gone on to a stage.
Moved(i, stage) == [op[i] EXCEPT !.stage = stage]

LEMMA MovedCall ==
  ASSUME NEW i \in Op, op[i] \in Call, NEW stage \in Stage
  PROVE  /\ Moved(i, stage) \in Call
         /\ Moved(i, stage).stage = stage
         /\ Moved(i, stage).network = op[i].network
         /\ Moved(i, stage).kind = op[i].kind
         /\ Moved(i, stage).registrar = op[i].registrar
         /\ Moved(i, stage).found = op[i].found
         /\ Moved(i, stage).waiting = op[i].waiting
         /\ Moved(i, stage).stale = op[i].stale
BY DEF Moved, Call

\* Going on to a stage, or failing there.
Advances(i, stage) ==
  \E x \in OpState :
    /\ op' = [op EXCEPT ![i] = x]
    /\ x = Moved(i, stage) \/ x.stage \notin Stage

LEMMA ProceedAdvances ==
  ASSUME op \in [Op -> OpState], NEW i \in Op, Active(i), NEW stage \in Stage,
         Proceed(i, stage)
  PROVE  Advances(i, stage)
<1>1. op[i] \in Call
  BY ActiveIsCall
<1>2. Ended(op[i].kind, "failed") \in OpState /\ Ended(op[i].kind, "failed").stage = "failed"
  BY <1>1 DEF Ended, OpState, Call
<1>3. Moved(i, stage) \in OpState
  BY <1>1, MovedCall DEF OpState
<1>4. "failed" \notin Stage
  BY DEF Stage, Asking, Digesting
<1>5. QED
  BY <1>2, <1>3, <1>4 DEF Proceed, Advances, Moved

LEMMA EndChanges ==
  ASSUME op \in [Op -> OpState], NEW i \in Op, Active(i), NEW how \in {"done", "failed"},
         End(i, how)
  PROVE  \E x \in OpState : op' = [op EXCEPT ![i] = x] /\ x.stage \notin Stage
<1>1. op[i] \in Call
  BY ActiveIsCall
<1>2. Ended(op[i].kind, how) \in OpState /\ Ended(op[i].kind, how).stage = how
  BY <1>1 DEF Ended, OpState, Call
<1>3. QED
  BY <1>2 DEF End, Stage, Asking, Digesting

\* The step concerns the same call still.
SameCall(i) ==
  /\ op'[i].network = op[i].network /\ op'[i].kind = op[i].kind
  /\ op'[i].registrar = op[i].registrar /\ op'[i].found = op[i].found
  /\ op'[i].stale = op[i].stale

\* A call goes on: what is to be shown is that it has stored what it should by
\* then.
LEMMA StageStep ==
  ASSUME IInv, NEW i \in Op, Active(i), EffectsRun,
         NEW x \in OpState, op' = [op EXCEPT ![i] = x],
         Grows(store, store'), SameSelection(store, store'),
         UNCHANGED <<wallets, subscribed>>,
         chain' \in [Network -> SUBSET Vesting],
         leftover' \in BOOLEAN, leftover => leftover',
         \/ store'.ownedTokenAccounts = store.ownedTokenAccounts
         \/ /\ store'.ownedTokenAccounts = op[i].network
            /\ ~leftover' => Own(i),
         x.stage \in Stage => SameCall(i),
         ~leftover' /\ Own(i) /\ PresentInv => VaultsBeforeMember',
         ~leftover' /\ VaultsBeforeMember /\ ~Own(i) => VaultsBeforeMember',
         ~leftover' /\ Own(i) /\ CallInv(i) /\ x.stage \in Stage => StageInv(i)'
  PROVE  IInv'
<1>1. op \in [Op -> OpState] /\ op'[i] = x
  BY DEF IInv, TypeOK, OpState
<1>2. op[i] \in Call
  BY <1>1, ActiveIsCall
<1>3. ASSUME ~leftover', Own(i)' PROVE CallInv(i)'
  <2>1. x.stage \in Stage
    BY <1>1, <1>3 DEF Own, Active, Stage, Asking, Digesting
  <2>2. SameCall(i)
    BY <2>1
  <2>3. Own(i) /\ CallInv(i)
    BY <1>3, <2>2 DEF IInv, PresentInv, Own, SameCall
  <2>4. StageInv(i)'
    BY <1>3, <2>1, <2>3
  <2>5. \A k : Has(store, k) => Has(store', k)
    BY DEF Grows, Has
  <2>6. SwitchInv(i)'
    BY <2>2, <2>3, <2>5 DEF CallInv, SwitchInv, Complete, HasAll, SameCall
  <2>7. (~store.shutdownTrigger => op[i].network = store.network)'
    BY <2>2, <2>3 DEF CallInv, Grows, SameCall
  <2>8. QED
    BY <2>4, <2>6, <2>7 DEF CallInv
<1>4. ASSUME ~leftover' PROVE VaultsBeforeMember'
  BY <1>4 DEF IInv, PresentInv
<1>5. QED
  BY <1>3, <1>4, PlainStep

\* The same for a call that goes on to its next stage and changes nothing else of
\* itself, or fails.
LEMMA AdvanceStep ==
  ASSUME IInv, NEW i \in Op, Active(i), EffectsRun,
         NEW stage \in Stage, Advances(i, stage),
         Grows(store, store'), SameSelection(store, store'),
         UNCHANGED <<wallets, subscribed>>,
         chain' \in [Network -> SUBSET Vesting],
         leftover' \in BOOLEAN, leftover => leftover',
         \/ store'.ownedTokenAccounts = store.ownedTokenAccounts
         \/ /\ store'.ownedTokenAccounts = op[i].network
            /\ ~leftover' => Own(i),
         VaultsBeforeMember => VaultsBeforeMember',
         ~leftover' /\ Own(i) /\ CallInv(i) /\ op'[i] = Moved(i, stage) => StageInv(i)'
  PROVE  IInv'
<1>0. PICK x \in OpState : /\ op' = [op EXCEPT ![i] = x]
                           /\ x = Moved(i, stage) \/ x.stage \notin Stage
  BY DEF Advances
<1>1. op \in [Op -> OpState] /\ op'[i] = x
  BY <1>0 DEF IInv, TypeOK, OpState
<1>2. op[i] \in Call
  BY <1>1, ActiveIsCall
<1>3. x.stage \in Stage => op'[i] = Moved(i, stage)
  BY <1>0, <1>1
<1>4. x.stage \in Stage => SameCall(i)
  BY <1>2, <1>3, MovedCall DEF SameCall
<1>5. QED
  BY <1>0, <1>3, <1>4, StageStep DEF PresentInv

\* A call that a step concerns.
LEMMA AtStage ==
  ASSUME IInv, NEW i \in Op, NEW stage \in Stage, At(i, stage)
  PROVE  /\ op \in [Op -> OpState]
         /\ IsState(store)
         /\ EffectsRun
         /\ Active(i)
         /\ op[i] \in Call
         /\ op[i].stage = stage
<1>1. op \in [Op -> OpState] /\ IsState(store)
  BY DEF IInv, TypeOK, OpState
<1>2. QED
  BY <1>1, ActiveIsCall DEF At, Active

\* A dispatch by a call of an earlier session is remembered.
LEMMA DispatchMarks ==
  ASSUME IInv, NEW i \in Op, op[i] \in Call, Active(i), NEW s, Dispatch(i, s)
  PROVE  /\ store' = s
         /\ leftover' \in BOOLEAN
         /\ leftover => leftover'
         /\ ~leftover' => Own(i)
BY DEF IInv, TypeOK, Dispatch, Call, Own

LEMMA SelfGrows ==
  ASSUME IsState(store)
  PROVE  Grows(store, store) /\ SameSelection(store, store)
BY DEF Grows, SameSelection

-----------------------------------------------------------------------------
(* One lemma per step of a call.                                           *)

LEMMA RegistrarsAnsweredStep ==
  ASSUME IInv, NEW i \in Op, RegistrarsAnswered(i)
  PROVE  IInv'
<1> DEFINE R == Registrars(op[i].network)
<1>1. "registrars" \in Stage /\ "seeds" \in Stage
  BY DEF Stage, Asking, Digesting
<1>2. /\ op \in [Op -> OpState] /\ IsState(store) /\ EffectsRun
      /\ Active(i) /\ op[i] \in Call
  BY <1>1, AtStage DEF RegistrarsAnswered
<1>3. Advances(i, "seeds")
  BY <1>1, <1>2, ProceedAdvances DEF RegistrarsAnswered
<1>4. R \in SUBSET Registrar
  BY DEF Registrars
<1>5. /\ store' = AccountAdd(store, Fresh({"registrar"}, R))
      /\ leftover' \in BOOLEAN /\ (leftover => leftover')
  BY <1>2, DispatchMarks DEF RegistrarsAnswered
<1>6. /\ Grows(store, store') /\ SameSelection(store, store')
      /\ store'.ownedTokenAccounts = store.ownedTokenAccounts
      /\ \A k, r : Has(store', <<k, r>>)
                    <=> (k = "registrar" /\ r \in R) \/ Has(store, <<k, r>>)
  BY <1>2, <1>4, <1>5, FreshGrows
<1>7. VaultsBeforeMember => VaultsBeforeMember'
  BY <1>6 DEF VaultsBeforeMember
<1>8. ASSUME op'[i] = Moved(i, "seeds")
      PROVE  StageInv(i)'
  <2>1. op'[i].stage = "seeds" /\ op'[i].network = op[i].network
    BY <1>1, <1>2, <1>8, MovedCall
  <2>2. HasAll("registrar", R)'
    BY <1>6, <2>1 DEF HasAll
  <2>3. QED
    BY <2>1, <2>2 DEF StageInv, Reached
<1>9. UNCHANGED <<wallets, subscribed>> /\ chain' \in [Network -> SUBSET Vesting]
  BY DEF RegistrarsAnswered, IInv, TypeOK
<1>10. QED
  BY <1>1, <1>2, <1>3, <1>5, <1>6, <1>7, <1>8, <1>9, AdvanceStep

LEMMA SeedsDigestedStep ==
  ASSUME IInv, NEW i \in Op, SeedsDigested(i)
  PROVE  IInv'
<1>1. "seeds" \in Stage /\ "members" \in Stage
  BY DEF Stage, Asking, Digesting
<1>2. /\ op \in [Op -> OpState] /\ IsState(store) /\ EffectsRun
      /\ Active(i) /\ op[i] \in Call /\ op[i].stage = "seeds"
  BY <1>1, AtStage DEF SeedsDigested
<1>3. Advances(i, "members")
  BY <1>1, <1>2, ProceedAdvances DEF SeedsDigested
<1>4. UNCHANGED <<store, wallets, subscribed, chain, leftover>>
  BY DEF SeedsDigested
<1>5. Grows(store, store') /\ SameSelection(store, store')
  BY <1>2, <1>4, SelfGrows
<1>6. VaultsBeforeMember => VaultsBeforeMember'
  BY <1>4 DEF VaultsBeforeMember
<1>7. ASSUME CallInv(i), op'[i] = Moved(i, "members")
      PROVE  StageInv(i)'
  <2>1. op'[i].stage = "members" /\ op'[i].network = op[i].network
    BY <1>1, <1>2, <1>7, MovedCall
  <2>2. QED
    BY <1>2, <1>4, <1>7, <2>1 DEF CallInv, StageInv, Reached, HasAll
<1>8. leftover' \in BOOLEAN /\ chain' \in [Network -> SUBSET Vesting]
  BY <1>4 DEF IInv, TypeOK
<1>9. QED
  BY <1>1, <1>2, <1>3, <1>4, <1>5, <1>6, <1>7, <1>8, AdvanceStep

LEMMA MembersAnsweredStep ==
  ASSUME IInv, NEW i \in Op, MembersAnswered(i)
  PROVE  IInv'
<1> DEFINE next == IF MembersOf(i) = {} THEN "mints" ELSE "vaults"
           x == [op[i] EXCEPT !.waiting = MembersOf(i), !.stage = next]
<1>1. "members" \in Stage /\ next \in Stage
  BY DEF Stage, Asking, Digesting
<1>2. /\ op \in [Op -> OpState] /\ IsState(store) /\ EffectsRun
      /\ Active(i) /\ op[i] \in Call /\ op[i].stage = "members"
  BY <1>1, AtStage DEF MembersAnswered
<1>3. MembersOf(i) \in SUBSET Registrar
  BY SessionAssumption DEF MembersOf
<1>4. op' = [op EXCEPT ![i] = x]
  BY <1>2 DEF MembersAnswered, MembersOf
<1>5. x \in Call /\ x.stage = next /\ x.waiting = MembersOf(i)
  BY <1>1, <1>2, <1>3 DEF Call
<1>6. /\ x.network = op[i].network /\ x.kind = op[i].kind
      /\ x.registrar = op[i].registrar /\ x.found = op[i].found
      /\ x.stale = op[i].stale
  BY <1>2 DEF Call
<1> HIDE DEF x
<1>7. op'[i] = x /\ x \in OpState
  BY <1>2, <1>4, <1>5 DEF OpState
<1>8. SameCall(i)
  BY <1>6, <1>7 DEF SameCall
<1>9. UNCHANGED <<store, wallets, subscribed, chain, leftover>>
  BY DEF MembersAnswered
<1>10. Grows(store, store') /\ SameSelection(store, store')
  BY <1>2, <1>9, SelfGrows
<1>11. VaultsBeforeMember => VaultsBeforeMember'
  BY <1>9 DEF VaultsBeforeMember
<1>12. ASSUME CallInv(i) PROVE StageInv(i)'
  <2>1. MembersOf(i)' = MembersOf(i) /\ Registrars(op'[i].network) = Registrars(op[i].network)
    BY <1>6, <1>7 DEF MembersOf
  <2>2. HasAll("registrar", Registrars(op[i].network))'
    BY <1>2, <1>9, <1>12, <2>1 DEF CallInv, StageInv, Reached, HasAll
  <2>3. (op[i].stage = "vaults" => HasAll("vaults", MembersOf(i) \ op[i].waiting))'
    BY <1>5, <1>7, <2>1 DEF HasAll
  <2>4. (Reached(i, {"mints", "tokens", "vestings", "vestingsRead"})
           => HasAll("member", MembersOf(i)))'
    BY <1>5, <1>7, <2>1 DEF HasAll, Reached
  <2>5. QED
    BY <1>5, <1>7, <2>1, <2>2, <2>3, <2>4 DEF StageInv, Reached
<1>13. leftover' \in BOOLEAN /\ chain' \in [Network -> SUBSET Vesting]
  BY <1>9 DEF IInv, TypeOK
<1> HIDE DEF next
<1>14. QED
  BY <1>2, <1>4, <1>7, <1>8, <1>9, <1>10, <1>11, <1>12, <1>13, StageStep DEF PresentInv

LEMMA MintsAnsweredStep ==
  ASSUME IInv, NEW i \in Op, MintsAnswered(i)
  PROVE  IInv'
<1> DEFINE R == Registrars(op[i].network)
<1>1. "mints" \in Stage /\ "tokens" \in Stage
  BY DEF Stage, Asking
<1>2. /\ op \in [Op -> OpState] /\ IsState(store) /\ EffectsRun
      /\ Active(i) /\ op[i] \in Call /\ op[i].stage = "mints"
  BY <1>1, AtStage DEF MintsAnswered
<1>3. Advances(i, "tokens")
  BY <1>1, <1>2, ProceedAdvances DEF MintsAnswered
<1>4. R \in SUBSET Registrar
  BY DEF Registrars
<1>5. /\ store' = AccountAdd(store, Fresh({"poolMint"}, R))
      /\ leftover' \in BOOLEAN /\ (leftover => leftover')
  BY <1>2, DispatchMarks DEF MintsAnswered
<1>6. /\ Grows(store, store') /\ SameSelection(store, store')
      /\ store'.ownedTokenAccounts = store.ownedTokenAccounts
      /\ \A k, r : Has(store', <<k, r>>)
                    <=> (k = "poolMint" /\ r \in R) \/ Has(store, <<k, r>>)
  BY <1>2, <1>4, <1>5, FreshGrows
<1>7. VaultsBeforeMember => VaultsBeforeMember'
  BY <1>6 DEF VaultsBeforeMember
<1>8. ASSUME CallInv(i), op'[i] = Moved(i, "tokens")
      PROVE  StageInv(i)'
  <2>1. op'[i].stage = "tokens" /\ op'[i].network = op[i].network
    BY <1>1, <1>2, <1>8, MovedCall
  <2>2. MembersOf(i)' = MembersOf(i)
    BY <2>1 DEF MembersOf
  <2>3. HasAll("poolMint", R)'
    BY <1>6, <2>1 DEF HasAll
  <2>4. HasAll("registrar", R)' /\ HasAll("member", MembersOf(i))'
    BY <1>2, <1>6, <1>8, <2>1, <2>2 DEF CallInv, StageInv, Reached, HasAll
  <2>5. QED
    BY <2>1, <2>3, <2>4 DEF StageInv, Reached
<1>9. UNCHANGED <<wallets, subscribed>> /\ chain' \in [Network -> SUBSET Vesting]
  BY DEF MintsAnswered, IInv, TypeOK
<1>10. QED
  BY <1>1, <1>2, <1>3, <1>5, <1>6, <1>7, <1>8, <1>9, AdvanceStep

LEMMA TokensAnsweredStep ==
  ASSUME IInv, NEW i \in Op, TokensAnswered(i)
  PROVE  IInv'
<1>1. "tokens" \in Stage /\ "vestings" \in Stage
  BY DEF Stage, Asking
<1>2. /\ op \in [Op -> OpState] /\ IsState(store) /\ EffectsRun
      /\ Active(i) /\ op[i] \in Call /\ op[i].stage = "tokens"
  BY <1>1, AtStage DEF TokensAnswered
<1>3. Advances(i, "vestings")
  BY <1>1, <1>2, ProceedAdvances DEF TokensAnswered
<1>4. op[i].network \in Network
  BY <1>2 DEF Call
<1>5. /\ store' = OwnedTokenAccountsSet(store, op[i].network)
      /\ leftover' \in BOOLEAN /\ (leftover => leftover')
      /\ ~leftover' => Own(i)
  BY <1>2, DispatchMarks DEF TokensAnswered
<1>6. /\ Grows(store, store') /\ SameSelection(store, store')
      /\ store'.ownedTokenAccounts = op[i].network
      /\ store'.accounts = store.accounts
  BY <1>2, <1>4, <1>5, TokensSetGrows
<1>7. VaultsBeforeMember => VaultsBeforeMember'
  BY <1>6 DEF VaultsBeforeMember, Has
<1>8. ASSUME CallInv(i), op'[i] = Moved(i, "vestings")
      PROVE  StageInv(i)'
  <2>1. op'[i].stage = "vestings" /\ op'[i].network = op[i].network
    BY <1>1, <1>2, <1>8, MovedCall
  <2>2. MembersOf(i)' = MembersOf(i)
    BY <2>1 DEF MembersOf
  <2>3. /\ HasAll("registrar", Registrars(op[i].network))'
        /\ HasAll("poolMint", Registrars(op[i].network))'
        /\ HasAll("member", MembersOf(i))'
    BY <1>2, <1>6, <1>8, <2>1, <2>2 DEF CallInv, StageInv, Reached, HasAll, Has
  <2>4. QED
    BY <1>6, <2>1, <2>3 DEF StageInv, Reached
<1>9. UNCHANGED <<wallets, subscribed>> /\ chain' \in [Network -> SUBSET Vesting]
  BY DEF TokensAnswered, IInv, TypeOK
<1>10. QED
  BY <1>1, <1>2, <1>3, <1>5, <1>6, <1>7, <1>8, <1>9, AdvanceStep

LEMMA NodeReadsVestingsStep ==
  ASSUME IInv, NEW i \in Op, NodeReadsVestings(i)
  PROVE  IInv'
<1> DEFINE x == [op[i] EXCEPT !.seen = chain[op[i].network], !.stage = "vestingsRead"]
<1>1. "vestings" \in Stage /\ "vestingsRead" \in Stage
  BY DEF Stage, Asking
<1>2. /\ op \in [Op -> OpState] /\ IsState(store) /\ EffectsRun
      /\ Active(i) /\ op[i] \in Call /\ op[i].stage = "vestings"
  BY <1>1, AtStage DEF NodeReadsVestings
<1>3. chain[op[i].network] \in SUBSET Vesting
  BY <1>2 DEF IInv, TypeOK, Call
<1>4. op' = [op EXCEPT ![i] = x]
  BY <1>2 DEF NodeReadsVestings
<1>5. x \in Call /\ x.stage = "vestingsRead"
  BY <1>1, <1>2, <1>3 DEF Call
<1>6. /\ x.network = op[i].network /\ x.kind = op[i].kind
      /\ x.registrar = op[i].registrar /\ x.found = op[i].found
      /\ x.stale = op[i].stale
  BY <1>2 DEF Call
<1> HIDE DEF x
<1>7. op'[i] = x /\ x \in OpState
  BY <1>2, <1>4, <1>5 DEF OpState
<1>8. SameCall(i)
  BY <1>6, <1>7 DEF SameCall
<1>9. UNCHANGED <<store, wallets, subscribed, chain, leftover>>
  BY DEF NodeReadsVestings
<1>10. Grows(store, store') /\ SameSelection(store, store')
  BY <1>2, <1>9, SelfGrows
<1>11. VaultsBeforeMember => VaultsBeforeMember'
  BY <1>9 DEF VaultsBeforeMember
<1>12. ASSUME CallInv(i) PROVE StageInv(i)'
  <2>1. MembersOf(i)' = MembersOf(i)
    BY <1>6, <1>7 DEF MembersOf
  <2>2. QED
    BY <1>2, <1>5, <1>6, <1>7, <1>9, <1>12, <2>1 DEF CallInv, StageInv, Reached, HasAll
<1>13. leftover' \in BOOLEAN /\ chain' \in [Network -> SUBSET Vesting]
  BY <1>9 DEF IInv, TypeOK
<1>14. QED
  BY <1>2, <1>4, <1>7, <1>8, <1>9, <1>10, <1>11, <1>12, <1>13, StageStep DEF PresentInv

\* The last answer adds the members, whose vaults are all in the store by then.
LEMMA VaultsAnsweredStep ==
  ASSUME IInv, NEW i \in Op, NEW r \in Registrar, VaultsAnswered(i, r)
  PROVE  IInv'
<1> DEFINE last == op[i].waiting = {r}
           next == IF last THEN "mints" ELSE "vaults"
           x == [op[i] EXCEPT !.waiting = @ \ {r}, !.stage = next]
           s == AccountAdd(store, Fresh({"vaults"}, {r}))
           M == MembersOf(i)
<1>1. "vaults" \in Stage /\ next \in Stage
  BY DEF Stage, Asking
<1>2. /\ op \in [Op -> OpState] /\ IsState(store) /\ EffectsRun
      /\ Active(i) /\ op[i] \in Call /\ op[i].stage = "vaults"
  BY <1>1, AtStage DEF VaultsAnswered
<1>3. M \in SUBSET Registrar
  BY SessionAssumption DEF MembersOf
<1>4. op' = [op EXCEPT ![i] = x]
  BY <1>2 DEF VaultsAnswered
<1>5. x \in Call /\ x.stage = next /\ x.waiting = op[i].waiting \ {r}
  BY <1>1, <1>2, <1>3 DEF Call
<1>6. /\ x.network = op[i].network /\ x.kind = op[i].kind
      /\ x.registrar = op[i].registrar /\ x.found = op[i].found
      /\ x.stale = op[i].stale
  BY <1>2 DEF Call
<1> HIDE DEF x
<1>7. op'[i] = x /\ x \in OpState
  BY <1>2, <1>4, <1>5 DEF OpState
<1>8. SameCall(i)
  BY <1>6, <1>7 DEF SameCall
<1>9. /\ store' = (IF last THEN AccountAdd(s, Fresh({"member"}, M)) ELSE s)
      /\ leftover' \in BOOLEAN /\ (leftover => leftover')
      /\ ~leftover' => Own(i)
  BY <1>2, DispatchMarks DEF VaultsAnswered, MembersOf
<1>10. /\ Grows(store, s) /\ SameSelection(store, s)
       /\ s.ownedTokenAccounts = store.ownedTokenAccounts
       /\ \A k, q : Has(s, <<k, q>>)
                     <=> (k = "vaults" /\ q \in {r}) \/ Has(store, <<k, q>>)
  BY <1>2, FreshGrows
<1> HIDE DEF s
<1>11. /\ Grows(s, store') /\ SameSelection(s, store')
       /\ store'.ownedTokenAccounts = s.ownedTokenAccounts
       /\ \A k, q : Has(store', <<k, q>>)
                     <=> (last /\ k = "member" /\ q \in M) \/ Has(s, <<k, q>>)
  <2>1. CASE last
    <3> DEFINE t == AccountAdd(s, Fresh({"member"}, M))
    <3>1. IsState(s)
      BY <1>10 DEF Grows
    <3>2. /\ Grows(s, t) /\ SameSelection(s, t)
          /\ t.ownedTokenAccounts = s.ownedTokenAccounts
          /\ \A k, q : Has(t, <<k, q>>) <=> (k = "member" /\ q \in M) \/ Has(s, <<k, q>>)
      BY <1>3, <3>1, FreshGrows
    <3>3. store' = t
      BY <1>9, <2>1
    <3> HIDE DEF t
    <3>4. QED
      BY <2>1, <3>2, <3>3
  <2>2. CASE ~last
    BY <1>9, <1>10, <2>2 DEF Grows, SameSelection
  <2>3. QED
    BY <2>1, <2>2
<1>12. /\ Grows(store, store') /\ SameSelection(store, store')
       /\ store'.ownedTokenAccounts = store.ownedTokenAccounts
  BY <1>10, <1>11 DEF Grows, SameSelection
<1>13. ASSUME CallInv(i) PROVE HasAll("vaults", M \ (op[i].waiting \ {r}))'
  <2>1. HasAll("vaults", M \ op[i].waiting)
    BY <1>2, <1>13 DEF CallInv, StageInv
  <2>2. M' = M /\ op'[i].waiting = op[i].waiting \ {r}
    BY <1>5, <1>6, <1>7 DEF MembersOf
  <2>3. ASSUME NEW q \in M, q \notin op[i].waiting \/ q = r
        PROVE  Has(store', <<"vaults", q>>)
    BY <1>10, <1>11, <2>1, <2>3 DEF HasAll
  <2>4. op'[i].waiting \ {r} = op[i].waiting \ {r}
    BY <2>2
  <2>5. QED
    BY <2>2, <2>3, <2>4 DEF HasAll
<1>14. ASSUME VaultsBeforeMember, CallInv(i) PROVE VaultsBeforeMember'
  <2>1. last => \A q \in M : Has(store', <<"vaults", q>>)
    <3>1. M' = M /\ (last => op'[i].waiting \ {r} = {})
      BY <1>5, <1>6, <1>7 DEF MembersOf
    <3>2. QED
      BY <1>13, <1>14, <3>1 DEF HasAll
  <2>2. QED
    BY <1>10, <1>11, <1>14, <2>1 DEF VaultsBeforeMember
<1>15. ASSUME CallInv(i) PROVE StageInv(i)'
  <2>1. M' = M /\ op'[i].network = op[i].network /\ op'[i].stage = next
    BY <1>5, <1>6, <1>7 DEF MembersOf
  <2>2. HasAll("registrar", Registrars(op[i].network))'
    BY <1>2, <1>10, <1>11, <1>15, <2>1 DEF CallInv, StageInv, Reached, HasAll
  <2>3. (op[i].stage = "vaults" => HasAll("vaults", MembersOf(i) \ op[i].waiting))'
    <3>1. op'[i].waiting \ {r} = op'[i].waiting
      BY <1>5, <1>7
    <3>2. QED
      BY <1>5, <1>7, <1>13, <1>15, <2>1, <3>1 DEF HasAll
  <2>4. (op[i].stage = "mints" => HasAll("member", MembersOf(i)))'
    BY <1>11, <2>1 DEF HasAll
  <2>5. QED
    BY <2>1, <2>2, <2>3, <2>4 DEF StageInv, Reached
<1>16. UNCHANGED <<wallets, subscribed>> /\ chain' \in [Network -> SUBSET Vesting]
  BY DEF VaultsAnswered, IInv, TypeOK
<1>17. ~leftover' /\ Own(i) /\ PresentInv => VaultsBeforeMember'
  BY <1>14 DEF PresentInv
<1>18. ~leftover' => Own(i)
  BY <1>9
<1>19. leftover' \in BOOLEAN /\ (leftover => leftover')
  BY <1>9
<1> HIDE DEF next, M
<1>20. QED
  BY <1>2, <1>4, <1>7, <1>8, <1>12, <1>15, <1>16, <1>17, <1>18, <1>19, StageStep

LEMMA VestingsAnsweredStep ==
  ASSUME IInv, NEW i \in Op, VestingsAnswered(i)
  PROVE  IInv'
<1>1. "vestingsRead" \in Stage /\ "switch" \in Stage
  BY DEF Stage, Digesting
<1>2. /\ op \in [Op -> OpState] /\ IsState(store) /\ EffectsRun
      /\ Active(i) /\ op[i] \in Call /\ op[i].stage = "vestingsRead"
  BY <1>1, AtStage DEF VestingsAnswered
<1>3. op[i].kind = "bootstrap" \/ End(i, "done")
  BY DEF VestingsAnswered
<1>4. op[i].seen \in SUBSET Vesting
  BY <1>2 DEF Call
<1>5. /\ store' = LockupSetVestings(
                    AccountAdd(store, [k \in {"vesting"} \X op[i].seen |-> "fresh"]),
                    op[i].seen)
      /\ leftover' \in BOOLEAN /\ (leftover => leftover')
  BY <1>2, DispatchMarks DEF VestingsAnswered
<1>6. /\ Grows(store, store') /\ SameSelection(store, store')
      /\ store'.ownedTokenAccounts = store.ownedTokenAccounts
      /\ \A k, r : k # "vesting" => (Has(store', <<k, r>>) <=> Has(store, <<k, r>>))
  BY <1>2, <1>4, <1>5, VestingsSetGrows
<1>7. VaultsBeforeMember => VaultsBeforeMember'
  BY <1>6 DEF VaultsBeforeMember
<1>8. UNCHANGED <<wallets, subscribed>> /\ chain' \in [Network -> SUBSET Vesting]
  BY DEF VestingsAnswered, IInv, TypeOK
<1>9. CASE op[i].kind = "bootstrap"
  <2>1. Advances(i, "switch")
    BY <1>1, <1>2, <1>9, ProceedAdvances DEF VestingsAnswered
  <2>2. ASSUME CallInv(i), op'[i] = Moved(i, "switch")
        PROVE  StageInv(i)'
    <3>1. op'[i].stage = "switch" /\ op'[i].network = op[i].network
      BY <1>1, <1>2, <2>2, MovedCall
    <3>2. MembersOf(i)' = MembersOf(i)
      BY <3>1 DEF MembersOf
    <3>3. /\ HasAll("registrar", Registrars(op[i].network))'
          /\ HasAll("poolMint", Registrars(op[i].network))'
          /\ HasAll("member", MembersOf(i))'
      BY <1>2, <1>6, <2>2, <3>1, <3>2 DEF CallInv, StageInv, Reached, HasAll
    <3>4. store'.ownedTokenAccounts = op'[i].network
      BY <1>2, <1>6, <2>2, <3>1 DEF CallInv, StageInv, Reached
    <3>5. QED
      BY <3>1, <3>3, <3>4 DEF StageInv, Reached
  <2>3. QED
    BY <1>1, <1>2, <1>5, <1>6, <1>7, <1>8, <2>1, <2>2, AdvanceStep
<1>10. CASE End(i, "done")
  <2>1. PICK x \in OpState : op' = [op EXCEPT ![i] = x] /\ x.stage \notin Stage
    BY <1>2, <1>10, EndChanges
  <2>2. QED
    BY <1>2, <1>5, <1>6, <1>7, <1>8, <2>1, StageStep DEF PresentInv
<1>11. QED
  BY <1>3, <1>9, <1>10

LEMMA OldMemberDigestedStep ==
  ASSUME IInv, NEW i \in Op, OldMemberDigested(i)
  PROVE  IInv'
<1>1. "oldMember" \in Stage /\ "switch" \in Stage
  BY DEF Stage, Digesting
<1>2. /\ op \in [Op -> OpState] /\ IsState(store) /\ EffectsRun
      /\ Active(i) /\ op[i] \in Call /\ op[i].stage = "oldMember"
  BY <1>1, AtStage DEF OldMemberDigested
<1>3. Advances(i, "switch")
  BY <1>1, <1>2, ProceedAdvances DEF OldMemberDigested
<1>4. UNCHANGED <<store, wallets, subscribed, chain, leftover>>
  BY DEF OldMemberDigested
<1>5. Grows(store, store') /\ SameSelection(store, store')
  BY <1>2, <1>4, SelfGrows
<1>6. VaultsBeforeMember => VaultsBeforeMember'
  BY <1>4 DEF VaultsBeforeMember
<1>7. ASSUME CallInv(i), op'[i] = Moved(i, "switch")
      PROVE  StageInv(i)'
  <2>1. op'[i].stage = "switch" /\ op'[i].kind = op[i].kind
    BY <1>1, <1>2, <1>7, MovedCall
  <2>2. op[i].kind = "switch"
    BY <1>2, <1>7 DEF CallInv, StageInv
  <2>3. QED
    BY <2>1, <2>2 DEF StageInv, Reached
<1>8. leftover' \in BOOLEAN /\ chain' \in [Network -> SUBSET Vesting]
  BY <1>4 DEF IInv, TypeOK
<1>9. QED
  BY <1>1, <1>2, <1>3, <1>4, <1>5, <1>6, <1>7, <1>8, AdvanceStep

LEMMA VestingCreatedStep ==
  ASSUME IInv, NEW i \in Op, VestingCreated(i)
  PROVE  IInv'
<1>1. "create" \in Stage /\ "fetch" \in Stage /\ "failed" \notin Stage
  BY DEF Stage, Asking, Digesting
<1>2. /\ op \in [Op -> OpState] /\ IsState(store) /\ EffectsRun
      /\ Active(i) /\ op[i] \in Call /\ op[i].stage = "create"
  BY <1>1, AtStage DEF VestingCreated
<1>3. PICK v \in Vesting :
        /\ chain' = [chain EXCEPT ![op[i].network] = @ \cup {v}]
        /\ op' = [op EXCEPT ![i] =
             IF wallets[@.wallet].state # "connected"
             THEN Ended(@.kind, "failed")
             ELSE [@ EXCEPT !.stage = "fetch", !.seen = {v}]]
  BY DEF VestingCreated
<1> DEFINE done == Ended(op[i].kind, "failed")
           goes == [op[i] EXCEPT !.stage = "fetch", !.seen = {v}]
<1>4. PICK x \in {done, goes} : op' = [op EXCEPT ![i] = x]
  BY <1>2, <1>3
<1>5. done \in OpState /\ done.stage = "failed"
  BY <1>2 DEF Ended, OpState, Call
<1>6. goes \in Call /\ goes.stage = "fetch"
  BY <1>1, <1>2 DEF Call
<1>7. /\ goes.network = op[i].network /\ goes.kind = op[i].kind
      /\ goes.registrar = op[i].registrar /\ goes.found = op[i].found
      /\ goes.stale = op[i].stale
  BY <1>2 DEF Call
<1> HIDE DEF done, goes
<1>8. x \in OpState /\ op'[i] = x
  BY <1>2, <1>4, <1>5, <1>6 DEF OpState
<1>9. x.stage \in Stage => x = goes
  BY <1>1, <1>4, <1>5
<1>10. x.stage \in Stage => SameCall(i) /\ StageInv(i)'
  BY <1>6, <1>7, <1>8, <1>9 DEF SameCall, StageInv, Reached
<1>11. UNCHANGED <<store, wallets, subscribed, leftover>>
  BY DEF VestingCreated
<1>12. Grows(store, store') /\ SameSelection(store, store')
  BY <1>2, <1>11, SelfGrows
<1>13. VaultsBeforeMember => VaultsBeforeMember'
  BY <1>11 DEF VaultsBeforeMember
<1>14. leftover' \in BOOLEAN /\ chain' \in [Network -> SUBSET Vesting]
  BY <1>3, <1>11 DEF IInv, TypeOK
<1>15. QED
  BY <1>2, <1>4, <1>8, <1>10, <1>11, <1>12, <1>13, <1>14, StageStep DEF PresentInv

LEMMA VestingFetchedStep ==
  ASSUME IInv, NEW i \in Op, VestingFetched(i)
  PROVE  IInv'
<1>1. "fetch" \in Stage
  BY DEF Stage, Asking
<1>2. /\ op \in [Op -> OpState] /\ IsState(store) /\ EffectsRun
      /\ Active(i) /\ op[i] \in Call
  BY <1>1, AtStage DEF VestingFetched
<1>3. PICK v \in op[i].seen : Dispatch(i, LockupCreateVesting(store, v))
  BY DEF VestingFetched
<1>4. v \in Vesting
  BY <1>2 DEF Call
<1>5. /\ store' = LockupCreateVesting(store, v)
      /\ leftover' \in BOOLEAN /\ (leftover => leftover')
  BY <1>2, <1>3, DispatchMarks
<1>6. /\ Grows(store, store') /\ SameSelection(store, store')
      /\ store'.ownedTokenAccounts = store.ownedTokenAccounts
      /\ \A k, r : k # "vesting" => (Has(store', <<k, r>>) <=> Has(store, <<k, r>>))
  BY <1>2, <1>4, <1>5, CreateVestingGrows
<1>7. VaultsBeforeMember => VaultsBeforeMember'
  BY <1>6 DEF VaultsBeforeMember
<1>8. UNCHANGED <<wallets, subscribed>> /\ chain' \in [Network -> SUBSET Vesting]
  BY DEF VestingFetched, IInv, TypeOK
<1>9. PICK x \in OpState : op' = [op EXCEPT ![i] = x] /\ x.stage \notin Stage
  BY <1>2, EndChanges DEF VestingFetched
<1>10. QED
  BY <1>2, <1>5, <1>6, <1>7, <1>8, <1>9, StageStep DEF PresentInv

LEMMA RequestFailsStep ==
  ASSUME IInv, NEW i \in Op, RequestFails(i)
  PROVE  IInv'
<1>1. op \in [Op -> OpState] /\ IsState(store) /\ EffectsRun /\ Active(i)
  BY DEF RequestFails, IInv, TypeOK, OpState, Active, Stage
<1>2. PICK x \in OpState : op' = [op EXCEPT ![i] = x] /\ x.stage \notin Stage
  BY <1>1, EndChanges DEF RequestFails
<1>3. UNCHANGED <<store, wallets, subscribed, chain, leftover>>
  BY DEF RequestFails
<1>4. Grows(store, store') /\ SameSelection(store, store')
  BY <1>1, <1>3, SelfGrows
<1>5. VaultsBeforeMember => VaultsBeforeMember'
  BY <1>3 DEF VaultsBeforeMember
<1>6. leftover' \in BOOLEAN /\ chain' \in [Network -> SUBSET Vesting]
  BY <1>3 DEF IInv, TypeOK
<1>7. QED
  BY <1>1, <1>2, <1>3, <1>4, <1>5, <1>6, StageStep DEF PresentInv

\* A change of registrar ends: whatever others have ended since it began, the
\* member it selects is the registrar's, and the registrar is subscribed to.
LEMMA SwitchEndsStep ==
  ASSUME IInv, NEW i \in Op, SwitchEnds(i)
  PROVE  IInv'
<1> DEFINE r == op[i].registrar
           m == MemberOf(r, op[i].found)
<1>1. "switch" \in Stage
  BY DEF Stage, Digesting
<1>2. /\ op \in [Op -> OpState] /\ IsState(store) /\ EffectsRun
      /\ Active(i) /\ op[i] \in Call
  BY <1>1, AtStage DEF SwitchEnds
<1>3. op[i].kind = "switch" /\ UNCHANGED <<wallets, chain>>
  BY DEF SwitchEnds
<1>4. r \in Registrar /\ m \in {r, None}
  BY <1>2 DEF Call, MemberOf
<1>5. /\ store' = RegistrySetRegistrar(store, r, m)
      /\ leftover' \in BOOLEAN /\ (leftover => leftover')
      /\ ~leftover' => Own(i)
  BY <1>2, DispatchMarks DEF SwitchEnds
<1> HIDE DEF r, m
<1>6. /\ Grows(store, store')
      /\ store'.bootstrapState = store.bootstrapState
      /\ store'.registrar = r /\ store'.member = m
      /\ store'.ownedTokenAccounts = store.ownedTokenAccounts
      /\ store'.accounts = store.accounts
  BY <1>2, <1>4, <1>5, SetRegistrarGrows
<1>7. PICK x \in OpState : op' = [op EXCEPT ![i] = x] /\ x.stage \notin Stage
  BY <1>2, EndChanges DEF SwitchEnds
<1>8. ~Active(i)'
  BY <1>2, <1>7 DEF Active, Stage, Asking, Digesting
<1>9. subscribed' = (subscribed \ {op[i].old}) \cup {r}
  BY DEF SwitchEnds, r
<1>10. subscribed' \subseteq Registrar /\ chain' \in [Network -> SUBSET Vesting]
  BY <1>3, <1>4, <1>9 DEF IInv, TypeOK
<1>11. SelectedIsSubscribed'
  BY <1>6, <1>9 DEF SelectedIsSubscribed
<1>12. MemberOfSelected'
  BY <1>4, <1>6 DEF MemberOfSelected
<1>13. ASSUME ~leftover' PROVE VaultsBeforeMember' /\ BootstrapInv'
  <2>1. VaultsBeforeMember /\ CallInv(i)
    BY <1>5, <1>13 DEF IInv, PresentInv
  <2>2. VaultsBeforeMember'
    BY <1>6, <2>1 DEF VaultsBeforeMember, Has
  <2>3. /\ r \in Registrars(store.network)
        /\ Complete(store.network)
        /\ op[i].found => Has(store, <<"member", r>>)
    BY <1>2, <1>3, <2>1 DEF CallInv, SwitchInv, EffectsRun, r
  <2>4. m # None => Has(store, <<"member", r>>) /\ m = r
    BY <1>4, <2>3 DEF m, MemberOf
  <2>5. BootstrapInv'
    BY <1>6, <2>3, <2>4 DEF BootstrapInv, Grows, Complete, HasAll, Has, Registrars
  <2>6. QED
    BY <2>2, <2>5
<1>14. Own(i)' => CallInv(i)'
  BY <1>8 DEF Own
<1>15. QED
  BY <1>2, <1>3, <1>5, <1>6, <1>7, <1>10, <1>11, <1>12, <1>13, <1>14, CallStep

\* A bootstrap ends: all that the pages take for granted has been stored by this
\* call, for the network the store is still at.
LEMMA BootstrapEndsStep ==
  ASSUME IInv, NEW i \in Op, BootstrapEnds(i)
  PROVE  IInv'
<1> DEFINE r == op[i].registrar
           n == op[i].network
           m == MemberOf(r, r \in Members)
           s == RegistrySetRegistrar(store, r, m)
<1>1. "switch" \in Stage
  BY DEF Stage, Digesting
<1>2. /\ op \in [Op -> OpState] /\ IsState(store) /\ EffectsRun
      /\ Active(i) /\ op[i] \in Call /\ op[i].stage = "switch"
  BY <1>1, AtStage DEF BootstrapEnds
<1>3. op[i].kind = "bootstrap" /\ UNCHANGED <<wallets, chain>>
  BY DEF BootstrapEnds
<1>4. r \in Registrar /\ m \in {r, None}
  BY <1>2 DEF Call, MemberOf
<1>5. CASE r \notin Registrars(n)
  <2>1. PICK x \in OpState : op' = [op EXCEPT ![i] = x] /\ x.stage \notin Stage
    BY <1>2, <1>5, EndChanges DEF BootstrapEnds
  <2>2. UNCHANGED <<store, wallets, subscribed, chain, leftover>>
    BY <1>5 DEF BootstrapEnds
  <2>3. Grows(store, store') /\ SameSelection(store, store')
    BY <1>2, <2>2, SelfGrows
  <2>4. VaultsBeforeMember => VaultsBeforeMember'
    BY <2>2 DEF VaultsBeforeMember
  <2>5. leftover' \in BOOLEAN /\ chain' \in [Network -> SUBSET Vesting]
    BY <2>2 DEF IInv, TypeOK
  <2>6. QED
    BY <1>2, <2>1, <2>2, <2>3, <2>4, <2>5, StageStep DEF PresentInv
<1>6. CASE r \in Registrars(n)
  <2>1. /\ store' = AppDidBootstrap(s)
        /\ leftover' \in BOOLEAN /\ (leftover => leftover')
        /\ ~leftover' => Own(i)
    BY <1>2, <1>6, DispatchMarks DEF BootstrapEnds
  <2>2. PICK x \in OpState : op' = [op EXCEPT ![i] = x] /\ x.stage \notin Stage
    BY <1>2, <1>6, EndChanges DEF BootstrapEnds
  <2>3. subscribed' = subscribed \cup {r}
    BY <1>6 DEF BootstrapEnds
  <2>4. (r \in Members => m = r) /\ (r \notin Members => m = None)
    BY DEF MemberOf
  <2>5. MembersOf(i) = Members \cap Registrars(n)
    BY DEF MembersOf
  <2>6. n = op[i].network
    OBVIOUS
  <2> HIDE DEF r, n, m
  <2>7. /\ Grows(store, s)
        /\ s.registrar = r /\ s.member = m
        /\ s.ownedTokenAccounts = store.ownedTokenAccounts
        /\ s.accounts = store.accounts
    BY <1>2, <1>4, SetRegistrarGrows
  <2> HIDE DEF s
  <2>8. /\ Grows(s, store')
        /\ store'.bootstrapState = "Bootstrapped"
        /\ store'.registrar = s.registrar /\ store'.member = s.member
        /\ store'.ownedTokenAccounts = s.ownedTokenAccounts
        /\ store'.accounts = s.accounts
    BY <2>1, <2>7, DidBootstrapGrows DEF Grows
  <2>9. /\ Grows(store, store')
        /\ store'.registrar = r /\ store'.member = m
        /\ store'.ownedTokenAccounts = store.ownedTokenAccounts
        /\ store'.accounts = store.accounts
    BY <2>7, <2>8 DEF Grows
  <2>10. ~Active(i)'
    BY <1>2, <2>2 DEF Active, Stage, Asking, Digesting
  <2>11. subscribed' \subseteq Registrar /\ chain' \in [Network -> SUBSET Vesting]
    BY <1>3, <1>4, <2>3 DEF IInv, TypeOK
  <2>12. SelectedIsSubscribed' /\ MemberOfSelected'
    BY <1>4, <2>3, <2>9 DEF SelectedIsSubscribed, MemberOfSelected
  <2>13. ASSUME ~leftover' PROVE VaultsBeforeMember' /\ BootstrapInv'
    <3>1. VaultsBeforeMember /\ CallInv(i)
      BY <2>1, <2>13 DEF IInv, PresentInv
    <3>2. VaultsBeforeMember'
      BY <2>9, <3>1 DEF VaultsBeforeMember, Has
    <3>3. n = store.network /\ Reached(i, {})
      BY <1>2, <1>3, <2>6, <3>1 DEF CallInv, EffectsRun, Reached
    <3>4. Complete(n) /\ HasAll("member", Members \cap Registrars(n))
      BY <1>2, <1>3, <2>5, <2>6, <3>1 DEF CallInv, StageInv, Reached, Complete
    <3>5. m # None => Has(store, <<"member", m>>)
      BY <1>4, <1>6, <2>4, <3>4 DEF HasAll
    <3>6. Home[r] = store.network
      BY <1>6, <3>3 DEF Registrars
    <3>7. BootstrapInv'
      BY <2>9, <3>3, <3>4, <3>5, <3>6 DEF BootstrapInv, Grows, Complete, HasAll, Has
    <3>8. QED
      BY <3>2, <3>7
  <2>14. Own(i)' => CallInv(i)'
    BY <2>10 DEF Own
  <2>15. QED
    BY <1>2, <1>3, <2>1, <2>2, <2>9, <2>11, <2>12, <2>13, <2>14, CallStep
<1>7. QED
  BY <1>5, <1>6

LEMMA CallKeepsIInv ==
  ASSUME IInv, NEW i \in Op, Step(i)
  PROVE  IInv'
BY RegistrarsAnsweredStep, SeedsDigestedStep, MembersAnsweredStep, VaultsAnsweredStep,
   MintsAnsweredStep, TokensAnsweredStep, NodeReadsVestingsStep, VestingsAnsweredStep,
   OldMemberDigestedStep, SwitchEndsStep, BootstrapEndsStep, VestingCreatedStep,
   VestingFetchedStep, RequestFailsStep
   DEF Step

-----------------------------------------------------------------------------
(* Calls begin.                                                            *)

\* A call begins, which relies on what it is begun with.
LEMMA BeginStep ==
  ASSUME IInv, NEW i \in Op, NEW kind \in Kind, NEW stage \in Stage,
         NEW r \in Registrar, NEW old \in Registrar \cup {None}, NEW found \in BOOLEAN,
         Begin(i, kind, stage, r, old, found),
         UNCHANGED <<wallets, subscribed, chain, leftover>>,
         Grows(store, [store' EXCEPT !.bootstrapTrigger = store.bootstrapTrigger]),
         IsState(store'),
         store'.registrar = store.registrar, store'.member = store.member,
         store'.accounts = store.accounts,
         store'.ownedTokenAccounts = store.ownedTokenAccounts,
         store'.bootstrapState \in {"IsBootstrapping", store.bootstrapState},
         ~leftover => (stage = "registrars" \/ stage = "create" \/ kind = "switch"),
         ~leftover /\ kind = "switch" =>
           /\ stage = "oldMember"
           /\ r \in Registrars(store.network)
           /\ Complete(store.network)
           /\ found => Has(store, <<"member", r>>)
  PROVE  IInv'
<1> DEFINE x == [kind |-> kind, stage |-> stage, wallet |-> Current,
                 network |-> store.network, registrar |-> r, old |-> old,
                 found |-> found, waiting |-> {}, seen |-> {}, stale |-> FALSE]
<1>1. /\ store'.shutdownTrigger = store.shutdownTrigger
      /\ store'.isWalletConnected = store.isWalletConnected
      /\ store'.network = store.network
  BY DEF Grows, IsState
<1>2. op \in [Op -> OpState] /\ store.network \in Network /\ Current \in 1 .. MaxWallets
  BY DEF IInv, TypeOK, OpState, IsState, Current
<1>3. x \in Call
  BY <1>2 DEF Call
<1>4. /\ x.network = store.network /\ x.stage = stage /\ x.kind = kind
      /\ x.registrar = r /\ x.found = found
  OBVIOUS
<1>5. op' = [op EXCEPT ![i] = x]
  BY DEF Begin
<1> HIDE DEF x
<1>6. /\ op' \in [Op -> OpState] /\ op'[i] = x
      /\ \A j \in Op : j # i => op'[j] = op[j]
  BY <1>2, <1>3, <1>5 DEF OpState
<1>7. TypeOK'
  BY <1>6 DEF IInv, TypeOK, OpState
<1>8. WalletIsKnown' /\ MemberOfSelected'
  BY <1>1 DEF IInv, WalletIsKnown, Current, MemberOfSelected
<1>9. SelectedIsSubscribed'
  BY DEF IInv, SelectedIsSubscribed
<1>10. ASSUME ~leftover' PROVE PresentInv'
  <2>1. PresentInv
    BY <1>10 DEF IInv
  <2>2. VaultsBeforeMember' /\ BootstrapInv'
    BY <1>1, <2>1 DEF PresentInv, VaultsBeforeMember, BootstrapInv, Complete, HasAll, Has
  <2>3. ASSUME NEW j \in Op, Own(j)', j # i PROVE CallInv(j)'
    <3>1. op'[j] = op[j] /\ Own(j)
      BY <1>6, <2>3 DEF Own, Active
    <3>2. CallInv(j)
      BY <2>1, <3>1 DEF PresentInv
    <3>3. \A k : Has(store, k) => Has(store', k)
      BY DEF Has
    <3>4. (~store.shutdownTrigger => op[j].network = store.network)'
      BY <1>1, <3>1, <3>2 DEF CallInv
    <3>5. StageInv(j)' /\ SwitchInv(j)'
      BY <3>1, <3>2, <3>3
         DEF CallInv, StageInv, SwitchInv, Reached, HasAll, Complete, MembersOf
    <3>6. QED
      BY <3>4, <3>5 DEF CallInv
  <2>4. CallInv(i)'
    <3>1. op'[i].network = store'.network
      BY <1>1, <1>4, <1>6
    <3>2. StageInv(i)'
      BY <1>4, <1>6, <1>10 DEF StageInv, Reached
    <3>3. SwitchInv(i)'
      BY <1>1, <1>4, <1>6, <1>10 DEF SwitchInv, Complete, HasAll, Has
    <3>4. QED
      BY <3>1, <3>2, <3>3 DEF CallInv
  <2>5. QED
    BY <2>2, <2>3, <2>4 DEF PresentInv
<1>11. QED
  BY <1>7, <1>8, <1>9, <1>10 DEF IInv

LEMMA BootstrapStep ==
  ASSUME IInv, NEW i \in Op, Bootstrap(i)
  PROVE  IInv'
<1>1. IsState(store)
  BY DEF IInv, TypeOK
<1>2. store.registrar \in Registrar /\ "bootstrap" \in Kind /\ "registrars" \in Stage
  BY <1>1 DEF IsState, Kind, Stage, Asking
<1>3. store' = AppWillBootstrap(store)
  BY DEF Bootstrap
<1>4. /\ IsState(store')
      /\ store'.registrar = store.registrar /\ store'.member = store.member
      /\ store'.accounts = store.accounts
      /\ store'.ownedTokenAccounts = store.ownedTokenAccounts
      /\ store'.bootstrapState = "IsBootstrapping"
      /\ Grows(store, [store' EXCEPT !.bootstrapTrigger = store.bootstrapTrigger])
  BY <1>1, <1>3 DEF AppWillBootstrap, IsState, Grows
<1>5. Begin(i, "bootstrap", "registrars", store.registrar, None, FALSE)
  BY DEF Bootstrap
<1>6. UNCHANGED <<wallets, subscribed, chain, leftover>>
  BY DEF Bootstrap
<1>7. QED
  BY <1>2, <1>4, <1>5, <1>6, BeginStep

\* With nothing dispatched, the store is as BeginStep needs it.
LEMMA QuietBegin ==
  ASSUME IInv, UNCHANGED store
  PROVE  /\ Grows(store, [store' EXCEPT !.bootstrapTrigger = store.bootstrapTrigger])
         /\ IsState(store')
BY DEF IInv, TypeOK, IsState, Grows

LEMMA RefreshClickedStep ==
  ASSUME IInv, NEW i \in Op, RefreshClicked(i)
  PROVE  IInv'
<1>1. store.registrar \in Registrar /\ "refresh" \in Kind /\ "registrars" \in Stage
  BY DEF IInv, TypeOK, IsState, Kind, Stage, Asking
<1>2. /\ Begin(i, "refresh", "registrars", store.registrar, None, FALSE)
      /\ UNCHANGED <<store, wallets, subscribed, chain, leftover>>
  BY DEF RefreshClicked
<1>3. QED
  BY <1>1, <1>2, QuietBegin, BeginStep

LEMMA NewVestingClickedStep ==
  ASSUME IInv, NEW i \in Op, NewVestingClicked(i)
  PROVE  IInv'
<1>1. store.registrar \in Registrar /\ "vesting" \in Kind /\ "create" \in Stage
  BY DEF IInv, TypeOK, IsState, Kind, Stage, Asking
<1>2. /\ Begin(i, "vesting", "create", store.registrar, None, FALSE)
      /\ UNCHANGED <<store, wallets, subscribed, chain, leftover>>
  BY DEF NewVestingClicked
<1>3. QED
  BY <1>1, <1>2, QuietBegin, BeginStep

\* The pages that offer a change of registrar are those of a bootstrapped store.
LEMMA RegistrarSelectedStep ==
  ASSUME IInv, NEW i \in Op, NEW r \in Registrar, RegistrarSelected(i, r)
  PROVE  IInv'
<1>1. store.registrar \in Registrar /\ "switch" \in Kind /\ "oldMember" \in Stage
  BY DEF IInv, TypeOK, IsState, Kind, Stage, Digesting
<1>2. /\ Begin(i, "switch", "oldMember", r, store.registrar, Has(store, <<"member", r>>))
      /\ UNCHANGED <<store, wallets, subscribed, chain, leftover>>
      /\ r \in Registrars(store.network)
      /\ store.bootstrapState = "Bootstrapped"
  BY DEF RegistrarSelected, IsAppReady
<1>3. ~leftover => Complete(store.network)
  BY <1>2 DEF IInv, PresentInv, BootstrapInv
<1>4. Has(store, <<"member", r>>) \in BOOLEAN
  BY DEF Has
<1>5. QED
  BY <1>1, <1>2, <1>3, <1>4, QuietBegin, BeginStep

-----------------------------------------------------------------------------
(* Wallets, the network and the shutdown.                                  *)

LEMMA SetWalletChanges ==
  ASSUME TypeOK, NEW g \in 1 .. Len(wallets), NEW st \in {"idle", "asked", "connected"},
         SetWallet(g, st)
  PROVE  /\ wallets' \in Seq([network : Network, state : {"idle", "asked", "connected"}])
         /\ Len(wallets') = Len(wallets)
         /\ wallets'[g].state = st
         /\ \A h \in 1 .. Len(wallets) : h # g => wallets'[h] = wallets[h]
<1> DEFINE W == [network : Network, state : {"idle", "asked", "connected"}]
           w == [wallets[g] EXCEPT !.state = st]
<1>1. wallets \in Seq(W)
  BY DEF TypeOK
<1>2. wallets[g] \in W
  <2> HIDE DEF W
  <2>1. QED
    BY <1>1, ElementOfSeq
<1>3. w \in W /\ w.state = st
  BY <1>2
<1>4. wallets' = [wallets EXCEPT ![g] = w]
  BY DEF SetWallet
<1> HIDE DEF w, W
<1>5. /\ wallets' \in Seq(W) /\ Len(wallets') = Len(wallets)
      /\ wallets'[g] = w
      /\ \A h \in 1 .. Len(wallets) : h # g => wallets'[h] = wallets[h]
  BY <1>1, <1>3, <1>4, ExceptSeq
<1>6. QED
  BY <1>3, <1>5 DEF W

LEMMA CurrentInRange ==
  ASSUME TypeOK
  PROVE  Current \in 1 .. Len(wallets)
BY DEF TypeOK, Current

\* An event outside of the calls: it leaves what has been fetched alone, and ends
\* the bootstrapped state or leaves the selection alone.
LEMMA EventStep ==
  ASSUME IInv, UNCHANGED <<op, subscribed, chain, leftover>>,
         IsState(store'),
         wallets' \in Seq([network : Network, state : {"idle", "asked", "connected"}]),
         Len(wallets') \in 1 .. MaxWallets,
         store'.accounts = store.accounts,
         store'.ownedTokenAccounts = store.ownedTokenAccounts,
         store'.shutdownTrigger
           \/ (~store.shutdownTrigger /\ store'.network = store.network),
         \/ store'.bootstrapState = "NeedsBootstrap"
         \/ /\ SameSelection(store, store')
            /\ store'.network = store.network,
         MemberOfSelected',
         WalletIsKnown'
  PROVE  IInv'
<1>1. TypeOK'
  BY DEF IInv, TypeOK
<1>2. SelectedIsSubscribed'
  BY DEF IInv, SelectedIsSubscribed, SameSelection
<1>3. ASSUME ~leftover' PROVE PresentInv'
  <2>1. PresentInv
    BY <1>3 DEF IInv
  <2>2. VaultsBeforeMember'
    BY <2>1 DEF PresentInv, VaultsBeforeMember, Has
  <2>3. BootstrapInv'
    BY <2>1 DEF PresentInv, BootstrapInv, SameSelection, Complete, HasAll, Has
  <2>4. ASSUME NEW j \in Op, Own(j)' PROVE CallInv(j)'
    <3>1. op'[j] = op[j] /\ CallInv(j)
      BY <2>1, <2>4 DEF PresentInv, Own, Active
    <3>2. \A k : Has(store, k) => Has(store', k)
      BY DEF Has
    <3>3. QED
      BY <3>1, <3>2, CallInvStable
  <2>5. QED
    BY <2>2, <2>3, <2>4 DEF PresentInv
<1>4. QED
  BY <1>1, <1>2, <1>3 DEF IInv

LEMMA ConnectClickedStep ==
  ASSUME IInv, ConnectClicked
  PROVE  IInv'
<1>1. TypeOK /\ Current \in 1 .. Len(wallets)
  BY CurrentInRange DEF IInv
<1>2. SetWallet(Current, "asked") /\ UNCHANGED <<store, op, subscribed, chain, leftover>>
  BY DEF ConnectClicked
<1>3. /\ wallets' \in Seq([network : Network, state : {"idle", "asked", "connected"}])
      /\ Len(wallets') = Len(wallets) /\ wallets'[Current].state = "asked"
  BY <1>1, <1>2, SetWalletChanges
<1>4. WalletIsKnown'
  BY <1>3 DEF WalletIsKnown, Current
<1>5. MemberOfSelected' /\ IsState(store') /\ SameSelection(store, store')
  BY <1>2 DEF IInv, TypeOK, MemberOfSelected, SameSelection
<1>6. ~store.shutdownTrigger
  BY DEF ConnectClicked, EffectsRun
<1>7. Len(wallets') \in 1 .. MaxWallets
  BY <1>1, <1>3 DEF TypeOK
<1>8. QED
  BY <1>2, <1>3, <1>4, <1>5, <1>6, <1>7, EventStep

\* What a wallet's events and the network selector leave of a store.
LEMMA EventStores ==
  ASSUME NEW s, IsState(s), NEW n \in Network
  PROVE  /\ LET t == OnDisconnect(s)
            IN /\ IsState(t) /\ t.accounts = s.accounts
               /\ t.ownedTokenAccounts = s.ownedTokenAccounts
               /\ t.shutdownTrigger /\ t.bootstrapState = "NeedsBootstrap"
         /\ LET t == TriggerBootstrap(WalletDidConnect(s))
            IN /\ IsState(t) /\ t.accounts = s.accounts
               /\ t.ownedTokenAccounts = s.ownedTokenAccounts
               /\ t.shutdownTrigger = s.shutdownTrigger /\ t.network = s.network
               /\ t.bootstrapState = "NeedsBootstrap" /\ t.isWalletConnected
               /\ t.registrar = s.registrar /\ t.member = s.member
         /\ n # s.network =>
              LET t == SetNetwork(s, n)
              IN /\ IsState(t) /\ t.accounts = s.accounts
                 /\ t.ownedTokenAccounts = s.ownedTokenAccounts
                 /\ t.shutdownTrigger /\ t.bootstrapState = "NeedsBootstrap"
<1>1. First[n] \in Registrar
  BY ConfigAssumption
<1>2. QED
  BY <1>1 DEF OnDisconnect, TriggerShutdown, WalletDidDisconnect, TriggerBootstrap,
              WalletDidConnect, SetNetwork, IsState

LEMMA WalletConnectsStep ==
  ASSUME IInv, NEW g \in 1 .. Len(wallets), WalletConnects(g)
  PROVE  IInv'
<1>1. TypeOK /\ Current \in 1 .. Len(wallets) /\ IsState(store) /\ store.network \in Network
  BY CurrentInRange DEF IInv, TypeOK, IsState
<1>2. /\ SetWallet(g, "connected") /\ UNCHANGED <<op, subscribed, chain, leftover>>
      /\ store' = TriggerBootstrap(WalletDidConnect(store))
  BY DEF WalletConnects
<1>3. /\ wallets' \in Seq([network : Network, state : {"idle", "asked", "connected"}])
      /\ Len(wallets') = Len(wallets)
  BY <1>1, <1>2, SetWalletChanges
<1>4. /\ IsState(store') /\ store'.accounts = store.accounts
      /\ store'.ownedTokenAccounts = store.ownedTokenAccounts
      /\ store'.shutdownTrigger = store.shutdownTrigger /\ store'.network = store.network
      /\ store'.bootstrapState = "NeedsBootstrap" /\ store'.isWalletConnected
      /\ store'.registrar = store.registrar /\ store'.member = store.member
  BY <1>1, <1>2, EventStores
<1>5. WalletIsKnown' /\ MemberOfSelected'
  BY <1>4 DEF WalletIsKnown, MemberOfSelected, IInv
<1>6. ~store.shutdownTrigger
  BY DEF WalletConnects, EffectsRun
<1>7. Len(wallets') \in 1 .. MaxWallets
  BY <1>1, <1>3 DEF TypeOK
<1>8. QED
  BY <1>2, <1>3, <1>4, <1>5, <1>6, <1>7, EventStep

LEMMA WalletDropsStep ==
  ASSUME IInv, NEW g \in 1 .. Len(wallets), WalletDrops(g)
  PROVE  IInv'
<1>1. TypeOK /\ IsState(store) /\ store.network \in Network
  BY DEF IInv, TypeOK, IsState
<1>2. /\ SetWallet(g, "idle") /\ UNCHANGED <<op, subscribed, chain, leftover>>
      /\ store' = OnDisconnect(store)
  BY DEF WalletDrops
<1>3. /\ wallets' \in Seq([network : Network, state : {"idle", "asked", "connected"}])
      /\ Len(wallets') = Len(wallets)
  BY <1>1, <1>2, SetWalletChanges
<1>4. /\ IsState(store') /\ store'.accounts = store.accounts
      /\ store'.ownedTokenAccounts = store.ownedTokenAccounts
      /\ store'.shutdownTrigger /\ store'.bootstrapState = "NeedsBootstrap"
  BY <1>1, <1>2, EventStores
<1>5. WalletIsKnown' /\ MemberOfSelected'
  BY <1>4 DEF WalletIsKnown, MemberOfSelected
<1>6. Len(wallets') \in 1 .. MaxWallets
  BY <1>1, <1>3 DEF TypeOK
<1>7. QED
  BY <1>2, <1>3, <1>4, <1>5, <1>6, EventStep

LEMMA DisconnectClickedStep ==
  ASSUME IInv, DisconnectClicked
  PROVE  IInv'
<1>1. TypeOK /\ Current \in 1 .. Len(wallets) /\ IsState(store) /\ store.network \in Network
  BY CurrentInRange DEF IInv, TypeOK, IsState
<1>2. /\ SetWallet(Current, "idle") /\ UNCHANGED <<op, subscribed, chain, leftover>>
      /\ store' \in {store, OnDisconnect(store)}
      /\ ~store.shutdownTrigger
  BY DEF DisconnectClicked, EffectsRun
<1>3. /\ wallets' \in Seq([network : Network, state : {"idle", "asked", "connected"}])
      /\ Len(wallets') = Len(wallets) /\ wallets'[Current].state = "idle"
  BY <1>1, <1>2, SetWalletChanges
<1>4. WalletIsKnown'
  BY <1>3 DEF WalletIsKnown, Current
<1>5. Len(wallets') \in 1 .. MaxWallets
  BY <1>1, <1>3 DEF TypeOK
<1>6. CASE store' = store
  <2>1. MemberOfSelected' /\ IsState(store') /\ SameSelection(store, store')
    BY <1>1, <1>6 DEF IInv, MemberOfSelected, SameSelection
  <2>2. QED
    BY <1>2, <1>3, <1>4, <1>5, <1>6, <2>1, EventStep
<1>7. CASE store' = OnDisconnect(store)
  <2>1. /\ IsState(store') /\ store'.accounts = store.accounts
        /\ store'.ownedTokenAccounts = store.ownedTokenAccounts
        /\ store'.shutdownTrigger /\ store'.bootstrapState = "NeedsBootstrap"
    BY <1>1, <1>7, EventStores
  <2>2. MemberOfSelected'
    BY <2>1 DEF MemberOfSelected
  <2>3. QED
    BY <1>2, <1>3, <1>4, <1>5, <2>1, <2>2, EventStep
<1>8. QED
  BY <1>2, <1>6, <1>7

LEMMA NetworkSelectedStep ==
  ASSUME IInv, NEW n \in Network, NetworkSelected(n)
  PROVE  IInv'
<1> DEFINE W == [network : Network, state : {"idle", "asked", "connected"}]
           w == [network |-> n, state |-> "idle"]
<1>1. TypeOK /\ IsState(store) /\ wallets \in Seq(W) /\ w \in W
  BY DEF IInv, TypeOK
<1>2. /\ UNCHANGED <<op, subscribed, chain, leftover>>
      /\ store' = SetNetwork(store, n) /\ n # store.network
      /\ wallets' = Append(wallets, w) /\ Len(wallets) < MaxWallets
  BY DEF NetworkSelected
<1> HIDE DEF W, w
<1>3. wallets' \in Seq(W) /\ Len(wallets') = Len(wallets) + 1
  BY <1>1, <1>2
<1>4. /\ IsState(store') /\ store'.accounts = store.accounts
      /\ store'.ownedTokenAccounts = store.ownedTokenAccounts
      /\ store'.shutdownTrigger /\ store'.bootstrapState = "NeedsBootstrap"
  BY <1>1, <1>2, EventStores
<1>5. WalletIsKnown' /\ MemberOfSelected'
  BY <1>4 DEF WalletIsKnown, MemberOfSelected
<1>6. Len(wallets') \in 1 .. MaxWallets
  BY <1>1, <1>2, <1>3, SessionAssumption DEF TypeOK
<1>7. QED
  BY <1>2, <1>3, <1>4, <1>5, <1>6, EventStep DEF W

\* A shutdown leaves nothing behind but calls of an earlier session.
LEMMA ShutdownStep ==
  ASSUME IInv, Shutdown
  PROVE  IInv'
<1>1. /\ TypeOK /\ Current \in 1 .. Len(wallets) /\ IsState(store)
      /\ op \in [Op -> OpState]
  BY CurrentInRange DEF IInv, TypeOK, OpState
<1>2. /\ SetWallet(Current, "idle") /\ UNCHANGED <<subscribed, chain>>
      /\ store' = DidShutdown(store) /\ leftover' = FALSE
      /\ op' = [i \in Op |-> IF Active(i) THEN [op[i] EXCEPT !.stale = TRUE] ELSE op[i]]
  BY DEF Shutdown
<1>3. /\ wallets' \in Seq([network : Network, state : {"idle", "asked", "connected"}])
      /\ Len(wallets') = Len(wallets) /\ wallets'[Current].state = "idle"
  BY <1>1, <1>2, SetWalletChanges
<1>4. /\ IsState(store') /\ store'.bootstrapState = "NeedsBootstrap"
      /\ store'.member = None /\ DOMAIN store'.accounts = {}
  <2>1. First[Mainnet] \in Registrar /\ Mainnet \in Network
    BY ConfigAssumption
  <2>2. store.network \in Network /\ store.registrar \in Registrar
        /\ store.shared \in SUBSET Vesting
    BY <1>1 DEF IsState
  <2>3. DOMAIN <<>> = {}
    OBVIOUS
  <2>4. store'.accounts = <<>>
    BY <1>2 DEF DidShutdown, InitialState
  <2>5. store'.member = None /\ store'.bootstrapState = "NeedsBootstrap"
    BY <1>2 DEF DidShutdown, InitialState
  <2>6. IsState(store')
    BY <1>2, <2>1, <2>2, <2>3, <2>4 DEF DidShutdown, InitialState, IsState
  <2>7. QED
    BY <2>3, <2>4, <2>5, <2>6
<1>5. ASSUME NEW i \in Op PROVE op'[i] \in OpState /\ ~Own(i)'
  <2>1. CASE Active(i)
    <3>1. op[i] \in Call
      BY <1>1, <2>1, ActiveIsCall
    <3>2. op'[i] = [op[i] EXCEPT !.stale = TRUE]
      BY <1>2, <2>1
    <3>3. op'[i] \in Call /\ op'[i].stale = TRUE
      BY <3>1, <3>2 DEF Call
    <3>4. QED
      BY <3>3 DEF OpState, Own
  <2>2. CASE ~Active(i)
    <3>1. op'[i] = op[i]
      BY <1>2, <2>2
    <3>2. QED
      BY <1>1, <2>2, <3>1 DEF Own, Active, Stage, Asking, Digesting
  <2>3. QED
    BY <2>1, <2>2
<1>6. op' \in [Op -> OpState]
  BY <1>2, <1>5
<1>7. TypeOK'
  BY <1>1, <1>2, <1>3, <1>4, <1>6 DEF TypeOK, OpState
<1>8. WalletIsKnown' /\ SelectedIsSubscribed' /\ MemberOfSelected'
  BY <1>3, <1>4 DEF WalletIsKnown, Current, SelectedIsSubscribed, MemberOfSelected
<1>9. PresentInv'
  BY <1>4, <1>5 DEF PresentInv, VaultsBeforeMember, BootstrapInv, Has
<1>10. QED
  BY <1>7, <1>8, <1>9 DEF IInv

-----------------------------------------------------------------------------
LEMMA InitIInv == Init => IInv
<1> SUFFICES ASSUME Init PROVE IInv
  OBVIOUS
<1>1. IsState(InitialState) /\ InitialState.bootstrapState = "NeedsBootstrap"
      /\ InitialState.member = None /\ DOMAIN InitialState.accounts = {}
  BY ConfigAssumption DEF InitialState, IsState
<1>2. \A i \in Op : op[i] = Idle /\ ~Active(i)
  BY DEF Init, Active, Idle, Stage, Asking, Digesting
<1>3. TypeOK
  <2>1. wallets \in Seq([network : Network, state : {"idle", "asked", "connected"}])
        /\ Len(wallets) \in 1 .. MaxWallets
    BY ConfigAssumption, SessionAssumption DEF Init
  <2>2. QED
    BY <1>1, <2>1 DEF Init, TypeOK
<1>4. WalletIsKnown /\ SelectedIsSubscribed /\ MemberOfSelected
  BY <1>1 DEF Init, WalletIsKnown, Current, SelectedIsSubscribed, MemberOfSelected
<1>5. PresentInv
  BY <1>1, <1>2 DEF Init, PresentInv, VaultsBeforeMember, BootstrapInv, Has, Own
<1>6. QED
  BY <1>3, <1>4, <1>5 DEF IInv

LEMMA NextIInv == IInv /\ [Next]_vars => IInv'
<1> SUFFICES ASSUME IInv, [Next]_vars PROVE IInv'
  OBVIOUS
<1>1. CASE User
  BY <1>1, ConnectClickedStep, DisconnectClickedStep, WalletConnectsStep, WalletDropsStep,
     NetworkSelectedStep, RefreshClickedStep, RegistrarSelectedStep,
     NewVestingClickedStep
     DEF User
<1>2. CASE Effect
  BY <1>2, BootstrapStep, ShutdownStep DEF Effect
<1>3. CASE \E i \in Op : Step(i)
  BY <1>3, CallKeepsIInv
<1>4. CASE UNCHANGED vars
  BY <1>4 DEF vars, IInv, TypeOK, WalletIsKnown, Current, SelectedIsSubscribed,
     MemberOfSelected, PresentInv, VaultsBeforeMember, BootstrapInv, Complete, HasAll,
     Own, Active, CallInv, StageInv, SwitchInv, Reached, MembersOf
<1>5. QED
  BY <1>1, <1>2, <1>3, <1>4 DEF Next

LEMMA SpecIInv == Spec => []IInv
BY InitIInv, NextIInv, PTL DEF Spec

\* Type correctness of the session.
THEOREM SessionTypeOK == Spec => []TypeOK
<1>1. IInv => TypeOK
  BY DEF IInv
<1>2. QED
  BY <1>1, SpecIInv, PTL

\* The application never shows a connected wallet as disconnected, whichever
\* wallets were made by changes of network and whichever of them speaks last.
THEOREM WalletStaysKnown == Spec => []WalletIsKnown
<1>1. IInv => WalletIsKnown
  BY DEF IInv
<1>2. QED
  BY <1>1, SpecIInv, PTL

\* However many changes of registrar, refreshes and bootstraps overlap, the reward
\* queue of the registrar on display is subscribed to.
THEOREM SelectionIsSubscribed == Spec => []SelectedIsSubscribed
<1>1. IInv => SelectedIsSubscribed
  BY DEF IInv
<1>2. QED
  BY <1>1, SpecIInv, PTL

\* The selected member is the selected registrar's, and comes with its vaults
\* unless a call of an earlier session has interfered.
THEOREM MemberStaysWhole == Spec => []MemberIsWhole
<1>1. IInv => MemberIsWhole
  BY DEF IInv, MemberOfSelected, PresentInv, VaultsBeforeMember, MemberIsWhole
<1>2. QED
  BY <1>1, SpecIInv, PTL

\* What the pages read is there when they are shown, whatever calls overlapped on
\* the way, unless one of an earlier session has interfered.
THEOREM BootstrapPopulates == Spec => []BootstrappedIsPopulated
<1>1. IInv => BootstrappedIsPopulated
  <2> SUFFICES ASSUME IInv, store.bootstrapState = "Bootstrapped", ~leftover
               PROVE  Populated
    BY DEF BootstrappedIsPopulated
  <2>1. /\ Home[store.registrar] = store.network
        /\ Complete(store.network)
        /\ store.member # None => Has(store, <<"member", store.member>>)
        /\ VaultsBeforeMember
    BY DEF IInv, PresentInv, BootstrapInv
  <2>2. store.registrar \in Registrar /\ store.member \in Registrar \cup {None}
    BY DEF IInv, TypeOK, IsState
  <2>3. store.registrar \in Registrars(store.network)
    BY <2>1, <2>2 DEF Registrars
  <2>4. QED
    BY <2>1, <2>2, <2>3 DEF Populated, Complete, HasAll, VaultsBeforeMember
<1>2. QED
  BY <1>1, SpecIInv, PTL
=============================================================================
