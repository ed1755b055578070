----------------------------- MODULE StakeStore -----------------------------
(***************************************************************************)
(* The redux store of the stake-ui application: its state and its reducer, *)
(* one operator per action type.  A reducer is a function of the state, so *)
(* each operator takes the state before and returns the state after.       *)
(*                                                                         *)
(* accounts is a map from keys to decoded accounts.  A key names what is   *)
(* stored and the registrar, vesting or withdrawal it belongs to; the      *)
(* accounts that are always fetched and stored together share one key.     *)
(* The address of a member account is a function of its registrar (and of  *)
(* the wallet and the network), so the registrar stands for it.            *)
(***************************************************************************)
CONSTANTS
  Network,
  Registrar,
  Vesting,     \* addresses of vesting accounts
  Withdrawal,  \* addresses of pending withdrawals
  Home,        \* Home[r]: the network whose configuration lists registrar r
  First,       \* First[n]: the first registrar listed for n
  Mainnet,     \* the network a new store is on
  Shared,      \* the array initialState.lockup.vestings
  None

ASSUME ConfigAssumption ==
  /\ Mainnet \in Network
  /\ Home \in [Registrar -> Network]
  /\ First \in [Network -> Registrar]
  /\ \A n \in Network : Home[First[n]] = n
  /\ None \notin Registrar \cup Network

Key == ({"registrar", "poolMint", "vaults", "member"} \X Registrar)
         \cup ({"vesting"} \X Vesting) \cup ({"withdrawal"} \X Withdrawal)

\* The array of vestings a new store has is made once, with the module, and
\* every state reset to initialState refers to it: vestings is then Shared, and
\* shared is what that array holds.
IsState(s) ==
  /\ s \in [bootstrapState : {"NeedsBootstrap", "IsBootstrapping", "Bootstrapped"},
            bootstrapTrigger : BOOLEAN,
            shutdownTrigger : BOOLEAN,
            isWalletConnected : BOOLEAN,
            network : Network,
            ownedTokenAccounts : Network \cup {None},  \* whose, if fetched
            vestings : {Shared} \cup SUBSET Vesting,
            shared : SUBSET Vesting,
            registrar : Registrar,
            member : Registrar \cup {None},
            pendingWithdrawals : {None} \cup SUBSET Withdrawal,
            accounts : {s.accounts}]
  /\ DOMAIN s.accounts \subseteq Key
  /\ \A k \in DOMAIN s.accounts : s.accounts[k] \in {"fresh", "burned"}

InitialState ==
  [bootstrapState |-> "NeedsBootstrap",
   bootstrapTrigger |-> FALSE,
   shutdownTrigger |-> FALSE,
   isWalletConnected |-> FALSE,
   network |-> Mainnet,
   ownedTokenAccounts |-> None,
   vestings |-> Shared,
   shared |-> {},
   registrar |-> First[Mainnet],
   member |-> None,
   pendingWithdrawals |-> None,
   accounts |-> <<>>]

\* The vestings the pages list.
VestingsOf(s) == IF s.vestings = Shared THEN s.shared ELSE s.vestings

\* Layout shows the pages, Header the refresh button.
IsAppReady(s) == s.isWalletConnected /\ s.bootstrapState = "Bootstrapped"

Has(s, key) == key \in DOMAIN s.accounts

-----------------------------------------------------------------------------
(* Common.                                                                 *)

AppWillBootstrap(s) ==
  [s EXCEPT !.bootstrapState = "IsBootstrapping", !.bootstrapTrigger = FALSE]

\* Mutant: the action is not handled.
AppDidBootstrap_Ignored(s) == s

AppDidBootstrap(s) == [s EXCEPT !.bootstrapState = "Bootstrapped"]

WalletDidConnect(s) == [s EXCEPT !.isWalletConnected = TRUE]

WalletDidDisconnect(s) == [s EXCEPT !.isWalletConnected = FALSE]

SetNetwork(s, n) ==
  IF s.network = n THEN s
  ELSE [s EXCEPT !.network = n,
                 !.bootstrapState = "NeedsBootstrap",
                 !.shutdownTrigger = TRUE,
                 !.registrar = First[n]]

TriggerBootstrap(s) ==
  [s EXCEPT !.bootstrapState = "NeedsBootstrap", !.bootstrapTrigger = TRUE]

TriggerShutdown(s) ==
  [s EXCEPT !.bootstrapState = "NeedsBootstrap", !.shutdownTrigger = TRUE]

\* Back to initialState, except for network and registrar.  The copy is
\* shallow: the vestings are the shared array, with what it holds by now.
DidShutdown(s) ==
  [InitialState EXCEPT !.network = s.network, !.registrar = s.registrar,
                       !.shared = s.shared]

OwnedTokenAccountsSet(s, n) == [s EXCEPT !.ownedTokenAccounts = n]

-----------------------------------------------------------------------------
(* Accounts and lockup.                                                    *)

\* A single account under its key.
Entry(key, account) == [k \in {key} |-> account]

\* The accounts added replace those under the same keys.
AccountAdd(s, added) ==
  [s EXCEPT !.accounts = [k \in DOMAIN added \cup DOMAIN s.accounts |->
     IF k \in DOMAIN added THEN added[k] ELSE s.accounts[k]]]

LockupSetVestings(s, vestings) == [s EXCEPT !.vestings = vestings]

\* unshift changes the array in place, the shared one too.
LockupCreateVesting(s, v) ==
  AccountAdd(IF s.vestings = Shared THEN [s EXCEPT !.shared = @ \cup {v}]
                                    ELSE [s EXCEPT !.vestings = @ \cup {v}],
             Entry(<<"vesting", v>>, "fresh"))

-----------------------------------------------------------------------------
(* Registry.                                                               *)

RegistrySetMember(s, m) == [s EXCEPT !.member = m]

\* Mutant: the pending withdrawals of the registrar before are kept.
RegistrySetRegistrar_KeepsWithdrawals(s, r, m) ==
  [s EXCEPT !.registrar = r, !.member = m]

RegistrySetRegistrar(s, r, m) ==
  [s EXCEPT !.registrar = r, !.member = m, !.pendingWithdrawals = None]

RegistrySetPendingWithdrawals(s, withdrawals) ==
  [AccountAdd(s, [k \in {"withdrawal"} \X DOMAIN withdrawals |->
                    withdrawals[k[2]]])
     EXCEPT !.pendingWithdrawals = DOMAIN withdrawals]

\* Mutant: the new withdrawal replaces the others.
RegistryCreatePendingWithdrawal_Alone(s, w, account) ==
  [AccountAdd(s, Entry(<<"withdrawal", w>>, account)) EXCEPT !.pendingWithdrawals = {w}]

RegistryCreatePendingWithdrawal(s, w, account) ==
  [AccountAdd(s, Entry(<<"withdrawal", w>>, account))
     EXCEPT !.pendingWithdrawals = (IF @ = None THEN {} ELSE @) \cup {w}]

RegistryUpdatePendingWithdrawal(s, w, account) ==
  AccountAdd(s, Entry(<<"withdrawal", w>>, account))
=============================================================================
