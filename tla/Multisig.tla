------------------------------ MODULE Multisig ------------------------------
(***************************************************************************)
(* The multisig page of stake-ui: what it shows of a multisig account and  *)
(* of the transactions proposed to it, and what its owners do with them.   *)
(*                                                                         *)
(* The page asks the node for the account and for the list of transactions *)
(* and subscribes to the account; every listed transaction is an item with *)
(* a state of its own, which only a subscription of its own updates.  The  *)
(* answers and the notifications are of different moments, and owners who  *)
(* use other clients act in between.                                       *)
(*                                                                         *)
(* An answer is what the chain held at any moment since the request.       *)
(*                                                                         *)
(* The program (outside this repository) is modelled from the instructions *)
(* and errors in its interface and from what the page sends it.            *)
(***************************************************************************)
EXTENDS Naturals, Sequences, FiniteSets

CONSTANTS
  Address,      \* of multisig accounts
  TxKey,        \* addresses of transactions
  Owner,
  Wallet,       \* the owner who uses this page
  Change,       \* what can be proposed
  OwnerList,    \* lists of participants
  Entered,      \* owners and threshold entered in the dialog for a new one
  MaxCalls,     \* bound on the asynchronous calls of the dialogs
  Start,        \* the multisigs there are when the page is opened
  Opened,       \* the multisig the page is opened at
  MaxSteps,     \* bound on changes of the chain, visits and calls together
  Undefined,    \* not fetched yet
  None          \* null

ASSUME MultisigAssumption ==
  /\ Wallet \in Owner
  /\ Address \cap TxKey = {}  \* an address holds one account
  /\ OwnerList \subseteq Seq(Owner) \ {<<>>}
  /\ \A c \in Change :
       /\ c.kind \in {"owners", "threshold", "idl", "program"}
       /\ c.kind = "owners" => c.owners \in OwnerList
       /\ c.kind = "threshold" => c.threshold \in Nat
  /\ Entered \subseteq [owners : OwnerList, threshold : Nat]
  /\ Start \subseteq [Address -> {None} \cup [of : Address, owners : OwnerList,
                         threshold : Nat, seqno : {0}, past : Seq(OwnerList), size : Nat]]
  /\ \A s \in Start : \A m \in Address : s[m] # None =>
       s[m].of = m /\ s[m].past = <<s[m].owners>>
  /\ Opened \in Address
  /\ MaxCalls \in Nat /\ MaxSteps \in Nat

VARIABLES
  account,          \* chain: the multisig accounts
  tx,               \* chain: the transaction accounts
  approved,         \* history of the chain: who approved which transaction
  multisig,         \* the address the page is at
  multisigAccount,  \* state of MultisigInstance
  transactions,     \* state of MultisigInstance: key to account when listed
  forceRefresh,     \* state of MultisigInstance
  txAccount,        \* states of the mounted TxListItems
  request,          \* requests to the node, by number, with possible answers
  subscribed,       \* subscriptions: "no", "asked" of the node, "active"
  events,           \* notifications on their way, in order for each account
  call,             \* calls of the dialogs
  told,             \* history: transactions reported as created
  heard,            \* history: what is shown as it was last notified
  excused           \* history: what may keep a transaction off the list

chain == <<account, tx, approved>>
net == <<request, subscribed, events>>
page == <<multisig, multisigAccount, transactions, forceRefresh, txAccount>>
history == <<told, heard, excused>>
vars == <<chain, net, page, call, history>>

Call == 1 .. MaxCalls  \* in the order they are begun

Subject == Address \cup TxKey  \* of a subscription

-----------------------------------------------------------------------------
(* The accounts.                                                           *)

\* What an account with these owners takes: discriminator, length and owners,
\* threshold, nonce, sequence number.
Needs(owners) == 8 + (4 + 32 * Len(owners)) + 8 + 1 + 4

\* What createMultisig allocates for n participants.
MultisigSize(n) == 8 + 8 + 1 + (n * 2 * 32 + 8)

\* of, its address, and past, the lists of owners it has had, are history.
Account ==
  [of : Address, owners : OwnerList, threshold : Nat, seqno : Nat,
   past : Seq(OwnerList), size : Nat]

\* What an instruction names, as far as it may be asked to sign: the multisig,
\* the address derived from it that signs for it, the proposer's wallet, and the
\* buffer and the other accounts of an upgrade.
AccountMeta ==
  [key : {"multisig", "multisigSigner", "spill", "upgrade"}, of : Address,
   isSigner : BOOLEAN]

Metas(m, keys, signers) ==
  {[key |-> key, of |-> m, isSigner |-> key \in signers] : key \in keys}

\* changeThreshold and setOwners: the multisig signs for itself.
AccountsOfSelf(m) ==
  Metas(m, {"multisig", "multisigSigner"}, {"multisigSigner"})

\* The upgrade of an IDL, and of a program, which returns what the buffer holds
\* to the wallet of the proposer.
AccountsOfIdl(m) == Metas(m, {"upgrade", "multisigSigner"}, {})
AccountsOfProgram(m) == Metas(m, {"upgrade", "spill", "multisigSigner"}, {})

AccountsOf(change, m) ==
  CASE change.kind \in {"owners", "threshold"} -> AccountsOfSelf(m)
    [] change.kind = "idl" -> AccountsOfIdl(m)
    [] change.kind = "program" -> AccountsOfProgram(m)

Tx ==
  [multisig : Address, change : Change, accounts : SUBSET AccountMeta,
   signers : Seq(BOOLEAN), didExecute : BOOLEAN, seqno : Nat]

ASSUME NullAssumption == None \notin Account /\ None \notin Tx

\* A list is a set of transactions with what their accounts held.
IsList(l) == DOMAIN l \subseteq TxKey /\ l \in [DOMAIN l -> Tx]

IsRequest(r) ==
  /\ r \in [multisig : Address, what : {"account", "list"}, may : {r.may}]
  /\ r.what = "account" => r.may \subseteq Account \cup {None}
  /\ r.what = "list" => \A l \in r.may : IsList(l)

IdleCall == [pc |-> "idle"]
DoneCall == [pc |-> "done"]

Proposal ==
  [pc : {"sent", "landed", "late"}, kind : {"propose"}, key : TxKey,
   multisig : Address, change : Change, flag : BOOLEAN]
Creation ==
  [pc : {"sent", "landed", "late"}, kind : {"create"}, key : Address, account : Account]

TypeOK ==
  /\ account \in [Address -> Account \cup {None}]
  /\ tx \in [TxKey -> Tx \cup {None}]
  /\ approved \subseteq TxKey \X Owner
  /\ multisig \in Address
  /\ multisigAccount \in Account \cup {Undefined, None}
  /\ transactions = None \/ IsList(transactions)
  /\ forceRefresh \in BOOLEAN
  /\ IsList(txAccount)
  /\ \A n \in DOMAIN request : IsRequest(request[n])
  /\ subscribed \in [Subject -> {"no", "asked", "active"}]
  /\ events \in [Subject -> Seq(Account) \cup Seq(Tx)]
  /\ \A m \in Address : events[m] \in Seq(Account)
  /\ \A k \in TxKey : events[k] \in Seq(Tx)
  /\ call \in [Call -> {IdleCall, DoneCall} \cup Proposal \cup Creation]
  /\ told \subseteq TxKey
  /\ heard \subseteq Address \cup DOMAIN txAccount
  /\ excused \subseteq {"overlap", "reordered"}

-----------------------------------------------------------------------------
(* Rendering and its effects.                                              *)

\* An account is there to show.
Found(a) == a \notin {Undefined, None}

\* The items rendered: one that is new starts with the account it was listed
\* with, one that was there keeps its state.
Mounted(a, list, items) ==
  [k \in IF Found(a) /\ list # None THEN DOMAIN list ELSE {} |->
     IF k \in DOMAIN items THEN items[k] ELSE list[k]]

Subscribe(subjects) ==
  [s \in Subject |-> IF s \in subjects /\ subscribed[s] = "no" THEN "asked"
                     ELSE subscribed[s]]

\* A new account or list in the state of MultisigInstance.  Items that are
\* mounted subscribe.
Show(a, list) ==
  /\ multisigAccount' = a
  /\ transactions' = list
  /\ txAccount' = Mounted(a, list, txAccount)
  /\ subscribed' = Subscribe(DOMAIN txAccount')

Listed(txs, m) ==
  [k \in {k \in TxKey : txs[k] # None /\ txs[k].multisig = m} |-> txs[k]]

\* What the node answers, when the chain holds these accounts.
Content(what, m, accounts, txs) ==
  IF what = "account" THEN accounts[m] ELSE Listed(txs, m)

Ask(m, what) ==
  [multisig |-> m, what |-> what, may |-> {Content(what, m, account, tx)}]

\* The page is at m: its effects fetch, list and subscribe.
Visit(m) ==
  /\ multisig' = m
  /\ request' = request \o <<Ask(m, "account"), Ask(m, "list")>>
  /\ subscribed' = Subscribe({m})

\* The bound: how often the page was visited after it was opened, calls begun,
\* approvals and executions.
Steps ==
  Cardinality({n \in DOMAIN request : request[n].what = "account"}) - 1
  + Cardinality({c \in Call : call[c] # IdleCall})
  + Cardinality(approved)
  + Cardinality({k \in TxKey : tx[k] # None /\ tx[k].didExecute})

MayGoOn == Steps < MaxSteps

Init ==
  /\ account \in Start
  /\ tx = [k \in TxKey |-> None]
  /\ approved = {}
  /\ multisig = Opened
  /\ multisigAccount = Undefined
  /\ transactions = None
  /\ forceRefresh = FALSE
  /\ txAccount = <<>>
  /\ request = <<Ask(multisig, "account"), Ask(multisig, "list")>>
  /\ subscribed = [s \in Subject |-> IF s = multisig THEN "asked" ELSE "no"]
  /\ events = [s \in Subject |-> <<>>]
  /\ call = [c \in Call |-> IdleCall]
  /\ told = {}
  /\ heard = {}
  /\ excused = {}

-----------------------------------------------------------------------------
(* Requests and notifications.                                             *)

\* An answered request has no answer to come.
Answered(n) == request[n].may = {}

Answer(n, what) ==
  /\ request[n].what = what
  /\ ~Answered(n)
  /\ request' = [request EXCEPT ![n].may = {}]
  /\ UNCHANGED <<chain, multisig, forceRefresh, events, call, told>>

\* The account arrives, or there is none, or the request failed.
AccountArrives(n) ==
  /\ Answer(n, "account")
  /\ \E a \in request[n].may \cup {None} : Show(a, transactions)
  /\ heard' = heard \cap DOMAIN txAccount'
  /\ UNCHANGED excused

AnsweredLater(n) ==
  \E i \in n + 1 .. Len(request) : request[i].what = "list" /\ Answered(i)

\* The rejection of a request that fails is not handled: no answer comes.
ListArrives(n) ==
  /\ Answer(n, "list")
  /\ \E list \in request[n].may : Show(multisigAccount, list)
  /\ heard' = heard \cap (Address \cup DOMAIN txAccount')
  /\ excused' = IF AnsweredLater(n) THEN excused \cup {"reordered"} ELSE excused

\* The node takes up a subscription: from now on it notifies.
SubscriptionStarts(s) ==
  /\ subscribed[s] = "asked"
  /\ subscribed' = [subscribed EXCEPT ![s] = "active"]
  /\ UNCHANGED <<chain, request, events, page, call, history>>

\* Every multisig that was visited keeps its listener.
AccountChanged(m) ==
  /\ events[m] # <<>>
  /\ Show(Head(events[m]), transactions)
  /\ events' = [events EXCEPT ![m] = Tail(@)]
  /\ heard' = {m} \cup (heard \cap DOMAIN txAccount')
  /\ UNCHANGED <<chain, request, multisig, forceRefresh, call, told, excused>>

TransactionChanged(k) ==
  /\ events[k] # <<>>
  /\ events' = [events EXCEPT ![k] = Tail(@)]
  /\ IF k \in DOMAIN txAccount
     THEN /\ txAccount' = [txAccount EXCEPT ![k] = Head(events[k])]
          /\ heard' = heard \cup {k}
     ELSE UNCHANGED <<txAccount, heard>>
  /\ UNCHANGED <<chain, request, subscribed, multisig, multisigAccount, transactions,
                 forceRefresh, call, told, excused>>

-----------------------------------------------------------------------------
(* The program, and the owners who use other clients.                      *)

\* The chain changes: subscribers are notified, and requests under way may read
\* what it holds now.
Become(accounts, txs) ==
  /\ account' = accounts
  /\ tx' = txs
  /\ events' = [s \in Subject |->
       LET Of(a, t) == IF s \in Address THEN a[s] ELSE t[s]
       IN IF subscribed[s] = "active" /\ Of(accounts, txs) # Of(account, tx)
          THEN Append(events[s], Of(accounts, txs)) ELSE events[s]]
  /\ request' = [n \in DOMAIN request |->
       [request[n] EXCEPT !.may = IF @ = {} THEN {} ELSE
          @ \cup {Content(request[n].what, request[n].multisig, accounts, txs)}]]

Position(owners, o) ==
  CHOOSE i \in DOMAIN owners :
    owners[i] = o /\ \A j \in 1 .. i - 1 : owners[j] # o

HasOwner(m, o) ==
  account[m] # None /\ \E i \in DOMAIN account[m].owners : account[m].owners[i] = o

\* create_transaction: the proposer is an owner and approves at once.
CreateTransaction(k, m, o, change) ==
  /\ tx[k] = None
  /\ HasOwner(m, o)
  /\ LET a == account[m]
     IN Become(account, [tx EXCEPT ![k] =
          [multisig |-> m, change |-> change, accounts |-> AccountsOf(change, m),
           didExecute |-> FALSE, seqno |-> a.seqno,
           signers |-> [i \in DOMAIN a.owners |-> i = Position(a.owners, o)]]])
  /\ approved' = approved \cup {<<k, o>>}

\* approve: an owner of the owner set the transaction was proposed to.
ApproveTransaction(k, m, o) ==
  /\ tx[k] # None
  /\ tx[k].multisig = m
  /\ HasOwner(m, o)
  /\ tx[k].seqno = account[m].seqno
  /\ LET i == Position(account[m].owners, o)
     IN /\ ~tx[k].signers[i]  \* else nothing changes
        /\ Become(account, [tx EXCEPT ![k].signers[i] = TRUE])
  /\ approved' = approved \cup {<<k, o>>}

SignersOf(t) == {i \in DOMAIN t.signers : t.signers[i]}

\* set_owners lowers the threshold to the number of owners.
SetOwners(a, owners) ==
  [a EXCEPT !.owners = owners, !.seqno = @ + 1, !.past = Append(@, owners),
            !.threshold = IF Len(owners) < @ THEN Len(owners) ELSE @]

\* execute_transaction: enough owners have signed, not executed before, and
\* the program invoked succeeds.
ExecuteTransaction(k, m) ==
  LET a == account[m]
      c == tx[k].change
  IN /\ tx[k] # None
     /\ tx[k].multisig = m
     /\ ~tx[k].didExecute
     /\ Cardinality(SignersOf(tx[k])) >= a.threshold
     /\ c.kind = "owners" => Needs(c.owners) <= a.size
     /\ c.kind = "threshold" => c.threshold <= Len(a.owners)
     /\ Become(
          [account EXCEPT ![m] =
             CASE c.kind = "owners" -> SetOwners(a, c.owners)
               [] c.kind = "threshold" -> [a EXCEPT !.threshold = c.threshold]
               [] OTHER -> a],
          [tx EXCEPT ![k].didExecute = TRUE])
     /\ UNCHANGED approved

\* What others propose matters where it replaces the owners.
Elsewhere ==
  /\ MayGoOn
  /\ \/ \E k \in TxKey, m \in Address, o \in Owner \ {Wallet}, change \in Change :
          change.kind = "owners" /\ CreateTransaction(k, m, o, change)
     \/ \E k \in TxKey, m \in Address, o \in Owner \ {Wallet} :
          ApproveTransaction(k, m, o)
     \/ \E k \in TxKey, m \in Address : ExecuteTransaction(k, m)
  /\ UNCHANGED <<subscribed, page, call, history>>

-----------------------------------------------------------------------------
(* What an item shows.                                                     *)

\* Mutant: the table is shown whatever owner set the transaction is of.
SignerRows_AnySeqno(k) ==
  [i \in DOMAIN multisigAccount.owners |->
     [owner |-> multisigAccount.owners[i],
      didSign |-> i \in SignersOf(txAccount[k])]]

\* Each owner of the account shown, with the entry of the same position in the
\* transaction shown; no table if the owner set is another one by its number.
SignerRows(k) ==
  IF txAccount[k].seqno = multisigAccount.seqno
  THEN [i \in DOMAIN multisigAccount.owners |->
          [owner |-> multisigAccount.owners[i],
           didSign |-> i \in SignersOf(txAccount[k])]]
  ELSE <<>>

-----------------------------------------------------------------------------
(* What the user of this page does.                                        *)

Navigate(m) ==
  /\ MayGoOn
  /\ m # multisig
  /\ Visit(m)
  /\ UNCHANGED <<chain, events, multisigAccount, transactions, forceRefresh,
                 txAccount, call, history>>

\* Approve and execute, in an item: both name the multisig the page is at.
Approve(k) ==
  /\ MayGoOn
  /\ k \in DOMAIN txAccount
  /\ ApproveTransaction(k, multisig, Wallet)
  /\ UNCHANGED <<subscribed, page, call, history>>

\* Mutant: the accounts are passed as they were proposed.
RemainingAccounts_AsProposed(t) == t.accounts

\* The accounts execute passes on: nobody has a key to sign for the multisig.
RemainingAccounts(t) ==
  {IF a.key = "multisigSigner" /\ a.of = multisig
   THEN [a EXCEPT !.isSigner = FALSE] ELSE a : a \in t.accounts}

\* Of the accounts named, only the wallet signs.
Signed(metas) == \A a \in metas : a.isSigner => a.key = "spill"

Execute(k) ==
  /\ MayGoOn
  /\ k \in DOMAIN txAccount
  /\ Signed(RemainingAccounts(txAccount[k]))
  /\ ExecuteTransaction(k, multisig)
  /\ UNCHANGED <<subscribed, page, call, history>>

Begin(c, record) ==
  /\ MayGoOn
  /\ call[c] = IdleCall
  /\ \A d \in 1 .. c - 1 :
       /\ call[d] # IdleCall
       /\ call[d] # DoneCall => call[d].key # record.key
  /\ call' = [call EXCEPT ![c] = record]
  /\ UNCHANGED <<chain, net, page, told, heard>>

ProposalUnderWay ==
  \E c \in Call : call[c].pc \in {"sent", "landed"} /\ call[c].kind = "propose"

\* A transaction is proposed by one of the dialogs, which are open over the
\* account shown.  didAddTransaction is the function of the latest render:
\* flag is what it will set forceRefresh to.
Propose(c, k, change) ==
  /\ Found(multisigAccount)
  /\ tx[k] = None
  /\ Begin(c, [pc |-> "sent", kind |-> "propose", key |-> k, multisig |-> multisig,
               change |-> change, flag |-> ~forceRefresh])
  /\ excused' = IF ProposalUnderWay THEN excused \cup {"overlap"} ELSE excused

ProposeKind(c, k, kind) ==
  \E change \in Change : change.kind = kind /\ Propose(c, k, change)

ChangeThreshold(c, k) == ProposeKind(c, k, "threshold")
ChangeOwners(c, k) == ProposeKind(c, k, "owners")
UpgradeIdl(c, k) == ProposeKind(c, k, "idl")

\* If the account of the program is not found, the call ends before it has sent
\* anything (GiveUp, and no Land).
UpgradeProgram(c, k) == ProposeKind(c, k, "program")

\* NewMultisigDialog.
CreateMultisig(c, m, new) ==
  /\ account[m] = None
  /\ LET n == Len(new.owners)
     IN Begin(c, [pc |-> "sent", kind |-> "create", key |-> m,
                  account |-> [of |-> m, owners |-> new.owners, seqno |-> 0,
                               threshold |-> new.threshold, past |-> <<new.owners>>,
                               size |-> MultisigSize(n)]])
  /\ UNCHANGED excused

\* The transaction of a call is executed, which the program may refuse; after
\* the call has given up, too.
Land(c) ==
  /\ call[c].pc \in {"sent", "late"}
  /\ call' = [call EXCEPT ![c] =
       IF @.pc = "sent" THEN [@ EXCEPT !.pc = "landed"] ELSE DoneCall]
  /\ \/ /\ call[c].kind = "propose"
        /\ CreateTransaction(call[c].key, call[c].multisig, Wallet, call[c].change)
     \/ /\ call[c].kind = "create"
        /\ Become([account EXCEPT ![call[c].key] = call[c].account], tx)
        /\ UNCHANGED approved
  /\ UNCHANGED <<subscribed, page, history>>

\* Nothing of the page changes with an error.
GiveUp(c) ==
  /\ call[c].pc \in {"sent", "landed"}
  /\ call' = [call EXCEPT ![c] =
       IF @.pc = "sent" THEN [@ EXCEPT !.pc = "late"] ELSE DoneCall]
  /\ UNCHANGED <<chain, net, page, history>>

Finish(c, kind) ==
  /\ call[c].pc = "landed"
  /\ call[c].kind = kind
  /\ call' = [call EXCEPT ![c] = DoneCall]

\* Mutant: the flag of the render is set, not its negation.
Proposed_NoToggle(c) ==
  /\ Finish(c, "propose")
  /\ told' = told \cup {call[c].key}
  /\ UNCHANGED <<chain, net, page, heard, excused>>

\* The transaction is reported; a flag that changes lets the page list again.
Proposed(c) ==
  /\ Finish(c, "propose")
  /\ told' = told \cup {call[c].key}
  /\ forceRefresh' = call[c].flag
  /\ request' = IF forceRefresh' = forceRefresh THEN request
                ELSE Append(request, Ask(multisig, "list"))
  /\ UNCHANGED <<chain, subscribed, events, multisig, multisigAccount, transactions,
                 txAccount, heard, excused>>

\* The new multisig is visited.
Created(c) ==
  /\ Finish(c, "create")
  /\ Visit(call[c].key)
  /\ UNCHANGED <<chain, events, multisigAccount, transactions, forceRefresh,
                 txAccount, history>>

Next ==
  \/ \E n \in DOMAIN request : AccountArrives(n) \/ ListArrives(n)
  \/ \E s \in Subject : SubscriptionStarts(s)
  \/ \E m \in Address : AccountChanged(m) \/ Navigate(m)
  \/ \E k \in TxKey : TransactionChanged(k) \/ Approve(k) \/ Execute(k)
  \/ Elsewhere
  \/ \E c \in Call :
       \/ \E k \in TxKey :
            \/ ChangeThreshold(c, k) \/ ChangeOwners(c, k)
            \/ UpgradeIdl(c, k) \/ UpgradeProgram(c, k)
       \/ \E m \in Address, new \in Entered : CreateMultisig(c, m, new)
       \/ Land(c) \/ GiveUp(c) \/ Proposed(c) \/ Created(c)

Spec == Init /\ [][Next]_vars

-----------------------------------------------------------------------------
(* Properties.                                                             *)

\* A check mark beside an owner means that this owner approved the transaction,
\* though the item and the account it is shown with were read at different
\* moments and the owners may have been replaced in between (TxListItem pairs
\* signers and owners by position).  It takes the account of the transaction's
\* own multisig: until the answers for another page arrive, the items of the
\* page before are shown with whatever account arrives first.
TickMeansApproval ==
  \A k \in DOMAIN txAccount :
    txAccount[k].multisig = multisigAccount.of =>
      \A i \in DOMAIN SignerRows(k) :
        SignerRows(k)[i].didSign => <<k, SignerRows(k)[i].owner>> \in approved

\* What a dialog reported as created is listed once all lists requested are
\* answered, unless two proposals were under way at the same time (the second
\* sets forceRefresh to the value it has) or an older list arrived after a newer
\* one.
ReportedIsListed ==
  excused = {} /\ transactions # None
    /\ (\A n \in DOMAIN request : request[n].what = "list" => Answered(n))
  => \A k \in told : tx[k].multisig = multisig => k \in DOMAIN transactions

\* What was last updated by a notification, and has no other on its way, is
\* what the chain holds: an item is not set back by a later answer to the
\* request for the list, which may have been read earlier.
HeardIsCurrent ==
  \A s \in heard : events[s] = <<>> =>
    IF s \in Address THEN multisigAccount = account[s] ELSE txAccount[s] = tx[s]

\* Reported or heard of, the page keeps what it knows.
PageIsCurrent == ReportedIsListed /\ HeardIsCurrent

\* A transaction listed for the multisig shown, of whatever kind and whoever
\* proposed it, can be executed with the wallet's signature alone: the dialogs
\* of multisig changes ask for the signature of its derived address, which
\* execute takes back.
WalletCanExecute ==
  \A k \in DOMAIN txAccount :
    txAccount[k].multisig = multisig => Signed(RemainingAccounts(txAccount[k]))
=============================================================================
