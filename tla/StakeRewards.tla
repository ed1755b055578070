---------------------------- MODULE StakeRewards ----------------------------
(***************************************************************************)
(* Rewards and vesting accounts in stake-ui: the queue of rewards dropped  *)
(* on the stakers of a registrar, which of them the page offers a member   *)
(* to process, and the vesting accounts that locked rewards and the dialog *)
(* for new ones create, each shown in a card that asks how much of it can  *)
(* be withdrawn.                                                           *)
(*                                                                         *)
(* The page works on copies: notifications update the queue, the member    *)
(* and its pool tokens, each on its own; the vendors of the rewards are    *)
(* fetched when the queue changes; vesting accounts are fetched by the     *)
(* calls that change them.  The registrar stays selected (StakeRegistry    *)
(* and StakeSession model its change).                                     *)
(*                                                                         *)
(* The program (outside this repository) is modelled from the errors in    *)
(* its interface and from what the page reads and sends.                   *)
(***************************************************************************)
EXTENDS Naturals, Sequences, FiniteSets, SequencesExt

CONSTANTS
  Reward,    \* addresses of vendors, one for each reward dropped
  QueueLen,  \* length of the ring of events
  Dropped,   \* the rewards in the queue at the start
  Vesting,   \* addresses of vesting accounts
  Held,      \* the vesting accounts there are at the start
  Terms,     \* amounts and numbers of periods of vesting accounts
  MaxCalls,  \* bound on the asynchronous calls
  MaxSteps,  \* bound on calls, visits and what others do together
  None

ASSUME RewardsAssumption ==
  /\ QueueLen \in Nat \ {0, 1}
  /\ Dropped \in Seq(Reward) /\ IsInjective(Dropped) /\ Len(Dropped) < QueueLen
  /\ Held \in Seq(Vesting) /\ IsInjective(Held)
  /\ Terms \subseteq [startBalance : Nat, periodCount : Nat \ {0}]
  /\ MaxCalls \in Nat /\ MaxSteps \in Nat
  /\ None \notin Reward \cup Vesting

VARIABLES
  queue,     \* chain: the ring of events
  vendor,    \* chain: of the rewards dropped, when and whether locked
  expired,   \* chain: the rewards expired, in order
  member,    \* chain: the member's cursor and when it last staked
  spt,       \* chain: whether the member owns pool tokens
  vestings,  \* chain: the wallet's vesting accounts, in order of creation
  taken,     \* chain: how often what each holds has changed
  clock,     \* chain: the time, in seconds
  updates,   \* notifications on their way, in order for each account
  store,     \* the redux store
  page,      \* the page shown
  visits,    \* how many pages have been shown
  fetches,   \* requests of the rewards page for vendors
  cards,     \* states of the mounted cards, by position
  call,      \* calls of the dialogs and buttons
  claimed,   \* history: the rewards processed
  steps,     \* the number of steps that MaxSteps bounds
  excused    \* history: vesting accounts of calls that failed or overlapped

chain == <<queue, vendor, expired, member, spt, vestings, taken, clock>>
view == <<store, page, visits, fetches, cards>>
history == <<claimed, excused>>
vars == <<chain, updates, view, call, history, steps>>

Call == 1 .. MaxCalls

-----------------------------------------------------------------------------
(* The queue, and what is offered.                                         *)

\* The events in a queue, oldest first.
RewardEvents(q) ==
  [i \in 1 .. q.head - q.tail |-> q.events[(q.tail + i - 1) % QueueLen]]

InQueue(q) == ToSet(RewardEvents(q))

\* The cursor of a vendor is what head was when it was dropped.
Cursor(r) == vendor[r].cursor

\* Mutant: a reward at the member's cursor counts as claimed.
NeedsClaim_PastCursor(r) ==
  /\ store.spt
  /\ Cursor(r) > store.member.rewardsCursor
  /\ store.member.lastStakeTs < vendor[r].startTs
  /\ ~store.vendors[r]

\* A listed reward is to be claimed, as far as the store tells.
NeedsClaim(r) ==
  /\ store.spt
  /\ Cursor(r) >= store.member.rewardsCursor
  /\ store.member.lastStakeTs < vendor[r].startTs
  /\ ~store.vendors[r]

Oldest(rewards) ==
  IF rewards = {} THEN None
  ELSE CHOOSE r \in rewards : \A q \in rewards : Cursor(r) <= Cursor(q)

\* Mutant: rewards whose vendors are not stored are passed over.
NextReward_AsLoaded ==
  Oldest({r \in InQueue(store.queue) \cap DOMAIN store.vendors : NeedsClaim(r)})

\* The reward the page offers to process: the first to be claimed, once the
\* vendors of all rewards are stored.
NextReward ==
  IF InQueue(store.queue) \subseteq DOMAIN store.vendors
  THEN Oldest({r \in InQueue(store.queue) : NeedsClaim(r)})
  ELSE None

-----------------------------------------------------------------------------
(* The schedule of a card.                                                 *)

\* What has vested at the end of period k: the first period takes what does not
\* divide evenly.
CumulativeVesting(t, k) ==
  IF k = 0 THEN 0
  ELSE (t.startBalance % t.periodCount) + k * (t.startBalance \div t.periodCount)

-----------------------------------------------------------------------------
StartQueue ==
  [head |-> Len(Dropped), tail |-> 0,
   events |-> [i \in 0 .. QueueLen - 1 |-> IF i < Len(Dropped) THEN Dropped[i + 1] ELSE None]]

\* The oldest event is overwritten when the ring is full.
Push(q, r) ==
  [head |-> q.head + 1,
   tail |-> IF q.head + 1 - q.tail = QueueLen THEN q.tail + 1 ELSE q.tail,
   events |-> [q.events EXCEPT ![q.head % QueueLen] = r]]

IdleCall == [pc |-> "idle"]
DoneCall == [pc |-> "done"]

-----------------------------------------------------------------------------
(* Rendering and its effects.                                              *)

\* A card keeps its state while there is one at its position.
Card(i) == IF i \in DOMAIN cards THEN cards[i] ELSE [amount |-> None, asked |-> {}]

\* Every render makes new objects of the vesting accounts, so every card asks
\* again.  Asking for one it is waiting for makes no difference.
Asked(list) ==
  [i \in DOMAIN list |->
     [amount |-> Card(i).amount, asked |-> Card(i).asked \cup {list[i]},
      overtaken |-> FALSE]]

Fetch(q) == [of |-> InQueue(q), from |-> Len(expired)]

\* An action is dispatched: the page shown is rendered again.
Dispatch(s) ==
  /\ store' = s
  /\ cards' = IF page = "lockup" THEN Asked(s.vestings) ELSE cards

\* A page is mounted: the rewards page fetches the vendors, the cards ask.
Mount(p) ==
  /\ page' = p
  /\ visits' = visits + 1
  /\ fetches' = IF p = "rewards" THEN fetches \cup {Fetch(store.queue)} ELSE fetches
  /\ cards' = IF p = "lockup" THEN Asked(store.vestings) ELSE <<>>
  /\ UNCHANGED store

\* The bound: calls begun, visits, and what others do.
MayGoOn == steps < MaxSteps /\ steps' = steps + 1

Init ==
  /\ queue = StartQueue
  /\ \E locked \in BOOLEAN :
       vendor = [r \in ToSet(Dropped) |->
         [cursor |-> CHOOSE i \in 0 .. Len(Dropped) - 1 : Dropped[i + 1] = r,
          startTs |-> 1, locked |-> locked]]
  /\ expired = <<>>
  /\ member = [rewardsCursor |-> 0, lastStakeTs |-> 0]
  /\ spt = TRUE
  /\ vestings = Held
  /\ taken = [v \in Vesting |-> 0]
  /\ clock = 1
  /\ updates = [x \in {"queue", "member", "spt"} |-> <<>>]
  /\ store = [queue |-> queue, member |-> member, spt |-> spt, vendors |-> <<>>,
              vestings |-> Held, accounts |-> [v \in ToSet(Held) |-> 0]]
  /\ page = "rewards"
  /\ visits = 0
  /\ fetches = {Fetch(queue)}
  /\ cards = <<>>
  /\ call = [c \in Call |-> IdleCall]
  /\ claimed = {}
  /\ steps = 0
  /\ excused = {}

-----------------------------------------------------------------------------
(* The program, and what others do.                                        *)

Notify(x, value) == updates' = [updates EXCEPT ![x] = Append(@, value)]

\* drop_reward.
DropReward(r, locked) ==
  /\ r \notin DOMAIN vendor
  /\ clock' \in {clock, clock + 1}
  /\ vendor' = [q \in DOMAIN vendor \cup {r} |->
       IF q = r THEN [cursor |-> queue.head, startTs |-> clock', locked |-> locked]
       ELSE vendor[q]]
  /\ queue' = Push(queue, r)
  /\ Notify("queue", queue')
  /\ UNCHANGED <<expired, member, spt, vestings, taken, claimed>>

\* What claim_reward and claim_reward_locked accept.
Accepted(r) ==
  /\ r \in DOMAIN vendor
  /\ r \notin ToSet(expired)
  /\ Cursor(r) >= member.rewardsCursor
  /\ member.lastStakeTs < vendor[r].startTs

ClaimReward(r) ==
  /\ Accepted(r)
  /\ member' = [member EXCEPT !.rewardsCursor = Cursor(r) + 1]
  /\ Notify("member", member')
  /\ claimed' = claimed \cup {r}
  /\ UNCHANGED <<queue, vendor, expired, spt, taken, clock>>

\* A reward in the queue that is worth something to the member.
Claimable(r) == spt /\ r \in InQueue(queue) /\ Accepted(r)

\* Staking and unstaking wait until all rewards are processed.
Stake ==
  /\ \A r \in InQueue(queue) : ~Claimable(r)
  /\ \/ /\ clock' \in {clock, clock + 1}
        /\ member' = [member EXCEPT !.lastStakeTs = clock']
        /\ spt' = TRUE
     \/ spt /\ spt' = FALSE /\ UNCHANGED <<member, clock>>
  /\ updates' = [updates EXCEPT !["member"] = IF member' = member THEN @ ELSE Append(@, member'),
                                !["spt"] = IF spt' = spt THEN @ ELSE Append(@, spt')]
  /\ UNCHANGED <<queue, vendor, expired, vestings, taken, claimed>>

\* expire_reward, once its time has come.
ExpireReward(r) ==
  /\ r \in DOMAIN vendor
  /\ r \notin ToSet(expired)
  /\ expired' = Append(expired, r)
  /\ UNCHANGED <<queue, vendor, member, spt, vestings, taken, clock, updates, claimed>>

Elsewhere ==
  /\ MayGoOn
  /\ \/ \E r \in Reward, locked \in BOOLEAN : DropReward(r, locked)
     \/ Stake
     \/ \E r \in Reward : ExpireReward(r)
  /\ UNCHANGED <<view, call, excused>>

-----------------------------------------------------------------------------
(* Notifications and answers.                                              *)

\* A notified queue is a new object: the rewards page fetches its vendors.
Notified(x) ==
  /\ updates[x] # <<>>
  /\ updates' = [updates EXCEPT ![x] = Tail(@)]
  /\ Dispatch([store EXCEPT ![x] = Head(updates[x])])
  /\ fetches' = IF x = "queue" /\ page = "rewards"
                THEN fetches \cup {Fetch(Head(updates[x]))} ELSE fetches
  /\ UNCHANGED <<chain, page, visits, call, history, steps>>

\* The accounts are of any moment since the request; some may be null, which is
\* reported and nothing else.
VendorsArrive(f) ==
  /\ \E upTo \in f.from .. Len(expired) : \E found \in SUBSET f.of :
       LET gone == ToSet(SubSeq(expired, 1, upTo))
       IN Dispatch([store EXCEPT !.vendors =
            [r \in DOMAIN @ \cup found |-> IF r \in found THEN r \in gone ELSE @[r]]])
  /\ fetches' = fetches \ {f}
  /\ UNCHANGED <<chain, updates, page, visits, call, history, steps>>

VendorsFail(f) ==
  /\ fetches' = fetches \ {f}
  /\ UNCHANGED <<chain, updates, store, page, visits, cards, call, history, steps>>

\* What can be withdrawn arrives, or the request fails and the card is left as
\* it is.  The card does not ask which vesting account the answer is of.
AvailableArrives(i, v) ==
  /\ v \in cards[i].asked
  /\ \E amount \in {v, cards[i].amount} :
       cards' = [cards EXCEPT ![i] =
         [amount |-> amount, asked |-> @.asked \ {v},
          overtaken |-> @.overtaken \/ (store.vestings[i] \notin @.asked \ {v}
                                        /\ amount # store.vestings[i])]]
  /\ UNCHANGED <<chain, updates, store, page, visits, fetches, call, history, steps>>

-----------------------------------------------------------------------------
(* What the user does.                                                     *)

Visit(p) ==
  /\ MayGoOn
  /\ p # page
  /\ Mount(p)
  /\ UNCHANGED <<chain, updates, call, history>>

UnderWay(c) == call[c].pc \notin {"idle", "done"}

\* What call a stores may undo what b does: processing a locked reward stores the
\* whole list, the others one account.
Harms(a, b) ==
  /\ a.vesting # None /\ b.vesting # None
  /\ a.kind = "claim" \/ a.vesting = b.vesting

Begin(c, record) ==
  /\ MayGoOn
  /\ call[c] = IdleCall
  /\ \A d \in 1 .. c - 1 : call[d] # IdleCall
  /\ call' = [call EXCEPT ![c] = record]
  /\ LET others == {call[d] : d \in {d \in Call : UnderWay(d)}}
     IN excused' = excused \cup {o.vesting : o \in {o \in others : Harms(record, o)}}
          \cup IF \E o \in others : Harms(o, record) THEN {record.vesting} ELSE {}
  /\ UNCHANGED <<chain, updates, view, claimed>>

NewKey(v) ==
  /\ v \notin ToSet(vestings)
  /\ \A c \in Call : UnderWay(c) => call[c].vesting # v

\* DropRewardButton, for either kind of reward.
Drop(c, r, locked) ==
  /\ page = "rewards"
  /\ r \notin DOMAIN vendor
  /\ Begin(c, [pc |-> "sent", kind |-> "drop", reward |-> r, locked |-> locked,
               vesting |-> None])

DropUnlocked(c, r) == Drop(c, r, FALSE)
DropLocked(c, r) == Drop(c, r, TRUE)

\* ClaimRewardButton; a locked reward is paid into a vesting account made for it.
ClaimClicked(c, v) ==
  /\ page = "rewards"
  /\ NextReward # None
  /\ IF vendor[NextReward].locked THEN v # None /\ NewKey(v) ELSE v = None
  /\ Begin(c, [pc |-> "sent", kind |-> "claim", reward |-> NextReward, vesting |-> v])

\* RewardListItemDetails; the list shows what is not expired as far as is known.
ExpireClicked(c, r) ==
  /\ page = "rewards"
  /\ InQueue(store.queue) \subseteq DOMAIN store.vendors
  /\ r \in InQueue(store.queue) /\ ~store.vendors[r]
  /\ Begin(c, [pc |-> "sent", kind |-> "expire", reward |-> r, vesting |-> None])

\* NewVestingDialog, for the wallet itself: for another beneficiary nothing is
\* stored.  The button is disabled while its call is under way.
CreateClicked(c, v) ==
  /\ page = "lockup"
  /\ NewKey(v)
  /\ ~\E d \in Call : /\ UnderWay(d) /\ call[d].pc # "late"
                      /\ call[d].kind = "create" /\ call[d].visit = visits
  /\ Begin(c, [pc |-> "sent", kind |-> "create", vesting |-> v, visit |-> visits])

\* VestingAccountCard.
WithdrawClicked(c, i) ==
  /\ page = "lockup"
  /\ i \in DOMAIN cards
  /\ cards[i].amount # None
  /\ Begin(c, [pc |-> "sent", kind |-> "withdraw", vesting |-> store.vestings[i]])

\* The dialogs of MyNode, for locked tokens: they are taken from a vesting account
\* to stake, or put back.
Transfer(c, v) ==
  /\ page = "rewards"
  /\ v \in ToSet(store.vestings)
  /\ Begin(c, [pc |-> "sent", kind |-> "withdraw", vesting |-> v])

DepositLocked(c, v) == Transfer(c, v)
WithdrawLocked(c, v) == Transfer(c, v)

Executes(c) ==
  LET r == call[c].reward
      v == call[c].vesting
  IN CASE call[c].kind = "drop" -> DropReward(r, call[c].locked) /\ UNCHANGED vestings
       [] call[c].kind = "expire" -> ExpireReward(r)
       [] call[c].kind = "claim" ->
            /\ ClaimReward(r)
            /\ vestings' = IF v = None THEN vestings ELSE Append(vestings, v)
       [] call[c].kind = "create" ->
            /\ vestings' = Append(vestings, v)
            /\ UNCHANGED <<queue, vendor, expired, member, spt, taken, clock, updates, claimed>>
       [] call[c].kind = "withdraw" ->
            /\ taken' = [taken EXCEPT ![v] = @ + 1]
            /\ UNCHANGED <<queue, vendor, expired, member, spt, vestings, clock, updates, claimed>>

\* The transaction is executed, if the program accepts it; after the call has
\* given up, too.
Land(c) ==
  /\ call[c].pc \in {"sent", "late"}
  /\ Executes(c)
  /\ call' = [call EXCEPT ![c] =
       IF @.pc = "sent" THEN [@ EXCEPT !.pc = "landed"] ELSE DoneCall]
  /\ UNCHANGED <<view, excused, steps>>

Excuse(c) == IF call[c].vesting = None THEN {} ELSE {call[c].vesting}

\* A request fails, or the transaction is not confirmed in time.
GiveUp(c) ==
  /\ UnderWay(c) /\ call[c].pc # "late"
  /\ call' = [call EXCEPT ![c] =
       IF @.pc = "sent" THEN [@ EXCEPT !.pc = "late"] ELSE DoneCall]
  /\ excused' = excused \cup Excuse(c)
  /\ UNCHANGED <<chain, updates, view, claimed, steps>>

\* A transaction that will never be executed.
Expires(c) ==
  /\ call[c].pc = "late"
  /\ call' = [call EXCEPT ![c] = DoneCall]
  /\ UNCHANGED <<chain, updates, view, history, steps>>

\* Mutant: a vesting account paid from is not fetched again.
Confirmed_NoFetch(c) ==
  /\ call[c].pc = "landed"
  /\ call' = [call EXCEPT ![c] =
       IF @.vesting = None \/ @.kind = "withdraw" THEN DoneCall
       ELSE [@ EXCEPT !.pc = "fetching"]]
  /\ UNCHANGED <<chain, updates, view, history, steps>>

\* The client is told: a call that concerns a vesting account fetches.
Confirmed(c) ==
  /\ call[c].pc = "landed"
  /\ call' = [call EXCEPT ![c] =
       IF @.vesting = None THEN DoneCall ELSE [@ EXCEPT !.pc = "fetching"]]
  /\ UNCHANGED <<chain, updates, view, history, steps>>

\* The node evaluates the request.
NodeReads(c) ==
  /\ call[c].pc = "fetching"
  /\ call' = [call EXCEPT ![c] = [pc |-> "answered", kind |-> @.kind, vesting |-> @.vesting,
                                  vestings |-> vestings, taken |-> taken]]
  /\ UNCHANGED <<chain, updates, view, history, steps>>

Answered(c, kind) ==
  /\ call[c].pc = "answered"
  /\ call[c].kind = kind
  /\ call' = [call EXCEPT ![c] = DoneCall]
  /\ UNCHANGED <<chain, updates, page, visits, fetches, history, steps>>

AccountAdd(accounts, c, added) ==
  [v \in DOMAIN accounts \cup added |->
     IF v \in added THEN call[c].taken[v] ELSE accounts[v]]

\* All vesting accounts of the wallet are stored, in the order of the node.
Processed(c) ==
  /\ Answered(c, "claim")
  /\ \E list \in SetToSeqs(ToSet(call[c].vestings)) :
       Dispatch([store EXCEPT !.vestings = list,
                              !.accounts = AccountAdd(@, c, ToSet(list))])

\* LockupCreateVesting: the new one is put in front.
Created(c) ==
  /\ Answered(c, "create")
  /\ Dispatch([store EXCEPT !.vestings = <<call[c].vesting>> \o @,
                            !.accounts = AccountAdd(@, c, {call[c].vesting})])

\* LockupUpdateVesting, of VestingAccountCard and of the dialogs of MyNode.
Withdrawn(c) ==
  /\ Answered(c, "withdraw")
  /\ Dispatch([store EXCEPT !.accounts = AccountAdd(@, c, {call[c].vesting})])

Next ==
  \/ Elsewhere
  \/ \E x \in DOMAIN updates : Notified(x)
  \/ \E f \in fetches : VendorsArrive(f) \/ VendorsFail(f)
  \/ \E i \in DOMAIN cards : \E v \in cards[i].asked : AvailableArrives(i, v)
  \/ \E p \in {"rewards", "lockup"} : Visit(p)
  \/ \E c \in Call :
       \/ \E r \in Reward : DropUnlocked(c, r) \/ DropLocked(c, r) \/ ExpireClicked(c, r)
       \/ \E v \in Vesting \cup {None} : ClaimClicked(c, v)
       \/ \E v \in Vesting :
            CreateClicked(c, v) \/ DepositLocked(c, v) \/ WithdrawLocked(c, v)
       \/ \E i \in DOMAIN cards : WithdrawClicked(c, i)
       \/ Land(c) \/ GiveUp(c) \/ Expires(c) \/ Confirmed(c) \/ NodeReads(c)
       \/ Processed(c) \/ Created(c) \/ Withdrawn(c)

Spec == Init /\ [][Next]_vars

-----------------------------------------------------------------------------
(* Properties.                                                             *)

\* Processing a reward moves the member's cursor past it and all before it.
\* However old the copies are that the page chooses from, no reward the member
\* can claim is lost that way: it is processed, expires or is overwritten.
NoneForfeited ==
  [][\A r \in DOMAIN vendor :
       Claimable(r) /\ ~Claimable(r)' =>
         \/ r \in claimed' \ claimed
         \/ r \in ToSet(expired')
         \/ r \notin InQueue(queue')]_vars

Current ==
  /\ \A x \in DOMAIN updates : updates[x] = <<>>
  /\ \A r \in InQueue(queue) :
       r \in DOMAIN store.vendors /\ store.vendors[r] = (r \in ToSet(expired))

\* When its copies are current, the page offers the oldest reward that the
\* program lets the member claim, and none if there is none.
OfferIsOldestClaimable ==
  Current => NextReward = Oldest({r \in InQueue(queue) : Claimable(r)})

\* A vesting account that no call is changing is listed once and as it is,
\* unless the call that changed it failed or overlapped with one that stores
\* what it was before; nothing else is listed.
VestingsAreCurrent ==
  /\ ToSet(store.vestings) \subseteq ToSet(vestings) \cap DOMAIN store.accounts
  /\ \A v \in ToSet(vestings) \ excused :
       (\A c \in Call : UnderWay(c) => call[c].vesting # v) =>
         /\ Cardinality({i \in DOMAIN store.vestings : store.vestings[i] = v}) = 1
         /\ store.accounts[v] = taken[v]

\* A card whose requests are all answered shows, and withdraws, what is available
\* of its own vesting account, though cards keep their state by position while
\* the list changes; unless the last answer for it failed or came before an
\* older one.
CardShowsItsVesting ==
  \A i \in DOMAIN cards :
    cards[i].asked = {} /\ ~cards[i].overtaken => cards[i].amount = store.vestings[i]

\* The list is the user's vesting accounts as they are, and each card is its own.
VestingsAreShown == VestingsAreCurrent /\ CardShowsItsVesting

\* The schedule drawn ends with the whole amount, and is at no period behind an
\* even schedule, nor ahead of it by as much as one token unit per period.
ScheduleKeepsPace ==
  \A t \in Terms :
    /\ CumulativeVesting(t, t.periodCount) = t.startBalance
    /\ \A k \in 1 .. t.periodCount :
         LET ahead == CumulativeVesting(t, k) * t.periodCount - k * t.startBalance
         IN 0 <= ahead /\ ahead < t.periodCount * t.periodCount
=============================================================================
