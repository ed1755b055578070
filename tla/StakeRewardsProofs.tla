------------------------- MODULE StakeRewardsProofs -------------------------
(***************************************************************************)
(* Proofs about StakeRewards, for any rewards and rings, any vesting       *)
(* accounts, and any number of calls and steps.                            *)
(*                                                                         *)
(* The page chooses a reward, and lists vesting accounts, from copies of   *)
(* different moments.  The invariant says of each copy what is left of it: *)
(* of a queue and a member, that the program has only gone on from them;   *)
(* of a list, that what no other call has touched is still so.             *)
(***************************************************************************)
EXTENDS StakeRewards, SequenceTheorems, FiniteSetTheorems, WellFoundedInduction, TLAPS

-----------------------------------------------------------------------------
(* Types.                                                                  *)

Queue == [head : Nat, tail : Nat, events : [0 .. QueueLen - 1 -> Reward \cup {None}]]
Member == [rewardsCursor : Nat, lastStakeTs : Nat]
VendorAccount == [cursor : Nat, startTs : Nat, locked : BOOLEAN]
IsMap(f, S, T) == DOMAIN f \subseteq S /\ f \in [DOMAIN f -> T]
CardState ==
  [amount : Vesting \cup {None}, asked : SUBSET Vesting, overtaken : BOOLEAN]

Sent == {"sent", "landed", "late"}
CallState ==
  {IdleCall, DoneCall}
    \cup [pc : Sent, kind : {"drop"}, reward : Reward, locked : BOOLEAN, vesting : {None}]
    \cup [pc : Sent, kind : {"expire"}, reward : Reward, vesting : {None}]
    \cup [pc : Sent \cup {"fetching"}, kind : {"claim"}, reward : Reward,
          vesting : Vesting \cup {None}]
    \cup [pc : Sent \cup {"fetching"}, kind : {"create"}, vesting : Vesting, visit : Nat]
    \cup [pc : Sent \cup {"fetching"}, kind : {"withdraw"}, vesting : Vesting]
    \cup [pc : {"answered"}, kind : {"claim", "create", "withdraw"}, vesting : Vesting,
          vestings : Seq(Vesting), taken : [Vesting -> Nat]]

RewardsType ==
  /\ queue \in Queue
  /\ IsMap(vendor, Reward, VendorAccount)
  /\ expired \in Seq(Reward)
  /\ member \in Member
  /\ spt \in BOOLEAN
  /\ clock \in Nat
  /\ claimed \subseteq Reward

UpdatesType ==
  /\ DOMAIN updates = {"queue", "member", "spt"}
  /\ updates["queue"] \in Seq(Queue)
  /\ updates["member"] \in Seq(Member)
  /\ updates["spt"] \in Seq(BOOLEAN)

StoreType ==
  /\ store \in [queue : Queue, member : Member, spt : BOOLEAN,
                vendors : {store.vendors}, vestings : Seq(Vesting),
                accounts : {store.accounts}]
  /\ IsMap(store.vendors, Reward, BOOLEAN)
  /\ IsMap(store.accounts, Vesting, Nat)

ViewType ==
  /\ page \in {"rewards", "lockup"}
  /\ visits \in Nat
  /\ fetches \subseteq [of : SUBSET Reward, from : 0 .. Len(expired)]
  /\ cards \in [DOMAIN cards -> CardState]
  /\ DOMAIN cards = IF page = "lockup" THEN DOMAIN store.vestings ELSE {}

TypeInv ==
  /\ RewardsType
  /\ vestings \in Seq(Vesting)
  /\ taken \in [Vesting -> Nat]
  /\ UpdatesType
  /\ StoreType
  /\ ViewType
  /\ call \in [Call -> CallState]
  /\ excused \subseteq Vesting
  /\ steps \in Nat

-----------------------------------------------------------------------------
(* Rewards.                                                                *)

\* The rewards v are in the ring at their cursors.
IsRing(q, v) ==
  /\ q.tail <= q.head /\ q.head - q.tail < QueueLen
  /\ \A p \in q.tail .. q.head - 1 :
       /\ q.events[p % QueueLen] \in DOMAIN v
       /\ v[q.events[p % QueueLen]].cursor = p

\* What q, or m, was some time before.
IsPastQueue(p, q) == p.tail <= q.tail /\ p.head <= q.head
IsPastMember(l, m) ==
  l.rewardsCursor <= m.rewardsCursor /\ l.lastStakeTs <= m.lastStakeTs

QueueInv ==
  /\ IsRing(queue, vendor)
  /\ \A r \in DOMAIN vendor : Cursor(r) < queue.head
  /\ \A q, r \in DOMAIN vendor : Cursor(q) = Cursor(r) => q = r
  /\ member.lastStakeTs <= clock
  /\ \A r \in claimed : r \in DOMAIN vendor /\ Cursor(r) < member.rewardsCursor

\* The copies of an account that are stored or on their way.
Copies(x) == {store[x]} \cup ToSet(updates[x])

CopiesInv ==
  /\ \A q \in Copies("queue") : IsRing(q, vendor) /\ IsPastQueue(q, queue)
  /\ \A m \in Copies("member") : IsPastMember(m, member)
  /\ \A r \in DOMAIN store.vendors : store.vendors[r] => r \in ToSet(expired)

\* The last copy on its way, or else the one stored, is the account as it is.
Newest(x) == IF updates[x] = <<>> THEN store[x] ELSE updates[x][Len(updates[x])]

NewestInv == Newest("queue") = queue /\ Newest("member") = member /\ Newest("spt") = spt

\* What the member can never claim.
Lost(r) ==
  \/ Cursor(r) < queue.tail
  \/ r \in ToSet(expired)
  \/ Cursor(r) < member.rewardsCursor
  \/ vendor[r].startTs <= member.lastStakeTs

\* What a transaction on its way passes over is lost already.
ClaimInv(c) ==
  call[c].pc \in {"sent", "late"} /\ call[c].kind = "claim" =>
    /\ call[c].reward \in DOMAIN vendor
    /\ \A r \in DOMAIN vendor : Cursor(r) < Cursor(call[c].reward) => Lost(r)

RewardsInv ==
  /\ QueueInv
  /\ CopiesInv
  /\ NewestInv
  /\ \A c \in Call : ClaimInv(c)

-----------------------------------------------------------------------------
(* Vesting accounts.                                                       *)

IsNew(c) == call[c].kind \in {"claim", "create"}
Of(v) == {c \in Call : UnderWay(c) /\ call[c].vesting = v}

\* The vesting account of a call, and what the node has answered.
AccountInv(c) ==
  LET v == call[c].vesting
  IN /\ call[c].pc = "fetching" => v # None
     /\ v # None =>
          /\ call[c].pc = "late" => v \in excused
          /\ IF IsNew(c) /\ call[c].pc \in {"sent", "late"}
             THEN v \notin ToSet(vestings) /\ Of(v) = {c}
             ELSE v \in ToSet(vestings)
     /\ call[c].pc = "answered" =>
          /\ v \in ToSet(call[c].vestings)
          /\ ToSet(call[c].vestings) \subseteq ToSet(vestings)
          /\ v \notin excused => call[c].taken[v] = taken[v]
          /\ call[c].kind = "claim" =>
               \A u \in ToSet(vestings) \ excused :
                 u \in ToSet(call[c].vestings) /\ call[c].taken[u] = taken[u]

\* What two calls do that are under way together.
PairInv(c, d) ==
  Harms(call[c], call[d]) => call[d].vesting \in excused

OnceIn(v, list) == \E i \in DOMAIN list : \A j \in DOMAIN list : list[j] = v <=> j = i
Once(v) == OnceIn(v, store.vestings)

ListedInv ==
  /\ ToSet(store.vestings) \subseteq ToSet(vestings) \cap DOMAIN store.accounts
  /\ \A v \in Vesting \ excused :
       /\ v \in ToSet(vestings) /\ Of(v) = {} => Once(v) /\ store.accounts[v] = taken[v]
       /\ \A c \in Of(v) :
            IF IsNew(c) THEN v \notin ToSet(store.vestings) ELSE Once(v)

VestingsInv ==
  /\ \A c \in Call : UnderWay(c) => AccountInv(c)
  /\ \A c, d \in Call : UnderWay(c) /\ UnderWay(d) /\ c # d => PairInv(c, d)
  /\ ListedInv

-----------------------------------------------------------------------------
(* Cards.                                                                  *)

\* A card is waiting for its own vesting account or has what is available of it.
CardsInv ==
  \A i \in DOMAIN cards :
    ~cards[i].overtaken =>
      store.vestings[i] \in cards[i].asked \/ cards[i].amount = store.vestings[i]

IInv == TypeInv /\ RewardsInv /\ VestingsInv /\ CardsInv

-----------------------------------------------------------------------------
(* The ring and what is offered of it.                                     *)

LEMMA PlacesDiffer ==
  ASSUME NEW p \in Nat, NEW h \in Nat, p < h, h - p < QueueLen
  PROVE  p % QueueLen # h % QueueLen
<1> DEFINE n == QueueLen
<1>1. n \in Nat \ {0, 1}
  BY RewardsAssumption
<1> PICK i : i = p \div n
  OBVIOUS
<1> PICK j : j = h \div n
  OBVIOUS
<1> HIDE DEF n
<1>2. /\ i \in Nat /\ j \in Nat
      /\ p = n * i + (p % n) /\ h = n * j + (h % n)
  BY <1>1
<1> SUFFICES ASSUME p % n = h % n  PROVE FALSE
  BY DEF n
<1>3. h - p = n * j - n * i
  <2>1. p % n \in Nat
    BY <1>1
  <2>2. n * i \in Nat /\ n * j \in Nat
    BY <1>1, <1>2
  <2>3. QED
    BY <1>2, <2>1, <2>2
<1>4. n * j - n * i = n * (j - i)
  BY <1>1, <1>2
<1>5. CASE j - i <= 0
  <2>1. n * (j - i) <= 0
    BY <1>1, <1>2, <1>5
  <2>2. QED
    BY <1>3, <1>4, <2>1
<1>6. CASE j - i >= 1
  <2>1. n * (j - i) >= n
    BY <1>1, <1>2, <1>6
  <2>2. QED
    BY <1>1, <1>3, <1>4, <2>1 DEF n
<1>7. QED
  BY <1>2, <1>5, <1>6

LEMMA PushRing ==
  ASSUME NEW q \in Queue, NEW r \in Reward, NEW v, NEW w,
         IsRing(q, v), DOMAIN v \subseteq DOMAIN w,
         \A s \in DOMAIN v : w[s] = v[s],
         r \in DOMAIN w, w[r].cursor = q.head
  PROVE  /\ Push(q, r) \in Queue
         /\ IsRing(Push(q, r), w)
         /\ IsPastQueue(q, Push(q, r))
         /\ Push(q, r).head = q.head + 1
<1> DEFINE t == Push(q, r)
<1>1. QueueLen \in Nat \ {0, 1}
  BY RewardsAssumption
<1>2. /\ q.head \in Nat /\ q.tail \in Nat
      /\ q.events \in [0 .. QueueLen - 1 -> Reward \cup {None}]
  BY DEF Queue
<1>3. q.head % QueueLen \in 0 .. QueueLen - 1
  BY <1>1, <1>2
<1>4. /\ t.head = q.head + 1
      /\ t.tail = IF q.head + 1 - q.tail = QueueLen THEN q.tail + 1 ELSE q.tail
      /\ t.events = [q.events EXCEPT ![q.head % QueueLen] = r]
      /\ t = [head |-> t.head, tail |-> t.tail, events |-> t.events]
  BY DEF Push
<1> HIDE DEF t
<1>5. t.head \in Nat /\ t.tail \in Nat
  BY <1>2, <1>4
<1>6. t \in Queue
  <2>1. [q.events EXCEPT ![q.head % QueueLen] = r] \in [0 .. QueueLen - 1 -> Reward \cup {None}]
    BY <1>2, <1>3
  <2>2. t.events \in [0 .. QueueLen - 1 -> Reward \cup {None}]
    BY <1>4, <2>1
  <2>3. QED
    BY ONLY <1>4, <1>5, <2>2 DEF Queue
<1>7. q.tail <= q.head /\ q.head - q.tail < QueueLen
  BY DEF IsRing
<1>8. /\ t.tail <= t.head /\ t.head - t.tail < QueueLen
      /\ q.tail <= t.tail /\ q.head <= t.head
      /\ t.head - q.head < QueueLen
  <2> PICK h : h = q.head
    OBVIOUS
  <2> PICK l : l = q.tail
    OBVIOUS
  <2>1. /\ h \in Nat /\ l \in Nat /\ QueueLen \in Nat \ {0, 1}
        /\ l <= h /\ h - l < QueueLen
    BY <1>1, <1>2, <1>7
  <2>2. t.head = h + 1 /\ t.tail = IF h + 1 - l = QueueLen THEN l + 1 ELSE l
    BY <1>4
  <2>3. CASE h + 1 - l = QueueLen
    BY ONLY <2>1, <2>2, <2>3, h = q.head, l = q.tail
  <2>4. CASE h + 1 - l # QueueLen
    BY ONLY <2>1, <2>2, <2>4, h = q.head, l = q.tail
  <2>5. QED
    BY <2>3, <2>4
<1>9. ASSUME NEW p \in t.tail .. t.head - 1
      PROVE  t.events[p % QueueLen] \in DOMAIN w /\ w[t.events[p % QueueLen]].cursor = p
  <2>1. CASE p = q.head
    <3>1. t.events[p % QueueLen] = r
      BY <1>2, <1>3, <1>4, <2>1
    <3>2. QED
      BY <2>1, <3>1
  <2>2. CASE p # q.head
    <3>1. p \in Nat /\ p < q.head /\ p >= q.tail /\ q.head - p < QueueLen
      <4>1. p \in Nat /\ p >= t.tail /\ p <= q.head
        BY <1>2, <1>4, <1>5
      <4>2. p < q.head /\ p >= q.tail
        BY <1>2, <1>5, <1>8, <2>2, <4>1
      <4>3. QED
        BY <1>1, <1>2, <1>7, <4>1, <4>2
    <3>2. p % QueueLen # q.head % QueueLen
      BY <1>2, <3>1, PlacesDiffer
    <3>3. p % QueueLen \in 0 .. QueueLen - 1
      BY <1>1, <3>1
    <3>4. t.events[p % QueueLen] = q.events[p % QueueLen]
      BY <1>2, <1>4, <3>2, <3>3
    <3>5. p \in q.tail .. q.head - 1
      BY <1>2, <3>1
    <3>6. q.events[p % QueueLen] \in DOMAIN v /\ v[q.events[p % QueueLen]].cursor = p
      BY <3>5 DEF IsRing
    <3>7. QED
      BY <3>4, <3>6
  <2>3. QED
    BY <2>1, <2>2
<1>10. IsRing(t, w)
  BY <1>8, <1>9 DEF IsRing
<1>11. QED
  BY <1>4, <1>6, <1>8, <1>10 DEF t, IsPastQueue

LEMMA RingGrows ==
  ASSUME NEW q, NEW v, NEW w, IsRing(q, v), DOMAIN v \subseteq DOMAIN w,
         \A s \in DOMAIN v : w[s] = v[s]
  PROVE  IsRing(q, w)
BY DEF IsRing

LEMMA InQueueIs ==
  ASSUME NEW q \in Queue
  PROVE  /\ \A r \in InQueue(q) :
              \E p \in q.tail .. q.head - 1 : r = q.events[p % QueueLen]
         /\ \A p \in q.tail .. q.head - 1 : q.events[p % QueueLen] \in InQueue(q)
<1>1. q.head \in Nat /\ q.tail \in Nat
  BY DEF Queue
<1> DEFINE e == RewardEvents(q)
<1>2. /\ DOMAIN e = 1 .. q.head - q.tail
      /\ \A i \in DOMAIN e : e[i] = q.events[(q.tail + i - 1) % QueueLen]
  BY DEF RewardEvents
<1>3. InQueue(q) = {e[i] : i \in DOMAIN e}
  BY DEF InQueue, ToSet
<1> HIDE DEF e
<1>4. ASSUME NEW r \in InQueue(q)
      PROVE  \E p \in q.tail .. q.head - 1 : r = q.events[p % QueueLen]
  <2>1. PICK i \in DOMAIN e : r = e[i]
    BY <1>3
  <2>2. q.tail + i - 1 \in q.tail .. q.head - 1
    BY <1>1, <1>2
  <2>3. QED
    BY <1>2, <2>1, <2>2
<1>5. ASSUME NEW p \in q.tail .. q.head - 1
      PROVE  q.events[p % QueueLen] \in InQueue(q)
  <2>1. p - q.tail + 1 \in DOMAIN e /\ q.tail + (p - q.tail + 1) - 1 = p
    BY <1>1, <1>2
  <2>2. QED
    BY <1>2, <1>3, <2>1
<1>6. QED
  BY <1>4, <1>5

\* The rewards in a ring are those whose cursors are.
LEMMA RingHolds ==
  ASSUME NEW q \in Queue, NEW v, IsRing(q, v),
         \A r, s \in DOMAIN v : v[r].cursor = v[s].cursor => r = s,
         \A r \in DOMAIN v : v[r].cursor \in Nat
  PROVE  InQueue(q) = {r \in DOMAIN v : q.tail <= v[r].cursor /\ v[r].cursor < q.head}
<1>1. q.head \in Nat /\ q.tail \in Nat
  BY DEF Queue
<1>2. ASSUME NEW r \in InQueue(q)
      PROVE  r \in DOMAIN v /\ q.tail <= v[r].cursor /\ v[r].cursor < q.head
  <2>1. PICK p \in q.tail .. q.head - 1 : r = q.events[p % QueueLen]
    BY InQueueIs
  <2>2. r \in DOMAIN v /\ v[r].cursor = p
    BY <2>1 DEF IsRing
  <2>3. QED
    BY <1>1, <2>2
<1>3. ASSUME NEW r \in DOMAIN v, q.tail <= v[r].cursor, v[r].cursor < q.head
      PROVE  r \in InQueue(q)
  <2>1. v[r].cursor \in q.tail .. q.head - 1
    BY <1>1, <1>3
  <2> PICK s : s = q.events[v[r].cursor % QueueLen]
    OBVIOUS
  <2>2. s \in InQueue(q)
    BY <2>1, InQueueIs
  <2>3. s \in DOMAIN v /\ v[s].cursor = v[r].cursor
    BY <2>1 DEF IsRing
  <2>4. QED
    BY <2>2, <2>3
<1>4. QED
  BY <1>2, <1>3

LEMMA OldestIs ==
  ASSUME NEW S, S # {}, \A r \in S : Cursor(r) \in Nat
  PROVE  Oldest(S) \in S /\ \A q \in S : Cursor(Oldest(S)) <= Cursor(q)
<1> DEFINE T == {Cursor(r) : r \in S}
<1>1. T \subseteq Nat /\ T # {}
  OBVIOUS
<1>2. PICK x \in T : \A y \in T : ~(<<y, x>> \in OpToRel(<, Nat))
  <2> HIDE DEF T
  <2> QED
    BY <1>1, NatLessThanWellFounded, WFMin
<1>3. \A y \in T : x <= y
  <2>1. \A y \in T : ~(y < x)
    BY <1>1, <1>2 DEF OpToRel
  <2>2. QED
    BY <1>1, <2>1
<1>4. PICK r \in S : x = Cursor(r)
  OBVIOUS
<1>5. \A q \in S : Cursor(r) <= Cursor(q)
  BY <1>3, <1>4
<1>6. \E s \in S : \A q \in S : Cursor(s) <= Cursor(q)
  BY <1>5
<1>7. QED
  BY <1>6 DEF Oldest

-----------------------------------------------------------------------------
(* Sequences.                                                              *)

LEMMA AppendIs ==
  ASSUME NEW S, NEW s \in Seq(S), NEW e \in S
  PROVE  LET t == Append(s, e)
         IN /\ t \in Seq(S) /\ t # <<>>
            /\ t[Len(t)] = e
            /\ ToSet(t) = ToSet(s) \cup {e}
<1> DEFINE t == Append(s, e)
<1>1. /\ t \in Seq(S) /\ Len(t) = Len(s) + 1 /\ Len(s) \in Nat
      /\ \A i \in 1 .. Len(s) : t[i] = s[i]
      /\ t[Len(s) + 1] = e
  OBVIOUS
<1>2. DOMAIN t = 1 .. Len(t) /\ DOMAIN s = 1 .. Len(s)
  BY <1>1
<1> HIDE DEF t
<1>3. t # <<>>
  BY <1>1
<1>4. ToSet(t) = ToSet(s) \cup {e}
  <2>1. ASSUME NEW x \in ToSet(t)  PROVE x \in ToSet(s) \cup {e}
    <3>1. PICK i \in 1 .. Len(t) : x = t[i]
      BY <1>2 DEF ToSet
    <3>2. CASE i = Len(s) + 1
      BY <1>1, <3>1, <3>2
    <3>3. CASE i # Len(s) + 1
      <4>1. i \in 1 .. Len(s)
        BY <1>1, <3>1, <3>3
      <4>2. QED
        BY <1>1, <1>2, <3>1, <4>1 DEF ToSet
    <3>4. QED
      BY <3>2, <3>3
  <2>2. ASSUME NEW x \in ToSet(s)  PROVE x \in ToSet(t)
    <3>1. PICK i \in 1 .. Len(s) : x = s[i]
      BY <1>2 DEF ToSet
    <3>2. i \in 1 .. Len(t) /\ x = t[i]
      BY <1>1, <3>1
    <3>3. QED
      BY <1>2, <3>2 DEF ToSet
  <2>3. e \in ToSet(t)
    <3>1. Len(s) + 1 \in 1 .. Len(t)
      BY <1>1
    <3>2. QED
      BY <1>1, <1>2, <3>1 DEF ToSet
  <2>4. QED
    BY <2>1, <2>2, <2>3
<1>5. QED
  BY <1>1, <1>3, <1>4 DEF t

LEMMA TailIs ==
  ASSUME NEW S, NEW s \in Seq(S), s # <<>>
  PROVE  /\ Head(s) \in S /\ Tail(s) \in Seq(S)
         /\ Head(s) \in ToSet(s) /\ ToSet(Tail(s)) \subseteq ToSet(s)
         /\ IF Tail(s) = <<>> THEN s[Len(s)] = Head(s)
            ELSE Tail(s)[Len(Tail(s))] = s[Len(s)]
<1>1. /\ Len(s) \in Nat \ {0}
      /\ DOMAIN s = 1 .. Len(s) /\ \A i \in 1 .. Len(s) : s[i] \in S
      /\ Head(s) = s[1]
  BY EmptySeq
<1> PICK t : t = Tail(s)
  OBVIOUS
<1>2. /\ t \in Seq(S) /\ Len(t) = Len(s) - 1
      /\ DOMAIN t = 1 .. Len(t)
      /\ \A i \in 1 .. Len(t) : t[i] = s[i + 1]
  BY HeadTailProperties
<1>3. Head(s) \in S /\ Head(s) \in ToSet(s)
  <2>1. 1 \in 1 .. Len(s)
    BY <1>1
  <2>2. QED
    BY <1>1, <2>1 DEF ToSet
<1>4. ToSet(t) \subseteq ToSet(s)
  <2>1. \A i \in 1 .. Len(t) : i + 1 \in 1 .. Len(s)
    BY <1>1, <1>2
  <2>2. QED
    BY <1>1, <1>2, <2>1 DEF ToSet
<1>5. CASE t = <<>>
  <2> Len(<<>>) = 0
    OBVIOUS
  <2> Len(t) = 0
    BY <1>5, Zenon
  <2>1. Len(s) = 1
    BY <1>1, <1>2
  <2>2. QED
    BY <1>1, <1>2, <1>3, <1>4, <1>5, <2>1
<1>6. CASE t # <<>>
  <2>1. Len(t) \in Nat \ {0}
    BY <1>2, <1>6, EmptySeq
  <2>2. Len(t) \in 1 .. Len(t) /\ Len(t) + 1 = Len(s)
    BY <1>1, <1>2, <2>1
  <2>3. QED
    BY <1>2, <1>3, <1>4, <1>6, <2>2
<1>7. QED
  BY <1>5, <1>6

-----------------------------------------------------------------------------
(* What the program and others do.                                         *)

RewardsBase ==
  /\ RewardsType /\ UpdatesType /\ StoreType
  /\ QueueInv /\ CopiesInv /\ NewestInv

\* What every step leaves true: the program only goes on.
Grows ==
  /\ DOMAIN vendor \subseteq DOMAIN vendor'
  /\ \A r \in DOMAIN vendor : vendor'[r] = vendor[r]
  /\ \A r \in DOMAIN vendor' \ DOMAIN vendor : vendor'[r].cursor = queue.head
  /\ IsPastQueue(queue, queue')
  /\ IsPastMember(member, member')
  /\ ToSet(expired) \subseteq ToSet(expired')

\* An account is as it was, or its subscribers are notified.
Told(x, old, new) ==
  \/ updates'[x] = updates[x] /\ new = old
  \/ updates'[x] = Append(updates[x], new)

LEMMA LostStays ==
  ASSUME RewardsType, RewardsType', QueueInv, Grows, NEW r \in DOMAIN vendor, Lost(r)
  PROVE  Lost(r)'
<1>1. /\ Cursor(r) \in Nat /\ vendor[r].startTs \in Nat
      /\ Cursor(r)' = Cursor(r) /\ vendor'[r] = vendor[r]
  BY DEF RewardsType, IsMap, VendorAccount, Grows, Cursor
<1>2. /\ queue.tail \in Nat /\ queue'.tail \in Nat /\ queue.tail <= queue'.tail
      /\ member.rewardsCursor \in Nat /\ member'.rewardsCursor \in Nat
      /\ member.rewardsCursor <= member'.rewardsCursor
      /\ member.lastStakeTs \in Nat /\ member'.lastStakeTs \in Nat
      /\ member.lastStakeTs <= member'.lastStakeTs
  BY DEF RewardsType, Queue, Member, Grows, IsPastQueue, IsPastMember
<1>3. QED
  BY <1>1, <1>2 DEF Lost, Grows

LEMMA CopiesStay ==
  ASSUME RewardsBase, RewardsType', Grows, UNCHANGED store,
         DOMAIN updates' = {"queue", "member", "spt"},
         Told("queue", queue, queue'), Told("member", member, member'),
         Told("spt", spt, spt'), IsRing(queue, vendor)'
  PROVE  UpdatesType' /\ StoreType' /\ CopiesInv' /\ NewestInv'
<1>1. /\ updates["queue"] \in Seq(Queue) /\ queue' \in Queue
      /\ updates["member"] \in Seq(Member) /\ member' \in Member
      /\ updates["spt"] \in Seq(BOOLEAN) /\ spt' \in BOOLEAN
  BY DEF RewardsBase, RewardsType, UpdatesType
<1>2. /\ updates'["queue"] \in Seq(Queue)
      /\ ToSet(updates'["queue"]) \subseteq ToSet(updates["queue"]) \cup {queue'}
      /\ Newest("queue")' = queue'
  <2>1. CASE updates'["queue"] = updates["queue"] /\ queue' = queue
    BY <1>1, <2>1 DEF RewardsBase, NewestInv, Newest
  <2>2. CASE updates'["queue"] = Append(updates["queue"], queue')
    <3>1. /\ updates'["queue"] \in Seq(Queue) /\ updates'["queue"] # <<>>
          /\ updates'["queue"][Len(updates'["queue"])] = queue'
          /\ ToSet(updates'["queue"]) = ToSet(updates["queue"]) \cup {queue'}
      BY <1>1, <2>2, AppendIs
    <3>2. QED
      BY <3>1 DEF Newest
  <2>3. QED
    BY <2>1, <2>2 DEF Told
<1>3. /\ updates'["member"] \in Seq(Member)
      /\ ToSet(updates'["member"]) \subseteq ToSet(updates["member"]) \cup {member'}
      /\ Newest("member")' = member'
  <2>1. CASE updates'["member"] = updates["member"] /\ member' = member
    BY <1>1, <2>1 DEF RewardsBase, NewestInv, Newest
  <2>2. CASE updates'["member"] = Append(updates["member"], member')
    <3>1. /\ updates'["member"] \in Seq(Member) /\ updates'["member"] # <<>>
          /\ updates'["member"][Len(updates'["member"])] = member'
          /\ ToSet(updates'["member"]) = ToSet(updates["member"]) \cup {member'}
      BY <1>1, <2>2, AppendIs
    <3>2. QED
      BY <3>1 DEF Newest
  <2>3. QED
    BY <2>1, <2>2 DEF Told
<1>4. /\ updates'["spt"] \in Seq(BOOLEAN)
      /\ Newest("spt")' = spt'
  <2>1. CASE updates'["spt"] = updates["spt"] /\ spt' = spt
    BY <1>1, <2>1 DEF RewardsBase, NewestInv, Newest
  <2>2. CASE updates'["spt"] = Append(updates["spt"], spt')
    BY <1>1, <2>2, AppendIs DEF Newest
  <2>3. QED
    BY <2>1, <2>2 DEF Told
<1>5. UpdatesType' /\ StoreType' /\ NewestInv'
  BY <1>2, <1>3, <1>4 DEF RewardsBase, UpdatesType, StoreType, NewestInv
<1>6. \A q \in Copies("queue")' : IsRing(q, vendor') /\ IsPastQueue(q, queue')
  <2> SUFFICES ASSUME NEW q \in Copies("queue")'
               PROVE  IsRing(q, vendor') /\ IsPastQueue(q, queue')
    OBVIOUS
  <2>1. q \in Copies("queue") \/ q = queue'
    BY <1>2 DEF Copies
  <2>2. CASE q = queue'
    BY <1>1, <2>2 DEF IsPastQueue, Queue
  <2>3. CASE q \in Copies("queue")
    <3>1. q \in Queue
      BY <1>1, <2>3 DEF Copies, ToSet, RewardsBase, StoreType
    <3>2. IsRing(q, vendor) /\ IsPastQueue(q, queue)
      BY <2>3 DEF RewardsBase, CopiesInv
    <3>3. IsRing(q, vendor')
      BY <3>2, RingGrows DEF Grows
    <3>4. IsPastQueue(q, queue')
      BY <1>1, <3>1, <3>2 DEF Grows, IsPastQueue, Queue, RewardsBase, RewardsType
    <3>5. QED
      BY <3>3, <3>4
  <2>4. QED
    BY <2>1, <2>2, <2>3
<1>7. \A m \in Copies("member")' : IsPastMember(m, member')
  <2> SUFFICES ASSUME NEW m \in Copies("member")'
               PROVE  IsPastMember(m, member')
    OBVIOUS
  <2>1. m \in Copies("member") \/ m = member'
    BY <1>3 DEF Copies
  <2>2. CASE m = member'
    BY <1>1, <2>2 DEF IsPastMember, Member
  <2>3. CASE m \in Copies("member")
    <3>1. m \in Member
      BY <1>1, <2>3 DEF Copies, ToSet, RewardsBase, StoreType
    <3>2. IsPastMember(m, member)
      BY <2>3 DEF RewardsBase, CopiesInv
    <3>3. QED
      BY <1>1, <3>1, <3>2 DEF Grows, IsPastMember, Member, RewardsBase, RewardsType
  <2>4. QED
    BY <2>1, <2>2, <2>3
<1>8. \A r \in DOMAIN store'.vendors : store'.vendors[r] => r \in ToSet(expired')
  BY DEF RewardsBase, CopiesInv, Grows
<1>9. QED
  BY <1>5, <1>6, <1>7, <1>8 DEF CopiesInv

\* What a step of the program gives, as long as the page only gets to know of it.
RewardsNext == RewardsBase' /\ Grows

LEMMA DropRewardStep ==
  ASSUME RewardsBase, UNCHANGED store, NEW r \in Reward, NEW locked \in BOOLEAN,
         DropReward(r, locked)
  PROVE  RewardsNext
<1> PICK account : account = [cursor |-> queue.head, startTs |-> clock', locked |-> locked]
  OBVIOUS
<1> DEFINE v == [q \in DOMAIN vendor \cup {r} |-> IF q = r THEN account ELSE vendor[q]]
<1>1. /\ r \notin DOMAIN vendor
      /\ clock' \in {clock, clock + 1}
      /\ vendor' = v
      /\ queue' = Push(queue, r)
      /\ updates' = [updates EXCEPT !["queue"] = Append(@, queue')]
      /\ UNCHANGED <<expired, member, spt, claimed>>
  BY DEF DropReward, Notify
<1>2. /\ queue \in Queue /\ queue.head \in Nat /\ clock \in Nat
      /\ DOMAIN vendor \subseteq Reward
      /\ \A q \in DOMAIN vendor : vendor[q] \in VendorAccount
  BY DEF RewardsBase, RewardsType, Queue, IsMap
<1>3. account \in VendorAccount /\ account.cursor = queue.head
  BY <1>1, <1>2 DEF VendorAccount
<1>4. /\ DOMAIN v = DOMAIN vendor \cup {r}
      /\ v[r] = account
      /\ \A q \in DOMAIN vendor : v[q] = vendor[q]
  BY <1>1
<1>5. IsMap(v, Reward, VendorAccount)
  BY <1>2, <1>3 DEF IsMap
<1> HIDE DEF v
<1>6. /\ queue' \in Queue
      /\ IsRing(queue', vendor')
      /\ IsPastQueue(queue, queue')
      /\ queue'.head = queue.head + 1
  BY <1>1, <1>2, <1>3, <1>4, PushRing DEF RewardsBase, QueueInv
<1>7. RewardsType'
  BY <1>1, <1>2, <1>5, <1>6 DEF RewardsBase, RewardsType
<1>8. Grows
  <2>1. IsPastMember(member, member')
    BY <1>1 DEF RewardsBase, RewardsType, Member, IsPastMember
  <2>2. QED
    BY <1>1, <1>3, <1>4, <1>6, <2>1 DEF Grows
<1>9. QueueInv'
  <2>1. \A q \in DOMAIN vendor : vendor[q].cursor \in Nat /\ vendor[q].cursor < queue.head
    BY <1>2 DEF VendorAccount, RewardsBase, QueueInv, Cursor
  <2>2. \A q \in DOMAIN vendor' : vendor'[q].cursor < queue'.head
    BY <1>1, <1>2, <1>3, <1>4, <1>6, <2>1
  <2>3. \A p, q \in DOMAIN vendor' : vendor'[p].cursor = vendor'[q].cursor => p = q
    BY <1>1, <1>2, <1>3, <1>4, <2>1 DEF RewardsBase, QueueInv, Cursor
  <2>4. member'.lastStakeTs <= clock'
    BY <1>1, <1>2 DEF RewardsBase, RewardsType, Member, QueueInv
  <2>5. \A q \in claimed' : q \in DOMAIN vendor' /\ vendor'[q].cursor < member'.rewardsCursor
    BY <1>1, <1>4 DEF RewardsBase, QueueInv, Cursor
  <2>6. QED
    BY <1>6, <2>2, <2>3, <2>4, <2>5 DEF QueueInv, Cursor
<1>10. /\ DOMAIN updates' = {"queue", "member", "spt"}
       /\ Told("queue", queue, queue') /\ Told("member", member, member')
       /\ Told("spt", spt, spt')
  BY <1>1 DEF RewardsBase, UpdatesType, Told
<1>11. QED
  BY <1>6, <1>7, <1>8, <1>9, <1>10, CopiesStay DEF RewardsNext, RewardsBase

LEMMA ClaimRewardStep ==
  ASSUME RewardsBase, UNCHANGED store, NEW r, ClaimReward(r)
  PROVE  RewardsNext
<1> PICK k : k = vendor[r].cursor
  OBVIOUS
<1>1. /\ r \in DOMAIN vendor /\ k >= member.rewardsCursor
      /\ member' = [member EXCEPT !.rewardsCursor = k + 1]
      /\ updates' = [updates EXCEPT !["member"] = Append(@, member')]
      /\ claimed' = claimed \cup {r}
      /\ UNCHANGED <<queue, vendor, expired, spt, clock>>
  BY DEF ClaimReward, Notify, Accepted, Cursor
<1>2. /\ r \in Reward /\ k \in Nat
      /\ member \in Member /\ queue \in Queue
      /\ \A q \in DOMAIN vendor : vendor[q].cursor \in Nat
  BY <1>1 DEF RewardsBase, RewardsType, IsMap, VendorAccount
<1>3. /\ member' \in Member /\ member'.lastStakeTs = member.lastStakeTs
      /\ member'.rewardsCursor = k + 1
  BY <1>1, <1>2 DEF Member
<1>4. RewardsType'
  BY <1>1, <1>2, <1>3 DEF RewardsBase, RewardsType
<1>5. Grows
  BY <1>1, <1>2, <1>3 DEF Grows, IsPastQueue, IsPastMember, Queue, Member
<1>6. QueueInv'
  <2>1. \A q \in claimed' : q \in DOMAIN vendor /\ vendor[q].cursor < k + 1
    <3> SUFFICES ASSUME NEW q \in claimed'
                 PROVE  q \in DOMAIN vendor /\ vendor[q].cursor < k + 1
      OBVIOUS
    <3>1. CASE q = r
      BY <1>1, <1>2, <3>1
    <3>2. CASE q \in claimed
      <4>1. q \in DOMAIN vendor /\ vendor[q].cursor < member.rewardsCursor
        BY <3>2 DEF RewardsBase, QueueInv, Cursor
      <4>2. QED
        BY <1>1, <1>2, <4>1 DEF Member
    <3>3. QED
      BY <1>1, <3>1, <3>2
  <2>2. QED
    BY <1>1, <1>3, <2>1 DEF RewardsBase, QueueInv, Cursor
<1>7. /\ DOMAIN updates' = {"queue", "member", "spt"}
      /\ Told("queue", queue, queue') /\ Told("member", member, member')
      /\ Told("spt", spt, spt')
  BY <1>1 DEF RewardsBase, UpdatesType, Told
<1>8. IsRing(queue, vendor)'
  BY <1>6 DEF QueueInv
<1>9. QED
  BY <1>4, <1>5, <1>6, <1>7, <1>8, CopiesStay DEF RewardsNext, RewardsBase

LEMMA StakeStep ==
  ASSUME RewardsBase, UNCHANGED store, Stake
  PROVE  RewardsNext
<1>1. /\ \/ /\ clock' \in {clock, clock + 1}
            /\ member' = [member EXCEPT !.lastStakeTs = clock']
            /\ spt' = TRUE
         \/ spt' = FALSE /\ UNCHANGED <<member, clock>>
      /\ updates' = [updates EXCEPT
           !["member"] = IF member' = member THEN @ ELSE Append(@, member'),
           !["spt"] = IF spt' = spt THEN @ ELSE Append(@, spt')]
      /\ UNCHANGED <<queue, vendor, expired, claimed>>
  BY DEF Stake
<1>2. clock \in Nat /\ member \in Member /\ queue \in Queue
      /\ member.lastStakeTs <= clock
  BY DEF RewardsBase, RewardsType, QueueInv
<1>3. /\ clock' \in Nat /\ member' \in Member /\ spt' \in BOOLEAN
      /\ IsPastMember(member, member')
      /\ member'.rewardsCursor = member.rewardsCursor
      /\ member'.lastStakeTs <= clock'
  <2>1. CASE /\ clock' \in {clock, clock + 1}
             /\ member' = [member EXCEPT !.lastStakeTs = clock']
             /\ spt' = TRUE
    <3>1. clock' \in Nat /\ clock' >= clock
      BY <1>2, <2>1
    <3>2. QED
      BY <1>2, <2>1, <3>1 DEF Member, IsPastMember
  <2>2. CASE spt' = FALSE /\ UNCHANGED <<member, clock>>
    <3>1. spt' \in BOOLEAN
      BY <2>2
    <3>2. IsPastMember(member, member)
      BY <1>2 DEF Member, IsPastMember
    <3>3. QED
      BY <1>2, <2>2, <3>1, <3>2
  <2>3. QED
    BY <1>1, <2>1, <2>2
<1>4. RewardsType'
  BY <1>1, <1>3 DEF RewardsBase, RewardsType
<1>5. Grows
  BY <1>1, <1>2, <1>3 DEF Grows, IsPastQueue, Queue
<1>6. QueueInv'
  BY <1>1, <1>3 DEF RewardsBase, QueueInv, Cursor
<1>7. /\ DOMAIN updates' = {"queue", "member", "spt"}
      /\ Told("queue", queue, queue') /\ Told("member", member, member')
      /\ Told("spt", spt, spt')
  BY <1>1 DEF RewardsBase, UpdatesType, Told
<1>8. IsRing(queue, vendor)'
  BY <1>6 DEF QueueInv
<1>9. QED
  BY <1>4, <1>5, <1>6, <1>7, <1>8, CopiesStay DEF RewardsNext, RewardsBase

LEMMA ExpireRewardStep ==
  ASSUME RewardsBase, UNCHANGED store, NEW r \in Reward, ExpireReward(r)
  PROVE  RewardsNext
<1>1. /\ expired' = Append(expired, r)
      /\ UNCHANGED <<queue, vendor, member, spt, clock, updates, claimed>>
  BY DEF ExpireReward
<1>2. expired' \in Seq(Reward) /\ ToSet(expired) \subseteq ToSet(expired')
  BY <1>1, AppendIs DEF RewardsBase, RewardsType
<1>3. queue \in Queue /\ member \in Member
  BY DEF RewardsBase, RewardsType
<1>4. RewardsType'
  BY <1>1, <1>2 DEF RewardsBase, RewardsType
<1>5. Grows
  BY <1>1, <1>2, <1>3 DEF Grows, IsPastQueue, Queue, IsPastMember, Member
<1>6. QueueInv'
  BY <1>1 DEF RewardsBase, QueueInv, Cursor
<1>7. /\ DOMAIN updates' = {"queue", "member", "spt"}
      /\ Told("queue", queue, queue') /\ Told("member", member, member')
      /\ Told("spt", spt, spt')
  BY <1>1 DEF RewardsBase, UpdatesType, Told
<1>8. IsRing(queue, vendor)'
  BY <1>6 DEF QueueInv
<1>9. QED
  BY <1>4, <1>5, <1>6, <1>7, <1>8, CopiesStay DEF RewardsNext, RewardsBase

\* The page and the calls: the program and its notifications are as they were.
LEMMA RewardsSame ==
  ASSUME RewardsBase,
         UNCHANGED <<queue, vendor, expired, member, spt, clock, claimed, updates>>,
         StoreType', store'.queue = store.queue, store'.member = store.member,
         store'.spt = store.spt, store'.vendors = store.vendors
  PROVE  RewardsNext
<1>1. queue \in Queue /\ member \in Member
  BY DEF RewardsBase, RewardsType
<1>2. Grows
  BY <1>1 DEF Grows, IsPastQueue, Queue, IsPastMember, Member
<1>3. RewardsType' /\ UpdatesType' /\ QueueInv'
  BY DEF RewardsBase, RewardsType, UpdatesType, QueueInv, Cursor
<1>4. /\ store["queue"] = store.queue /\ store'["queue"] = store'.queue
      /\ store["member"] = store.member /\ store'["member"] = store'.member
      /\ store["spt"] = store.spt /\ store'["spt"] = store'.spt
  OBVIOUS
<1>5. Copies("queue")' = Copies("queue") /\ Copies("member")' = Copies("member")
  BY <1>4 DEF Copies
<1>6. CopiesInv'
  BY <1>5 DEF RewardsBase, CopiesInv
<1>7. NewestInv'
  BY <1>4 DEF RewardsBase, NewestInv, Newest
<1>8. QED
  BY <1>2, <1>3, <1>6, <1>7 DEF RewardsNext, RewardsBase

LEMMA ClaimsStay ==
  ASSUME RewardsBase, RewardsNext, \A c \in Call : ClaimInv(c),
         \A c \in Call : call'[c].pc \in {"sent", "late"} /\ call'[c].kind = "claim" =>
           /\ call[c].pc \in {"sent", "late"} /\ call[c].kind = "claim"
           /\ call'[c].reward = call[c].reward
  PROVE  \A c \in Call : ClaimInv(c)'
<1> SUFFICES ASSUME NEW c \in Call,
                    call'[c].pc \in {"sent", "late"}, call'[c].kind = "claim"
             PROVE  /\ call'[c].reward \in DOMAIN vendor'
                    /\ \A r \in DOMAIN vendor' :
                         Cursor(r)' < vendor'[call'[c].reward].cursor => Lost(r)'
  BY DEF ClaimInv, Cursor
<1> PICK q : q = call[c].reward
  OBVIOUS
<1>1. /\ call'[c].reward = q /\ q \in DOMAIN vendor
      /\ \A r \in DOMAIN vendor : Cursor(r) < Cursor(q) => Lost(r)
  BY DEF ClaimInv
<1>2. Grows /\ RewardsType /\ RewardsType' /\ QueueInv
  BY DEF RewardsBase, RewardsNext
<1>3. q \in DOMAIN vendor' /\ vendor'[q] = vendor[q] /\ vendor[q].cursor < queue.head
  BY <1>1, <1>2 DEF Grows, QueueInv, Cursor
<1>4. vendor[q].cursor \in Nat /\ queue.head \in Nat
  BY <1>1, <1>2 DEF RewardsType, IsMap, VendorAccount, Queue
<1>5. ASSUME NEW r \in DOMAIN vendor', vendor'[r].cursor < vendor'[q].cursor
      PROVE  Lost(r)'
  <2>1. CASE r \in DOMAIN vendor
    <3>1. Cursor(r) < Cursor(q)
      BY <1>2, <1>3, <1>5, <2>1 DEF Grows, Cursor
    <3>2. Lost(r)
      BY <1>1, <2>1, <3>1
    <3>3. QED
      BY <1>2, <2>1, <3>2, LostStays
  <2>2. CASE r \notin DOMAIN vendor
    <3>1. vendor'[r].cursor = queue.head
      BY <1>2, <2>2 DEF Grows
    <3>2. QED
      BY <1>3, <1>4, <1>5, <3>1
  <2>3. QED
    BY <2>1, <2>2
<1>6. QED
  BY <1>1, <1>3, <1>5 DEF Cursor

LEMMA VestingsSame ==
  ASSUME VestingsInv, UNCHANGED <<vestings, taken, excused, call>>,
         store'.vestings = store.vestings, store'.accounts = store.accounts
  PROVE  VestingsInv'
<1>1. \A v : Of(v)' = Of(v)
  BY DEF Of, UnderWay
<1>2. \A v : Once(v)' <=> Once(v)
  BY DEF Once
<1>3. \A c \in Call : UnderWay(c)' => UnderWay(c) /\ AccountInv(c)'
  BY <1>1 DEF VestingsInv, AccountInv, IsNew, UnderWay
<1>4. \A c, d \in Call : PairInv(c, d)' <=> PairInv(c, d)
  BY DEF PairInv, Harms
<1>5. ListedInv'
  BY <1>1, <1>2 DEF VestingsInv, ListedInv, IsNew
<1>6. QED
  BY <1>3, <1>4, <1>5 DEF VestingsInv, UnderWay

\* A dispatch makes every card ask for the vesting account at its position.
LEMMA CardsAsked ==
  ASSUME ViewType, NEW list \in Seq(Vesting)
  PROVE  /\ DOMAIN Asked(list) = DOMAIN list
         /\ Asked(list) \in [DOMAIN list -> CardState]
         /\ \A i \in DOMAIN list : list[i] \in Asked(list)[i].asked
<1>1. \A i : Card(i).amount \in Vesting \cup {None} /\ Card(i).asked \in SUBSET Vesting
  BY DEF ViewType, Card, CardState
<1>2. \A i \in DOMAIN list : list[i] \in Vesting
  OBVIOUS
<1>3. QED
  BY <1>1, <1>2 DEF Asked, CardState

LEMMA Dispatched ==
  ASSUME ViewType, NEW s, Dispatch(s), s.vestings \in Seq(Vesting), UNCHANGED page
  PROVE  /\ store' = s
         /\ cards' \in [DOMAIN cards' -> CardState]
         /\ DOMAIN cards' = IF page' = "lockup" THEN DOMAIN store'.vestings ELSE {}
         /\ CardsInv'
<1>1. store' = s
  BY DEF Dispatch
<1>2. CASE page = "lockup"
  <2>1. cards' = Asked(s.vestings)
    BY <1>2 DEF Dispatch
  <2>2. QED
    BY <1>1, <1>2, <2>1, CardsAsked DEF CardsInv
<1>3. CASE page # "lockup"
  <2>1. cards' = cards
    BY <1>3 DEF Dispatch
  <2>2. QED
    BY <1>1, <1>3, <2>1 DEF ViewType, CardsInv
<1>4. QED
  BY <1>2, <1>3

-----------------------------------------------------------------------------
(* Steps in which no call takes part.                                      *)

\* The types of what neither the program's steps nor the view's account for.
OtherTypes ==
  /\ vestings \in Seq(Vesting)
  /\ taken \in [Vesting -> Nat]
  /\ call \in [Call -> CallState]
  /\ excused \subseteq Vesting
  /\ steps \in Nat

LEMMA Parts ==
  IInv <=> /\ RewardsBase /\ ViewType /\ OtherTypes
           /\ \A c \in Call : ClaimInv(c)
           /\ VestingsInv
           /\ CardsInv
BY DEF IInv, TypeInv, RewardsInv, RewardsBase, OtherTypes

LEMMA Together ==
  ASSUME RewardsNext, \A c \in Call : ClaimInv(c)', ViewType', OtherTypes',
         VestingsInv', CardsInv'
  PROVE  IInv'
BY DEF RewardsNext, RewardsBase, IInv, TypeInv, RewardsInv, OtherTypes

LEMMA CallsSame ==
  ASSUME IInv, RewardsNext, UNCHANGED call
  PROVE  \A c \in Call : ClaimInv(c)'
BY ClaimsStay, Parts

LEMMA StepsType ==
  ASSUME OtherTypes, MayGoOn
  PROVE  steps' \in Nat
BY DEF OtherTypes, MayGoOn

LEMMA ElsewhereStep ==
  ASSUME IInv, Elsewhere
  PROVE  IInv'
<1>1. /\ UNCHANGED <<store, page, visits, fetches, cards, call, excused, vestings, taken>>
      /\ steps' \in Nat
      /\ Len(expired) <= Len(expired')
  <2>1. UNCHANGED <<store, page, visits, fetches, cards, call, excused, vestings, taken>>
    BY DEF Elsewhere, view, DropReward, Stake, ExpireReward
  <2>2. steps' \in Nat
    BY StepsType, Parts DEF Elsewhere
  <2>3. expired' = expired \/ \E r \in Reward : expired' = Append(expired, r)
    BY DEF Elsewhere, DropReward, Stake, ExpireReward
  <2>4. Len(expired) <= Len(expired')
    <3>1. expired \in Seq(Reward) /\ Len(expired) \in Nat
      BY Parts DEF RewardsBase, RewardsType
    <3>2. QED
      BY <2>3, <3>1
  <2>5. QED
    BY <2>1, <2>2, <2>4
<1>2. RewardsNext
  <2>1. RewardsBase
    BY Parts
  <2>2. CASE \E r \in Reward, locked \in BOOLEAN : DropReward(r, locked)
    BY <1>1, <2>1, <2>2, DropRewardStep
  <2>3. CASE Stake
    BY <1>1, <2>1, <2>3, StakeStep
  <2>4. CASE \E r \in Reward : ExpireReward(r)
    BY <1>1, <2>1, <2>4, ExpireRewardStep
  <2>5. QED
    BY <2>2, <2>3, <2>4 DEF Elsewhere
<1>3. \A c \in Call : ClaimInv(c)'
  BY <1>1, <1>2, CallsSame
<1>4. VestingsInv'
  BY <1>1, VestingsSame, Parts
<1>5. OtherTypes'
  BY <1>1, Parts DEF OtherTypes
<1>6. CardsInv'
  BY <1>1, Parts DEF CardsInv
<1>7. ViewType'
  <2>1. Len(expired) \in Nat /\ Len(expired') \in Nat
    BY <1>2, Parts DEF RewardsNext, RewardsBase, RewardsType
  <2>2. 0 .. Len(expired) \subseteq 0 .. Len(expired')
    BY <1>1, <2>1
  <2>3. QED
    BY <1>1, <2>2, Parts DEF ViewType
<1>8. QED
  BY <1>2, <1>3, <1>4, <1>5, <1>6, <1>7, Together

\* What a fetch asks for is of its type, whatever queue it is for.
LEMMA FetchType ==
  ASSUME RewardsType, NEW q \in Queue, InQueue(q) \subseteq Reward
  PROVE  Fetch(q) \in [of : SUBSET Reward, from : 0 .. Len(expired)]
<1>1. Len(expired) \in 0 .. Len(expired)
  BY DEF RewardsType
<1>2. QED
  BY <1>1 DEF Fetch

LEMMA RingRewards ==
  ASSUME RewardsType, NEW q \in Queue, IsRing(q, vendor)
  PROVE  InQueue(q) \subseteq DOMAIN vendor /\ InQueue(q) \subseteq Reward
<1> SUFFICES ASSUME NEW r \in InQueue(q)
             PROVE  r \in DOMAIN vendor /\ r \in Reward
  OBVIOUS
<1>1. PICK p \in q.tail .. q.head - 1 : r = q.events[p % QueueLen]
  BY InQueueIs
<1>2. r \in DOMAIN vendor
  BY <1>1 DEF IsRing
<1>3. QED
  BY <1>2 DEF RewardsType, IsMap

LEMMA NotifiedStep ==
  ASSUME IInv, NEW x \in DOMAIN updates, Notified(x)
  PROVE  IInv'
<1>1. x \in {"queue", "member", "spt"}
  BY Parts DEF RewardsBase, UpdatesType
<1> PICK new : new = Head(updates[x])
  OBVIOUS
<1> PICK rest : rest = Tail(updates[x])
  OBVIOUS
<1> PICK s : s = [store EXCEPT ![x] = new]
  OBVIOUS
<1>2. /\ updates[x] # <<>>
      /\ updates' = [updates EXCEPT ![x] = rest]
      /\ Dispatch(s)
      /\ fetches' = IF x = "queue" /\ page = "rewards" THEN fetches \cup {Fetch(new)}
                    ELSE fetches
      /\ UNCHANGED <<queue, vendor, expired, member, spt, vestings, taken, clock,
                     page, visits, call, claimed, excused, steps>>
  BY DEF Notified, chain, history
<1>3. /\ updates["queue"] \in Seq(Queue) /\ updates["member"] \in Seq(Member)
      /\ updates["spt"] \in Seq(BOOLEAN) /\ DOMAIN updates = {"queue", "member", "spt"}
  BY Parts DEF RewardsBase, UpdatesType
<1>4. /\ new \in ToSet(updates[x]) /\ ToSet(rest) \subseteq ToSet(updates[x])
      /\ IF rest = <<>> THEN updates[x][Len(updates[x])] = new
         ELSE rest[Len(rest)] = updates[x][Len(updates[x])]
      /\ x = "queue" => new \in Queue /\ rest \in Seq(Queue)
      /\ x = "member" => new \in Member /\ rest \in Seq(Member)
      /\ x = "spt" => new \in BOOLEAN /\ rest \in Seq(BOOLEAN)
  <2>1. CASE x = "queue"
    <3>1. updates[x] \in Seq(Queue)
      BY <1>3, <2>1
    <3>2. QED
      BY <1>2, <2>1, <3>1, TailIs
  <2>2. CASE x = "member"
    <3>1. updates[x] \in Seq(Member)
      BY <1>3, <2>2
    <3>2. QED
      BY <1>2, <2>2, <3>1, TailIs
  <2>3. CASE x = "spt"
    <3>1. updates[x] \in Seq(BOOLEAN)
      BY <1>3, <2>3
    <3>2. QED
      BY <1>2, <2>3, <3>1, TailIs
  <2>4. QED
    BY <1>1, <2>1, <2>2, <2>3
<1>5. /\ StoreType
      /\ s.queue = IF x = "queue" THEN new ELSE store.queue
      /\ s.member = IF x = "member" THEN new ELSE store.member
      /\ s.spt = IF x = "spt" THEN new ELSE store.spt
      /\ s.vendors = store.vendors /\ s.vestings = store.vestings
      /\ s.accounts = store.accounts
      /\ s = [queue |-> s.queue, member |-> s.member, spt |-> s.spt,
              vendors |-> s.vendors, vestings |-> s.vestings, accounts |-> s.accounts]
  BY <1>1, Parts DEF RewardsBase, StoreType
<1>6. /\ store' = s
      /\ cards' \in [DOMAIN cards' -> CardState]
      /\ DOMAIN cards' = IF page' = "lockup" THEN DOMAIN store'.vestings ELSE {}
      /\ CardsInv'
  <2>1. s.vestings \in Seq(Vesting)
    BY <1>5 DEF StoreType
  <2>2. QED
    BY <1>2, <2>1, Dispatched, Parts
<1>7. StoreType'
  <2>1. /\ store.queue \in Queue /\ store.member \in Member /\ store.spt \in BOOLEAN
        /\ store.vestings \in Seq(Vesting)
    BY <1>5 DEF StoreType
  <2>2. s.queue \in Queue /\ s.member \in Member
    BY <1>4, <1>5, <2>1
  <2>3. s.spt \in BOOLEAN
    <3>1. CASE x = "spt"
      BY <1>4, <1>5, <3>1
    <3>2. CASE x # "spt"
      BY <1>5, <2>1, <3>2
    <3>3. QED
      BY <3>1, <3>2
  <2>4. s.vestings \in Seq(Vesting) /\ s.vendors = store.vendors /\ s.accounts = store.accounts
    BY <1>5, <2>1
  <2> HIDE <1>2
  <2>5. QED
    BY <1>5, <1>6, <2>2, <2>3, <2>4 DEF StoreType
<1>8. UpdatesType'
  BY <1>1, <1>2, <1>3, <1>4 DEF UpdatesType
<1>9. CopiesInv'
  <2>1. store["queue"] = store.queue /\ store["member"] = store.member
        /\ s["queue"] = s.queue /\ s["member"] = s.member
    OBVIOUS
  <2>2. /\ Copies("queue")' \subseteq Copies("queue")
        /\ Copies("member")' \subseteq Copies("member")
    BY <1>1, <1>2, <1>3, <1>4, <1>5, <1>6, <2>1 DEF Copies
  <2>3. QED
    BY <1>2, <1>5, <1>6, <2>2, Parts DEF CopiesInv, RewardsBase
<1>10. NewestInv'
  <2>1. /\ store["queue"] = store.queue /\ store["member"] = store.member
        /\ store["spt"] = store.spt
        /\ s["queue"] = s.queue /\ s["member"] = s.member /\ s["spt"] = s.spt
    OBVIOUS
  <2>2. \A y \in {"queue", "member", "spt"} : Newest(y)' = Newest(y)
    BY <1>1, <1>2, <1>3, <1>4, <1>5, <1>6, <2>1 DEF Newest
  <2>3. QED
    BY <1>2, <2>2, Parts DEF NewestInv, RewardsBase
<1>11. RewardsNext
  <2>1. queue \in Queue /\ member \in Member
    BY Parts DEF RewardsBase, RewardsType
  <2>2. Grows
    BY <1>2, <2>1 DEF Grows, IsPastQueue, Queue, IsPastMember, Member
  <2>3. RewardsType' /\ QueueInv'
    BY <1>2, Parts DEF RewardsBase, RewardsType, QueueInv, Cursor
  <2>4. QED
    BY <1>7, <1>8, <1>9, <1>10, <2>2, <2>3 DEF RewardsNext, RewardsBase
<1>12. \A c \in Call : ClaimInv(c)'
  BY <1>2, <1>11, CallsSame
<1>13. VestingsInv'
  BY <1>2, <1>5, <1>6, VestingsSame, Parts
<1>14. OtherTypes'
  BY <1>2, Parts DEF OtherTypes
<1>15. ViewType'
  <2>1. x = "queue" => Fetch(new) \in [of : SUBSET Reward, from : 0 .. Len(expired)]
    <3> SUFFICES ASSUME x = "queue"
                 PROVE  Fetch(new) \in [of : SUBSET Reward, from : 0 .. Len(expired)]
      OBVIOUS
    <3>1. new \in Queue /\ IsRing(new, vendor)
      BY <1>4, Parts DEF RewardsBase, CopiesInv, Copies
    <3>2. RewardsType
      BY Parts DEF RewardsBase
    <3>3. QED
      BY <3>1, <3>2, RingRewards, FetchType
  <2>2. fetches' \subseteq [of : SUBSET Reward, from : 0 .. Len(expired')]
    BY <1>2, <2>1, Parts DEF ViewType
  <2>3. QED
    BY <1>2, <1>6, <2>2, Parts DEF ViewType
<1>16. QED
  BY <1>6, <1>11, <1>12, <1>13, <1>14, <1>15, Together

LEMMA PageOnly ==
  ASSUME IInv, UNCHANGED <<chain, updates, store, call, history>>
  PROVE  RewardsNext /\ (\A c \in Call : ClaimInv(c)') /\ VestingsInv'
<1>1. UNCHANGED <<queue, vendor, expired, member, spt, vestings, taken, clock, updates,
                  store, call, claimed, excused>>
  BY DEF chain, history
<1>2. RewardsBase /\ StoreType
  BY Parts DEF RewardsBase
<1>3. StoreType'
  BY <1>1, <1>2 DEF StoreType
<1>4. RewardsNext
  BY <1>1, <1>2, <1>3, RewardsSame
<1>5. QED
  BY <1>1, <1>4, CallsSame, VestingsSame, Parts

LEMMA VendorsArriveStep ==
  ASSUME IInv, NEW f \in fetches, VendorsArrive(f)
  PROVE  IInv'
<1>1. UNCHANGED <<queue, vendor, expired, member, spt, vestings, taken, clock, updates,
                  page, visits, call, claimed, excused, steps>>
  BY DEF VendorsArrive, chain, history
<1>2. PICK upTo \in f.from .. Len(expired), found \in SUBSET f.of :
        LET gone == ToSet(SubSeq(expired, 1, upTo))
        IN Dispatch([store EXCEPT !.vendors =
             [r \in DOMAIN @ \cup found |-> IF r \in found THEN r \in gone ELSE @[r]]])
  BY DEF VendorsArrive
<1> PICK gone : gone = ToSet(SubSeq(expired, 1, upTo))
  OBVIOUS
<1> PICK known : known = store.vendors
  OBVIOUS
<1> DEFINE vendors == [r \in DOMAIN known \cup found |->
                         IF r \in found THEN r \in gone ELSE known[r]]
<1> PICK s : s = [store EXCEPT !.vendors = vendors]
  OBVIOUS
<1>3. Dispatch(s)
  BY <1>2
<1>4. /\ expired \in Seq(Reward) /\ Len(expired) \in Nat
      /\ found \subseteq Reward /\ f.from \in 0 .. Len(expired)
      /\ IsMap(known, Reward, BOOLEAN)
      /\ StoreType
  BY Parts DEF RewardsBase, RewardsType, ViewType, StoreType
<1>5. gone \subseteq ToSet(expired)
  <2>1. upTo \in 0 .. Len(expired)
    BY <1>4
  <2>2. ASSUME NEW x \in gone  PROVE x \in ToSet(expired)
    <3>1. \A i \in 1 .. upTo : expired[i] \in Reward
      BY <1>4, <2>1
    <3>2. /\ Len(SubSeq(expired, 1, upTo)) = upTo
          /\ \A i \in 1 .. upTo : SubSeq(expired, 1, upTo)[i] = expired[i]
          /\ SubSeq(expired, 1, upTo) \in Seq(Reward)
      BY <1>4, <2>1
    <3>3. PICK i \in 1 .. upTo : x = expired[i]
      BY <3>2 DEF ToSet
    <3>4. i \in 1 .. Len(expired)
      BY <1>4, <2>1
    <3>5. QED
      BY <1>4, <3>3, <3>4 DEF ToSet
  <2>3. QED
    BY <2>2
<1>6. /\ IsMap(vendors, Reward, BOOLEAN)
      /\ \A r \in DOMAIN vendors : vendors[r] => r \in ToSet(expired)
  <2>1. DOMAIN vendors = DOMAIN known \cup found
    OBVIOUS
  <2>2. \A r \in DOMAIN known : known[r] \in BOOLEAN /\ (known[r] => r \in ToSet(expired))
    BY <1>4, Parts DEF IsMap, RewardsBase, CopiesInv
  <2>3. \A r \in DOMAIN vendors : vendors[r] \in BOOLEAN
    <3> SUFFICES ASSUME NEW r \in DOMAIN vendors
                 PROVE  vendors[r] \in BOOLEAN
      OBVIOUS
    <3>1. CASE r \in found
      <4>1. vendors[r] = (r \in gone)
        BY <2>1, <3>1, Zenon
      <4>2. (r \in gone) \in BOOLEAN
        OBVIOUS
      <4>3. QED
        BY <4>1, <4>2, Zenon
    <3>2. CASE r \notin found
      <4>1. vendors[r] = known[r]
        BY <2>1, <3>2, Zenon
      <4>2. r \in DOMAIN known
        BY <2>1, <3>2
      <4>3. known[r] \in BOOLEAN
        BY <2>2, <4>2
      <4>4. QED
        BY <4>1, <4>3, Zenon
    <3>3. QED
      BY <3>1, <3>2
  <2>4. \A r \in DOMAIN vendors : vendors[r] => r \in ToSet(expired)
    BY <1>5, <2>1, <2>2
  <2>5. QED
    BY <1>4, <2>1, <2>3, <2>4 DEF IsMap
<1> HIDE DEF vendors
<1>7. /\ s.queue = store.queue /\ s.member = store.member /\ s.spt = store.spt
      /\ s.vendors = vendors /\ s.vestings = store.vestings /\ s.accounts = store.accounts
      /\ s = [queue |-> s.queue, member |-> s.member, spt |-> s.spt,
              vendors |-> s.vendors, vestings |-> s.vestings, accounts |-> s.accounts]
  BY <1>4 DEF StoreType
<1>8. /\ store' = s
      /\ cards' \in [DOMAIN cards' -> CardState]
      /\ DOMAIN cards' = IF page' = "lockup" THEN DOMAIN store'.vestings ELSE {}
      /\ CardsInv'
  <2>1. s.vestings \in Seq(Vesting)
    BY <1>4, <1>7 DEF StoreType
  <2>2. QED
    BY <1>1, <1>3, <2>1, Dispatched, Parts
<1>9. StoreType'
  BY <1>4, <1>6, <1>7, <1>8 DEF StoreType
<1>10. CopiesInv' /\ NewestInv'
  <2>1. /\ store["queue"] = store.queue /\ store["member"] = store.member
        /\ store["spt"] = store.spt
        /\ s["queue"] = s.queue /\ s["member"] = s.member /\ s["spt"] = s.spt
    OBVIOUS
  <2>2. /\ Copies("queue")' = Copies("queue") /\ Copies("member")' = Copies("member")
        /\ Newest("queue")' = Newest("queue") /\ Newest("member")' = Newest("member")
        /\ Newest("spt")' = Newest("spt")
    BY <1>1, <1>7, <1>8, <2>1 DEF Copies, Newest
  <2>3. CopiesInv'
    BY <1>1, <1>6, <1>7, <1>8, <2>2, Parts DEF CopiesInv, RewardsBase
  <2>4. QED
    BY <1>1, <2>2, <2>3, Parts DEF NewestInv, RewardsBase
<1>11. RewardsNext
  <2>1. queue \in Queue /\ member \in Member
    BY Parts DEF RewardsBase, RewardsType
  <2>2. Grows
    BY <1>1, <2>1 DEF Grows, IsPastQueue, Queue, IsPastMember, Member
  <2>3. RewardsType' /\ UpdatesType' /\ QueueInv'
    BY <1>1, Parts DEF RewardsBase, RewardsType, UpdatesType, QueueInv, Cursor
  <2>4. QED
    BY <1>9, <1>10, <2>2, <2>3 DEF RewardsNext, RewardsBase
<1>12. \A c \in Call : ClaimInv(c)'
  BY <1>1, <1>11, CallsSame
<1>13. VestingsInv'
  BY <1>1, <1>7, <1>8, VestingsSame, Parts
<1>14. OtherTypes'
  BY <1>1, Parts DEF OtherTypes
<1>15. ViewType'
  BY <1>1, <1>8, Parts DEF ViewType, VendorsArrive
<1>16. QED
  BY <1>8, <1>11, <1>12, <1>13, <1>14, <1>15, Together

LEMMA VendorsFailStep ==
  ASSUME IInv, NEW f \in fetches, VendorsFail(f)
  PROVE  IInv'
<1>1. /\ UNCHANGED <<chain, updates, store, call, history>>
      /\ UNCHANGED <<page, visits, cards, steps, expired, vestings, taken, excused>>
      /\ fetches' = fetches \ {f}
  BY DEF VendorsFail, chain, history
<1>2. RewardsNext /\ (\A c \in Call : ClaimInv(c)') /\ VestingsInv'
  BY <1>1, PageOnly
<1>3. ViewType' /\ CardsInv' /\ OtherTypes'
  BY <1>1, Parts DEF ViewType, CardsInv, OtherTypes
<1>4. QED
  BY <1>2, <1>3, Together

\* An answer for a card leaves it waiting for its own vesting account, or with what
\* is available of it, or overtaken.
LEMMA AvailableArrivesStep ==
  ASSUME IInv, NEW i \in DOMAIN cards, NEW v \in cards[i].asked, AvailableArrives(i, v)
  PROVE  IInv'
<1>1. /\ UNCHANGED <<chain, updates, store, call, history>>
      /\ UNCHANGED <<page, visits, fetches, steps, expired, vestings, taken, excused>>
  BY DEF AvailableArrives, chain, history
<1> PICK k : k = cards[i]
  OBVIOUS
<1>2. PICK amount \in {v, k.amount} :
        cards' = [cards EXCEPT ![i] =
          [amount |-> amount, asked |-> k.asked \ {v},
           overtaken |-> k.overtaken \/ (store.vestings[i] \notin k.asked \ {v}
                                         /\ amount # store.vestings[i])]]
  BY DEF AvailableArrives
<1> DEFINE late == k.overtaken \/ (store.vestings[i] \notin k.asked \ {v}
                                   /\ amount # store.vestings[i])
           n == [amount |-> amount, asked |-> k.asked \ {v}, overtaken |-> late]
<1>3. k \in CardState
  BY Parts DEF ViewType
<1>4. late \in BOOLEAN
  <2>1. k.overtaken \in BOOLEAN
    BY <1>3 DEF CardState
  <2>2. QED
    BY <2>1, Zenon
<1>5. amount \in Vesting \cup {None} /\ k.asked \ {v} \in SUBSET Vesting
  BY <1>3 DEF CardState
<1>6. n \in CardState
  <2> HIDE DEF late
  <2> QED
    BY <1>4, <1>5 DEF CardState
<1>7. /\ n.asked = k.asked \ {v} /\ n.amount = amount
      /\ ~n.overtaken => store.vestings[i] \in n.asked \/ n.amount = store.vestings[i]
  OBVIOUS
<1>8. cards' = [cards EXCEPT ![i] = n]
  BY <1>2
<1> HIDE DEF n
<1>9. CardsInv'
  BY <1>1, <1>7, <1>8, Parts DEF CardsInv
<1>10. ViewType'
  BY <1>1, <1>6, <1>8, Parts DEF ViewType
<1>11. RewardsNext /\ (\A c \in Call : ClaimInv(c)') /\ VestingsInv'
  BY <1>1, PageOnly
<1>12. OtherTypes'
  BY <1>1, Parts DEF OtherTypes
<1>13. QED
  BY <1>9, <1>10, <1>11, <1>12, Together

LEMMA VisitStep ==
  ASSUME IInv, NEW p \in {"rewards", "lockup"}, Visit(p)
  PROVE  IInv'
<1>1. /\ UNCHANGED <<chain, updates, store, call, history>>
      /\ UNCHANGED <<expired, vestings, taken, excused>>
      /\ page' = p
      /\ visits' = visits + 1
      /\ fetches' = IF p = "rewards" THEN fetches \cup {Fetch(store.queue)} ELSE fetches
      /\ cards' = IF p = "lockup" THEN Asked(store.vestings) ELSE <<>>
  BY DEF Visit, Mount, chain, history
<1>2. RewardsNext /\ (\A c \in Call : ClaimInv(c)') /\ VestingsInv'
  BY <1>1, PageOnly
<1>3. OtherTypes'
  <2>1. steps' \in Nat
    BY StepsType, Parts DEF Visit
  <2>2. QED
    BY <1>1, <2>1, Parts DEF OtherTypes
<1>4. Fetch(store.queue) \in [of : SUBSET Reward, from : 0 .. Len(expired)]
  <2>1. RewardsType /\ store.queue \in Queue
    BY Parts DEF RewardsBase, StoreType
  <2>2. IsRing(store.queue, vendor)
    <3>1. store["queue"] = store.queue
      OBVIOUS
    <3>2. QED
      BY <3>1, Parts DEF RewardsBase, CopiesInv, Copies
  <2>3. QED
    BY <2>1, <2>2, RingRewards, FetchType
<1>5. CASE p = "lockup"
  <2>1. store.vestings \in Seq(Vesting) /\ ViewType
    BY Parts DEF RewardsBase, StoreType
  <2>2. /\ DOMAIN cards' = DOMAIN store.vestings
        /\ cards' \in [DOMAIN store.vestings -> CardState]
        /\ \A i \in DOMAIN store.vestings : store.vestings[i] \in cards'[i].asked
    BY <1>1, <1>5, <2>1, CardsAsked
  <2>3. ViewType' /\ CardsInv'
    BY <1>1, <1>5, <2>1, <2>2 DEF ViewType, CardsInv
  <2>4. QED
    BY <1>2, <1>3, <2>3, Together
<1>6. CASE p = "rewards"
  <2>1. DOMAIN cards' = {} /\ cards' \in [DOMAIN cards' -> CardState]
    BY <1>1, <1>6
  <2>2. ViewType' /\ CardsInv'
    BY <1>1, <1>4, <1>6, <2>1, Parts DEF ViewType, CardsInv
  <2>3. QED
    BY <1>2, <1>3, <2>2, Together
<1>7. QED
  BY <1>5, <1>6

-----------------------------------------------------------------------------
(* Steps of the calls.                                                     *)

LEMMA CallOnly ==
  ASSUME IInv, UNCHANGED <<chain, updates, view, claimed>>
  PROVE  /\ RewardsNext /\ ViewType' /\ CardsInv'
         /\ UNCHANGED <<vestings, taken, expired, store>>
<1>1. UNCHANGED <<queue, vendor, expired, member, spt, vestings, taken, clock, updates,
                  store, page, visits, fetches, cards, claimed>>
  BY DEF chain, view
<1>2. RewardsBase /\ StoreType
  BY Parts DEF RewardsBase
<1>3. StoreType'
  BY <1>1, <1>2 DEF StoreType
<1>4. RewardsNext
  BY <1>1, <1>2, <1>3, RewardsSame
<1>5. ViewType' /\ CardsInv'
  BY <1>1, Parts DEF ViewType, CardsInv
<1>6. QED
  BY <1>1, <1>4, <1>5

\* A call under way is of one of the kinds.
LEMMA CallIs ==
  ASSUME NEW x \in CallState, x.pc \notin {"idle", "done"}
  PROVE  /\ x.pc \in {"sent", "landed", "late", "fetching", "answered"}
         /\ x.kind \in {"drop", "expire", "claim", "create", "withdraw"}
         /\ x.vesting \in Vesting \cup {None}
         /\ x.kind \in {"drop", "expire"} => x.vesting = None
         /\ x.kind \in {"create", "withdraw"} => x.vesting \in Vesting
         /\ x.pc = "answered" =>
              /\ x.kind \in {"claim", "create", "withdraw"}
              /\ x.vesting \in Vesting
              /\ x.vestings \in Seq(Vesting)
              /\ x.taken \in [Vesting -> Nat]
         /\ x.kind \in {"drop", "expire", "claim"} /\ x.pc \in Sent => x.reward \in Reward
BY DEF CallState, IdleCall, DoneCall, Sent

LEMMA AccountStays ==
  ASSUME NEW d \in Call, AccountInv(d), call'[d] = call[d],
         UNCHANGED <<vestings, taken>>, excused \subseteq excused',
         call[d].vesting # None /\ IsNew(d) /\ call[d].pc \in {"sent", "late"} =>
           Of(call[d].vesting)' = Of(call[d].vesting)
  PROVE  AccountInv(d)'
<1> PICK x : x = call[d]
  OBVIOUS
<1> PICK v : v = x.vesting
  OBVIOUS
<1>1. call'[d] = x /\ (IsNew(d)' <=> IsNew(d))
  BY DEF IsNew
<1>2. x.pc = "fetching" => v # None
  BY DEF AccountInv
<1>3. v # None =>
        /\ x.pc = "late" => v \in excused'
        /\ IF IsNew(d) /\ x.pc \in {"sent", "late"}
           THEN v \notin ToSet(vestings') /\ Of(v)' = {d}
           ELSE v \in ToSet(vestings')
  BY DEF AccountInv
<1>4. x.pc = "answered" =>
        /\ v \in ToSet(x.vestings)
        /\ ToSet(x.vestings) \subseteq ToSet(vestings')
        /\ v \notin excused' => x.taken[v] = taken'[v]
        /\ x.kind = "claim" =>
             \A u \in ToSet(vestings') \ excused' :
               u \in ToSet(x.vestings) /\ x.taken[u] = taken'[u]
  BY DEF AccountInv
<1>5. QED
  BY <1>1, <1>2, <1>3, <1>4 DEF AccountInv

LEMMA NoneIsNone == None \notin Vesting /\ None \notin Reward
BY RewardsAssumption

LEMMA BeginStep ==
  ASSUME IInv, NEW c \in Call, NEW x \in CallState, x.pc = "sent", Begin(c, x),
         x.kind = "claim" =>
           /\ x.reward \in DOMAIN vendor
           /\ \A r \in DOMAIN vendor : Cursor(r) < Cursor(x.reward) => Lost(r),
         x.vesting # None =>
           IF x.kind \in {"claim", "create"} THEN NewKey(x.vesting)
           ELSE x.vesting \in ToSet(store.vestings)
  PROVE  IInv'
<1> PICK v : v = x.vesting
  OBVIOUS
<1> DEFINE others == {call[d] : d \in {d \in Call : UnderWay(d)}}
           late == {o.vesting : o \in {o \in others : Harms(x, o)}}
           own == IF \E o \in others : Harms(o, x) THEN {x.vesting} ELSE {}
<1>1. /\ UNCHANGED <<chain, updates, view, claimed>>
      /\ call[c] = IdleCall
      /\ call' = [call EXCEPT ![c] = x]
      /\ excused' = excused \cup late \cup own
      /\ steps' \in Nat
  BY StepsType, Parts DEF Begin
<1>2. /\ RewardsNext /\ ViewType' /\ CardsInv'
      /\ UNCHANGED <<vestings, taken, expired, store>>
  BY <1>1, CallOnly
<1>3. call \in [Call -> CallState] /\ excused \subseteq Vesting
  BY Parts DEF OtherTypes
<1>4. /\ call'[c] = x
      /\ \A d \in Call \ {c} : call'[d] = call[d]
      /\ call' \in [Call -> CallState]
  BY <1>1, <1>3
<1>5. /\ v \in Vesting \cup {None}
      /\ x.kind \in {"drop", "expire", "claim", "create", "withdraw"}
      /\ x.kind \in {"drop", "expire"} => v = None
  BY CallIs
<1>6. \A d \in Call : UnderWay(d) => call[d].vesting \in Vesting \cup {None} /\ d # c
  <2>1. ~UnderWay(c)
    BY <1>1 DEF UnderWay, IdleCall
  <2>2. QED
    BY <1>3, <2>1, CallIs DEF UnderWay
<1>7. /\ excused \subseteq excused' /\ excused' \subseteq Vesting
      /\ \A d \in Call : UnderWay(d) /\ Harms(x, call[d]) => call[d].vesting \in excused'
      /\ \A d \in Call : UnderWay(d) /\ Harms(call[d], x) => v \in excused'
  <2>1. late \subseteq Vesting /\ own \subseteq Vesting
    BY <1>5, <1>6 DEF Harms
  <2>2. QED
    BY <1>1, <1>3, <2>1
<1> HIDE DEF others, late, own
<1>8. \A u : Of(u)' = IF u = v THEN Of(u) \cup {c} ELSE Of(u)
  <2>1. UnderWay(c)' /\ ~UnderWay(c) /\ \A d \in Call \ {c} : UnderWay(d)' <=> UnderWay(d)
    BY <1>1, <1>4 DEF UnderWay, IdleCall
  <2>2. QED
    BY <1>4, <2>1 DEF Of
<1>9. v # None => IF x.kind \in {"claim", "create"}
                  THEN v \notin ToSet(vestings) /\ Of(v) = {}
                  ELSE v \in ToSet(store.vestings)
  BY DEF NewKey, Of
<1>10. ToSet(store.vestings) \subseteq ToSet(vestings)
  BY Parts DEF VestingsInv, ListedInv
<1>11. OtherTypes'
  BY <1>1, <1>2, <1>4, <1>7, Parts DEF OtherTypes
<1>12. \A d \in Call : ClaimInv(d)'
  <2>1. UNCHANGED <<queue, vendor, member, expired>>
    BY <1>1 DEF chain
  <2>2. ASSUME NEW d \in Call \ {c}  PROVE ClaimInv(d)'
    BY <1>4, <2>1, Parts DEF ClaimInv, Cursor, Lost
  <2>3. ClaimInv(c)'
    BY <1>4, <2>1 DEF ClaimInv, Cursor, Lost
  <2>4. QED
    BY <2>2, <2>3
<1>13. \A d \in Call : UnderWay(d)' => AccountInv(d)'
  <2>1. ASSUME NEW d \in Call \ {c}, UnderWay(d)'  PROVE AccountInv(d)'
    <3>1. UnderWay(d) /\ AccountInv(d)
      BY <1>4, <2>1, Parts DEF UnderWay, VestingsInv
    <3>2. call[d].vesting # None /\ IsNew(d) /\ call[d].pc \in {"sent", "late"} =>
            call[d].vesting # v
      <4> SUFFICES ASSUME call[d].vesting # None, IsNew(d), call[d].pc \in {"sent", "late"},
                          call[d].vesting = v
                   PROVE  FALSE
        OBVIOUS
      <4>1. v \notin ToSet(vestings) /\ d \in Of(v)
        BY <3>1 DEF AccountInv, Of
      <4>2. QED
        BY <1>9, <1>10, <4>1
    <3>3. QED
      BY <1>2, <1>4, <1>7, <1>8, <3>1, <3>2, AccountStays
  <2>2. AccountInv(c)'
    BY <1>2, <1>4, <1>8, <1>9, <1>10 DEF AccountInv, IsNew
  <2>3. QED
    BY <2>1, <2>2
<1>14. \A d, e \in Call : UnderWay(d)' /\ UnderWay(e)' /\ d # e => PairInv(d, e)'
  <2> SUFFICES ASSUME NEW d \in Call, NEW e \in Call, UnderWay(d)', UnderWay(e)', d # e,
                      Harms(call'[d], call'[e])
               PROVE  call'[e].vesting \in excused'
    BY DEF PairInv, Harms
  <2>1. CASE d = c
    BY <1>4, <1>7, <2>1 DEF UnderWay
  <2>2. CASE e = c
    BY <1>4, <1>7, <2>2 DEF UnderWay
  <2>3. CASE d # c /\ e # c
    BY <1>4, <1>7, <2>3, Parts DEF VestingsInv, PairInv, UnderWay
  <2>4. QED
    BY <2>1, <2>2, <2>3
<1>15. ListedInv'
  <2> SUFFICES ASSUME NEW u \in Vesting \ excused'
               PROVE  /\ u \in ToSet(vestings) /\ Of(u)' = {} =>
                           Once(u) /\ store.accounts[u] = taken[u]
                      /\ \A d \in Of(u)' :
                           IF IsNew(d)' THEN u \notin ToSet(store.vestings) ELSE Once(u)
    BY <1>2, Parts DEF VestingsInv, ListedInv, Once
  <2>1. u \notin excused /\ u # None
    BY <1>7, NoneIsNone
  <2>2. CASE u # v
    <3>1. Of(u)' = Of(u) /\ \A d \in Of(u) : d # c /\ d \in Call
      BY <1>6, <1>8, <2>2 DEF Of
    <3>2. \A d \in Of(u) : IsNew(d)' <=> IsNew(d)
      BY <1>4, <3>1 DEF IsNew
    <3>3. QED
      BY <2>1, <3>1, <3>2, Parts DEF VestingsInv, ListedInv
  <2>3. CASE u = v
    <3>1. Of(v) = {}
      <4> SUFFICES ASSUME NEW d \in Of(v)  PROVE FALSE
        OBVIOUS
      <4>1. d \in Call /\ UnderWay(d) /\ Harms(call[d], x)
        BY <2>1, <2>3 DEF Of, Harms
      <4>2. QED
        BY <1>7, <2>3, <4>1
    <3>2. Of(u)' = {c}
      BY <1>8, <2>3, <3>1
    <3>3. IsNew(c)' <=> x.kind \in {"claim", "create"}
      BY <1>4 DEF IsNew
    <3>4. CASE x.kind \in {"claim", "create"}
      BY <1>9, <1>10, <2>1, <2>3, <3>2, <3>3, <3>4
    <3>5. CASE x.kind \notin {"claim", "create"}
      <4>1. u \in ToSet(vestings) /\ Of(u) = {}
        BY <1>9, <1>10, <2>1, <2>3, <3>1, <3>5
      <4>2. Once(u)
        BY <2>1, <4>1, Parts DEF VestingsInv, ListedInv
      <4>3. QED
        BY <3>2, <3>3, <3>5, <4>2
    <3>6. QED
      BY <3>4, <3>5
  <2>4. QED
    BY <2>2, <2>3
<1>16. VestingsInv'
  BY <1>13, <1>14, <1>15 DEF VestingsInv
<1>17. QED
  BY <1>2, <1>11, <1>12, <1>16, Together

LEMMA DropStep ==
  ASSUME IInv, NEW c \in Call, NEW r \in Reward, NEW locked \in BOOLEAN, Drop(c, r, locked)
  PROVE  IInv'
<1> DEFINE x == [pc |-> "sent", kind |-> "drop", reward |-> r, locked |-> locked,
                 vesting |-> None]
<1>1. x \in CallState /\ x.pc = "sent" /\ x.kind = "drop" /\ x.vesting = None
  BY DEF CallState, Sent
<1>2. Begin(c, x)
  BY DEF Drop
<1> HIDE DEF x
<1>3. QED
  BY <1>1, <1>2, BeginStep

LEMMA ExpireClickedStep ==
  ASSUME IInv, NEW c \in Call, NEW r \in Reward, ExpireClicked(c, r)
  PROVE  IInv'
<1> DEFINE x == [pc |-> "sent", kind |-> "expire", reward |-> r, vesting |-> None]
<1>1. x \in CallState /\ x.pc = "sent" /\ x.kind = "expire" /\ x.vesting = None
  BY DEF CallState, Sent
<1>2. Begin(c, x)
  BY DEF ExpireClicked
<1> HIDE DEF x
<1>3. QED
  BY <1>1, <1>2, BeginStep

\* The reward offered is one to be claimed as far as the store tells, and what
\* comes before it in the queue can never be claimed.
LEMMA NextRewardIs ==
  ASSUME IInv, NextReward # None
  PROVE  /\ NextReward \in DOMAIN vendor /\ NextReward \in Reward
         /\ \A r \in DOMAIN vendor : Cursor(r) < Cursor(NextReward) => Lost(r)
<1> PICK q : q = store.queue
  OBVIOUS
<1> DEFINE needed == {r \in InQueue(q) : NeedsClaim(r)}
<1>1. /\ RewardsType /\ QueueInv /\ q \in Queue /\ store.member \in Member
      /\ queue \in Queue /\ member \in Member
      /\ DOMAIN vendor \subseteq Reward
      /\ \A r \in DOMAIN vendor : vendor[r] \in VendorAccount
  BY Parts DEF RewardsBase, StoreType, RewardsType, IsMap
<1>2. /\ IsRing(q, vendor) /\ IsPastQueue(q, queue)
      /\ IsPastMember(store.member, member)
      /\ \A r \in DOMAIN store.vendors : store.vendors[r] => r \in ToSet(expired)
  <2>1. store["queue"] = q /\ store["member"] = store.member
    OBVIOUS
  <2>2. q \in Copies("queue") /\ store.member \in Copies("member")
    BY <2>1 DEF Copies
  <2>3. QED
    BY <2>2, Parts DEF RewardsBase, CopiesInv
<1>3. InQueue(q) \subseteq DOMAIN store.vendors /\ NextReward = Oldest(needed)
  BY DEF NextReward
<1>4. \A r \in DOMAIN vendor : Cursor(r) \in Nat /\ vendor[r].startTs \in Nat
  BY <1>1 DEF VendorAccount, Cursor
<1>5. InQueue(q) = {r \in DOMAIN vendor : q.tail <= Cursor(r) /\ Cursor(r) < q.head}
  BY <1>1, <1>2, <1>4, RingHolds DEF QueueInv, Cursor
<1>6. needed # {}
  BY <1>3 DEF Oldest
<1>7. /\ NextReward \in needed
      /\ \A r \in needed : Cursor(NextReward) <= Cursor(r)
  <2>1. \A r \in needed : Cursor(r) \in Nat
    BY <1>4, <1>5
  <2> HIDE DEF needed
  <2>2. QED
    BY <1>3, <1>6, <2>1, OldestIs
<1> PICK n : n = NextReward
  OBVIOUS
<1>8. /\ n \in DOMAIN vendor /\ store.spt
      /\ q.tail <= Cursor(n) /\ Cursor(n) < q.head
  BY <1>5, <1>7 DEF NeedsClaim
<1>9. ASSUME NEW r \in DOMAIN vendor, Cursor(r) < Cursor(n)  PROVE Lost(r)
  <2>1. CASE Cursor(r) < q.tail
    <3>1. q.tail \in Nat /\ queue.tail \in Nat /\ q.tail <= queue.tail
      BY <1>1, <1>2 DEF Queue, IsPastQueue
    <3>2. QED
      BY <1>4, <2>1, <3>1 DEF Lost
  <2>2. CASE ~(Cursor(r) < q.tail)
    <3>1. r \in InQueue(q)
      <4>1. q.tail \in Nat /\ q.head \in Nat /\ Cursor(r) \in Nat /\ Cursor(n) \in Nat
        BY <1>1, <1>4, <1>8 DEF Queue
      <4>2. q.tail <= Cursor(r) /\ Cursor(r) < q.head
        BY <1>8, <1>9, <2>2, <4>1
      <4>3. QED
        BY <1>5, <4>2
    <3>2. ~NeedsClaim(r)
      <4>1. Cursor(r) \in Nat /\ Cursor(n) \in Nat
        BY <1>4, <1>8
      <4>2. QED
        BY <1>7, <1>9, <3>1, <4>1
    <3>3. \/ Cursor(r) < store.member.rewardsCursor
          \/ vendor[r].startTs <= store.member.lastStakeTs
          \/ store.vendors[r]
      BY <1>1, <1>4, <1>8, <3>2 DEF NeedsClaim, Member
    <3>4. CASE store.vendors[r]
      BY <1>2, <1>3, <3>1, <3>4 DEF Lost
    <3>5. CASE Cursor(r) < store.member.rewardsCursor
      <4>1. /\ store.member.rewardsCursor \in Nat /\ member.rewardsCursor \in Nat
            /\ store.member.rewardsCursor <= member.rewardsCursor
        BY <1>1, <1>2 DEF Member, IsPastMember
      <4>2. QED
        BY <1>4, <3>5, <4>1 DEF Lost
    <3>6. CASE vendor[r].startTs <= store.member.lastStakeTs
      <4>1. /\ store.member.lastStakeTs \in Nat /\ member.lastStakeTs \in Nat
            /\ store.member.lastStakeTs <= member.lastStakeTs
        BY <1>1, <1>2 DEF Member, IsPastMember
      <4>2. QED
        BY <1>4, <3>6, <4>1 DEF Lost
    <3>7. QED
      BY <3>3, <3>4, <3>5, <3>6
  <2>3. QED
    BY <2>1, <2>2
<1>10. QED
  BY <1>1, <1>8, <1>9

LEMMA ClaimClickedStep ==
  ASSUME IInv, NEW c \in Call, NEW v \in Vesting \cup {None}, ClaimClicked(c, v)
  PROVE  IInv'
<1> PICK n : n = NextReward
  OBVIOUS
<1> DEFINE x == [pc |-> "sent", kind |-> "claim", reward |-> n, vesting |-> v]
<1>1. /\ n \in Reward /\ n \in DOMAIN vendor
      /\ \A r \in DOMAIN vendor : Cursor(r) < Cursor(n) => Lost(r)
  BY NextRewardIs DEF ClaimClicked
<1>2. /\ x \in CallState /\ x.pc = "sent" /\ x.kind = "claim" /\ x.vesting = v
      /\ x.reward = n
  BY <1>1 DEF CallState, Sent
<1>3. Begin(c, x) /\ (v # None => NewKey(v))
  BY DEF ClaimClicked
<1> HIDE DEF x
<1>4. QED
  BY <1>1, <1>2, <1>3, BeginStep

LEMMA CreateClickedStep ==
  ASSUME IInv, NEW c \in Call, NEW v \in Vesting, CreateClicked(c, v)
  PROVE  IInv'
<1> PICK n : n = visits
  OBVIOUS
<1> DEFINE x == [pc |-> "sent", kind |-> "create", vesting |-> v, visit |-> n]
<1>1. visits \in Nat
  BY Parts DEF ViewType
<1>2. x \in CallState /\ x.pc = "sent" /\ x.kind = "create" /\ x.vesting = v
  BY <1>1 DEF CallState, Sent
<1>3. Begin(c, x) /\ NewKey(v)
  BY DEF CreateClicked
<1> HIDE DEF x
<1>4. QED
  BY <1>2, <1>3, BeginStep

LEMMA WithdrawStep ==
  ASSUME IInv, NEW c \in Call, NEW v \in ToSet(store.vestings),
         Begin(c, [pc |-> "sent", kind |-> "withdraw", vesting |-> v])
  PROVE  IInv'
<1> DEFINE x == [pc |-> "sent", kind |-> "withdraw", vesting |-> v]
<1>1. v \in Vesting
  BY Parts DEF RewardsBase, StoreType, ToSet
<1>2. x \in CallState /\ x.pc = "sent" /\ x.kind = "withdraw" /\ x.vesting = v
  BY <1>1 DEF CallState, Sent
<1>3. Begin(c, x)
  OBVIOUS
<1> HIDE DEF x
<1>4. QED
  BY <1>2, <1>3, BeginStep

LEMMA TransferStep ==
  ASSUME IInv, NEW c \in Call, NEW v \in Vesting, Transfer(c, v)
  PROVE  IInv'
BY WithdrawStep DEF Transfer

LEMMA WithdrawClickedStep ==
  ASSUME IInv, NEW c \in Call, NEW i \in DOMAIN cards, WithdrawClicked(c, i)
  PROVE  IInv'
<1> PICK v : v = store.vestings[i]
  OBVIOUS
<1>1. i \in DOMAIN store.vestings
  BY Parts DEF WithdrawClicked, ViewType
<1>2. v \in ToSet(store.vestings)
  BY <1>1 DEF ToSet
<1>3. Begin(c, [pc |-> "sent", kind |-> "withdraw", vesting |-> v])
  BY DEF WithdrawClicked
<1>4. QED
  BY <1>2, <1>3, WithdrawStep

\* What a call does apart from beginning, its transaction, and its dispatch: it ends
\* only with an excuse for its vesting account, if it has one.
LEMMA ProgressStep ==
  ASSUME IInv, NEW c \in Call, UnderWay(c), NEW x \in CallState,
         call' = [call EXCEPT ![c] = x],
         UNCHANGED <<chain, updates, view, claimed, steps>>,
         excused \subseteq excused', excused' \subseteq Vesting,
         x.pc \in {"sent", "late"} =>
           call[c].pc \in {"sent", "late"}
             /\ (x.kind = "claim" => x.reward = call[c].reward),
         IF x = DoneCall
         THEN call[c].vesting = None \/ call[c].vesting \in excused'
         ELSE /\ x.pc \notin {"idle", "done"}
              /\ x.kind = call[c].kind /\ x.vesting = call[c].vesting
              /\ Of(x.vesting)' = Of(x.vesting) => AccountInv(c)'
  PROVE  IInv'
<1> PICK v : v = call[c].vesting
  OBVIOUS
<1>1. /\ RewardsNext /\ ViewType' /\ CardsInv'
      /\ UNCHANGED <<vestings, taken, expired, store>>
  BY CallOnly
<1>2. call \in [Call -> CallState]
  BY Parts DEF OtherTypes
<1>3. /\ call'[c] = x
      /\ \A d \in Call \ {c} : call'[d] = call[d]
      /\ call' \in [Call -> CallState]
  BY <1>2
<1>4. OtherTypes'
  BY <1>1, <1>3, Parts DEF OtherTypes
<1>5. \A d \in Call : ClaimInv(d)'
  <2>1. ASSUME NEW d \in Call, call'[d].pc \in {"sent", "late"}, call'[d].kind = "claim"
        PROVE  /\ call[d].pc \in {"sent", "late"} /\ call[d].kind = "claim"
               /\ call'[d].reward = call[d].reward
    <3>1. CASE d = c
      <4>1. x # DoneCall
        BY <1>3, <2>1, <3>1 DEF DoneCall
      <4>2. QED
        BY <1>3, <2>1, <3>1, <4>1
    <3>2. CASE d # c
      BY <1>3, <2>1, <3>2
    <3>3. QED
      BY <3>1, <3>2
  <2>2. RewardsBase /\ \A d \in Call : ClaimInv(d)
    BY Parts
  <2>3. QED
    BY <1>1, <2>1, <2>2, ClaimsStay
<1>6. /\ UnderWay(c)' <=> x # DoneCall
      /\ \A d \in Call \ {c} : UnderWay(d)' <=> UnderWay(d)
  BY <1>3 DEF UnderWay, DoneCall
<1>7. \A u : u # v \/ x # DoneCall => Of(u)' = Of(u)
  BY <1>3, <1>6 DEF Of
<1>8. \A d \in Call : UnderWay(d)' => AccountInv(d)'
  <2>1. ASSUME NEW d \in Call \ {c}, UnderWay(d)'  PROVE AccountInv(d)'
    <3>1. UnderWay(d) /\ AccountInv(d)
      BY <1>6, <2>1, Parts DEF VestingsInv
    <3>2. call[d].vesting # None /\ IsNew(d) /\ call[d].pc \in {"sent", "late"} =>
            Of(call[d].vesting)' = Of(call[d].vesting)
      <4> SUFFICES ASSUME call[d].vesting # None, IsNew(d), call[d].pc \in {"sent", "late"}
                   PROVE  Of(call[d].vesting)' = Of(call[d].vesting)
        OBVIOUS
      <4>1. Of(call[d].vesting) = {d}
        BY <3>1 DEF AccountInv
      <4>2. call[d].vesting # v
        BY <4>1 DEF Of
      <4>3. QED
        BY <1>7, <4>2
    <3>3. QED
      BY <1>1, <1>3, <3>1, <3>2, AccountStays
  <2>2. UnderWay(c)' => AccountInv(c)'
    BY <1>6, <1>7
  <2>3. QED
    BY <2>1, <2>2
<1>9. \A d \in Call : UnderWay(d)' =>
        /\ UnderWay(d) /\ call'[d].kind = call[d].kind
        /\ call'[d].vesting = call[d].vesting
  BY <1>3, <1>6
<1>10. \A d, e \in Call : UnderWay(d)' /\ UnderWay(e)' /\ d # e => PairInv(d, e)'
  BY <1>9, Parts DEF VestingsInv, PairInv, Harms
<1>11. ListedInv'
  <2> SUFFICES ASSUME NEW u \in Vesting \ excused'
               PROVE  /\ u \in ToSet(vestings) /\ Of(u)' = {} =>
                           Once(u) /\ store.accounts[u] = taken[u]
                      /\ \A d \in Of(u)' :
                           IF IsNew(d)' THEN u \notin ToSet(store.vestings) ELSE Once(u)
    BY <1>1, Parts DEF VestingsInv, ListedInv, Once
  <2>1. u \notin excused /\ u # None
    BY NoneIsNone
  <2>2. Of(u)' = Of(u)
    BY <1>7, <2>1
  <2>3. \A d \in Of(u)' : IsNew(d)' <=> IsNew(d)
    BY <1>9 DEF IsNew, Of
  <2>4. QED
    BY <2>1, <2>2, <2>3, Parts DEF VestingsInv, ListedInv
<1>12. VestingsInv'
  BY <1>8, <1>10, <1>11 DEF VestingsInv
<1>13. QED
  BY <1>1, <1>4, <1>5, <1>12, Together

LEMMA ExcusedType ==
  IInv => excused \subseteq Vesting /\ \A c \in Call : call[c] \in CallState
BY Parts DEF OtherTypes

LEMMA GiveUpStep ==
  ASSUME IInv, NEW c \in Call, GiveUp(c)
  PROVE  IInv'
<1> PICK y : y = call[c]
  OBVIOUS
<1> DEFINE x == IF y.pc = "sent" THEN [y EXCEPT !.pc = "late"] ELSE DoneCall
<1>1. /\ UnderWay(c) /\ y.pc # "late"
      /\ call' = [call EXCEPT ![c] = x]
      /\ excused' = excused \cup (IF y.vesting = None THEN {} ELSE {y.vesting})
      /\ UNCHANGED <<chain, updates, view, claimed, steps>>
      /\ UNCHANGED <<vestings, taken>>
  BY DEF GiveUp, Excuse, chain
<1>2. /\ y \in CallState /\ y.pc \notin {"idle", "done"}
      /\ call \in [Call -> CallState]
  BY <1>1, Parts DEF OtherTypes, UnderWay
<1>3. y.vesting \in Vesting \cup {None}
  BY <1>2, CallIs
<1>4. excused \subseteq excused' /\ excused' \subseteq Vesting
  BY <1>1, <1>3, ExcusedType
<1>5. CASE y.pc = "sent"
  <2> DEFINE z == [y EXCEPT !.pc = "late"]
  <2>1. /\ z \in CallState /\ z.pc = "late" /\ z.kind = y.kind /\ z.vesting = y.vesting
        /\ z.kind = "claim" => z.reward = y.reward
        /\ x = z /\ z # DoneCall
    BY <1>2, <1>5 DEF CallState, IdleCall, DoneCall, Sent
  <2> HIDE DEF z
  <2>2. call' = [call EXCEPT ![c] = z] /\ call'[c] = z
    BY <1>1, <1>2, <2>1
  <2> HIDE DEF x
  <2>3. Of(z.vesting)' = Of(z.vesting) => AccountInv(c)'
    <3>1. AccountInv(c)
      BY <1>1, Parts DEF VestingsInv
    <3>2. QED
      BY <1>1, <1>5, <2>1, <2>2, <3>1 DEF AccountInv, IsNew
  <2>4. QED
    BY <1>1, <1>4, <1>5, <2>1, <2>2, <2>3, ProgressStep
<1>6. CASE y.pc # "sent"
  <2>1. x = DoneCall /\ DoneCall \in CallState /\ DoneCall.pc = "done"
    BY <1>6 DEF CallState, DoneCall
  <2> HIDE DEF x
  <2>2. QED
    BY <1>1, <1>4, <2>1, ProgressStep
<1>7. QED
  BY <1>5, <1>6

LEMMA ExpiresStep ==
  ASSUME IInv, NEW c \in Call, Expires(c)
  PROVE  IInv'
<1>1. /\ UnderWay(c) /\ call[c].pc = "late"
      /\ call' = [call EXCEPT ![c] = DoneCall]
      /\ UNCHANGED <<chain, updates, view, claimed, excused, steps>>
  BY DEF Expires, UnderWay, history
<1>2. DoneCall \in CallState /\ DoneCall.pc = "done"
  BY DEF CallState, DoneCall
<1>3. call[c].vesting = None \/ call[c].vesting \in excused'
  BY <1>1, Parts DEF VestingsInv, AccountInv
<1>4. QED
  BY <1>1, <1>2, <1>3, ExcusedType, ProgressStep

LEMMA ConfirmedStep ==
  ASSUME IInv, NEW c \in Call, Confirmed(c)
  PROVE  IInv'
<1> PICK y : y = call[c]
  OBVIOUS
<1>1. /\ UnderWay(c) /\ y.pc = "landed"
      /\ call' = [call EXCEPT ![c] =
           IF y.vesting = None THEN DoneCall ELSE [y EXCEPT !.pc = "fetching"]]
      /\ UNCHANGED <<chain, updates, view, claimed, excused, steps>>
      /\ UNCHANGED <<vestings, taken>>
  BY DEF Confirmed, UnderWay, history, chain
<1>2. /\ y \in CallState /\ y.pc \notin {"idle", "done"}
      /\ call \in [Call -> CallState]
  BY <1>1, Parts DEF OtherTypes, UnderWay
<1>3. CASE y.vesting = None
  <2>1. DoneCall \in CallState /\ DoneCall.pc = "done"
    BY DEF CallState, DoneCall
  <2>2. QED
    BY <1>1, <1>3, <2>1, ExcusedType, ProgressStep
<1>4. CASE y.vesting # None
  <2> DEFINE z == [y EXCEPT !.pc = "fetching"]
  <2>1. /\ z \in CallState /\ z.pc = "fetching" /\ z.kind = y.kind /\ z.vesting = y.vesting
        /\ z # DoneCall
    BY <1>1, <1>2, <1>4 DEF CallState, IdleCall, DoneCall, Sent
  <2>2. call' = [call EXCEPT ![c] = z] /\ call'[c] = z
    BY <1>1, <1>2, <1>4
  <2> HIDE DEF z
  <2>3. Of(z.vesting)' = Of(z.vesting) => AccountInv(c)'
    <3>1. AccountInv(c)
      BY <1>1, Parts DEF VestingsInv
    <3>2. QED
      BY <1>1, <1>4, <2>1, <2>2, <3>1 DEF AccountInv, IsNew
  <2>4. QED
    BY <1>1, <2>1, <2>2, <2>3, ExcusedType, ProgressStep
<1>5. QED
  BY <1>3, <1>4

LEMMA NodeReadsStep ==
  ASSUME IInv, NEW c \in Call, NodeReads(c)
  PROVE  IInv'
<1> PICK y : y = call[c]
  OBVIOUS
<1> PICK list : list = vestings
  OBVIOUS
<1> PICK amounts : amounts = taken
  OBVIOUS
<1> DEFINE z == [pc |-> "answered", kind |-> y.kind, vesting |-> y.vesting,
                 vestings |-> list, taken |-> amounts]
<1>1. /\ UnderWay(c) /\ y.pc = "fetching"
      /\ call' = [call EXCEPT ![c] = z]
      /\ UNCHANGED <<chain, updates, view, claimed, excused, steps>>
      /\ UNCHANGED <<vestings, taken>>
  BY DEF NodeReads, UnderWay, history, chain
<1>2. /\ y \in CallState
      /\ call \in [Call -> CallState] /\ list \in Seq(Vesting) /\ amounts \in [Vesting -> Nat]
  BY <1>1, Parts DEF OtherTypes
<1>3. AccountInv(c)
  BY <1>1, Parts DEF VestingsInv
<1>4. /\ y.kind \in {"claim", "create", "withdraw"} /\ y.vesting \in Vesting
      /\ y.vesting \in ToSet(list)
  <2>1. y.vesting # None /\ y.vesting \in ToSet(vestings)
    BY <1>1, <1>3 DEF AccountInv
  <2>2. QED
    BY <1>1, <1>2, <2>1, CallIs
<1>5. z \in CallState /\ z # DoneCall
  BY <1>2, <1>4 DEF CallState, DoneCall
<1>6. /\ z.pc = "answered" /\ z.kind = y.kind /\ z.vesting = y.vesting
      /\ z.vestings = list /\ z.taken = amounts
  OBVIOUS
<1> HIDE DEF z
<1>7. call'[c] = z
  BY <1>1, <1>2
<1>8. AccountInv(c)'
  BY <1>1, <1>4, <1>6, <1>7 DEF AccountInv, IsNew
<1>9. QED
  BY <1>1, <1>5, <1>6, <1>8, ExcusedType, ProgressStep

\* What a transaction changes when it is executed.
LEMMA LandEffect ==
  ASSUME IInv, NEW c \in Call, Land(c)
  PROVE  /\ UnderWay(c) /\ call[c].pc \in {"sent", "late"}
         /\ call' = [call EXCEPT ![c] =
              IF @.pc = "sent" THEN [@ EXCEPT !.pc = "landed"] ELSE DoneCall]
         /\ RewardsNext
         /\ Len(expired) <= Len(expired')
         /\ UNCHANGED <<store, page, visits, fetches, cards, excused, steps>>
         /\ IF IsNew(c) /\ call[c].vesting # None
            THEN vestings' = Append(vestings, call[c].vesting) /\ UNCHANGED taken
            ELSE /\ UNCHANGED vestings
                 /\ IF call[c].kind = "withdraw"
                    THEN taken' = [taken EXCEPT ![call[c].vesting] = @ + 1]
                    ELSE UNCHANGED taken
<1> PICK y : y = call[c]
  OBVIOUS
<1>1. /\ UnderWay(c) /\ y.pc \in {"sent", "late"}
      /\ Executes(c)
      /\ call' = [call EXCEPT ![c] =
           IF @.pc = "sent" THEN [@ EXCEPT !.pc = "landed"] ELSE DoneCall]
      /\ UNCHANGED <<store, page, visits, fetches, cards, excused, steps>>
  BY DEF Land, UnderWay, view
<1>2. y \in CallState /\ y.pc \notin {"idle", "done"} /\ RewardsBase
  BY <1>1, Parts DEF OtherTypes, UnderWay
<1>3. /\ y.kind \in {"drop", "expire", "claim", "create", "withdraw"}
      /\ y.kind \in {"drop", "expire"} => y.vesting = None
      /\ y.kind \in {"create", "withdraw"} => y.vesting \in Vesting
      /\ y.kind \in {"drop", "expire", "claim"} => y.reward \in Reward
  BY <1>1, <1>2, CallIs DEF Sent
<1>4. y.kind = "drop" => y.locked \in BOOLEAN
  BY <1>2 DEF CallState, IdleCall, DoneCall
<1>5. expired \in Seq(Reward) /\ Len(expired) \in Nat /\ StoreType
  BY <1>2 DEF RewardsBase, RewardsType
<1>6. StoreType'
  BY <1>1, <1>5 DEF StoreType
<1>7. CASE y.kind = "drop"
  <2>1. DropReward(y.reward, y.locked) /\ UNCHANGED vestings
    BY <1>1, <1>7 DEF Executes
  <2>2. RewardsNext
    BY <1>1, <1>2, <1>3, <1>4, <1>7, <2>1, DropRewardStep
  <2>3. UNCHANGED <<expired, taken>>
    BY <2>1 DEF DropReward
  <2>4. QED
    BY <1>1, <1>3, <1>5, <1>7, <2>1, <2>2, <2>3 DEF IsNew
<1>8. CASE y.kind = "expire"
  <2>1. ExpireReward(y.reward)
    BY <1>1, <1>8 DEF Executes
  <2>2. RewardsNext
    BY <1>1, <1>2, <1>3, <1>8, <2>1, ExpireRewardStep
  <2>3. UNCHANGED <<vestings, taken>> /\ expired' = Append(expired, y.reward)
    BY <2>1 DEF ExpireReward
  <2>4. Len(expired) <= Len(expired')
    BY <1>3, <1>5, <1>8, <2>3
  <2>5. QED
    BY <1>1, <1>3, <1>8, <2>2, <2>3, <2>4 DEF IsNew
<1>9. CASE y.kind = "claim"
  <2>1. /\ ClaimReward(y.reward)
        /\ vestings' = IF y.vesting = None THEN vestings ELSE Append(vestings, y.vesting)
    BY <1>1, <1>9 DEF Executes
  <2>2. RewardsNext
    BY <1>1, <1>2, <2>1, ClaimRewardStep
  <2>3. UNCHANGED <<expired, taken>>
    BY <2>1 DEF ClaimReward
  <2>4. QED
    BY <1>1, <1>5, <1>9, <2>1, <2>2, <2>3 DEF IsNew
<1>10. CASE y.kind = "create"
  <2>1. /\ vestings' = Append(vestings, y.vesting)
        /\ UNCHANGED <<queue, vendor, expired, member, spt, taken, clock, updates, claimed>>
    BY <1>1, <1>10 DEF Executes
  <2>2. RewardsNext
    BY <1>1, <1>2, <1>6, <2>1, RewardsSame
  <2>3. y.vesting # None
    BY <1>3, <1>10, NoneIsNone
  <2>4. QED
    BY <1>1, <1>5, <1>10, <2>1, <2>2, <2>3 DEF IsNew
<1>11. CASE y.kind = "withdraw"
  <2>1. /\ taken' = [taken EXCEPT ![y.vesting] = @ + 1]
        /\ UNCHANGED <<queue, vendor, expired, member, spt, vestings, clock, updates, claimed>>
    BY <1>1, <1>11 DEF Executes
  <2>2. RewardsNext
    BY <1>1, <1>2, <1>6, <2>1, RewardsSame
  <2>3. QED
    BY <1>1, <1>5, <1>11, <2>1, <2>2 DEF IsNew
<1>12. QED
  BY <1>3, <1>7, <1>8, <1>9, <1>10, <1>11

LEMMA LandedIs ==
  ASSUME NEW y \in CallState, y.pc = "sent"
  PROVE  LET z == [y EXCEPT !.pc = "landed"]
         IN z \in CallState /\ z.pc = "landed" /\ z.kind = y.kind /\ z.vesting = y.vesting
BY DEF CallState, IdleCall, DoneCall, Sent

LEMMA LandStep ==
  ASSUME IInv, NEW c \in Call, Land(c)
  PROVE  IInv'
<1> PICK y : y = call[c]
  OBVIOUS
<1> PICK v : v = y.vesting
  OBVIOUS
<1> PICK z : z = IF y.pc = "sent" THEN [y EXCEPT !.pc = "landed"] ELSE DoneCall
  OBVIOUS
<1>1. /\ UnderWay(c) /\ y.pc \in {"sent", "late"}
      /\ call' = [call EXCEPT ![c] = z]
      /\ RewardsNext
      /\ Len(expired) <= Len(expired')
      /\ UNCHANGED <<store, page, visits, fetches, cards, excused, steps>>
      /\ IF IsNew(c) /\ v # None
         THEN vestings' = Append(vestings, v) /\ UNCHANGED taken
         ELSE /\ UNCHANGED vestings
              /\ IF y.kind = "withdraw" THEN taken' = [taken EXCEPT ![v] = @ + 1]
                 ELSE UNCHANGED taken
  BY LandEffect
<1>2. /\ y \in CallState /\ y.pc \notin {"idle", "done"}
      /\ call \in [Call -> CallState]
      /\ vestings \in Seq(Vesting) /\ taken \in [Vesting -> Nat]
      /\ excused \subseteq Vesting /\ steps \in Nat
      /\ v \in Vesting \cup {None}
      /\ y.kind = "withdraw" => v \in Vesting
  BY <1>1, CallIs, Parts DEF OtherTypes, UnderWay
<1>3. /\ z \in CallState
      /\ z = DoneCall \/ (z.pc = "landed" /\ z.kind = y.kind /\ z.vesting = v)
      /\ y.pc # "late" => z # DoneCall
      /\ z.pc \notin {"sent", "late"}
  <2>1. CASE y.pc = "sent"
    <3>1. z = [y EXCEPT !.pc = "landed"]
      BY <2>1
    <3>2. z \in CallState /\ z.pc = "landed" /\ z.kind = y.kind /\ z.vesting = y.vesting
      BY <1>2, <2>1, <3>1, LandedIs
    <3>3. z # DoneCall
      BY <3>2 DEF DoneCall
    <3>4. QED
      BY <3>2, <3>3
  <2>2. CASE y.pc = "late"
    <3>1. z = DoneCall
      BY <2>2
    <3>2. DoneCall \in CallState /\ DoneCall.pc = "done"
      BY DEF CallState, DoneCall
    <3>3. QED
      BY <2>2, <3>1, <3>2
  <2>3. QED
    BY <1>1, <2>1, <2>2
<1>4. /\ call'[c] = z
      /\ \A d \in Call \ {c} : call'[d] = call[d]
      /\ call' \in [Call -> CallState]
  BY <1>1, <1>2, <1>3
<1>5. AccountInv(c)
  BY <1>1, Parts DEF VestingsInv
<1>6. /\ vestings' \in Seq(Vesting) /\ taken' \in [Vesting -> Nat]
      /\ ToSet(vestings) \subseteq ToSet(vestings')
      /\ ToSet(vestings') \subseteq ToSet(vestings) \cup {v}
      /\ \A u \in Vesting : u # v => taken'[u] = taken[u]
      /\ v # None => v \in ToSet(vestings')
  <2>1. CASE IsNew(c) /\ v # None
    <3>1. v \in Vesting /\ vestings' = Append(vestings, v)
      BY <1>1, <1>2, <2>1
    <3>2. vestings' \in Seq(Vesting) /\ ToSet(vestings') = ToSet(vestings) \cup {v}
      BY <1>2, <3>1, AppendIs
    <3>3. QED
      BY <1>1, <1>2, <2>1, <3>2
  <2>2. CASE ~(IsNew(c) /\ v # None)
    <3>1. v # None => v \in ToSet(vestings)
      BY <1>5, <2>2 DEF AccountInv
    <3>2. QED
      BY <1>1, <1>2, <2>2, <3>1
  <2>3. QED
    BY <2>1, <2>2
<1>7. /\ UnderWay(c)' <=> z # DoneCall
      /\ \A d \in Call \ {c} : UnderWay(d)' <=> UnderWay(d)
  BY <1>3, <1>4 DEF UnderWay, DoneCall
<1>8. \A u : u # v \/ z # DoneCall => Of(u)' = Of(u)
  BY <1>1, <1>3, <1>4, <1>7 DEF Of
<1>9. \A d \in Call : UnderWay(d)' =>
        /\ UnderWay(d) /\ call'[d].kind = call[d].kind
        /\ call'[d].vesting = call[d].vesting
  BY <1>1, <1>3, <1>4, <1>7
<1>10. OtherTypes'
  BY <1>1, <1>2, <1>4, <1>6 DEF OtherTypes
<1>11. \A d \in Call : ClaimInv(d)'
  <2>1. \A d \in Call : call'[d].pc \in {"sent", "late"} /\ call'[d].kind = "claim" =>
          /\ call[d].pc \in {"sent", "late"} /\ call[d].kind = "claim"
          /\ call'[d].reward = call[d].reward
    BY <1>3, <1>4
  <2>2. RewardsBase /\ \A d \in Call : ClaimInv(d)
    BY Parts
  <2>3. QED
    BY <1>1, <2>1, <2>2, ClaimsStay
<1>12. \A d \in Call : UnderWay(d)' => AccountInv(d)'
  <2>1. ASSUME NEW d \in Call \ {c}, UnderWay(d)'  PROVE AccountInv(d)'
    <3> PICK x : x = call[d]
      OBVIOUS
    <3> PICK w : w = x.vesting
      OBVIOUS
    <3>1. UnderWay(d) /\ AccountInv(d) /\ PairInv(c, d) /\ PairInv(d, c)
      BY <1>1, <1>7, <2>1, Parts DEF VestingsInv
    <3>2. call'[d] = x /\ (IsNew(d)' <=> IsNew(d))
      BY <1>4 DEF IsNew
    <3>3. x \in CallState /\ x.pc \notin {"idle", "done"}
      BY <1>2, <3>1 DEF UnderWay
    <3>4. x.pc = "fetching" => w # None
      BY <3>1 DEF AccountInv
    <3>5. w # None =>
            /\ x.pc = "late" => w \in excused'
            /\ IF IsNew(d) /\ x.pc \in {"sent", "late"}
               THEN w \notin ToSet(vestings') /\ Of(w)' = {d}
               ELSE w \in ToSet(vestings')
      <4>1. w # None => (x.pc = "late" => w \in excused')
        BY <1>1, <3>1 DEF AccountInv
      <4>2. ASSUME w # None, IsNew(d), x.pc \in {"sent", "late"}
            PROVE  w \notin ToSet(vestings') /\ Of(w)' = {d}
        <5>1. w \notin ToSet(vestings) /\ Of(w) = {d}
          BY <3>1, <4>2 DEF AccountInv
        <5>2. w # v
          BY <1>1, <5>1 DEF Of
        <5>3. QED
          BY <1>6, <1>8, <5>1, <5>2
      <4>3. ASSUME w # None, ~(IsNew(d) /\ x.pc \in {"sent", "late"})
            PROVE  w \in ToSet(vestings')
        BY <1>6, <3>1, <4>3 DEF AccountInv
      <4>4. QED
        BY <4>1, <4>2, <4>3
    <3>6. x.pc = "answered" =>
            /\ w \in ToSet(x.vestings)
            /\ ToSet(x.vestings) \subseteq ToSet(vestings')
            /\ w \notin excused' => x.taken[w] = taken'[w]
            /\ x.kind = "claim" =>
                 \A u \in ToSet(vestings') \ excused' :
                   u \in ToSet(x.vestings) /\ x.taken[u] = taken'[u]
      <4> SUFFICES ASSUME x.pc = "answered"
                   PROVE  /\ w \in ToSet(x.vestings)
                          /\ ToSet(x.vestings) \subseteq ToSet(vestings')
                          /\ w \notin excused' => x.taken[w] = taken'[w]
                          /\ x.kind = "claim" =>
                               \A u \in ToSet(vestings') \ excused' :
                                 u \in ToSet(x.vestings) /\ x.taken[u] = taken'[u]
        OBVIOUS
      <4>1. w \in Vesting /\ w # None
        BY <3>3, CallIs, NoneIsNone
      <4>2. /\ w \in ToSet(x.vestings)
            /\ ToSet(x.vestings) \subseteq ToSet(vestings')
        BY <1>6, <3>1 DEF AccountInv
      <4>3. ASSUME w \notin excused'  PROVE x.taken[w] = taken'[w]
        <5>1. w # v
          BY <1>1, <3>1, <4>1, <4>3 DEF PairInv, Harms
        <5>2. QED
          BY <1>1, <1>6, <3>1, <4>1, <4>3, <5>1 DEF AccountInv
      <4>4. ASSUME x.kind = "claim", NEW u \in ToSet(vestings') \ excused'
            PROVE  u \in ToSet(x.vestings) /\ x.taken[u] = taken'[u]
        <5>1. u \in Vesting /\ u # None
          BY <1>6, NoneIsNone DEF ToSet
        <5>2. u # v
          BY <1>1, <3>1, <4>1, <4>4, <5>1 DEF PairInv, Harms
        <5>3. u \in ToSet(vestings) \ excused
          BY <1>1, <1>6, <5>2
        <5>4. QED
          BY <1>6, <3>1, <4>4, <5>1, <5>2, <5>3 DEF AccountInv
      <4>5. QED
        BY <4>2, <4>3, <4>4
    <3>7. QED
      BY <3>2, <3>4, <3>5, <3>6 DEF AccountInv
  <2>2. ASSUME UnderWay(c)'  PROVE AccountInv(c)'
    <3>1. z.pc = "landed" /\ z.vesting = v
      BY <1>3, <1>7, <2>2
    <3>2. QED
      BY <1>4, <1>6, <3>1 DEF AccountInv, IsNew
  <2>3. QED
    BY <2>1, <2>2
<1>13. \A d, e \in Call : UnderWay(d)' /\ UnderWay(e)' /\ d # e => PairInv(d, e)'
  BY <1>1, <1>9, Parts DEF VestingsInv, PairInv, Harms
<1>14. ListedInv'
  <2> SUFFICES ASSUME NEW u \in Vesting \ excused
               PROVE  /\ u \in ToSet(vestings') /\ Of(u)' = {} =>
                           Once(u) /\ store.accounts[u] = taken'[u]
                      /\ \A d \in Of(u)' :
                           IF IsNew(d)' THEN u \notin ToSet(store.vestings) ELSE Once(u)
    BY <1>1, <1>6, Parts DEF VestingsInv, ListedInv, Once
  <2>1. u # None
    BY NoneIsNone
  <2>2. u = v => y.pc # "late"
    BY <1>5, <2>1 DEF AccountInv
  <2>3. Of(u)' = Of(u)
    BY <1>3, <1>8, <2>2
  <2>4. \A d \in Of(u) : IsNew(d)' <=> IsNew(d)
    BY <1>9, <2>3 DEF IsNew, Of
  <2>5. u = v => Of(u) # {}
    BY <1>1 DEF Of
  <2>6. u \in ToSet(vestings') /\ Of(u) = {} => u \in ToSet(vestings) /\ taken'[u] = taken[u]
    BY <1>6, <2>5
  <2>7. QED
    BY <2>3, <2>4, <2>6, Parts DEF VestingsInv, ListedInv
<1>15. VestingsInv'
  BY <1>12, <1>13, <1>14 DEF VestingsInv
<1>16. CardsInv'
  BY <1>1, Parts DEF CardsInv
<1>17. ViewType'
  <2>1. Len(expired) \in Nat /\ Len(expired') \in Nat
    BY <1>1, Parts DEF RewardsNext, RewardsBase, RewardsType
  <2>2. 0 .. Len(expired) \subseteq 0 .. Len(expired')
    BY <1>1, <2>1
  <2>3. QED
    BY <1>1, <2>2, Parts DEF ViewType
<1>18. QED
  BY <1>1, <1>10, <1>11, <1>15, <1>16, <1>17, Together

-----------------------------------------------------------------------------
(* Answers stored.                                                         *)

LEMMA ToSetFinite ==
  ASSUME NEW S, NEW s \in Seq(S)
  PROVE  IsFiniteSet(ToSet(s))
<1>1. Len(s) \in Nat /\ DOMAIN s = 1 .. Len(s) /\ s \in [1 .. Len(s) -> S]
  OBVIOUS
<1>2. s \in [1 .. Len(s) -> ToSet(s)] /\ \A x \in ToSet(s) : \E i \in 1 .. Len(s) : s[i] = x
  BY <1>1 DEF ToSet
<1>3. s \in Surjection(1 .. Len(s), ToSet(s))
  BY <1>2 DEF Surjection
<1>4. ExistsSurjection(1 .. Len(s), ToSet(s))
  BY <1>3 DEF ExistsSurjection
<1>5. QED
  BY <1>1, <1>4, FS_NatSurjection

\* A list of a finite set has each of its elements once.
LEMMA SetToSeqsIs ==
  ASSUME NEW S, IsFiniteSet(S), NEW list \in SetToSeqs(S)
  PROVE  /\ list \in Seq(S) /\ ToSet(list) = S
         /\ \A x \in S : OnceIn(x, list)
<1> PICK n : n = Cardinality(S)
  OBVIOUS
<1>1. n \in Nat
  BY FS_CardinalityType
<1>2. /\ list \in [1 .. n -> S]
      /\ \A i, j \in 1 .. n : i # j => list[i] # list[j]
  BY DEF SetToSeqs
<1>3. list \in Injection(1 .. n, S)
  BY <1>2 DEF Injection, IsInjective
<1>4. Cardinality(1 .. n) = n
  <2>1. n >= 1 => n - 1 + 1 = n
    BY <1>1
  <2>2. 1 \in Int /\ n \in Int
    BY <1>1
  <2>3. Cardinality(1 .. n) = IF 1 > n THEN 0 ELSE n - 1 + 1
    BY <2>2, FS_Interval
  <2>4. QED
    BY <1>1, <2>1, <2>3
<1>5. list \in Surjection(1 .. n, S)
  BY <1>3, <1>4, FS_Injection
<1>6. \A x \in S : \E i \in 1 .. n : list[i] = x
  BY <1>5 DEF Surjection
<1>7. list \in Seq(S) /\ DOMAIN list = 1 .. n
  BY <1>1, <1>2
<1>8. ToSet(list) = S
  BY <1>2, <1>6, <1>7 DEF ToSet
<1>9. ASSUME NEW x \in S  PROVE OnceIn(x, list)
  <2>1. PICK i \in 1 .. n : list[i] = x
    BY <1>6
  <2>2. \A j \in 1 .. n : list[j] = x <=> j = i
    BY <1>2, <2>1
  <2>3. QED
    BY <1>7, <2>2 DEF OnceIn
<1>10. QED
  BY <1>7, <1>8, <1>9

\* A list and accounts are right for every vesting account that no call but c concerns,
\* and for those that another one does.
RightBut(c, list, accounts) ==
  /\ ToSet(list) \subseteq ToSet(vestings) \cap DOMAIN accounts
  /\ \A u \in Vesting \ excused :
       /\ u \in ToSet(vestings) /\ Of(u) \ {c} = {} =>
            OnceIn(u, list) /\ accounts[u] = taken[u]
       /\ \A d \in Of(u) \ {c} :
            IF IsNew(d) THEN u \notin ToSet(list) ELSE OnceIn(u, list)

LEMMA StoredStep ==
  ASSUME IInv, NEW c \in Call, NEW kind, Answered(c, kind),
         NEW list \in Seq(Vesting), NEW accounts, IsMap(accounts, Vesting, Nat),
         Dispatch([store EXCEPT !.vestings = list, !.accounts = accounts]),
         RightBut(c, list, accounts)
  PROVE  IInv'
<1> PICK s : s = [store EXCEPT !.vestings = list, !.accounts = accounts]
  OBVIOUS
<1>1. /\ UnderWay(c) /\ call[c].pc = "answered"
      /\ call' = [call EXCEPT ![c] = DoneCall]
      /\ UNCHANGED <<queue, vendor, expired, member, spt, vestings, taken, clock, updates,
                     page, visits, fetches, claimed, excused, steps>>
  BY DEF Answered, UnderWay, chain, history
<1>2. StoreType /\ RewardsBase /\ call \in [Call -> CallState]
  BY Parts DEF RewardsBase, OtherTypes
<1>3. /\ s.queue = store.queue /\ s.member = store.member /\ s.spt = store.spt
      /\ s.vendors = store.vendors /\ s.vestings = list /\ s.accounts = accounts
      /\ s = [queue |-> s.queue, member |-> s.member, spt |-> s.spt,
              vendors |-> s.vendors, vestings |-> s.vestings, accounts |-> s.accounts]
  BY <1>2 DEF StoreType
<1>4. /\ store' = s
      /\ cards' \in [DOMAIN cards' -> CardState]
      /\ DOMAIN cards' = IF page' = "lockup" THEN DOMAIN store'.vestings ELSE {}
      /\ CardsInv'
  BY <1>1, <1>3, Dispatched, Parts
<1>5. StoreType'
  <2>1. /\ store.queue \in Queue /\ store.member \in Member /\ store.spt \in BOOLEAN
        /\ IsMap(store.vendors, Reward, BOOLEAN)
    BY <1>2 DEF StoreType
  <2>2. QED
    BY <1>3, <1>4, <2>1 DEF StoreType
<1>6. RewardsNext
  BY <1>1, <1>2, <1>3, <1>4, <1>5, RewardsSame
<1>7. /\ call'[c] = DoneCall
      /\ \A d \in Call \ {c} : call'[d] = call[d]
      /\ call' \in [Call -> CallState]
  BY <1>1, <1>2 DEF CallState
<1>8. OtherTypes'
  BY <1>1, <1>7, Parts DEF OtherTypes
<1>9. ViewType'
  BY <1>1, <1>4, Parts DEF ViewType
<1>10. \A d \in Call : ClaimInv(d)'
  <2>1. \A d \in Call : call'[d].pc \in {"sent", "late"} /\ call'[d].kind = "claim" =>
          /\ call[d].pc \in {"sent", "late"} /\ call[d].kind = "claim"
          /\ call'[d].reward = call[d].reward
    BY <1>7 DEF DoneCall
  <2>2. \A d \in Call : ClaimInv(d)
    BY Parts
  <2>3. QED
    BY <1>2, <1>6, <2>1, <2>2, ClaimsStay
<1>11. ~UnderWay(c)' /\ \A d \in Call \ {c} : UnderWay(d)' <=> UnderWay(d)
  BY <1>7 DEF UnderWay, DoneCall
<1>12. \A u : Of(u)' = Of(u) \ {c}
  BY <1>7, <1>11 DEF Of
<1>13. \A d \in Call : UnderWay(d)' => AccountInv(d)'
  <2> SUFFICES ASSUME NEW d \in Call \ {c}, UnderWay(d)'  PROVE AccountInv(d)'
    BY <1>11
  <2>1. UnderWay(d) /\ AccountInv(d)
    BY <1>11, Parts DEF VestingsInv
  <2>2. call[d].vesting # None /\ IsNew(d) /\ call[d].pc \in {"sent", "late"} =>
          Of(call[d].vesting)' = Of(call[d].vesting)
    <3>1. call[d].vesting # None /\ IsNew(d) /\ call[d].pc \in {"sent", "late"} =>
            Of(call[d].vesting) = {d}
      BY <2>1 DEF AccountInv
    <3>2. Of(call[d].vesting)' = Of(call[d].vesting) \ {c}
      BY <1>7, <1>12
    <3>3. QED
      BY <3>1, <3>2
  <2>3. QED
    BY <1>1, <1>7, <2>1, <2>2, AccountStays
<1>14. \A d, e \in Call : UnderWay(d)' /\ UnderWay(e)' /\ d # e => PairInv(d, e)'
  BY <1>1, <1>7, <1>11, Parts DEF VestingsInv, PairInv, Harms
<1>15. ListedInv'
  <2>1. \A u \in Vesting : \A d \in Of(u) \ {c} : IsNew(d)' <=> IsNew(d)
    BY <1>7 DEF IsNew, Of
  <2>2. \A u : Once(u)' <=> OnceIn(u, list)
    BY <1>3, <1>4 DEF Once
  <2>3. store'.vestings = list /\ store'.accounts = accounts
    BY <1>3, <1>4
  <2>4. QED
    BY <1>1, <1>12, <2>1, <2>2, <2>3 DEF ListedInv, RightBut
<1>16. VestingsInv'
  BY <1>13, <1>14, <1>15 DEF VestingsInv
<1>17. QED
  BY <1>4, <1>6, <1>8, <1>9, <1>10, <1>16, Together

\* What is known of an answer, and of the other calls while it is stored.
LEMMA AnswerIs ==
  ASSUME IInv, NEW c \in Call, NEW kind, Answered(c, kind)
  PROVE  LET x == call[c]
             v == call[c].vesting
         IN /\ x.kind = kind
            /\ v \in Vesting /\ x.vestings \in Seq(Vesting) /\ x.taken \in [Vesting -> Nat]
            /\ c \in Of(v) /\ \A u \in Vesting : c \in Of(u) => u = v
            /\ v \in ToSet(vestings) /\ v \in ToSet(x.vestings)
            /\ ToSet(x.vestings) \subseteq ToSet(vestings)
            /\ v \notin excused => x.taken[v] = taken[v] /\ Of(v) = {c}
            /\ kind = "claim" =>
                 \A u \in Vesting \ excused :
                   /\ Of(u) \ {c} = {}
                   /\ u \in ToSet(vestings) =>
                        u \in ToSet(x.vestings) /\ x.taken[u] = taken[u]
<1> PICK x : x = call[c]
  OBVIOUS
<1> PICK v : v = x.vesting
  OBVIOUS
<1>1. UnderWay(c) /\ x.pc = "answered" /\ x.kind = kind
  BY DEF Answered, UnderWay
<1>2. x \in CallState /\ x.pc \notin {"idle", "done"}
  BY <1>1, Parts DEF OtherTypes
<1>3. /\ v \in Vesting /\ x.vestings \in Seq(Vesting) /\ x.taken \in [Vesting -> Nat]
      /\ v # None
  BY <1>1, <1>2, CallIs, NoneIsNone
<1>4. AccountInv(c) /\ \A d \in Call \ {c} : UnderWay(d) => PairInv(c, d) /\ PairInv(d, c)
  BY <1>1, Parts DEF VestingsInv
<1>5. c \in Of(v) /\ \A u \in Vesting : c \in Of(u) => u = v
  BY <1>1 DEF Of
<1>6. /\ v \in ToSet(vestings) /\ v \in ToSet(x.vestings)
      /\ ToSet(x.vestings) \subseteq ToSet(vestings)
      /\ v \notin excused => x.taken[v] = taken[v]
      /\ kind = "claim" =>
           \A u \in ToSet(vestings) \ excused :
             u \in ToSet(x.vestings) /\ x.taken[u] = taken[u]
  BY <1>1, <1>3, <1>4 DEF AccountInv
<1>7. v \notin excused => Of(v) = {c}
  <2> SUFFICES ASSUME v \notin excused, NEW d \in Of(v), d # c  PROVE FALSE
    BY <1>5
  <2>1. d \in Call \ {c} /\ UnderWay(d) /\ call[d].vesting = v
    BY DEF Of
  <2>2. Harms(call[d], x)
    BY <1>3, <2>1 DEF Harms
  <2>3. QED
    BY <1>4, <2>1, <2>2 DEF PairInv
<1>8. kind = "claim" => \A u \in Vesting \ excused : Of(u) \ {c} = {}
  <2> SUFFICES ASSUME kind = "claim", NEW u \in Vesting \ excused, NEW d \in Of(u), d # c
               PROVE  FALSE
    OBVIOUS
  <2>1. d \in Call \ {c} /\ UnderWay(d) /\ call[d].vesting = u /\ u # None
    BY NoneIsNone DEF Of
  <2>2. Harms(x, call[d])
    BY <1>1, <1>3, <2>1 DEF Harms
  <2>3. QED
    BY <1>4, <2>1, <2>2 DEF PairInv
<1>9. QED
  BY <1>1, <1>3, <1>5, <1>6, <1>7, <1>8

LEMMA ListedIs ==
  ASSUME IInv
  PROVE  /\ store.vestings \in Seq(Vesting) /\ IsMap(store.accounts, Vesting, Nat)
         /\ ToSet(store.vestings) \subseteq ToSet(vestings) \cap DOMAIN store.accounts
         /\ \A u : Once(u) => u \in ToSet(store.vestings)
         /\ \A u \in Vesting \ excused :
              /\ u \in ToSet(vestings) /\ Of(u) = {} =>
                   Once(u) /\ store.accounts[u] = taken[u]
              /\ \A c \in Of(u) :
                   IF IsNew(c) THEN u \notin ToSet(store.vestings) ELSE Once(u)
<1>1. \A u : Once(u) => u \in ToSet(store.vestings)
  BY DEF Once, OnceIn, ToSet
<1>2. QED
  BY <1>1, Parts DEF RewardsBase, StoreType, VestingsInv, ListedInv

LEMMA WithdrawnStep ==
  ASSUME IInv, NEW c \in Call, Withdrawn(c)
  PROVE  IInv'
<1> PICK v : v = call[c].vesting
  OBVIOUS
<1> PICK accounts : accounts = AccountAdd(store.accounts, c, {v})
  OBVIOUS
<1> PICK list : list = store.vestings
  OBVIOUS
<1>1. Answered(c, "withdraw") /\ Dispatch([store EXCEPT !.accounts = accounts])
  BY DEF Withdrawn
<1>2. /\ ~IsNew(c)
      /\ v \in Vesting /\ call[c].taken \in [Vesting -> Nat]
      /\ c \in Of(v) /\ \A u \in Vesting : c \in Of(u) => u = v
      /\ v \notin excused => call[c].taken[v] = taken[v] /\ Of(v) = {c}
  BY <1>1, AnswerIs DEF IsNew
<1>3. /\ list \in Seq(Vesting) /\ IsMap(store.accounts, Vesting, Nat)
      /\ ToSet(list) \subseteq ToSet(vestings) \cap DOMAIN store.accounts
  BY ListedIs
<1>4. /\ IsMap(accounts, Vesting, Nat)
      /\ DOMAIN accounts = DOMAIN store.accounts \cup {v}
      /\ \A u \in DOMAIN accounts : accounts[u] = IF u = v THEN call[c].taken[v]
                                                  ELSE store.accounts[u]
  BY <1>2, <1>3 DEF AccountAdd, IsMap
<1>5. Dispatch([store EXCEPT !.vestings = list, !.accounts = accounts])
  <2>1. [store EXCEPT !.vestings = list, !.accounts = accounts] =
          [store EXCEPT !.accounts = accounts]
    BY Parts DEF RewardsBase, StoreType
  <2>2. QED
    BY <1>1, <2>1, Zenon
<1>6. ASSUME NEW u \in Vesting \ excused
      PROVE  /\ u \in ToSet(vestings) /\ Of(u) \ {c} = {} =>
                  Once(u) /\ accounts[u] = taken[u]
             /\ \A d \in Of(u) \ {c} : IF IsNew(d) THEN u \notin ToSet(list) ELSE Once(u)
  <2>1. CASE u = v
    <3>1. Of(u) = {c} /\ accounts[u] = taken[u]
      BY <1>2, <1>4, <2>1
    <3>2. Once(u)
      BY <1>2, <3>1, ListedIs
    <3>3. QED
      BY <3>1, <3>2
  <2>2. CASE u # v
    <3>1. Of(u) \ {c} = Of(u)
      BY <1>2, <2>2
    <3>2. Once(u) => accounts[u] = store.accounts[u]
      BY <1>3, <1>4, <2>2, ListedIs
    <3>3. QED
      BY <3>1, <3>2, ListedIs
  <2>3. QED
    BY <2>1, <2>2
<1>7. RightBut(c, list, accounts)
  BY <1>3, <1>4, <1>6 DEF RightBut, Once
<1>8. QED
  BY <1>1, <1>3, <1>4, <1>5, <1>7, StoredStep

\* What is put in front of a list is in it once, if it was not in it, and the others
\* are as often as they were.
LEMMA PutInFront ==
  ASSUME NEW S, NEW s \in Seq(S), NEW v \in S
  PROVE  LET list == <<v>> \o s
         IN /\ list \in Seq(S) /\ ToSet(list) = ToSet(s) \cup {v}
            /\ v \notin ToSet(s) => OnceIn(v, list)
            /\ \A u : u # v /\ OnceIn(u, s) => OnceIn(u, list)
<1> PICK list : list = <<v>> \o s
  OBVIOUS
<1> PICK n : n = Len(s)
  OBVIOUS
<1>1. n \in Nat /\ DOMAIN s = 1 .. n
  OBVIOUS
<1>2. /\ list \in Seq(S) /\ DOMAIN list = 1 .. n + 1
      /\ list[1] = v
      /\ \A j \in 2 .. n + 1 : list[j] = s[j - 1]
  <2>1. <<v>> \in Seq(S) /\ Len(<<v>>) = 1 /\ <<v>>[1] = v
    OBVIOUS
  <2>2. /\ list \in Seq(S) /\ Len(list) = 1 + n
        /\ \A j \in 1 .. 1 + n : list[j] = IF j <= 1 THEN <<v>>[j] ELSE s[j - 1]
    BY <2>1, ConcatProperties
  <2>3. QED
    BY <1>1, <2>1, <2>2
<1>3. ToSet(list) = ToSet(s) \cup {v}
  <2>1. \A x \in ToSet(list) : x \in ToSet(s) \cup {v}
    <3> SUFFICES ASSUME NEW j \in 1 .. n + 1  PROVE list[j] \in ToSet(s) \cup {v}
      BY <1>2 DEF ToSet
    <3>1. j = 1 \/ (j \in 2 .. n + 1 /\ j - 1 \in 1 .. n)
      BY <1>1
    <3>2. QED
      BY <1>1, <1>2, <3>1 DEF ToSet
  <2>2. v \in ToSet(list)
    <3>1. 1 \in 1 .. n + 1
      BY <1>1
    <3>2. QED
      BY <1>2, <3>1 DEF ToSet
  <2>3. \A x \in ToSet(s) : x \in ToSet(list)
    <3> SUFFICES ASSUME NEW j \in 1 .. n  PROVE s[j] \in ToSet(list)
      BY <1>1 DEF ToSet
    <3>1. j + 1 \in 2 .. n + 1 /\ j + 1 \in 1 .. n + 1 /\ (j + 1) - 1 = j
      BY <1>1
    <3>2. list[j + 1] = s[j]
      BY <1>2, <3>1
    <3>3. QED
      BY <1>2, <3>1, <3>2 DEF ToSet
  <2>4. QED
    BY <2>1, <2>2, <2>3
<1>4. ASSUME v \notin ToSet(s)  PROVE OnceIn(v, list)
  <2>1. 1 \in 1 .. n + 1 /\ \A j \in 1 .. n + 1 : j # 1 => j \in 2 .. n + 1 /\ j - 1 \in 1 .. n
    BY <1>1
  <2>2. ASSUME NEW j \in 1 .. n + 1, j # 1  PROVE list[j] # v
    <3>1. j \in 2 .. n + 1 /\ j - 1 \in 1 .. n
      BY <2>1, <2>2
    <3>2. list[j] = s[j - 1] /\ s[j - 1] \in ToSet(s)
      BY <1>1, <1>2, <3>1 DEF ToSet
    <3>3. QED
      BY <1>4, <3>2
  <2>3. \A j \in DOMAIN list : list[j] = v <=> j = 1
    BY <1>2, <2>2
  <2>4. 1 \in DOMAIN list
    BY <1>2, <2>1
  <2>5. QED
    BY <2>3, <2>4, Zenon DEF OnceIn
<1>5. ASSUME NEW u, u # v, OnceIn(u, s)  PROVE OnceIn(u, list)
  <2> PICK i \in DOMAIN s : \A j \in DOMAIN s : s[j] = u <=> j = i
    BY <1>5 DEF OnceIn
  <2>1. i + 1 \in 1 .. n + 1 /\ i \in Nat
    BY <1>1, <1>5
  <2>2. ASSUME NEW j \in 1 .. n + 1  PROVE list[j] = u <=> j = i + 1
    <3>1. CASE j = 1
      BY <1>1, <1>2, <1>5, <3>1
    <3>2. CASE j # 1
      <4>1. j \in 2 .. n + 1 /\ j - 1 \in 1 .. n
        BY <1>1, <3>2
      <4>2. list[j] = s[j - 1] /\ (s[j - 1] = u <=> j - 1 = i)
        BY <1>1, <1>2, <1>5, <4>1
      <4>3. j - 1 = i <=> j = i + 1
        BY <2>1, <4>1
      <4>4. QED
        BY <4>2, <4>3
    <3>3. QED
      BY <3>1, <3>2
  <2>3. \A j \in DOMAIN list : list[j] = u <=> j = i + 1
    BY <1>2, <2>2, Zenon
  <2>4. i + 1 \in DOMAIN list
    BY <1>2, <2>1
  <2>5. QED
    BY <2>3, <2>4, Zenon DEF OnceIn
<1>6. QED
  BY <1>2, <1>3, <1>4, <1>5

LEMMA CreatedStep ==
  ASSUME IInv, NEW c \in Call, Created(c)
  PROVE  IInv'
<1> PICK v : v = call[c].vesting
  OBVIOUS
<1> PICK accounts : accounts = AccountAdd(store.accounts, c, {v})
  OBVIOUS
<1> PICK list : list = <<v>> \o store.vestings
  OBVIOUS
<1>1. /\ Answered(c, "create")
      /\ Dispatch([store EXCEPT !.vestings = list, !.accounts = accounts])
  BY DEF Created
<1>2. /\ IsNew(c)
      /\ v \in Vesting /\ call[c].taken \in [Vesting -> Nat] /\ v \in ToSet(vestings)
      /\ c \in Of(v) /\ \A u \in Vesting : c \in Of(u) => u = v
      /\ v \notin excused => call[c].taken[v] = taken[v] /\ Of(v) = {c}
  BY <1>1, AnswerIs DEF IsNew
<1>3. /\ store.vestings \in Seq(Vesting) /\ IsMap(store.accounts, Vesting, Nat)
      /\ ToSet(store.vestings) \subseteq ToSet(vestings) \cap DOMAIN store.accounts
  BY ListedIs
<1>4. /\ IsMap(accounts, Vesting, Nat)
      /\ DOMAIN accounts = DOMAIN store.accounts \cup {v}
      /\ \A u \in DOMAIN accounts : accounts[u] = IF u = v THEN call[c].taken[v]
                                                  ELSE store.accounts[u]
  BY <1>2, <1>3 DEF AccountAdd, IsMap
<1>5. /\ list \in Seq(Vesting) /\ ToSet(list) = ToSet(store.vestings) \cup {v}
      /\ v \notin ToSet(store.vestings) => OnceIn(v, list)
      /\ \A u : u # v /\ Once(u) => OnceIn(u, list)
  BY <1>2, <1>3, PutInFront DEF Once
<1>6. ASSUME NEW u \in Vesting \ excused
      PROVE  /\ u \in ToSet(vestings) /\ Of(u) \ {c} = {} =>
                  OnceIn(u, list) /\ accounts[u] = taken[u]
             /\ \A d \in Of(u) \ {c} : IF IsNew(d) THEN u \notin ToSet(list) ELSE OnceIn(u, list)
  <2>1. CASE u = v
    <3>1. Of(u) = {c} /\ accounts[u] = taken[u]
      BY <1>2, <1>4, <2>1
    <3>2. OnceIn(u, list)
      BY <1>2, <1>5, <2>1, ListedIs
    <3>3. QED
      BY <3>1, <3>2
  <2>2. CASE u # v
    <3>1. Of(u) \ {c} = Of(u)
      BY <1>2, <2>2
    <3>2. Once(u) => accounts[u] = store.accounts[u] /\ OnceIn(u, list)
      BY <1>3, <1>4, <1>5, <2>2, ListedIs
    <3>3. \A d \in Of(u) : IF IsNew(d) THEN u \notin ToSet(list) ELSE OnceIn(u, list)
      BY <1>5, <2>2, <3>2, ListedIs
    <3>4. QED
      BY <3>1, <3>2, <3>3, ListedIs
  <2>3. QED
    BY <2>1, <2>2
<1>7. RightBut(c, list, accounts)
  BY <1>2, <1>3, <1>4, <1>5, <1>6 DEF RightBut
<1>8. QED
  BY <1>1, <1>4, <1>5, <1>7, StoredStep

LEMMA ProcessedStep ==
  ASSUME IInv, NEW c \in Call, Processed(c)
  PROVE  IInv'
<1> PICK all : all = ToSet(call[c].vestings)
  OBVIOUS
<1>1. /\ Answered(c, "claim")
      /\ \E list \in SetToSeqs(all) :
           Dispatch([store EXCEPT !.vestings = list,
                                  !.accounts = AccountAdd(@, c, ToSet(list))])
  BY DEF Processed
<1>2. PICK list \in SetToSeqs(all) :
        Dispatch([store EXCEPT !.vestings = list,
                               !.accounts = AccountAdd(store.accounts, c, ToSet(list))])
  BY <1>1
<1> PICK accounts : accounts = AccountAdd(store.accounts, c, all)
  OBVIOUS
<1>3. /\ call[c].vestings \in Seq(Vesting) /\ call[c].taken \in [Vesting -> Nat]
      /\ all \subseteq ToSet(vestings)
      /\ \A u \in Vesting \ excused :
           /\ Of(u) \ {c} = {}
           /\ u \in ToSet(vestings) => u \in all /\ call[c].taken[u] = taken[u]
  BY <1>1, AnswerIs
<1>4. IsFiniteSet(all) /\ all \subseteq Vesting
  BY <1>3, ToSetFinite DEF ToSet
<1>5. /\ list \in Seq(all) /\ ToSet(list) = all
      /\ \A x \in all : OnceIn(x, list)
  BY <1>4, SetToSeqsIs
<1>6. list \in Seq(Vesting)
  BY <1>4, <1>5
<1>7. IsMap(store.accounts, Vesting, Nat)
  BY ListedIs
<1>8. /\ IsMap(accounts, Vesting, Nat)
      /\ DOMAIN accounts = DOMAIN store.accounts \cup all
      /\ \A u \in DOMAIN accounts : accounts[u] = IF u \in all THEN call[c].taken[u]
                                                  ELSE store.accounts[u]
  BY <1>3, <1>4, <1>7 DEF AccountAdd, IsMap
<1>9. Dispatch([store EXCEPT !.vestings = list, !.accounts = accounts])
  BY <1>2, <1>5, Zenon
<1>10. RightBut(c, list, accounts)
  <2>1. ToSet(list) \subseteq ToSet(vestings) \cap DOMAIN accounts
    BY <1>3, <1>5, <1>8
  <2>2. \A u \in Vesting \ excused :
          u \in ToSet(vestings) => OnceIn(u, list) /\ accounts[u] = taken[u]
    BY <1>3, <1>5, <1>8
  <2>3. QED
    BY <1>3, <2>1, <2>2 DEF RightBut
<1>11. QED
  BY <1>1, <1>6, <1>8, <1>9, <1>10, StoredStep

-----------------------------------------------------------------------------
(* The invariant.                                                          *)

\* The ring at the start holds the rewards dropped in their order.
LEMMA StartIs ==
  ASSUME Init
  PROVE  RewardsType /\ QueueInv
<1> PICK n : n = Len(Dropped)
  OBVIOUS
<1> PICK locked \in BOOLEAN :
      vendor = [r \in ToSet(Dropped) |->
        [cursor |-> CHOOSE i \in 0 .. Len(Dropped) - 1 : Dropped[i + 1] = r,
         startTs |-> 1, locked |-> locked]]
  BY DEF Init
<1>1. /\ n \in Nat /\ n < QueueLen /\ QueueLen \in Nat \ {0, 1}
      /\ Dropped \in Seq(Reward) /\ DOMAIN Dropped = 1 .. n
      /\ \A i \in 1 .. n : Dropped[i] \in Reward
      /\ \A i, j \in 1 .. n : Dropped[i] = Dropped[j] => i = j
  <2>1. \A i, j \in DOMAIN Dropped : Dropped[i] = Dropped[j] => i = j
    BY RewardsAssumption, Zenon DEF IsInjective
  <2>2. /\ n \in Nat /\ n < QueueLen /\ QueueLen \in Nat \ {0, 1}
        /\ Dropped \in Seq(Reward) /\ DOMAIN Dropped = 1 .. n
    BY RewardsAssumption
  <2>3. \A i \in 1 .. n : Dropped[i] \in Reward
    BY <2>2
  <2>4. QED
    BY <2>1, <2>2, <2>3
<1>2. /\ queue.head = n /\ queue.tail = 0
      /\ queue.events = [i \in 0 .. QueueLen - 1 |->
                           IF i < n THEN Dropped[i + 1] ELSE None]
      /\ queue = [head |-> queue.head, tail |-> queue.tail, events |-> queue.events]
  BY DEF Init, StartQueue
<1>3. queue \in Queue
  <2>1. \A i \in 0 .. QueueLen - 1 :
          (IF i < n THEN Dropped[i + 1] ELSE None) \in Reward \cup {None}
    <3> SUFFICES ASSUME NEW i \in 0 .. QueueLen - 1, i < n
                 PROVE  Dropped[i + 1] \in Reward
      OBVIOUS
    <3>1. i + 1 \in 1 .. n
      BY <1>1
    <3>2. QED
      BY <1>1, <3>1
  <2>2. queue.events \in [0 .. QueueLen - 1 -> Reward \cup {None}]
    BY <1>2, <2>1
  <2>3. queue.head \in Nat /\ queue.tail \in Nat
    BY <1>1, <1>2
  <2>4. QED
    BY <1>2, <2>2, <2>3 DEF Queue
<1>4. ToSet(Dropped) \subseteq Reward
  BY <1>1 DEF ToSet
<1>5. ASSUME NEW r \in ToSet(Dropped)
      PROVE  /\ vendor[r] \in VendorAccount
             /\ vendor[r].cursor \in 0 .. n - 1 /\ Dropped[vendor[r].cursor + 1] = r
  <2> PICK k : k = CHOOSE i \in 0 .. n - 1 : Dropped[i + 1] = r
    OBVIOUS
  <2>1. \E i \in 0 .. n - 1 : Dropped[i + 1] = r
    <3>1. PICK j \in 1 .. n : Dropped[j] = r
      BY <1>1, <1>5 DEF ToSet
    <3>2. j - 1 \in 0 .. n - 1 /\ (j - 1) + 1 = j
      BY <1>1
    <3>3. QED
      BY <3>1, <3>2
  <2>2. k \in 0 .. n - 1 /\ Dropped[k + 1] = r
    BY <2>1
  <2>3. vendor[r] = [cursor |-> k, startTs |-> 1, locked |-> locked]
    BY <1>5
  <2>4. k \in Nat
    BY <1>1, <2>2
  <2>5. QED
    BY <2>2, <2>3, <2>4 DEF VendorAccount
<1>6. DOMAIN vendor = ToSet(Dropped)
  OBVIOUS
<1>7. IsMap(vendor, Reward, VendorAccount)
  BY <1>4, <1>5, <1>6 DEF IsMap
<1>8. RewardsType
  BY <1>3, <1>7 DEF Init, RewardsType, Member
<1>9. IsRing(queue, vendor)
  <2>1. ASSUME NEW p \in 0 .. n - 1
        PROVE  /\ queue.events[p % QueueLen] \in DOMAIN vendor
               /\ vendor[queue.events[p % QueueLen]].cursor = p
    <3>1. p % QueueLen = p /\ p \in 0 .. QueueLen - 1 /\ p < n /\ p + 1 \in 1 .. n
      BY <1>1
    <3> PICK r : r = Dropped[p + 1]
      OBVIOUS
    <3>2. queue.events[p % QueueLen] = r
      BY <1>2, <3>1
    <3>3. r \in ToSet(Dropped)
      BY <1>1, <3>1 DEF ToSet
    <3>4. vendor[r].cursor \in 0 .. n - 1 /\ Dropped[vendor[r].cursor + 1] = Dropped[p + 1]
      BY <1>5, <3>3
    <3>5. vendor[r].cursor + 1 \in 1 .. n
      BY <1>1, <3>4
    <3>6. vendor[r].cursor + 1 = p + 1
      BY <1>1, <3>1, <3>4, <3>5
    <3>7. vendor[r].cursor = p
      BY <1>1, <3>4, <3>6
    <3>8. QED
      BY <1>6, <3>2, <3>3, <3>7
  <2>2. /\ queue.tail <= queue.head /\ queue.head - queue.tail < QueueLen
        /\ queue.tail .. queue.head - 1 = 0 .. n - 1
    BY <1>1, <1>2
  <2>3. QED
    BY <2>1, <2>2 DEF IsRing
<1>10. QueueInv
  <2>1. \A r \in DOMAIN vendor : vendor[r].cursor < queue.head
    BY <1>1, <1>2, <1>5, <1>6
  <2>2. \A q, r \in DOMAIN vendor : vendor[q].cursor = vendor[r].cursor => q = r
    BY <1>5, <1>6
  <2>3. member.lastStakeTs <= clock /\ claimed = {}
    BY DEF Init
  <2>4. QED
    BY <1>9, <2>1, <2>2, <2>3 DEF QueueInv, Cursor
<1>11. QED
  BY <1>8, <1>10

LEMMA InitInv == Init => IInv
<1> SUFFICES ASSUME Init  PROVE IInv
  OBVIOUS
<1>1. RewardsType /\ QueueInv
  BY StartIs
<1>2. /\ updates = [x \in {"queue", "member", "spt"} |-> <<>>]
      /\ store = [queue |-> queue, member |-> member, spt |-> spt, vendors |-> <<>>,
                  vestings |-> Held, accounts |-> [v \in ToSet(Held) |-> 0]]
      /\ vestings = Held /\ taken = [v \in Vesting |-> 0]
      /\ page = "rewards" /\ visits = 0 /\ fetches = {Fetch(queue)} /\ cards = <<>>
      /\ call = [c \in Call |-> IdleCall]
      /\ steps = 0 /\ excused = {} /\ expired = <<>>
  BY DEF Init
<1>3. /\ Held \in Seq(Vesting) /\ DOMAIN Held = 1 .. Len(Held) /\ Len(Held) \in Nat
      /\ \A i \in 1 .. Len(Held) : Held[i] \in Vesting
      /\ \A i, j \in 1 .. Len(Held) : Held[i] = Held[j] => i = j
  BY RewardsAssumption DEF IsInjective
<1>4. queue \in Queue /\ member \in Member /\ spt \in BOOLEAN
  BY <1>1 DEF RewardsType
<1>5. DOMAIN <<>> = {} /\ \A S : <<>> \in [{} -> S] /\ <<>> \in Seq(S)
  OBVIOUS
<1>6. ToSet(<<>>) = {}
  BY <1>5 DEF ToSet
<1>7. /\ ToSet(Held) \subseteq Vesting
      /\ \A v \in ToSet(Held) : OnceIn(v, Held)
  <2>1. ToSet(Held) \subseteq Vesting
    BY <1>3 DEF ToSet
  <2>2. ASSUME NEW v \in ToSet(Held)  PROVE OnceIn(v, Held)
    <3>1. PICK i \in 1 .. Len(Held) : Held[i] = v
      BY <1>3 DEF ToSet
    <3>2. \A j \in 1 .. Len(Held) : Held[j] = v <=> j = i
      BY <1>3, <3>1
    <3>3. QED
      BY <1>3, <3>2 DEF OnceIn
  <2>3. QED
    BY <2>1, <2>2
<1>8. UpdatesType
  BY <1>2, <1>5 DEF UpdatesType
<1>9. StoreType
  <2>1. IsMap(store.vendors, Reward, BOOLEAN)
    BY <1>2, <1>5 DEF IsMap
  <2>2. IsMap(store.accounts, Vesting, Nat)
    BY <1>2, <1>7 DEF IsMap
  <2>3. QED
    BY <1>2, <1>3, <1>4, <2>1, <2>2 DEF StoreType
<1>10. CopiesInv
  <2>1. Copies("queue") = {queue} /\ Copies("member") = {member}
    BY <1>2, <1>6 DEF Copies
  <2>2. IsRing(queue, vendor) /\ IsPastQueue(queue, queue) /\ IsPastMember(member, member)
    BY <1>1, <1>4 DEF QueueInv, IsPastQueue, IsPastMember, Queue, Member
  <2>3. DOMAIN store.vendors = {}
    BY <1>2, <1>5
  <2>4. QED
    BY <2>1, <2>2, <2>3 DEF CopiesInv
<1>11. NewestInv
  BY <1>2 DEF NewestInv, Newest
<1>12. RewardsBase
  BY <1>1, <1>8, <1>9, <1>10, <1>11 DEF RewardsBase
<1>13. DOMAIN cards = {} /\ cards \in [DOMAIN cards -> CardState]
  BY <1>2, <1>5
<1>14. ViewType /\ CardsInv
  <2>1. InQueue(queue) \subseteq Reward
    BY <1>1, <1>4, RingRewards DEF QueueInv
  <2>2. Fetch(queue) \in [of : SUBSET Reward, from : 0 .. Len(expired)]
    BY <1>1, <1>4, <2>1, FetchType
  <2>3. QED
    BY <1>2, <1>13, <2>2 DEF ViewType, CardsInv
<1>15. \A c \in Call : call[c] = IdleCall /\ IdleCall.pc = "idle" /\ IdleCall \in CallState
  BY <1>2 DEF IdleCall, CallState
<1>16. call \in [Call -> CallState]
  BY <1>2, <1>15
<1>17. OtherTypes
  BY <1>2, <1>3, <1>16 DEF OtherTypes
<1>18. \A c \in Call : ClaimInv(c) /\ ~UnderWay(c)
  BY <1>15 DEF ClaimInv, UnderWay
<1>19. ListedInv
  <2>1. \A v : Of(v) = {}
    BY <1>18 DEF Of
  <2>2. ToSet(store.vestings) = ToSet(vestings) /\ DOMAIN store.accounts = ToSet(Held)
        /\ store.vestings = Held
    BY <1>2
  <2>3. \A v \in ToSet(Held) : Once(v) /\ store.accounts[v] = 0 /\ taken[v] = 0
    BY <1>2, <1>7 DEF Once
  <2>4. QED
    BY <1>2, <2>1, <2>2, <2>3 DEF ListedInv
<1>20. VestingsInv
  BY <1>18, <1>19 DEF VestingsInv
<1>21. QED
  BY <1>12, <1>14, <1>17, <1>18, <1>20, Parts

LEMMA StutterStep ==
  ASSUME IInv, UNCHANGED vars
  PROVE  IInv'
<1>1. /\ UNCHANGED <<chain, updates, store, call, history>>
      /\ UNCHANGED <<expired, vestings, taken, page, visits, fetches, cards, steps, excused>>
  BY DEF vars, chain, view, history
<1>2. RewardsNext /\ (\A c \in Call : ClaimInv(c)') /\ VestingsInv'
  BY <1>1, PageOnly
<1>3. ViewType' /\ CardsInv' /\ OtherTypes'
  BY <1>1, Parts DEF ViewType, CardsInv, OtherTypes
<1>4. QED
  BY <1>2, <1>3, Together

LEMMA NextInv == IInv /\ [Next]_vars => IInv'
<1> SUFFICES ASSUME IInv, [Next]_vars  PROVE IInv'
  OBVIOUS
<1>1. CASE Elsewhere
  BY <1>1, ElsewhereStep
<1>2. CASE \E x \in DOMAIN updates : Notified(x)
  BY <1>2, NotifiedStep
<1>3. CASE \E f \in fetches : VendorsArrive(f) \/ VendorsFail(f)
  BY <1>3, VendorsArriveStep, VendorsFailStep
<1>4. CASE \E i \in DOMAIN cards : \E v \in cards[i].asked : AvailableArrives(i, v)
  BY <1>4, AvailableArrivesStep
<1>5. CASE \E p \in {"rewards", "lockup"} : Visit(p)
  BY <1>5, VisitStep
<1>6. ASSUME NEW c \in Call, NEW r \in Reward,
             DropUnlocked(c, r) \/ DropLocked(c, r) \/ ExpireClicked(c, r)
      PROVE  IInv'
  BY <1>6, DropStep, ExpireClickedStep DEF DropUnlocked, DropLocked
<1>7. ASSUME NEW c \in Call, NEW v \in Vesting \cup {None}, ClaimClicked(c, v)
      PROVE  IInv'
  BY <1>7, ClaimClickedStep
<1>8. ASSUME NEW c \in Call, NEW v \in Vesting,
             CreateClicked(c, v) \/ DepositLocked(c, v) \/ WithdrawLocked(c, v)
      PROVE  IInv'
  BY <1>8, CreateClickedStep, TransferStep DEF DepositLocked, WithdrawLocked
<1>9. ASSUME NEW c \in Call, NEW i \in DOMAIN cards, WithdrawClicked(c, i)
      PROVE  IInv'
  BY <1>9, WithdrawClickedStep
<1>10. ASSUME NEW c \in Call,
              \/ Land(c) \/ GiveUp(c) \/ Expires(c) \/ Confirmed(c) \/ NodeReads(c)
              \/ Processed(c) \/ Created(c) \/ Withdrawn(c)
       PROVE  IInv'
  BY <1>10, LandStep, GiveUpStep, ExpiresStep, ConfirmedStep, NodeReadsStep, ProcessedStep,
     CreatedStep, WithdrawnStep
<1>11. CASE UNCHANGED vars
  BY <1>11, StutterStep
<1>12. QED
  BY <1>1, <1>2, <1>3, <1>4, <1>5, <1>6, <1>7, <1>8, <1>9, <1>10, <1>11 DEF Next

\* Whatever the page, the program and others do, and in whatever order notifications
\* and answers arrive: the copies the page works on are past states, a transaction on
\* its way passes over nothing the member can still claim, each vesting account no
\* call concerns is listed once and as it is, and the cards are those of the list.
THEOREM Invariance == Spec => []IInv
<1>1. Init => IInv
  BY InitInv
<1>2. IInv /\ [Next]_vars => IInv'
  BY NextInv
<1>3. QED
  BY <1>1, <1>2, PTL DEF Spec

-----------------------------------------------------------------------------
(* Properties.                                                             *)

LEMMA OfferIs == IInv => OfferIsOldestClaimable
<1> SUFFICES ASSUME IInv, Current
             PROVE  NextReward = Oldest({r \in InQueue(queue) : Claimable(r)})
  BY DEF OfferIsOldestClaimable
<1>1. RewardsBase
  BY Parts
<1>2. store.queue = queue /\ store.member = member /\ store.spt = spt
  <2>1. \A x \in {"queue", "member", "spt"} : updates[x] = <<>>
    BY <1>1 DEF Current, RewardsBase, UpdatesType
  <2>2. /\ Newest("queue") = store["queue"] /\ Newest("member") = store["member"]
        /\ Newest("spt") = store["spt"]
    BY <2>1 DEF Newest
  <2>3. /\ store["queue"] = store.queue /\ store["member"] = store.member
        /\ store["spt"] = store.spt
    OBVIOUS
  <2>4. QED
    BY <1>1, <2>2, <2>3 DEF RewardsBase, NewestInv
<1>3. \A r \in InQueue(queue) :
        r \in DOMAIN store.vendors /\ store.vendors[r] = (r \in ToSet(expired))
  BY DEF Current
<1>4. InQueue(queue) \subseteq DOMAIN vendor
  BY <1>1, RingRewards DEF RewardsBase, RewardsType, QueueInv
<1>5. \A r \in InQueue(queue) : NeedsClaim(r) <=> Claimable(r)
  <2> SUFFICES ASSUME NEW r \in InQueue(queue)  PROVE NeedsClaim(r) <=> Claimable(r)
    OBVIOUS
  <2>1. r \in DOMAIN vendor /\ (store.vendors[r] <=> r \in ToSet(expired))
    BY <1>3, <1>4
  <2>2. QED
    BY <1>2, <2>1 DEF NeedsClaim, Claimable, Accepted
<1>6. {r \in InQueue(queue) : NeedsClaim(r)} = {r \in InQueue(queue) : Claimable(r)}
  BY <1>5
<1>7. NextReward = Oldest({r \in InQueue(queue) : NeedsClaim(r)})
  BY <1>2, <1>3 DEF NextReward
<1>8. QED
  BY <1>6, <1>7

\* When the copies are current, the page offers the oldest reward that the program
\* lets the member claim, and none if there is none: notifications that were
\* overtaken by others, fetches of former queues and rewards others dropped or
\* expired leave nothing behind that would change the choice.
THEOREM OfferIsOldestClaimableHolds == Spec => []OfferIsOldestClaimable
<1>1. Spec => []IInv
  BY Invariance
<1>2. IInv => OfferIsOldestClaimable
  BY OfferIs
<1>3. QED
  BY <1>1, <1>2, PTL

LEMMA ShownIs == IInv => VestingsAreShown
<1> SUFFICES ASSUME IInv  PROVE VestingsAreShown
  OBVIOUS
<1>1. /\ store.vestings \in Seq(Vesting)
      /\ vestings \in Seq(Vesting)
      /\ ToSet(store.vestings) \subseteq ToSet(vestings) \cap DOMAIN store.accounts
  BY ListedIs, Parts DEF OtherTypes
<1>2. ASSUME NEW v \in ToSet(vestings) \ excused,
             \A c \in Call : UnderWay(c) => call[c].vesting # v
      PROVE  /\ Cardinality({i \in DOMAIN store.vestings : store.vestings[i] = v}) = 1
             /\ store.accounts[v] = taken[v]
  <2>1. v \in Vesting /\ Of(v) = {}
    BY <1>1, <1>2 DEF ToSet, Of
  <2>2. Once(v) /\ store.accounts[v] = taken[v]
    BY <2>1, ListedIs
  <2>3. PICK k \in DOMAIN store.vestings :
          \A j \in DOMAIN store.vestings : store.vestings[j] = v <=> j = k
    BY <2>2 DEF Once, OnceIn
  <2>4. {i \in DOMAIN store.vestings : store.vestings[i] = v} = {k}
    BY <2>3
  <2>5. QED
    BY <2>2, <2>4, FS_Singleton
<1>3. VestingsAreCurrent
  BY <1>1, <1>2 DEF VestingsAreCurrent
<1>4. CardShowsItsVesting
  BY Parts DEF CardShowsItsVesting, CardsInv
<1>5. QED
  BY <1>3, <1>4 DEF VestingsAreShown

\* The list is the user's vesting accounts as they are, each once, and each card
\* shows what is available of its own, whatever calls of the dialogs and buttons
\* overlap: what failed, what another call stored over, and what a card was told too
\* late are the only exceptions.
THEOREM VestingsAreShownHolds == Spec => []VestingsAreShown
<1>1. Spec => []IInv
  BY Invariance
<1>2. IInv => VestingsAreShown
  BY ShownIs
<1>3. QED
  BY <1>1, <1>2, PTL

\* Vendors are as they were dropped, and only staking and the processing of a reward
\* change the member and its tokens.
LEMMA WhoMoves ==
  ASSUME IInv, [Next]_vars
  PROVE  /\ \A r \in DOMAIN vendor : r \in DOMAIN vendor' /\ vendor'[r] = vendor[r]
         /\ \/ UNCHANGED <<member, spt>>
            \/ Stake
            \/ \E c \in Call : /\ call[c].pc \in {"sent", "late"} /\ call[c].kind = "claim"
                               /\ ClaimReward(call[c].reward)
<1>1. CASE Elsewhere
  BY <1>1 DEF Elsewhere, DropReward, Stake, ExpireReward
<1>2. CASE \E c \in Call : Land(c)
  <2> PICK c \in Call : Land(c)
    BY <1>2
  <2>1. call[c].pc \in {"sent", "late"} /\ Executes(c)
    BY DEF Land
  <2>2. \/ /\ \A r \in DOMAIN vendor : r \in DOMAIN vendor' /\ vendor'[r] = vendor[r]
           /\ UNCHANGED <<member, spt>>
        \/ call[c].kind = "claim" /\ ClaimReward(call[c].reward)
    <3>1. call[c].kind \in {"drop", "expire", "claim", "create", "withdraw"}
      <4>1. call[c] \in CallState /\ call[c].pc \notin {"idle", "done"}
        BY <2>1, Parts DEF OtherTypes
      <4>2. QED
        BY <4>1, CallIs
    <3>2. CASE call[c].kind = "drop"
      <4>1. DropReward(call[c].reward, call[c].locked)
        BY <2>1, <3>2 DEF Executes
      <4>2. QED
        BY <4>1 DEF DropReward
    <3>3. CASE call[c].kind = "expire"
      <4>1. ExpireReward(call[c].reward)
        BY <2>1, <3>3 DEF Executes
      <4>2. QED
        BY <4>1 DEF ExpireReward
    <3>4. CASE call[c].kind = "claim"
      BY <2>1, <3>4 DEF Executes
    <3>5. CASE call[c].kind \in {"create", "withdraw"}
      <4>1. UNCHANGED <<vendor, member, spt>>
        BY <2>1, <3>5 DEF Executes
      <4>2. QED
        BY <4>1
    <3>6. QED
      BY <3>1, <3>2, <3>3, <3>4, <3>5
  <2>3. CASE call[c].kind = "claim" /\ ClaimReward(call[c].reward)
    BY <2>1, <2>3 DEF ClaimReward
  <2>4. QED
    BY <2>2, <2>3
<1>3. CASE UNCHANGED chain
  BY <1>3 DEF chain
<1>4. Elsewhere \/ (\E c \in Call : Land(c)) \/ UNCHANGED chain
  <2>1. CASE UNCHANGED vars
    BY <2>1 DEF vars
  <2>2. CASE Next
    <3>1. ASSUME NEW x, Notified(x)  PROVE UNCHANGED chain
      BY <3>1 DEF Notified
    <3>2. ASSUME NEW f, VendorsArrive(f) \/ VendorsFail(f)  PROVE UNCHANGED chain
      BY <3>2 DEF VendorsArrive, VendorsFail
    <3>3. ASSUME NEW i, NEW v, AvailableArrives(i, v)  PROVE UNCHANGED chain
      BY <3>3 DEF AvailableArrives
    <3>4. ASSUME NEW p, Visit(p)  PROVE UNCHANGED chain
      BY <3>4 DEF Visit
    <3>5. ASSUME NEW c, NEW x, Begin(c, x)  PROVE UNCHANGED chain
      BY <3>5 DEF Begin
    <3>6. ASSUME NEW c, NEW r, DropUnlocked(c, r) \/ DropLocked(c, r) \/ ExpireClicked(c, r)
          PROVE  UNCHANGED chain
      BY <3>5, <3>6 DEF DropUnlocked, DropLocked, Drop, ExpireClicked
    <3>7. ASSUME NEW c, NEW v,
                 \/ ClaimClicked(c, v) \/ CreateClicked(c, v) \/ WithdrawClicked(c, v)
                 \/ DepositLocked(c, v) \/ WithdrawLocked(c, v)
          PROVE  UNCHANGED chain
      BY <3>5, <3>7 DEF ClaimClicked, CreateClicked, WithdrawClicked, DepositLocked,
         WithdrawLocked, Transfer
    <3>8. ASSUME NEW c, \/ GiveUp(c) \/ Expires(c) \/ Confirmed(c) \/ NodeReads(c)
                        \/ Processed(c) \/ Created(c) \/ Withdrawn(c)
          PROVE  UNCHANGED chain
      BY <3>8 DEF GiveUp, Expires, Confirmed, NodeReads, Processed, Created, Withdrawn, Answered
    <3> HIDE <1>1
    <3>9. QED
      BY <2>2, <3>1, <3>2, <3>3, <3>4, <3>6, <3>7, <3>8 DEF Next
  <2>3. QED
    BY <2>1, <2>2
<1>5. QED
  BY <1>1, <1>2, <1>3, <1>4

\* Whatever leaves a reward that could be claimed unclaimable.
LEMMA ForfeitedStep ==
  ASSUME IInv, [Next]_vars, NEW r \in DOMAIN vendor, Claimable(r), ~Claimable(r)',
         r \notin ToSet(expired'), r \in InQueue(queue')
  PROVE  r \in claimed' \ claimed
<1>1. /\ RewardsType /\ QueueInv /\ \A c \in Call : ClaimInv(c)
      /\ queue \in Queue /\ member \in Member
      /\ \A q \in DOMAIN vendor : vendor[q].cursor \in Nat /\ vendor[q].startTs \in Nat
  BY Parts DEF RewardsBase, RewardsType, IsMap, VendorAccount
<1>2. r \in DOMAIN vendor' /\ vendor'[r] = vendor[r]
  BY WhoMoves
<1>3. /\ spt /\ r \in InQueue(queue) /\ r \notin ToSet(expired)
      /\ vendor[r].cursor >= member.rewardsCursor
      /\ member.lastStakeTs < vendor[r].startTs
  BY DEF Claimable, Accepted, Cursor
<1>4. ~/\ spt'
       /\ vendor[r].cursor >= member'.rewardsCursor
       /\ member'.lastStakeTs < vendor[r].startTs
  BY <1>2 DEF Claimable, Accepted, Cursor
<1>5. ~UNCHANGED <<member, spt>>
  BY <1>3, <1>4
<1>6. ~Stake
  BY <1>3 DEF Stake
<1>7. PICK c \in Call : /\ call[c].pc \in {"sent", "late"} /\ call[c].kind = "claim"
                        /\ ClaimReward(call[c].reward)
  BY <1>5, <1>6, WhoMoves
<1> PICK q : q = call[c].reward
  OBVIOUS
<1>8. /\ member' = [member EXCEPT !.rewardsCursor = vendor[q].cursor + 1]
      /\ claimed' = claimed \cup {q}
      /\ spt' = spt
      /\ q \in DOMAIN vendor
  BY <1>7 DEF ClaimReward, Accepted, Cursor
<1>9. vendor[r].cursor <= vendor[q].cursor
  <2>1. member'.rewardsCursor = vendor[q].cursor + 1 /\ member'.lastStakeTs = member.lastStakeTs
    BY <1>1, <1>8 DEF Member
  <2>2. vendor[r].cursor \in Nat /\ vendor[q].cursor \in Nat
    BY <1>1, <1>8
  <2>3. ~(vendor[r].cursor >= vendor[q].cursor + 1)
    BY <1>3, <1>4, <1>8, <2>1
  <2>4. QED
    BY <2>2, <2>3
<1>10. queue.tail <= vendor[r].cursor
  <2>1. IsRing(queue, vendor)
    BY <1>1 DEF QueueInv
  <2>2. InQueue(queue) = {s \in DOMAIN vendor : queue.tail <= vendor[s].cursor
                                                /\ vendor[s].cursor < queue.head}
    BY <1>1, <2>1, RingHolds DEF QueueInv, Cursor
  <2>3. QED
    BY <1>3, <2>2
<1>11. ~Lost(r)
  <2>1. /\ queue.tail \in Nat /\ member.rewardsCursor \in Nat /\ member.lastStakeTs \in Nat
        /\ vendor[r].cursor \in Nat /\ vendor[r].startTs \in Nat
    BY <1>1 DEF Queue, Member
  <2>2. QED
    BY <1>3, <1>10, <2>1 DEF Lost, Cursor
<1>12. ~(vendor[r].cursor < vendor[q].cursor)
  BY <1>1, <1>7, <1>11 DEF ClaimInv, Cursor
<1>13. r = q
  <2>1. vendor[r].cursor = vendor[q].cursor
    BY <1>1, <1>8, <1>9, <1>12
  <2>2. QED
    BY <1>1, <1>8, <2>1 DEF QueueInv, Cursor
<1>14. r \notin claimed
  <2>1. r \in claimed => vendor[r].cursor < member.rewardsCursor
    BY <1>1 DEF QueueInv, Cursor
  <2>2. vendor[r].cursor \in Nat /\ member.rewardsCursor \in Nat
    BY <1>1 DEF Member
  <2>3. QED
    BY <1>3, <2>1, <2>2
<1>15. QED
  BY <1>8, <1>13, <1>14

\* Processing a reward forfeits no other, however old the copies are that the page
\* chose it from, and however late its transaction is executed: what stops being
\* claimable is processed, expires or is overwritten.
THEOREM NoneForfeitedHolds == Spec => NoneForfeited
<1>1. Spec => []IInv
  BY Invariance
<1>2. ASSUME IInv, [Next]_vars
      PROVE  [\A r \in DOMAIN vendor :
                Claimable(r) /\ ~Claimable(r)' =>
                  \/ r \in claimed' \ claimed
                  \/ r \in ToSet(expired')
                  \/ r \notin InQueue(queue')]_vars
  BY <1>2, ForfeitedStep
<1>3. QED
  BY <1>1, <1>2, PTL DEF Spec, NoneForfeited

-----------------------------------------------------------------------------
(* The schedule of a card.                                                 *)

LEMMA DivisionRest ==
  ASSUME NEW s \in Nat, NEW n \in Nat \ {0}
  PROVE  /\ s \div n \in Nat /\ s % n \in Nat /\ s % n < n
         /\ s = n * (s \div n) + (s % n)
OBVIOUS

\* The first period's remainder r is what the schedule is ahead, less and less of it.
LEMMA AheadByTheRest ==
  ASSUME NEW q \in Nat, NEW r \in Nat, NEW n \in Nat, NEW k \in 1 .. n, r < n
  PROVE  LET ahead == (r + k * q) * n - k * (n * q + r)
         IN 0 <= ahead /\ ahead < n * n
<1>1. (r + k * q) * n - k * (n * q + r) = r * (n - k)
  <2>1. (r + k * q) * n = r * n + k * q * n
    OBVIOUS
  <2>2. k * (n * q + r) = k * q * n + k * r
    OBVIOUS
  <2>3. r * (n - k) = r * n - k * r
    OBVIOUS
  <2> QED
    BY <2>1, <2>2, <2>3
<1>2. 0 <= r * (n - k)
  OBVIOUS
<1>3. r * (n - k) <= r * n
  OBVIOUS
<1>4. r * n < n * n
  OBVIOUS
<1> QED
  BY <1>1, <1>2, <1>3, <1>4

\* The chart of a vesting account ends with its whole amount, is at no date behind
\* an even schedule, and ahead of one by less than a token unit for each period,
\* for every amount and every number of periods.
THEOREM ScheduleKeepsPaceHolds == ScheduleKeepsPace
<1> SUFFICES ASSUME NEW t \in Terms
             PROVE  /\ CumulativeVesting(t, t.periodCount) = t.startBalance
                    /\ \A k \in 1 .. t.periodCount :
                         LET ahead == CumulativeVesting(t, k) * t.periodCount
                                        - k * t.startBalance
                         IN 0 <= ahead /\ ahead < t.periodCount * t.periodCount
  BY DEF ScheduleKeepsPace
<1> DEFINE s == t.startBalance
           n == t.periodCount
           q == s \div n
           r == s % n
<1>1. s \in Nat /\ n \in Nat \ {0}
  BY RewardsAssumption
<1>2. ASSUME NEW k \in 1 .. n  PROVE CumulativeVesting(t, k) = r + k * q
  <2>1. k # 0
    BY <1>1
  <2>2. QED
    BY <2>1, Zenon DEF CumulativeVesting
<1> HIDE DEF s, n
<1>3. q \in Nat /\ r \in Nat /\ r < n /\ s = n * q + r
  BY <1>1, DivisionRest
<1> HIDE DEF q, r
<1>4. CumulativeVesting(t, n) = s
  <2>1. n \in 1 .. n
    BY <1>1
  <2>2. CumulativeVesting(t, n) = r + n * q
    BY <1>2, <2>1
  <2> QED
    BY <1>1, <1>3, <2>2
<1>5. ASSUME NEW k \in 1 .. n
      PROVE  LET ahead == CumulativeVesting(t, k) * n - k * s
             IN 0 <= ahead /\ ahead < n * n
  <2>1. CumulativeVesting(t, k) = r + k * q
    BY <1>2
  <2>2. LET ahead == (r + k * q) * n - k * (n * q + r)
        IN 0 <= ahead /\ ahead < n * n
    BY <1>1, <1>3, AheadByTheRest
  <2>3. QED
    BY <1>3, <2>1, <2>2, Zenon
<1> QED
  BY <1>4, <1>5 DEF s, n
=============================================================================
