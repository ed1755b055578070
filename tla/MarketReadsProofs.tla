------------------------- MODULE MarketReadsProofs --------------------------
(***************************************************************************)
(* Proofs about what a Market reads: about MarketReads, for any orders,    *)
(* accounts, balances, cache durations and numbers of calls and changes;   *)
(* about EventQueue, for every size of the ring, every set of trades and   *)
(* every limit; and about Slab and Orderbook, for order ids of any length, *)
(* any ids and quantities and slabs of any size.                           *)
(*                                                                         *)
(* The invariant of MarketReads says of every part of a call, and of every *)
(* entry of the caches, in which state of the chain it was read; that of   *)
(* Orderbook says that a slab is a crit-bit tree, and what a generator has *)
(* yet to visit.                                                           *)
(***************************************************************************)
EXTENDS MarketReads, EventQueue, Orderbook, WellFoundedInduction, FiniteSetTheorems, TLAPS

Msrm(i) == Accounts(MsrmAccount, past[i].holding)
Srm(i) == Accounts(SrmAccount, past[i].holding)

\* What the chain was in at time ts, or later.
Lasted(i, ts) == i \in 1 .. Len(past) /\ (i < Len(past) => past[i + 1].at >= ts)

\* What a call begun in the state `from`, at `start`, accepts.
Accepted(i, from, start, duration) ==
  i \in 1 .. Len(past) /\ (i < from => past[i + 1].at > start - duration)

Began(start, from) ==
  /\ start \in Nat /\ start <= now
  /\ from \in 1 .. Len(past)
  /\ \A i \in from + 1 .. Len(past) : past[i].at >= start

BidsOf(b, from, to) == \E i \in from .. to : b = Arrived(Orders(past[i].book, "buy"))
AsksOf(a, from, to) == \E i \in from .. to : a = Arrived(Orders(past[i].book, "sell"))

\* What a running call of loadOrdersForOwner has read so far.
OrdersParts(r, d, start, from, b, a, l) ==
  /\ r = [pc |-> "running", kind |-> "orders", duration |-> d, start |-> start,
          from |-> from, bids |-> b, asks |-> a, accounts |-> l]
  /\ Began(start, from)
  /\ b = Pending \/ BidsOf(b, from, Len(past))
  /\ a = Pending \/ AsksOf(a, from, Len(past))
  /\ \/ l = Pending
     \/ \E i \in from .. Len(past) : l = Read(past[i].accounts)
     \/ \E i : Accepted(i, from, start, d) /\ l = Arrived(past[i].accounts)

RunningOrders(r) ==
  \E d \in Duration, start \in Nat, from \in Nat : \E b, a, l :
    OrdersParts(r, d, start, from, b, a, l)

FailedOrders(r) ==
  \E start \in Nat : \E l :
    /\ r = [pc |-> "failed", kind |-> "orders", start |-> start, accounts |-> l]
    /\ start <= now
    /\ \/ l = Pending
       \/ \E i : Lasted(i, start) /\ l = Read(past[i].accounts)
       \/ \E v : l = Arrived(v)

OrdersDone(r, d, start, from, to, i, j, k) ==
  /\ from \in 1 .. to /\ to \in 1 .. Len(past)
  /\ i \in from .. to /\ j \in from .. to
  /\ Accepted(k, from, start, d) /\ k <= to
  /\ r = [pc |-> "done", kind |-> "orders", duration |-> d, start |-> start,
          from |-> from, to |-> to,
          result |-> FilterForOpenOrders(Orders(past[i].book, "buy"),
                                         Orders(past[j].book, "sell"), past[k].accounts)]

DoneOrders(r) ==
  \E d \in Duration, start \in Nat, from \in Nat, to \in Nat : \E i, j, k :
    OrdersDone(r, d, start, from, to, i, j, k)

\* What a running call of findBestFeeDiscountKey has read so far.
DiscountParts(r, d, start, from, m, s) ==
  /\ r = [pc |-> "running", kind |-> "discount", duration |-> d, start |-> start,
          from |-> from, msrm |-> m, srm |-> s]
  /\ SupportsSrm
  /\ Began(start, from)
  /\ \/ m = Pending /\ s = Pending
     \/ /\ \E i \in from .. Len(past) : m = Arrived(Msrm(i))
        /\ s = Pending \/ \E i \in from .. Len(past) : s = Read(Srm(i))

RunningDiscount(r) ==
  \E d \in Duration, start \in Nat, from \in Nat : \E m, s :
    DiscountParts(r, d, start, from, m, s)

\* What findFeeDiscountKeys returns, of the states i and j.
Found(i, j) == IF SupportsSrm THEN Msrm(i) \cup Srm(j) ELSE {}

DoneDiscount(r) ==
  \E d \in Duration, start \in Nat, from \in Nat, to \in Nat : \E i, j :
    /\ from \in 1 .. to /\ to \in 1 .. Len(past)
    /\ Accepted(i, from, start, d) /\ i <= to
    /\ Accepted(j, from, start, d) /\ j <= to
    /\ r = [pc |-> "done", kind |-> "discount", duration |-> d, start |-> start,
            from |-> from, to |-> to, result |-> Best(Found(i, j))]

Rejected == [pc |-> "rejected", kind |-> "discount"]

\* A call, or what it has come to.
Known(r) ==
  \/ r \in {IdleCall, Rejected}
  \/ RunningOrders(r) \/ FailedOrders(r) \/ DoneOrders(r)
  \/ RunningDiscount(r) \/ DoneDiscount(r)

OrdersEntry(e) ==
  \E ts \in Nat : \E i :
    ts <= now /\ Lasted(i, ts) /\ e = [ts |-> ts, accounts |-> past[i].accounts]

DiscountEntry(e) ==
  \E ts \in Nat : \E i, j :
    ts <= now /\ Lasted(i, ts) /\ Lasted(j, ts) /\ e = [ts |-> ts, accounts |-> Found(i, j)]

CacheInv ==
  /\ cache["openOrders"] # NoEntry => OrdersEntry(cache["openOrders"])
  /\ cache["feeDiscount"] # NoEntry => DiscountEntry(cache["feeDiscount"])

\* An order has the same side and account in every state it is in the book.
BookInv ==
  \A i, j \in 1 .. Len(past) : \A o \in Order :
    past[i].book[o] # None /\ past[j].book[o] # None => past[i].book[o] = past[j].book[o]

TypeOK ==
  /\ now \in Nat
  /\ past \in Seq(ChainState) /\ Len(past) >= 1
  /\ DOMAIN cache = {"openOrders", "feeDiscount"}
  /\ DOMAIN call = Call

IInv ==
  /\ TypeOK
  /\ BookInv
  /\ CacheInv
  /\ \A c \in Call : Known(call[c])

-----------------------------------------------------------------------------
(* What time and changes of the chain leave true.                          *)

Grows ==
  /\ now' \in Nat /\ now' >= now
  /\ Len(past') \in Nat /\ Len(past) <= Len(past')
  /\ \A i \in 1 .. Len(past) : past'[i] = past[i]
  /\ \A i \in Len(past) + 1 .. Len(past') : past'[i].at \in Nat /\ past'[i].at >= now

LEMMA PastTypes ==
  ASSUME TypeOK
  PROVE  /\ Len(past) \in Nat /\ Len(past) >= 1 /\ now \in Nat
         /\ \A i \in 1 .. Len(past) : past[i] \in ChainState /\ past[i].at \in Nat
<1>1. \A i \in 1 .. Len(past) : past[i] \in ChainState
  BY DEF TypeOK
<1>2. \A s \in ChainState : s.at \in Nat
  BY DEF ChainState
<1> QED
  BY <1>1, <1>2 DEF TypeOK

LEMMA LastedStable ==
  ASSUME TypeOK, Grows, NEW i, NEW ts \in Nat, ts <= now, Lasted(i, ts)
  PROVE  Lasted(i, ts)'
<1>1. CASE i < Len(past)
  BY <1>1, PastTypes DEF Lasted, Grows
<1>2. CASE ~(i < Len(past))
  <2>1. i = Len(past)
    BY <1>2, PastTypes DEF Lasted
  <2>2. i < Len(past') => past'[i + 1].at \in Nat /\ past'[i + 1].at >= now
    BY <2>1, PastTypes DEF Grows
  <2> QED
    BY <2>1, <2>2, PastTypes DEF Lasted, Grows
<1> QED
  BY <1>1, <1>2

LEMMA AcceptedStable ==
  ASSUME TypeOK, Grows, NEW i, NEW from \in Nat, NEW start \in Nat, NEW d \in Nat,
         from <= Len(past), Accepted(i, from, start, d)
  PROVE  Accepted(i, from, start, d)'
BY PastTypes DEF Accepted, Grows

LEMMA BeganStable ==
  ASSUME TypeOK, Grows, NEW start, NEW from, Began(start, from)
  PROVE  Began(start, from)'
<1>1. \A i \in from + 1 .. Len(past') : past'[i].at >= start
  <2> TAKE i \in from + 1 .. Len(past')
  <2>1. CASE i <= Len(past)
    <3>1. i \in 1 .. Len(past) /\ i \in from + 1 .. Len(past)
      BY <2>1, PastTypes DEF Began, Grows
    <3>2. past'[i] = past[i] /\ past[i].at >= start
      BY <3>1 DEF Began, Grows
    <3> QED
      BY <3>2
  <2>2. CASE ~(i <= Len(past))
    <3>1. i \in Len(past) + 1 .. Len(past')
      BY <2>2, PastTypes DEF Began, Grows
    <3>2. past'[i].at \in Nat /\ past'[i].at >= now
      BY <3>1 DEF Grows
    <3>3. start \in Nat /\ start <= now /\ now \in Nat
      BY PastTypes DEF Began
    <3> QED
      BY <3>2, <3>3
  <2> QED
    BY <2>1, <2>2
<1> QED
  BY <1>1, PastTypes DEF Began, Grows

LEMMA RunningOrdersStable ==
  ASSUME TypeOK, Grows, NEW r, RunningOrders(r)
  PROVE  RunningOrders(r)'
<1>1a. PICK d \in Duration, start \in Nat, from \in Nat : \E b, a, l :
        OrdersParts(r, d, start, from, b, a, l)
  BY DEF RunningOrders
<1>1. PICK b, a, l :
        OrdersParts(r, d, start, from, b, a, l)
  BY <1>1a
<1>2. Began(start, from)
  BY <1>1 DEF OrdersParts
<1>3. from \in 1 .. Len(past) /\ Began(start, from)'
  BY <1>2, BeganStable DEF Began
<1>4. \A i \in from .. Len(past) : i \in from .. Len(past') /\ past'[i] = past[i]
  BY <1>3, PastTypes DEF Grows
<1>5. b = Pending \/ BidsOf(b, from, Len(past))'
  BY <1>1, <1>4 DEF OrdersParts, BidsOf
<1>6. a = Pending \/ AsksOf(a, from, Len(past))'
  BY <1>1, <1>4 DEF OrdersParts, AsksOf
<1>7. ASSUME NEW i, Accepted(i, from, start, d)
      PROVE  Accepted(i, from, start, d)' /\ past'[i] = past[i]
  <2>1. d \in Nat /\ from <= Len(past)
    BY <1>3, ReadsAssumption, PastTypes
  <2>2. Accepted(i, from, start, d)'
    BY <1>7, <2>1, AcceptedStable
  <2>3. past'[i] = past[i]
    BY <1>7 DEF Accepted, Grows
  <2> QED
    BY <2>2, <2>3
<1>8. \/ l = Pending
      \/ \E i \in from .. Len(past') : l = Read(past'[i].accounts)
      \/ \E i : Accepted(i, from, start, d)' /\ l = Arrived(past'[i].accounts)
  BY <1>1, <1>4, <1>7 DEF OrdersParts
<1>9. OrdersParts(r, d, start, from, b, a, l)'
  BY <1>1, <1>3, <1>5, <1>6, <1>8 DEF OrdersParts
<1> QED
  BY <1>9 DEF RunningOrders

LEMMA FailedOrdersStable ==
  ASSUME TypeOK, Grows, NEW r, FailedOrders(r)
  PROVE  FailedOrders(r)'
<1>1. PICK start \in Nat : \E l :
        /\ r = [pc |-> "failed", kind |-> "orders", start |-> start, accounts |-> l]
        /\ start <= now
        /\ \/ l = Pending
           \/ \E i : Lasted(i, start) /\ l = Read(past[i].accounts)
           \/ \E v : l = Arrived(v)
  BY DEF FailedOrders
<1>2. start <= now'
  BY <1>1, PastTypes DEF Grows
<1>3. ASSUME NEW i, Lasted(i, start)
      PROVE  Lasted(i, start)' /\ past'[i] = past[i]
  BY <1>1, <1>3, LastedStable DEF Lasted, Grows
<1> QED
  BY <1>1, <1>2, <1>3 DEF FailedOrders

LEMMA DoneOrdersStable ==
  ASSUME TypeOK, Grows, NEW r, DoneOrders(r)
  PROVE  DoneOrders(r)'
<1>1a. PICK d \in Duration, start \in Nat, from \in Nat, to \in Nat : \E i, j, k :
        OrdersDone(r, d, start, from, to, i, j, k)
  BY DEF DoneOrders
<1>1. PICK i, j, k :
        OrdersDone(r, d, start, from, to, i, j, k)
  BY <1>1a
<1>2. from \in 1 .. to /\ to \in 1 .. Len(past') /\ from <= Len(past)
  BY <1>1, PastTypes DEF Grows, OrdersDone
<1>3. past'[i] = past[i] /\ past'[j] = past[j]
  BY <1>1, PastTypes DEF Grows, OrdersDone
<1>4. Accepted(k, from, start, d)' /\ past'[k] = past[k]
  <2>1. Accepted(k, from, start, d) /\ d \in Nat
    BY <1>1, ReadsAssumption DEF OrdersDone
  <2>2. Accepted(k, from, start, d)'
    BY <1>2, <2>1, AcceptedStable
  <2>3. past'[k] = past[k]
    BY <2>1 DEF Accepted, Grows
  <2> QED
    BY <2>2, <2>3
<1>5. OrdersDone(r, d, start, from, to, i, j, k)'
  BY <1>1, <1>2, <1>3, <1>4 DEF OrdersDone
<1> QED
  BY <1>5 DEF DoneOrders

LEMMA RunningDiscountStable ==
  ASSUME TypeOK, Grows, NEW r, RunningDiscount(r)
  PROVE  RunningDiscount(r)'
<1>1a. PICK d \in Duration, start \in Nat, from \in Nat : \E m, s :
        DiscountParts(r, d, start, from, m, s)
  BY DEF RunningDiscount
<1>1. PICK m, s :
        DiscountParts(r, d, start, from, m, s)
  BY <1>1a
<1>2. Began(start, from)
  BY <1>1 DEF DiscountParts
<1>3. from \in 1 .. Len(past) /\ Began(start, from)'
  BY <1>2, BeganStable DEF Began
<1>4. \A i \in from .. Len(past) :
        i \in from .. Len(past') /\ Msrm(i)' = Msrm(i) /\ Srm(i)' = Srm(i)
  BY <1>3, PastTypes DEF Grows, Msrm, Srm
<1>5. \/ m = Pending /\ s = Pending
      \/ /\ \E i \in from .. Len(past') : m = Arrived(Msrm(i)')
         /\ s = Pending \/ \E i \in from .. Len(past') : s = Read(Srm(i)')
  BY <1>1, <1>4 DEF DiscountParts
<1>6. DiscountParts(r, d, start, from, m, s)'
  BY <1>1, <1>3, <1>5 DEF DiscountParts
<1> QED
  BY <1>6 DEF RunningDiscount

LEMMA DoneDiscountStable ==
  ASSUME TypeOK, Grows, NEW r, DoneDiscount(r)
  PROVE  DoneDiscount(r)'
<1>1. PICK d \in Duration, start \in Nat, from \in Nat, to \in Nat : \E i, j :
        /\ from \in 1 .. to /\ to \in 1 .. Len(past)
        /\ Accepted(i, from, start, d) /\ i <= to
        /\ Accepted(j, from, start, d) /\ j <= to
        /\ r = [pc |-> "done", kind |-> "discount", duration |-> d, start |-> start,
                from |-> from, to |-> to, result |-> Best(Found(i, j))]
  BY DEF DoneDiscount
<1>2. from \in 1 .. to /\ to \in 1 .. Len(past') /\ from <= Len(past)
  BY <1>1, PastTypes DEF Grows
<1>3. ASSUME NEW i, Accepted(i, from, start, d)
      PROVE  Accepted(i, from, start, d)' /\ i \in 1 .. Len(past)
  BY <1>2, <1>3, AcceptedStable, ReadsAssumption DEF Accepted
<1>4. \A i, j \in 1 .. Len(past) : Found(i, j)' = Found(i, j)
  BY PastTypes DEF Found, Grows, Msrm, Srm
<1>5. PICK i, j :
        /\ Accepted(i, from, start, d) /\ i <= to
        /\ Accepted(j, from, start, d) /\ j <= to
        /\ r = [pc |-> "done", kind |-> "discount", duration |-> d, start |-> start,
                from |-> from, to |-> to, result |-> Best(Found(i, j))]
  BY <1>1
<1>6. /\ Accepted(i, from, start, d)' /\ Accepted(j, from, start, d)'
      /\ Found(i, j)' = Found(i, j)
  BY <1>3, <1>4, <1>5
<1>7. from \in 1 .. to
  BY <1>1
<1> QED
  BY <1>2, <1>5, <1>6, <1>7, SMTT(30) DEF DoneDiscount

\* What is known of a call remains known.
LEMMA KnownStable ==
  ASSUME TypeOK, Grows, NEW r, Known(r)
  PROVE  Known(r)'
BY RunningOrdersStable, FailedOrdersStable, DoneOrdersStable, RunningDiscountStable,
   DoneDiscountStable DEF Known, IdleCall, Rejected

LEMMA EntriesStable ==
  ASSUME TypeOK, Grows, NEW e
  PROVE  /\ OrdersEntry(e) => OrdersEntry(e)'
         /\ DiscountEntry(e) => DiscountEntry(e)'
<1>1. ASSUME NEW ts \in Nat, NEW i, ts <= now, Lasted(i, ts)
      PROVE  ts <= now' /\ Lasted(i, ts)' /\ i \in 1 .. Len(past) /\ past'[i] = past[i]
  <2>1. Lasted(i, ts)'
    BY <1>1, LastedStable
  <2>. QED
    BY <1>1, <2>1, PastTypes DEF Lasted, Grows
<1>2. OrdersEntry(e) => OrdersEntry(e)'
  BY <1>1 DEF OrdersEntry
<1>3. \A i, j \in 1 .. Len(past) : Found(i, j)' = Found(i, j)
  BY PastTypes DEF Found, Grows, Msrm, Srm
<1>4. DiscountEntry(e) => DiscountEntry(e)'
  BY <1>1, <1>3 DEF DiscountEntry
<1> QED
  BY <1>2, <1>4

-----------------------------------------------------------------------------
(* Steps of the calls, which leave time and the chain alone.               *)

LEMMA UnchangedGrows ==
  ASSUME TypeOK, UNCHANGED <<now, past>>
  PROVE  Grows
BY PastTypes DEF Grows

\* A step of one call, after which it is known, keeps the invariant, if an entry it
\* stores is good.
LEMMA CallStep ==
  ASSUME IInv, UNCHANGED <<now, past>>, NEW c \in Call,
         NEW r, Known(r), call' = [call EXCEPT ![c] = r],
         \/ cache' = cache
         \/ \E e : OrdersEntry(e) /\ cache' = [cache EXCEPT !["openOrders"] = e]
         \/ \E e : DiscountEntry(e) /\ cache' = [cache EXCEPT !["feeDiscount"] = e]
  PROVE  IInv'
<1>1. TypeOK /\ Grows /\ TypeOK'
  BY UnchangedGrows DEF IInv, TypeOK
<1>2. BookInv'
  BY DEF IInv, BookInv
<1>3. \A b \in Call : Known(call'[b])
  BY <1>1 DEF IInv, TypeOK
<1>4. \A b \in Call : Known(call[b])'
  BY <1>1, <1>3, KnownStable
<1>5. /\ cache'["openOrders"] # NoEntry => OrdersEntry(cache'["openOrders"])
      /\ cache'["feeDiscount"] # NoEntry => DiscountEntry(cache'["feeDiscount"])
  BY <1>1 DEF IInv, CacheInv, TypeOK
<1>6. CacheInv'
  BY <1>1, <1>5, EntriesStable DEF CacheInv, NoEntry
<1> QED
  BY <1>1, <1>2, <1>4, <1>6 DEF IInv

LEMMA PcAndKind ==
  ASSUME NEW r
  PROVE  /\ RunningOrders(r) => r.pc = "running" /\ r.kind = "orders"
         /\ FailedOrders(r) => r.pc = "failed" /\ r.kind = "orders"
         /\ DoneOrders(r) => r.pc = "done" /\ r.kind = "orders"
         /\ RunningDiscount(r) => r.pc = "running" /\ r.kind = "discount"
         /\ DoneDiscount(r) => r.pc = "done" /\ r.kind = "discount"
         /\ r = IdleCall => r.pc = "idle"
         /\ r = Rejected => r.pc = "rejected"
<1>1. RunningOrders(r) => r.pc = "running" /\ r.kind = "orders"
  BY DEF RunningOrders, OrdersParts
<1>2. FailedOrders(r) => r.pc = "failed" /\ r.kind = "orders"
  BY DEF FailedOrders
<1>3. DoneOrders(r) => r.pc = "done" /\ r.kind = "orders"
  BY DEF DoneOrders, OrdersDone
<1>4. RunningDiscount(r) => r.pc = "running" /\ r.kind = "discount"
  BY DEF RunningDiscount, DiscountParts
<1>5. DoneDiscount(r) => r.pc = "done" /\ r.kind = "discount"
  BY DEF DoneDiscount
<1> QED
  BY <1>1, <1>2, <1>3, <1>4, <1>5 DEF IdleCall, Rejected

LEMMA RunningOrdersIs ==
  ASSUME IInv, NEW c \in Call, Running(c, "orders")
  PROVE  /\ TypeOK
         /\ \E d \in Duration, start \in Nat, from \in Nat : \E b, a, l :
              OrdersParts(call[c], d, start, from, b, a, l)
<1>1. Known(call[c]) /\ TypeOK
  BY DEF IInv
<1>2. call[c].pc = "running" /\ call[c].kind = "orders"
  BY DEF Running
<1>3. RunningOrders(call[c])
  BY <1>1, <1>2, PcAndKind DEF Known
<1> QED
  BY <1>1, <1>3 DEF RunningOrders

LEMMA LoadOrdersForOwnerKeepsIInv ==
  ASSUME IInv, NEW c \in Call, NEW d \in Duration, LoadOrdersForOwner(c, d)
  PROVE  IInv'
<1> DEFINE l == IF CacheHit("openOrders", d) THEN Arrived(cache["openOrders"].accounts)
                ELSE Pending
           r == [pc |-> "running", kind |-> "orders", duration |-> d, start |-> now,
                 from |-> Len(past), bids |-> Pending, asks |-> Pending, accounts |-> l]
<1>1. TypeOK /\ d \in Nat /\ now \in Nat /\ Len(past) \in Nat
  BY ReadsAssumption, PastTypes DEF IInv
<1>2. Began(now, Len(past))
  BY <1>1, PastTypes DEF Began
<1>3. l = Pending \/ \E i : Accepted(i, Len(past), now, d) /\ l = Arrived(past[i].accounts)
  <2>1. CASE ~CacheHit("openOrders", d)
    BY <2>1
  <2>2. CASE CacheHit("openOrders", d)
    <3>1. OrdersEntry(cache["openOrders"])
      BY <2>2 DEF CacheHit, IInv, CacheInv
    <3>2a. PICK ts \in Nat : \E i :
            /\ ts <= now /\ Lasted(i, ts)
            /\ cache["openOrders"] = [ts |-> ts, accounts |-> past[i].accounts]
      BY <3>1 DEF OrdersEntry
    <3>2. PICK i :
            /\ ts <= now /\ Lasted(i, ts)
            /\ cache["openOrders"] = [ts |-> ts, accounts |-> past[i].accounts]
      BY <3>2a
    <3>3. now - ts < d
      BY <2>2, <3>2 DEF CacheHit
    <3>4. Accepted(i, Len(past), now, d)
      <4>1. i < Len(past) => past[i + 1].at \in Nat /\ past[i + 1].at >= ts
        BY <1>1, <3>2, PastTypes DEF Lasted
      <4> QED
        BY <1>1, <3>2, <3>3, <4>1 DEF Lasted, Accepted
    <3> QED
      BY <2>2, <3>2, <3>4
  <2> QED
    BY <2>1, <2>2
<1>4. call' = [call EXCEPT ![c] = r] /\ UNCHANGED <<now, past, cache>>
  BY DEF LoadOrdersForOwner
<1> HIDE DEF l
<1>5. RunningOrders(r)
  <2>1. OrdersParts(r, d, now, Len(past), Pending, Pending, l)
    BY <1>2, <1>3 DEF OrdersParts
  <2> HIDE DEF r
  <2> QED
    BY <1>1, <2>1 DEF RunningOrders
<1> HIDE DEF r
<1> QED
  BY <1>4, <1>5, CallStep DEF Known

LEMMA LoadBidsKeepsIInv ==
  ASSUME IInv, NEW c \in Call, LoadBids(c) \/ LoadAsks(c)
  PROVE  IInv'
<1>1. TypeOK /\ Running(c, "orders")
  BY DEF LoadBids, LoadAsks, IInv
<1>2a. PICK d \in Duration, start \in Nat, from \in Nat : \E b, a, l :
        OrdersParts(call[c], d, start, from, b, a, l)
  BY <1>1, RunningOrdersIs
<1>2. PICK b, a, l :
        OrdersParts(call[c], d, start, from, b, a, l)
  BY <1>2a
<1>3. Len(past) \in from .. Len(past)
  BY <1>1, <1>2, PastTypes DEF OrdersParts, Began
<1> DEFINE r(x, y) == [pc |-> "running", kind |-> "orders", duration |-> d, start |-> start,
                       from |-> from, bids |-> x, asks |-> y, accounts |-> l]
<1>4. \A x, y : /\ x = Pending \/ BidsOf(x, from, Len(past))
                /\ y = Pending \/ AsksOf(y, from, Len(past))
                => RunningOrders(r(x, y))
  BY <1>2 DEF RunningOrders, OrdersParts
<1>5. CASE LoadBids(c)
  <2>1. BidsOf(Arrived(Orders(chain.book, "buy")), from, Len(past))
    BY <1>3 DEF BidsOf, chain
  <2> DEFINE arrived == Arrived(Orders(chain.book, "buy"))
  <2> HIDE DEF arrived
  <2>2. /\ call' = [call EXCEPT ![c] = r(arrived, a)]
        /\ UNCHANGED <<now, past, cache>>
    <3>1. [call[c] EXCEPT !.bids = arrived] = r(arrived, a)
      BY <1>2 DEF OrdersParts
    <3> QED
      BY <3>1, <1>5 DEF LoadBids, arrived
  <2>3. RunningOrders(r(arrived, a))
    BY <1>2, <1>4, <2>1 DEF OrdersParts, arrived
  <2> HIDE DEF r
  <2> QED
    BY <2>2, <2>3, CallStep DEF Known
<1>6. CASE LoadAsks(c)
  <2>1. AsksOf(Arrived(Orders(chain.book, "sell")), from, Len(past))
    BY <1>3 DEF AsksOf, chain
  <2> DEFINE arrived == Arrived(Orders(chain.book, "sell"))
  <2> HIDE DEF arrived
  <2>2. /\ call' = [call EXCEPT ![c] = r(b, arrived)]
        /\ UNCHANGED <<now, past, cache>>
    <3>1. [call[c] EXCEPT !.asks = arrived] = r(b, arrived)
      BY <1>2 DEF OrdersParts
    <3> QED
      BY <3>1, <1>6 DEF LoadAsks, arrived
  <2>3. RunningOrders(r(b, arrived))
    BY <1>2, <1>4, <2>1 DEF OrdersParts, arrived
  <2> HIDE DEF r
  <2> QED
    BY <2>2, <2>3, CallStep DEF Known
<1> QED
  BY <1>5, <1>6

LEMMA FailedOrdersIs ==
  ASSUME IInv, NEW c \in Call, call[c].pc = "failed"
  PROVE  \E start \in Nat : \E l :
           /\ call[c] = [pc |-> "failed", kind |-> "orders", start |-> start,
                         accounts |-> l]
           /\ start <= now
           /\ \/ l = Pending
              \/ \E i : Lasted(i, start) /\ l = Read(past[i].accounts)
              \/ \E v : l = Arrived(v)
BY PcAndKind DEF IInv, Known, FailedOrders

\* In every state from the one in which a call began, the chain was after it began.
LEMMA LastedSince ==
  ASSUME TypeOK, NEW start, NEW from, Began(start, from), NEW i \in from .. Len(past)
  PROVE  Lasted(i, start) /\ \A d \in Duration : Accepted(i, from, start, d)
BY PastTypes DEF Began, Lasted, Accepted

LEMMA AccountsReadKeepsIInv ==
  ASSUME IInv, NEW c \in Call, AccountsRead(c)
  PROVE  IInv'
<1> DEFINE read == Read(past[Len(past)].accounts)
           q == [call[c] EXCEPT !.accounts = read]
<1>1. TypeOK /\ Len(past) \in Nat /\ Len(past) >= 1
  BY PastTypes DEF IInv
<1>2. /\ call' = [call EXCEPT ![c] = q]
      /\ UNCHANGED <<now, past, cache>>
  BY DEF AccountsRead, chain
<1>3. CASE Running(c, "orders")
  <2>1a. PICK d \in Duration, start \in Nat, from \in Nat : \E b, a, l :
          OrdersParts(call[c], d, start, from, b, a, l)
    BY <1>3, RunningOrdersIs
  <2>1. PICK b, a, l :
          OrdersParts(call[c], d, start, from, b, a, l)
    BY <2>1a
  <2>2. Len(past) \in from .. Len(past)
    BY <1>1, <2>1 DEF OrdersParts, Began
  <2>3. q = [pc |-> "running", kind |-> "orders", duration |-> d, start |-> start,
             from |-> from, bids |-> b, asks |-> a, accounts |-> read]
    BY <2>1 DEF OrdersParts
  <2>4. \E i \in from .. Len(past) : read = Read(past[i].accounts)
    BY <2>2
  <2> HIDE DEF read, q
  <2>5. RunningOrders(q)
    BY <2>1, <2>3, <2>4 DEF OrdersParts, RunningOrders
  <2> QED
    BY <1>2, <2>5, CallStep DEF Known
<1>4. CASE call[c].pc = "failed"
  <2>1a. PICK start \in Nat : \E l :
          /\ call[c] = [pc |-> "failed", kind |-> "orders", start |-> start,
                        accounts |-> l]
          /\ start <= now
    BY <1>4, FailedOrdersIs
  <2>1. PICK l :
          /\ call[c] = [pc |-> "failed", kind |-> "orders", start |-> start,
                        accounts |-> l]
          /\ start <= now
    BY <2>1a
  <2>2. q = [pc |-> "failed", kind |-> "orders", start |-> start, accounts |-> read]
    BY <2>1
  <2>3. Lasted(Len(past), start)
    BY <1>1 DEF Lasted
  <2>4. \E i : Lasted(i, start) /\ read = Read(past[i].accounts)
    BY <2>3
  <2> HIDE DEF read, q
  <2>5. FailedOrders(q)
    BY <2>1, <2>2, <2>4 DEF FailedOrders
  <2> QED
    BY <1>2, <2>5, CallStep DEF Known
<1> QED
  BY <1>3, <1>4 DEF AccountsRead

LEMMA AccountsArriveKeepsIInv ==
  ASSUME IInv, NEW c \in Call, AccountsArrive(c)
  PROVE  IInv'
<1> DEFINE q == [call[c] EXCEPT !.accounts = Arrived(@.value)]
           e == [ts |-> call[c].start, accounts |-> call[c].accounts.value]
<1>1. TypeOK
  BY DEF IInv
<1>2. /\ call' = [call EXCEPT ![c] = q]
      /\ cache' = [cache EXCEPT !["openOrders"] = e]
      /\ UNCHANGED <<now, past>>
  BY DEF AccountsArrive, Store
<1>3. call[c].accounts.state = "read"
  BY DEF AccountsArrive
<1>4. CASE Running(c, "orders")
  <2>1a. PICK d \in Duration, start \in Nat, from \in Nat : \E b, a, l :
          OrdersParts(call[c], d, start, from, b, a, l)
    BY <1>4, RunningOrdersIs
  <2>1. PICK b, a, l :
          OrdersParts(call[c], d, start, from, b, a, l)
    BY <2>1a
  <2>2. PICK i \in from .. Len(past) : l = Read(past[i].accounts)
    BY <1>3, <2>1 DEF OrdersParts, Pending, Read, Arrived
  <2>3. Lasted(i, start) /\ Accepted(i, from, start, d) /\ start <= now
    BY <1>1, <2>1, <2>2, LastedSince DEF OrdersParts, Began
  <2>4. q = [pc |-> "running", kind |-> "orders", duration |-> d, start |-> start,
             from |-> from, bids |-> b, asks |-> a,
             accounts |-> Arrived(past[i].accounts)]
    BY <2>1, <2>2 DEF OrdersParts, Read
  <2>5. e = [ts |-> start, accounts |-> past[i].accounts]
    BY <2>1, <2>2 DEF OrdersParts, Read
  <2> HIDE DEF q, e
  <2>6. RunningOrders(q)
    BY <2>1, <2>3, <2>4 DEF OrdersParts, RunningOrders
  <2>7. OrdersEntry(e)
    BY <2>3, <2>5 DEF OrdersEntry
  <2> QED
    BY <1>2, <2>6, <2>7, CallStep DEF Known
<1>5. CASE call[c].pc = "failed"
  <2>1a. PICK start \in Nat : \E l :
          /\ call[c] = [pc |-> "failed", kind |-> "orders", start |-> start,
                        accounts |-> l]
          /\ start <= now
          /\ \/ l = Pending
             \/ \E i : Lasted(i, start) /\ l = Read(past[i].accounts)
             \/ \E v : l = Arrived(v)
    BY <1>5, FailedOrdersIs
  <2>1. PICK l :
          /\ call[c] = [pc |-> "failed", kind |-> "orders", start |-> start,
                        accounts |-> l]
          /\ start <= now
          /\ \/ l = Pending
             \/ \E i : Lasted(i, start) /\ l = Read(past[i].accounts)
             \/ \E v : l = Arrived(v)
    BY <2>1a
  <2>2. PICK i : Lasted(i, start) /\ l = Read(past[i].accounts)
    BY <1>3, <2>1 DEF Pending, Read, Arrived
  <2>3. q = [pc |-> "failed", kind |-> "orders", start |-> start,
             accounts |-> Arrived(past[i].accounts)]
    BY <2>1, <2>2 DEF Read
  <2>4. e = [ts |-> start, accounts |-> past[i].accounts]
    BY <2>1, <2>2 DEF Read
  <2> HIDE DEF q, e
  <2>5. FailedOrders(q)
    BY <2>1, <2>3 DEF FailedOrders
  <2>6. OrdersEntry(e)
    BY <2>1, <2>2, <2>4 DEF OrdersEntry
  <2> QED
    BY <1>2, <2>5, <2>6, CallStep DEF Known
<1> QED
  BY <1>4, <1>5 DEF AccountsArrive

LEMMA OrdersLoadedKeepsIInv ==
  ASSUME IInv, NEW c \in Call, OrdersLoaded(c)
  PROVE  IInv'
<1>1. TypeOK /\ Running(c, "orders") /\ Len(past) \in Nat
  BY PastTypes DEF IInv, OrdersLoaded
<1>2a. PICK d \in Duration, start \in Nat, from \in Nat : \E b, a, l :
        OrdersParts(call[c], d, start, from, b, a, l)
  BY <1>1, RunningOrdersIs
<1>2. PICK b, a, l :
        OrdersParts(call[c], d, start, from, b, a, l)
  BY <1>2a
<1>3. b.state = "arrived" /\ a.state = "arrived" /\ l.state = "arrived"
  BY <1>2 DEF OrdersLoaded, OrdersParts
<1>4. PICK i \in from .. Len(past) : b = Arrived(Orders(past[i].book, "buy"))
  BY <1>2, <1>3 DEF OrdersParts, Pending, BidsOf
<1>5. PICK j \in from .. Len(past) : a = Arrived(Orders(past[j].book, "sell"))
  BY <1>2, <1>3 DEF OrdersParts, Pending, AsksOf
<1>6. PICK k : Accepted(k, from, start, d) /\ l = Arrived(past[k].accounts)
  BY <1>2, <1>3 DEF OrdersParts, Pending, Read
<1> DEFINE result == FilterForOpenOrders(Orders(past[i].book, "buy"),
                                         Orders(past[j].book, "sell"), past[k].accounts)
           q == [pc |-> "done", kind |-> "orders", duration |-> d, start |-> start,
                 from |-> from, to |-> Len(past), result |-> result]
<1>7. result = FilterForOpenOrders(call[c].bids.value, call[c].asks.value,
                                   call[c].accounts.value)
  BY <1>2, <1>4, <1>5, <1>6 DEF OrdersParts, Arrived
<1>8. call' = [call EXCEPT ![c] = q] /\ UNCHANGED <<now, past, cache>>
  <2> HIDE DEF result
  <2> QED
    BY <1>2, <1>7 DEF OrdersLoaded, OrdersParts, Done
<1>9. DoneOrders(q)
  <2>1. OrdersDone(q, d, start, from, Len(past), i, j, k)
    BY <1>1, <1>2, <1>6, PastTypes DEF OrdersDone, OrdersParts, Began, Accepted
  <2> HIDE DEF q
  <2> QED
    BY <1>1, <2>1 DEF DoneOrders
<1> HIDE DEF q
<1> QED
  BY <1>8, <1>9, CallStep DEF Known

LEMMA OrdersFailKeepsIInv ==
  ASSUME IInv, NEW c \in Call, OrdersFail(c)
  PROVE  IInv'
<1>1. TypeOK /\ Running(c, "orders")
  BY DEF IInv, OrdersFail
<1>2a. PICK d \in Duration, start \in Nat, from \in Nat : \E b, a, l :
        OrdersParts(call[c], d, start, from, b, a, l)
  BY <1>1, RunningOrdersIs
<1>2. PICK b, a, l :
        OrdersParts(call[c], d, start, from, b, a, l)
  BY <1>2a
<1> DEFINE q == [pc |-> "failed", kind |-> "orders", start |-> start, accounts |-> l]
<1>3. call' = [call EXCEPT ![c] = q] /\ UNCHANGED <<now, past, cache>>
  BY <1>2 DEF OrdersFail, OrdersParts
<1>4. start <= now /\ \A i \in from .. Len(past) : Lasted(i, start)
  BY <1>1, <1>2, LastedSince DEF OrdersParts, Began
<1>5. FailedOrders(q)
  BY <1>2, <1>4 DEF FailedOrders, OrdersParts
<1> HIDE DEF q
<1> QED
  BY <1>3, <1>5, CallStep DEF Known

LEMMA RunningDiscountIs ==
  ASSUME IInv, NEW c \in Call, Running(c, "discount")
  PROVE  /\ TypeOK
         /\ \E d \in Duration, start \in Nat, from \in Nat : \E m, s :
              DiscountParts(call[c], d, start, from, m, s)
<1>1. Known(call[c]) /\ TypeOK
  BY DEF IInv
<1>2. call[c].pc = "running" /\ call[c].kind = "discount"
  BY DEF Running
<1>3. RunningDiscount(call[c])
  BY <1>1, <1>2, PcAndKind DEF Known
<1> QED
  BY <1>1, <1>3 DEF RunningDiscount

LEMMA FindBestFeeDiscountKeyKeepsIInv ==
  ASSUME IInv, NEW c \in Call, NEW d \in Duration, FindBestFeeDiscountKey(c, d)
  PROVE  IInv'
<1> DEFINE n == Len(past)
           r(result) == [pc |-> "done", kind |-> "discount", duration |-> d, start |-> now,
                         from |-> n, to |-> n, result |-> result]
           q == [pc |-> "running", kind |-> "discount", duration |-> d, start |-> now,
                 from |-> n, msrm |-> Pending, srm |-> Pending]
           e == [ts |-> now, accounts |-> {}]
<1>1. TypeOK /\ d \in Nat /\ now \in Nat /\ n \in Nat /\ n \in 1 .. n
  BY ReadsAssumption, PastTypes DEF IInv
<1>2. Began(now, n) /\ Lasted(n, now) /\ Accepted(n, n, now, d)
  BY <1>1, PastTypes DEF Began, Lasted, Accepted
<1>3. UNCHANGED <<now, past>>
  BY DEF FindBestFeeDiscountKey
<1>4. ASSUME NEW i, NEW j, Accepted(i, n, now, d), Accepted(j, n, now, d)
      PROVE  DoneDiscount(r(Best(Found(i, j))))
  <2>1. i <= n /\ j <= n
    BY <1>1, <1>4 DEF Accepted
  <2> HIDE DEF n
  <2> QED
    BY <1>1, <1>4, <2>1 DEF DoneDiscount, n
<1>5. CASE CacheHit("feeDiscount", d)
  <2>1. DiscountEntry(cache["feeDiscount"])
    BY <1>5 DEF CacheHit, IInv, CacheInv
  <2>2a. PICK ts \in Nat : \E i, j :
          /\ ts <= now /\ Lasted(i, ts) /\ Lasted(j, ts)
          /\ cache["feeDiscount"] = [ts |-> ts, accounts |-> Found(i, j)]
    BY <2>1 DEF DiscountEntry
  <2>2. PICK i, j :
          /\ ts <= now /\ Lasted(i, ts) /\ Lasted(j, ts)
          /\ cache["feeDiscount"] = [ts |-> ts, accounts |-> Found(i, j)]
    BY <2>2a
  <2>3. now - ts < d
    BY <1>5, <2>2 DEF CacheHit
  <2>4. ASSUME NEW k, Lasted(k, ts) PROVE Accepted(k, n, now, d)
    <3>1. k < n => past[k + 1].at \in Nat /\ past[k + 1].at >= ts
      BY <1>1, <2>4, PastTypes DEF Lasted
    <3> QED
      BY <1>1, <2>2, <2>3, <2>4, <3>1 DEF Lasted, Accepted
  <2>5. DoneDiscount(r(Best(Found(i, j))))
    BY <1>4, <2>2, <2>4
  <2>6. call' = [call EXCEPT ![c] = r(Best(Found(i, j)))] /\ cache' = cache
    BY <1>5, <2>2 DEF FindBestFeeDiscountKey, Done
  <2> HIDE DEF r
  <2> QED
    BY <1>3, <2>5, <2>6, CallStep DEF Known
<1>6. CASE ~CacheHit("feeDiscount", d) /\ SupportsSrm
  <2>1. call' = [call EXCEPT ![c] = q] /\ cache' = cache
    BY <1>6 DEF FindBestFeeDiscountKey
  <2>2. DiscountParts(q, d, now, n, Pending, Pending)
    BY <1>2, <1>6 DEF DiscountParts
  <2>3. RunningDiscount(q)
    BY <1>1, <2>2 DEF RunningDiscount
  <2> HIDE DEF q
  <2> QED
    BY <1>3, <2>1, <2>3, CallStep DEF Known
<1>7. CASE ~CacheHit("feeDiscount", d) /\ ~SupportsSrm
  <2>1. call' = [call EXCEPT ![c] = r(Best({}))]
    BY <1>7 DEF FindBestFeeDiscountKey, Done
  <2>2. cache' = [cache EXCEPT !["feeDiscount"] = e]
    BY <1>7 DEF FindBestFeeDiscountKey
  <2>3. Found(n, n) = {}
    BY <1>7 DEF Found
  <2>4. DoneDiscount(r(Best({})))
    BY <1>2, <1>4, <2>3
  <2>5. DiscountEntry(e)
    <3>1. now <= now /\ e = [ts |-> now, accounts |-> Found(n, n)]
      BY <1>1, <2>3
    <3> HIDE DEF e, n
    <3> QED
      BY <1>1, <1>2, <3>1 DEF DiscountEntry
  <2> HIDE DEF r, e
  <2> QED
    BY <1>3, <2>1, <2>2, <2>4, <2>5, CallStep DEF Known
<1> QED
  BY <1>5, <1>6, <1>7

LEMMA DiscountReadsKeepIInv ==
  ASSUME IInv, NEW c \in Call, MsrmArrive(c) \/ SrmRead(c)
  PROVE  IInv'
<1>1. TypeOK /\ Running(c, "discount") /\ Len(past) \in Nat
  BY PastTypes DEF IInv, MsrmArrive, SrmRead
<1>2a. PICK d \in Duration, start \in Nat, from \in Nat : \E m, s :
        DiscountParts(call[c], d, start, from, m, s)
  BY <1>1, RunningDiscountIs
<1>2. PICK m, s :
        DiscountParts(call[c], d, start, from, m, s)
  BY <1>2a
<1>3. Len(past) \in from .. Len(past)
  BY <1>1, <1>2, PastTypes DEF DiscountParts, Began
<1> DEFINE q(x, y) == [pc |-> "running", kind |-> "discount", duration |-> d,
                       start |-> start, from |-> from, msrm |-> x, srm |-> y]
           msrm == Arrived(Accounts(MsrmAccount, chain.holding))
           srm == Read(Accounts(SrmAccount, chain.holding))
<1>4. /\ \E i \in from .. Len(past) : msrm = Arrived(Msrm(i))
      /\ \E i \in from .. Len(past) : srm = Read(Srm(i))
  BY <1>3 DEF chain, Msrm, Srm
<1> HIDE DEF msrm, srm
<1>5. CASE MsrmArrive(c)
  <2>1. m = Pending /\ s = Pending
    BY <1>2, <1>5 DEF MsrmArrive, DiscountParts, Pending, Arrived
  <2>2. [call[c] EXCEPT !.msrm = msrm] = q(msrm, Pending)
    BY <1>2, <2>1 DEF DiscountParts
  <2>3. call' = [call EXCEPT ![c] = q(msrm, Pending)] /\ UNCHANGED <<now, past, cache>>
    BY <1>5, <2>2 DEF MsrmArrive, msrm
  <2>4. RunningDiscount(q(msrm, Pending))
    BY <1>2, <1>4 DEF RunningDiscount, DiscountParts
  <2> HIDE DEF q
  <2> QED
    BY <2>3, <2>4, CallStep DEF Known
<1>6. CASE SrmRead(c)
  <2>1. \E i \in from .. Len(past) : m = Arrived(Msrm(i))
    BY <1>2, <1>6 DEF SrmRead, DiscountParts
  <2>2. [call[c] EXCEPT !.srm = srm] = q(m, srm)
    BY <1>2 DEF DiscountParts
  <2>3. call' = [call EXCEPT ![c] = q(m, srm)] /\ UNCHANGED <<now, past, cache>>
    BY <1>6, <2>2 DEF SrmRead, srm
  <2>4. RunningDiscount(q(m, srm))
    BY <1>2, <1>4, <2>1 DEF RunningDiscount, DiscountParts
  <2> HIDE DEF q
  <2> QED
    BY <2>3, <2>4, CallStep DEF Known
<1> QED
  BY <1>5, <1>6

LEMMA SrmArriveKeepsIInv ==
  ASSUME IInv, NEW c \in Call, SrmArrive(c)
  PROVE  IInv'
<1>1. TypeOK /\ Running(c, "discount") /\ Len(past) \in Nat
  BY PastTypes DEF IInv, SrmArrive
<1>2a. PICK d \in Duration, start \in Nat, from \in Nat : \E m, s :
        DiscountParts(call[c], d, start, from, m, s)
  BY <1>1, RunningDiscountIs
<1>2. PICK m, s :
        DiscountParts(call[c], d, start, from, m, s)
  BY <1>2a
<1>3. s # Pending
  BY <1>2 DEF SrmArrive, DiscountParts, Pending
<1>4. PICK i \in from .. Len(past), j \in from .. Len(past) :
        m = Arrived(Msrm(i)) /\ s = Read(Srm(j))
  BY <1>2, <1>3 DEF DiscountParts
<1>5. /\ from \in 1 .. Len(past) /\ start <= now /\ SupportsSrm
      /\ Lasted(i, start) /\ Lasted(j, start)
      /\ Accepted(i, from, start, d) /\ Accepted(j, from, start, d)
  BY <1>1, <1>2, LastedSince DEF DiscountParts, Began
<1> DEFINE found == Found(i, j)
           q == [pc |-> "done", kind |-> "discount", duration |-> d, start |-> start,
                 from |-> from, to |-> Len(past), result |-> Best(found)]
           e == [ts |-> start, accounts |-> found]
<1>6. found = call[c].msrm.value \cup call[c].srm.value
  BY <1>2, <1>4, <1>5 DEF DiscountParts, Arrived, Read, Found
<1>7. /\ call' = [call EXCEPT ![c] = q]
      /\ cache' = [cache EXCEPT !["feeDiscount"] = e]
      /\ UNCHANGED <<now, past>>
  <2> HIDE DEF found
  <2> QED
    BY <1>2, <1>6 DEF SrmArrive, DiscountParts, Done, Store
<1>8. DoneDiscount(q)
  <2>1. Len(past) \in 1 .. Len(past) /\ from \in 1 .. Len(past)
    BY <1>1, <1>5, PastTypes
  <2>2. i <= Len(past) /\ j <= Len(past)
    BY <1>1
  <2> QED
    BY <1>1, <1>5, <2>1, <2>2 DEF DoneDiscount
<1>9. DiscountEntry(e)
  BY <1>5 DEF DiscountEntry
<1> HIDE DEF q, e
<1> QED
  BY <1>7, <1>8, <1>9, CallStep DEF Known

LEMMA DiscountFailsKeepsIInv ==
  ASSUME IInv, NEW c \in Call, DiscountFails(c)
  PROVE  IInv'
BY CallStep DEF DiscountFails, Known, Rejected

-----------------------------------------------------------------------------
(* Steps of time and of the chain.                                         *)

LEMMA StillTrue ==
  ASSUME IInv, Grows, UNCHANGED <<cache, call>>
  PROVE  CacheInv' /\ \A c \in Call : Known(call[c])'
<1>1. \A c \in Call : Known(call'[c])
  BY DEF IInv
<1>2. \A c \in Call : Known(call[c])'
  BY <1>1, KnownStable DEF IInv
<1>3. /\ cache'["openOrders"] # NoEntry => OrdersEntry(cache'["openOrders"])
      /\ cache'["feeDiscount"] # NoEntry => DiscountEntry(cache'["feeDiscount"])
  BY DEF IInv, CacheInv
<1>4. CacheInv'
  BY <1>3, EntriesStable DEF IInv, CacheInv, NoEntry
<1> QED
  BY <1>2, <1>4

LEMMA TickKeepsIInv ==
  ASSUME IInv, Tick
  PROVE  IInv'
<1>1. TypeOK /\ Grows /\ TypeOK'
  BY PastTypes DEF IInv, TypeOK, Tick, Grows
<1>2. UNCHANGED <<past, cache, call>>
  BY DEF Tick
<1> QED
  BY <1>1, <1>2, StillTrue DEF IInv, BookInv

\* A state that agrees with the past on the orders.
LEMMA BecomesKeepsIInv ==
  ASSUME IInv, NEW state \in ChainState, Becomes(state),
         \A o \in Order, i \in 1 .. Len(past) :
           state.book[o] # None /\ past[i].book[o] # None => state.book[o] = past[i].book[o]
  PROVE  IInv'
<1> DEFINE next == [state EXCEPT !.at = now]
<1>1. TypeOK /\ Len(past) \in Nat /\ now \in Nat
  BY PastTypes DEF IInv
<1>2. next \in ChainState /\ next.at = now /\ next.book = state.book
  BY <1>1 DEF ChainState
<1>3. past' = Append(past, next) /\ UNCHANGED <<now, cache, call>>
  BY DEF Becomes
<1> HIDE DEF next
<1>4. /\ past' \in Seq(ChainState) /\ Len(past') = Len(past) + 1
      /\ past'[Len(past) + 1] = next
      /\ \A i \in 1 .. Len(past) : past'[i] = past[i]
  BY <1>1, <1>2, <1>3 DEF TypeOK
<1>5. Grows /\ TypeOK'
  <2>1. Grows
    BY <1>1, <1>2, <1>3, <1>4 DEF Grows
  <2>2. TypeOK'
    BY <1>1, <1>3, <1>4 DEF TypeOK
  <2> QED
    BY <2>1, <2>2
<1>6. BookInv'
  <2> SUFFICES ASSUME NEW i \in 1 .. Len(past) + 1, NEW j \in 1 .. Len(past) + 1,
                      NEW o \in Order,
                      past'[i].book[o] # None, past'[j].book[o] # None
               PROVE  past'[i].book[o] = past'[j].book[o]
    BY <1>4 DEF BookInv
  <2> QED
    BY <1>1, <1>2, <1>4 DEF IInv, BookInv
<1> QED
  BY <1>3, <1>5, <1>6, StillTrue DEF IInv

LEMMA ChainKeepsIInv ==
  ASSUME IInv,
         \/ \E a \in OpenOrders : CreateOpenOrders(a) \/ CloseOpenOrders(a)
         \/ \E o \in Order : OrderGone(o)
         \/ \E o \in Order, side \in {"buy", "sell"}, a \in OpenOrders \cup {Foreign} :
              NewOrder(o, side, a)
         \/ \E t \in TokenAccount : \E balance \in Balance[t] : Transfer(t, balance)
  PROVE  IInv'
<1>1. /\ chain \in ChainState
      /\ \A i \in 1 .. Len(past) : past[i] \in ChainState
      /\ \A o \in Order, i \in 1 .. Len(past) :
           chain.book[o] # None /\ past[i].book[o] # None => chain.book[o] = past[i].book[o]
      /\ DOMAIN past = 1 .. Len(past)
  <2>1. Len(past) \in 1 .. Len(past) /\ \A i \in 1 .. Len(past) : past[i] \in ChainState
    BY PastTypes DEF IInv
  <2>2. DOMAIN past = 1 .. Len(past)
    BY DEF IInv, TypeOK
  <2> QED
    BY <2>1, <2>2 DEF chain, IInv, BookInv
<1>2. ASSUME NEW a \in OpenOrders, CreateOpenOrders(a) \/ CloseOpenOrders(a)
      PROVE  IInv'
  <2>1. ASSUME NEW accounts \in SUBSET OpenOrders,
               Becomes([chain EXCEPT !.accounts = accounts])
        PROVE  IInv'
    <3> DEFINE state == [chain EXCEPT !.accounts = accounts]
    <3>1. state \in ChainState /\ state.book = chain.book
      BY <1>1 DEF ChainState
    <3>2. Becomes(state)
      BY <2>1
    <3> HIDE DEF state
    <3> QED
      BY <1>1, <3>1, <3>2, BecomesKeepsIInv
  <2>2. chain.accounts \in SUBSET OpenOrders
    BY <1>1 DEF ChainState
  <2>3. CASE CreateOpenOrders(a)
    BY <2>1, <2>2, <2>3 DEF CreateOpenOrders
  <2>4. CASE CloseOpenOrders(a)
    BY <2>1, <2>2, <2>4 DEF CloseOpenOrders
  <2> QED
    BY <1>2, <2>3, <2>4
<1>3. ASSUME NEW o \in Order,
             NEW order \in [side : {"buy", "sell"}, openOrders : OpenOrders \cup {Foreign}]
                             \cup {None},
             order = None \/ \A i \in DOMAIN past : past[i].book[o] = None,
             Becomes([chain EXCEPT !.book[o] = order])
      PROVE  IInv'
  <2> DEFINE state == [chain EXCEPT !.book[o] = order]
  <2>1. state \in ChainState /\ state.book = [chain.book EXCEPT ![o] = order]
    BY <1>1 DEF ChainState
  <2>2. \A p \in Order : state.book[p] = IF p = o THEN order ELSE chain.book[p]
    BY <1>1, <2>1 DEF ChainState
  <2>3. Becomes(state)
    BY <1>3
  <2> HIDE DEF state
  <2> QED
    BY <1>1, <1>3, <2>1, <2>2, <2>3, BecomesKeepsIInv
<1>4. ASSUME NEW o \in Order, OrderGone(o)
      PROVE  IInv'
  BY <1>3, <1>4 DEF OrderGone
<1>5. ASSUME NEW o \in Order, NEW side \in {"buy", "sell"},
             NEW a \in OpenOrders \cup {Foreign}, NewOrder(o, side, a)
      PROVE  IInv'
  <2> DEFINE order == [side |-> side, openOrders |-> a]
  <2>1. order \in [side : {"buy", "sell"}, openOrders : OpenOrders \cup {Foreign}]
    OBVIOUS
  <2>2. \A i \in DOMAIN past : past[i].book[o] = None
    BY <1>5 DEF NewOrder
  <2>3. Becomes([chain EXCEPT !.book[o] = order])
    BY <1>5 DEF NewOrder
  <2> HIDE DEF order
  <2> QED
    BY <1>3, <2>1, <2>2, <2>3
<1>6. ASSUME NEW t \in TokenAccount, NEW balance \in Balance[t], Transfer(t, balance)
      PROVE  IInv'
  <2> DEFINE state == [chain EXCEPT !.holding[t] = balance]
  <2>1. balance \in Nat \cup {None}
    BY ReadsAssumption
  <2>2. state \in ChainState /\ state.book = chain.book
    BY <1>1, <2>1 DEF ChainState
  <2>3. Becomes(state)
    BY <1>6 DEF Transfer
  <2> HIDE DEF state
  <2> QED
    BY <1>1, <2>2, <2>3, BecomesKeepsIInv
<1> QED
  BY <1>2, <1>4, <1>5, <1>6

-----------------------------------------------------------------------------
LEMMA InitIInv ==
  ASSUME Init
  PROVE  IInv
<1>1. PICK state \in Start : past = <<state>>
  BY DEF Init
<1>2. state \in ChainState /\ Len(past) = 1 /\ past[1] = state /\ past \in Seq(ChainState)
  BY <1>1, ReadsAssumption
<1>3. TypeOK
  BY <1>2 DEF Init, TypeOK
<1>4. BookInv
  BY <1>2 DEF BookInv
<1>5. CacheInv
  BY DEF Init, CacheInv
<1>6. \A c \in Call : Known(call[c])
  BY DEF Init, Known
<1> QED
  BY <1>3, <1>4, <1>5, <1>6 DEF IInv

LEMMA NextKeepsIInv ==
  ASSUME IInv, [Next]_vars
  PROVE  IInv'
<1>1. CASE UNCHANGED vars
  <2>1. TypeOK /\ Grows /\ TypeOK'
    BY <1>1, UnchangedGrows DEF IInv, TypeOK, vars
  <2> QED
    BY <1>1, <2>1, StillTrue DEF IInv, BookInv, vars
<1>2. CASE Tick
  BY <1>2, TickKeepsIInv
<1>3. CASE \/ \E a \in OpenOrders : CreateOpenOrders(a) \/ CloseOpenOrders(a)
           \/ \E o \in Order :
                \/ OrderGone(o)
                \/ \E side \in {"buy", "sell"}, a \in OpenOrders \cup {Foreign} :
                     NewOrder(o, side, a)
           \/ \E t \in TokenAccount : \E balance \in Balance[t] : Transfer(t, balance)
  BY <1>3, ChainKeepsIInv
<1>4. ASSUME NEW c \in Call,
             \/ \E d \in Duration : LoadOrdersForOwner(c, d) \/ FindBestFeeDiscountKey(c, d)
             \/ LoadBids(c) \/ LoadAsks(c) \/ AccountsRead(c) \/ AccountsArrive(c)
             \/ OrdersLoaded(c) \/ OrdersFail(c)
             \/ MsrmArrive(c) \/ SrmRead(c) \/ SrmArrive(c) \/ DiscountFails(c)
      PROVE  IInv'
  BY <1>4, LoadOrdersForOwnerKeepsIInv, FindBestFeeDiscountKeyKeepsIInv,
     LoadBidsKeepsIInv, AccountsReadKeepsIInv, AccountsArriveKeepsIInv,
     OrdersLoadedKeepsIInv, OrdersFailKeepsIInv, DiscountReadsKeepIInv,
     SrmArriveKeepsIInv, DiscountFailsKeepsIInv
<1> QED
  BY <1>1, <1>2, <1>3, <1>4 DEF Next

\* Every call and every cached list is of states of the chain that the call, or the
\* time of the entry, allows.
THEOREM Invariance == Spec => []IInv
<1>1. Init => IInv
  BY InitIInv
<1>2. IInv /\ [Next]_vars => IInv'
  BY NextKeepsIInv
<1> QED
  BY <1>1, <1>2, PTL DEF Spec

-----------------------------------------------------------------------------
(* loadOrdersForOwner.                                                     *)

LEMMA EndedOrdersIs ==
  ASSUME IInv, NEW c \in Call, Ended(c, "orders")
  PROVE  \E d \in Duration, start \in Nat, from \in Nat, to \in Nat : \E i, j, k :
           OrdersDone(call[c], d, start, from, to, i, j, k)
<1>1. call[c].pc = "done" /\ call[c].kind = "orders" /\ Known(call[c])
  BY DEF Ended, IInv
<1>2. DoneOrders(call[c])
  BY <1>1, PcAndKind DEF Known
<1> QED
  BY <1>2 DEF DoneOrders

\* The states a call accepts, by their place in the past.
LEMMA AcceptedIsAcceptable ==
  ASSUME TypeOK, NEW c \in Call, NEW d, NEW start, NEW from \in Nat, NEW to \in Nat,
         call[c].duration = d, call[c].start = start, call[c].from = from,
         call[c].to = to, from \in 1 .. to, to \in 1 .. Len(past)
  PROVE  /\ \A i \in from .. to : past[i] \in During(c)
         /\ \A s \in During(c) : \E i \in 1 .. Len(past) : s = past[i]
         /\ \A i : Accepted(i, from, start, d) /\ i <= to => past[i] \in Acceptable(c)
<1>1. \A i \in from .. to : past[i] \in During(c)
  BY DEF During
<1>2. \A s \in During(c) : \E i \in 1 .. Len(past) : s = past[i]
  BY PastTypes DEF During
<1>3. ASSUME NEW i, Accepted(i, from, start, d), i <= to
      PROVE  past[i] \in Acceptable(c)
  <2>1. i \in from .. to \/ (i \in 1 .. from - 1 /\ past[i + 1].at > start - d)
    BY <1>3, PastTypes DEF Accepted
  <2> QED
    BY <1>1, <2>1 DEF Acceptable
<1> QED
  BY <1>1, <1>2, <1>3

LEMMA OrdersOf ==
  ASSUME NEW inBook, NEW side, NEW o \in Order, NEW accounts
  PROVE  (\E e \in Orders(inBook, side) : e.orderId = o /\ e.openOrders \in accounts)
         <=> /\ inBook[o] # None /\ inBook[o].side = side
             /\ inBook[o].openOrders \in accounts
<1> DEFINE entry == [orderId |-> o, openOrders |-> inBook[o].openOrders]
<1>1. ASSUME NEW e \in Orders(inBook, side), e.orderId = o, e.openOrders \in accounts
      PROVE  /\ inBook[o] # None /\ inBook[o].side = side
             /\ inBook[o].openOrders \in accounts
  <2>1. PICK p \in Order : /\ inBook[p] # None /\ inBook[p].side = side
                           /\ e = [orderId |-> p, openOrders |-> inBook[p].openOrders]
    BY DEF Orders
  <2>2. p = o /\ e.openOrders = inBook[p].openOrders
    BY <1>1, <2>1
  <2> QED
    BY <1>1, <2>1, <2>2
<1>2. ASSUME inBook[o] # None, inBook[o].side = side, inBook[o].openOrders \in accounts
      PROVE  \E e \in Orders(inBook, side) : e.orderId = o /\ e.openOrders \in accounts
  <2>1. entry \in Orders(inBook, side)
    BY <1>2 DEF Orders
  <2>2. entry.orderId = o /\ entry.openOrders \in accounts
    BY <1>2
  <2> QED
    BY <2>1, <2>2
<1> QED
  BY <1>1, <1>2

LEMMA ShownIff ==
  ASSUME NEW bids, NEW asks, NEW accounts, NEW o \in Order
  PROVE  o \in FilterForOpenOrders(Orders(bids, "buy"), Orders(asks, "sell"), accounts)
         <=> \/ bids[o] # None /\ bids[o].side = "buy" /\ bids[o].openOrders \in accounts
             \/ asks[o] # None /\ asks[o].side = "sell" /\ asks[o].openOrders \in accounts
<1>1. o \in FilterForOpenOrders(Orders(bids, "buy"), Orders(asks, "sell"), accounts)
      <=> \E e \in Orders(bids, "buy") \cup Orders(asks, "sell") :
            e.orderId = o /\ e.openOrders \in accounts
  BY DEF FilterForOpenOrders
<1> DEFINE Of(side, inBook) == \E e \in Orders(inBook, side) :
                              e.orderId = o /\ e.openOrders \in accounts
<1>2. o \in FilterForOpenOrders(Orders(bids, "buy"), Orders(asks, "sell"), accounts)
      <=> Of("buy", bids) \/ Of("sell", asks)
  BY <1>1
<1>3. /\ Of("buy", bids) <=> /\ bids[o] # None /\ bids[o].side = "buy"
                             /\ bids[o].openOrders \in accounts
      /\ Of("sell", asks) <=> /\ asks[o] # None /\ asks[o].side = "sell"
                              /\ asks[o].openOrders \in accounts
  BY OrdersOf
<1> HIDE DEF Of
<1> QED
  BY <1>2, <1>3

LEMMA IInvShowsOwnOrders ==
  ASSUME IInv
  PROVE  OwnOrdersAreShown
<1> SUFFICES ASSUME NEW c \in Call, Ended(c, "orders"), NEW o \in Order
             PROVE  LET Resting == {s \in During(c) : s.book[o] # None}
                        Had(a)  == {s \in Acceptable(c) : a \in s.accounts}
                    IN /\ o \in call[c].result =>
                            \E s \in Resting : Had(s.book[o].openOrders) # {}
                       /\ Resting = During(c)
                            /\ (\E s \in During(c) :
                                  Had(s.book[o].openOrders) = Acceptable(c))
                          => o \in call[c].result
  BY DEF OwnOrdersAreShown
<1> DEFINE Resting == {s \in During(c) : s.book[o] # None}
           Had(a)  == {s \in Acceptable(c) : a \in s.accounts}
<1>1a. PICK d \in Duration, start \in Nat, from \in Nat, to \in Nat : \E i, j, k :
        OrdersDone(call[c], d, start, from, to, i, j, k)
  BY EndedOrdersIs
<1>1. PICK i, j, k :
        OrdersDone(call[c], d, start, from, to, i, j, k)
  BY <1>1a
<1>2. /\ TypeOK /\ from \in 1 .. to /\ to \in 1 .. Len(past)
      /\ i \in from .. to /\ j \in from .. to
      /\ Accepted(k, from, start, d) /\ k <= to
      /\ call[c].duration = d /\ call[c].start = start /\ call[c].from = from
      /\ call[c].to = to
      /\ call[c].result = FilterForOpenOrders(Orders(past[i].book, "buy"),
                            Orders(past[j].book, "sell"), past[k].accounts)
  BY <1>1 DEF OrdersDone, IInv
<1>3. /\ past[i] \in During(c) /\ past[j] \in During(c) /\ past[k] \in Acceptable(c)
      /\ \A s \in During(c) : \E x \in 1 .. Len(past) : s = past[x]
  BY <1>2, AcceptedIsAcceptable
<1>4. i \in 1 .. Len(past) /\ j \in 1 .. Len(past)
  BY <1>2, PastTypes
<1>5. o \in call[c].result
      <=> \/ /\ past[i].book[o] # None /\ past[i].book[o].side = "buy"
             /\ past[i].book[o].openOrders \in past[k].accounts
          \/ /\ past[j].book[o] # None /\ past[j].book[o].side = "sell"
             /\ past[j].book[o].openOrders \in past[k].accounts
  BY <1>2, ShownIff
<1>6. o \in call[c].result => \E s \in Resting : Had(s.book[o].openOrders) # {}
  <2>1. \A a : a \in past[k].accounts => past[k] \in Had(a)
    BY <1>3
  <2> HIDE DEF Had
  <2> QED
    BY <1>3, <1>5, <2>1
<1>7. ASSUME Resting = During(c),
             NEW s \in During(c), Had(s.book[o].openOrders) = Acceptable(c)
      PROVE  o \in call[c].result
  <2>1. PICK x \in 1 .. Len(past) : s = past[x]
    BY <1>3
  <2>2. past[i].book[o] # None /\ past[j].book[o] # None /\ s.book[o] # None
    BY <1>3, <1>7
  <2>3. past[i].book[o] = past[x].book[o] /\ past[j].book[o] = past[x].book[o]
    BY <1>4, <2>1, <2>2 DEF IInv, BookInv
  <2>4. s.book[o].openOrders \in past[k].accounts
    BY <1>3, <1>7
  <2>5. s.book[o].side \in {"buy", "sell"}
    <3>1. s \in ChainState
      BY <1>2, <2>1, PastTypes
    <3>2. s.book[o] \in [side : {"buy", "sell"}, openOrders : OpenOrders \cup {Foreign}]
                          \cup {None}
      BY <3>1 DEF ChainState
    <3> QED
      BY <2>2, <3>2
  <2> QED
    BY <1>5, <2>1, <2>2, <2>3, <2>4, <2>5
<1> QED
  BY <1>6, <1>7

\* loadOrdersForOwner joins two sides of the book and a list of accounts, of three
\* moments and one of them perhaps cached, and yet misses no order that rested
\* throughout the call and shows none that did not, in any past, of any number of
\* calls and changes.
THEOREM OwnOrdersAreShownHolds == Spec => []OwnOrdersAreShown
<1>1. IInv => OwnOrdersAreShown
  BY IInvShowsOwnOrders
<1> QED
  BY <1>1, Invariance, PTL

-----------------------------------------------------------------------------
(* findBestFeeDiscountKey.                                                 *)

\* Well-foundedness of < in place of induction.
LEMMA LeastOf ==
  ASSUME NEW T, T \subseteq Nat, T # {}
  PROVE  \E m \in T : \A n \in T : m <= n
<1>1. PICK x \in T : \A y \in T : ~ (<<y, x>> \in OpToRel(<, Nat))
  BY NatLessThanWellFounded, WFMin
<1>2. \A y \in T : ~ (y < x)
  BY <1>1 DEF OpToRel
<1> QED
  BY <1>2

\* Of finitely many accounts one is preceded by none: the one with the fewest before
\* it.
LEMMA SomeFirst ==
  ASSUME NEW S, IsFiniteSet(S), S # {},
         \A a \in S : a.feeTier \in Nat /\ a.balance \in Nat
  PROVE  \E a \in S : \A b \in S : ~Precedes(b, a)
<1> DEFINE Ahead(a) == {b \in S : Precedes(b, a)}
           T == {Cardinality(Ahead(a)) : a \in S}
<1>1. \A a \in S : IsFiniteSet(Ahead(a)) /\ Cardinality(Ahead(a)) \in Nat
  <2>1. \A a \in S : Ahead(a) \in SUBSET S
    OBVIOUS
  <2> HIDE DEF Ahead
  <2> QED
    BY <2>1, FS_Subset, FS_CardinalityType
<1>2. PICK a \in S : \A b \in S : Cardinality(Ahead(a)) <= Cardinality(Ahead(b))
  <2>1. T \subseteq Nat /\ T # {}
    BY <1>1
  <2>2. PICK m \in T : \A n \in T : m <= n
    BY <2>1, LeastOf
  <2> HIDE DEF Ahead
  <2> QED
    BY <2>2
<1>3. ASSUME NEW b \in S, Precedes(b, a)
      PROVE  FALSE
  <2>1. Ahead(b) \in SUBSET Ahead(a) /\ b \in Ahead(a) /\ b \notin Ahead(b)
    BY <1>3 DEF Precedes
  <2> HIDE DEF Ahead
  <2>2. /\ Cardinality(Ahead(b)) <= Cardinality(Ahead(a))
        /\ Cardinality(Ahead(a)) = Cardinality(Ahead(b)) => Ahead(a) = Ahead(b)
    BY <1>1, <2>1, FS_Subset
  <2> QED
    BY <1>1, <1>2, <2>1, <2>2
<1> QED
  BY <1>3

LEMMA TierIsNat ==
  ASSUME NEW t, NEW balance \in Nat
  PROVE  TierOf(t, balance) \in Nat
<1>1. ASSUME NEW S \in SUBSET (2 .. 6)
      PROVE  Cardinality(S) \in Nat
  <2>1. S \in SUBSET Nat /\ \A n \in S : n <= 6
    OBVIOUS
  <2> QED
    BY <2>1, FS_BoundedSetOfNaturals, FS_CardinalityType
<1>2. \A srm : {n \in 2 .. 6 : srm >= 10 ^ n} \in SUBSET (2 .. 6)
  OBVIOUS
<1> QED
  BY <1>1, <1>2 DEF TierOf, FeeTier

LEMMA FoundTypes ==
  ASSUME TypeOK, NEW i \in 1 .. Len(past), NEW j \in 1 .. Len(past)
  PROVE  /\ IsFiniteSet(Found(i, j))
         /\ \A a \in Found(i, j) :
              /\ a.pubkey \in TokenAccount /\ a.balance \in Nat /\ a.feeTier \in Nat
              /\ \E s \in {past[i], past[j]} :
                   /\ s.holding[a.pubkey] # None
                   /\ a.feeTier = TierOf(a.pubkey, s.holding[a.pubkey])
<1> DEFINE Of(t, h) == [pubkey |-> t, balance |-> h[t], feeTier |-> TierOf(t, h[t])]
<1>1. \A h : /\ \A a \in Accounts(MsrmAccount, h) :
                  \E t \in MsrmAccount : h[t] # None /\ a = Of(t, h)
             /\ \A a \in Accounts(SrmAccount, h) :
                  \E t \in SrmAccount : h[t] # None /\ a = Of(t, h)
  BY DEF Accounts
<1>2. \A h \in [TokenAccount -> Nat \cup {None}] : \A t \in TokenAccount :
        h[t] # None => h[t] \in Nat /\ TierOf(t, h[t]) \in Nat
  BY TierIsNat
<1>3. /\ past[i].holding \in [TokenAccount -> Nat \cup {None}]
      /\ past[j].holding \in [TokenAccount -> Nat \cup {None}]
  BY PastTypes DEF ChainState
<1>4. \A a \in Found(i, j) :
        \/ \E t \in MsrmAccount : past[i].holding[t] # None /\ a = Of(t, past[i].holding)
        \/ \E t \in SrmAccount : past[j].holding[t] # None /\ a = Of(t, past[j].holding)
  BY <1>1 DEF Found, Msrm, Srm
<1>5. \A a \in Found(i, j) :
        /\ a.pubkey \in TokenAccount /\ a.balance \in Nat /\ a.feeTier \in Nat
        /\ \E s \in {past[i], past[j]} :
             /\ s.holding[a.pubkey] # None
             /\ a.feeTier = TierOf(a.pubkey, s.holding[a.pubkey])
  BY <1>2, <1>3, <1>4 DEF TokenAccount
<1>6. \A a, b \in Found(i, j) : a.pubkey = b.pubkey => a = b
  BY <1>4, ReadsAssumption
<1>7. IsFiniteSet(Found(i, j))
  <2> DEFINE f == [a \in Found(i, j) |-> a.pubkey]
  <2>1. f \in Injection(Found(i, j), TokenAccount)
    BY <1>5, <1>6 DEF Injection, IsInjective
  <2> QED
    BY <2>1, ReadsAssumption, FS_Injection
<1> QED
  BY <1>5, <1>7

\* What Best returns, of the accounts found in two states.
LEMMA BestIs ==
  ASSUME TypeOK, NEW i \in 1 .. Len(past), NEW j \in 1 .. Len(past)
  PROVE  LET best == Best(Found(i, j))
         IN /\ best.feeTier \in Nat
            /\ best.pubkey # None =>
                 \E a \in Found(i, j) : best = [pubkey |-> a.pubkey, feeTier |-> a.feeTier]
            /\ \A a \in Found(i, j) : a.feeTier <= best.feeTier
<1> DEFINE found == Found(i, j)
<1>1. /\ IsFiniteSet(found)
      /\ \A a \in found : a.feeTier \in Nat /\ a.balance \in Nat
  BY FoundTypes
<1> HIDE DEF found
<1>2. CASE found = {}
  BY <1>2 DEF Best, found
<1>3. CASE found # {}
  <2> DEFINE first == CHOOSE a \in found : \A b \in found : ~Precedes(b, a)
  <2>1. first \in found /\ \A b \in found : ~Precedes(b, first)
    BY <1>1, <1>3, SomeFirst
  <2>2. Best(found) = [pubkey |-> first.pubkey, feeTier |-> first.feeTier]
    BY <1>3 DEF Best
  <2> HIDE DEF first
  <2>3. \A b \in found : b.feeTier <= first.feeTier
    BY <1>1, <2>1 DEF Precedes
  <2> QED
    BY <1>1, <2>1, <2>2, <2>3 DEF found
<1> QED
  BY <1>2, <1>3

LEMMA EndedDiscountIs ==
  ASSUME IInv, NEW c \in Call, Ended(c, "discount")
  PROVE  \E d \in Duration, start \in Nat, from \in Nat, to \in Nat : \E i, j :
           /\ from \in 1 .. to /\ to \in 1 .. Len(past)
           /\ Accepted(i, from, start, d) /\ i <= to
           /\ Accepted(j, from, start, d) /\ j <= to
           /\ call[c] = [pc |-> "done", kind |-> "discount", duration |-> d,
                         start |-> start, from |-> from, to |-> to,
                         result |-> Best(Found(i, j))]
<1>1. call[c].pc = "done" /\ call[c].kind = "discount" /\ Known(call[c])
  BY DEF Ended, IInv
<1>2. DoneDiscount(call[c])
  BY <1>1, PcAndKind DEF Known
<1> QED
  BY <1>2 DEF DoneDiscount

LEMMA IInvNamesTheDiscount ==
  ASSUME IInv
  PROVE  DiscountIsDue
<1> DEFINE TierIn(s, t) == IF s.holding[t] = None THEN 0 ELSE TierOf(t, s.holding[t])
<1> SUFFICES ASSUME NEW c \in Call, Ended(c, "discount")
             PROVE  /\ call[c].result.pubkey # None =>
                         \E s \in Acceptable(c) :
                           /\ s.holding[call[c].result.pubkey] # None
                           /\ TierIn(s, call[c].result.pubkey) = call[c].result.feeTier
                    /\ \A t \in TokenAccount :
                         \E s \in Acceptable(c) :
                           SupportsSrm => TierIn(s, t) <= call[c].result.feeTier
  BY DEF DiscountIsDue
<1>1a. PICK d \in Duration, start \in Nat, from \in Nat, to \in Nat : \E i, j :
        /\ from \in 1 .. to /\ to \in 1 .. Len(past)
        /\ Accepted(i, from, start, d) /\ i <= to
        /\ Accepted(j, from, start, d) /\ j <= to
        /\ call[c] = [pc |-> "done", kind |-> "discount", duration |-> d,
                      start |-> start, from |-> from, to |-> to,
                      result |-> Best(Found(i, j))]
  BY EndedDiscountIs
<1>1. PICK i, j :
        /\ from \in 1 .. to /\ to \in 1 .. Len(past)
        /\ Accepted(i, from, start, d) /\ i <= to
        /\ Accepted(j, from, start, d) /\ j <= to
        /\ call[c] = [pc |-> "done", kind |-> "discount", duration |-> d,
                      start |-> start, from |-> from, to |-> to,
                      result |-> Best(Found(i, j))]
  BY <1>1a
<1> DEFINE best == Best(Found(i, j))
<1>2. /\ TypeOK /\ call[c].result = best
      /\ call[c].duration = d /\ call[c].start = start /\ call[c].from = from
      /\ call[c].to = to
  BY <1>1 DEF IInv
<1>3. past[i] \in Acceptable(c) /\ past[j] \in Acceptable(c)
  BY <1>1, <1>2, AcceptedIsAcceptable
<1>4. i \in 1 .. Len(past) /\ j \in 1 .. Len(past)
  BY <1>1 DEF Accepted
<1>5. /\ best.feeTier \in Nat
      /\ best.pubkey # None =>
           \E a \in Found(i, j) : best = [pubkey |-> a.pubkey, feeTier |-> a.feeTier]
      /\ \A a \in Found(i, j) : a.feeTier <= best.feeTier
  BY <1>2, <1>4, BestIs
<1> HIDE DEF best
<1>6. ASSUME best.pubkey # None
      PROVE  \E s \in Acceptable(c) : /\ s.holding[best.pubkey] # None
                                      /\ TierIn(s, best.pubkey) = best.feeTier
  BY <1>2, <1>3, <1>4, <1>5, <1>6, FoundTypes
<1>7. ASSUME NEW t \in TokenAccount
      PROVE  \E s \in Acceptable(c) : SupportsSrm => TierIn(s, t) <= best.feeTier
  <2>1. ASSUME SupportsSrm, t \in MsrmAccount, past[i].holding[t] # None
        PROVE  TierOf(t, past[i].holding[t]) <= best.feeTier
    <3> DEFINE a == [pubkey |-> t, balance |-> past[i].holding[t],
                     feeTier |-> TierOf(t, past[i].holding[t])]
    <3>1. a \in Found(i, j)
      BY <2>1 DEF Found, Msrm, Accounts
    <3> QED
      BY <1>5, <3>1
  <2>2. ASSUME SupportsSrm, t \in SrmAccount, past[j].holding[t] # None
        PROVE  TierOf(t, past[j].holding[t]) <= best.feeTier
    <3> DEFINE a == [pubkey |-> t, balance |-> past[j].holding[t],
                     feeTier |-> TierOf(t, past[j].holding[t])]
    <3>1. a \in Found(i, j)
      BY <2>2 DEF Found, Srm, Accounts
    <3> QED
      BY <1>5, <3>1
  <2>3. 0 <= best.feeTier
    BY <1>5
  <2> QED
    BY <1>3, <2>1, <2>2, <2>3 DEF TokenAccount
<1> QED
  BY <1>2, <1>6, <1>7

\* The discount account findBestFeeDiscountKey names had its tier, and none of the
\* owner's, of whichever token and however the answers and the cache met, was of a
\* higher one as long as the caller accepts.
THEOREM DiscountIsDueHolds == Spec => []DiscountIsDue
<1>1. IInv => DiscountIsDue
  BY IInvNamesTheDiscount
<1> QED
  BY <1>1, Invariance, PTL

-----------------------------------------------------------------------------
(***************************************************************************)
(* EventQueue: its type invariant, that the ring holds the last events     *)
(* written, and that what loadEventQueue decodes is a queue.               *)
(*                                                                         *)
(* All of the index arithmetic of decodeQueue stays below three times the  *)
(* length of the ring, so the remainder is one of three differences        *)
(* (Wrap); the steps below then need only linear arithmetic.               *)
(***************************************************************************)
USE AllocAssumption DEF AllocAssumption

\* The remainder of an index less than three times the length of the ring.
LEMMA Wrap ==
  ASSUME NEW x \in Nat, x < 3 * AllocLen
  PROVE  x % AllocLen = IF x < AllocLen THEN x
                        ELSE IF x < 2 * AllocLen THEN x - AllocLen
                        ELSE x - 2 * AllocLen
<1>1. CASE x < AllocLen
  BY <1>1
<1>2. CASE AllocLen <= x /\ x < 2 * AllocLen
  BY <1>2
<1>3. CASE 2 * AllocLen <= x
  BY <1>3
<1> QED
  BY <1>1, <1>2, <1>3

\* The remainder is an index of the ring.
LEMMA WrapType ==
  ASSUME NEW x \in Nat, x < 3 * AllocLen
  PROVE  x % AllocLen \in 0..AllocLen - 1
BY Wrap

\* Once around the ring is the same slot.
LEMMA WrapAround ==
  ASSUME NEW x \in Nat, x < 2 * AllocLen
  PROVE  (x + AllocLen) % AllocLen = x % AllocLen
<1>1. x % AllocLen = IF x < AllocLen THEN x ELSE x - AllocLen
  BY Wrap
<1>2. (x + AllocLen) % AllocLen = IF x < AllocLen THEN x ELSE x - AllocLen
  <2> DEFINE y == x + AllocLen
  <2>1. y \in Nat /\ y < 3 * AllocLen /\ AllocLen <= y
    OBVIOUS
  <2> HIDE DEF y
  <2>2. y % AllocLen = IF y < 2 * AllocLen THEN y - AllocLen
                                           ELSE y - 2 * AllocLen
    BY <2>1, Wrap
  <2> QED
    BY <2>2 DEF y
<1> QED
  BY <1>1, <1>2

\* Less than once around is another slot.
LEMMA WrapDistinct ==
  ASSUME NEW x \in Nat, NEW y \in Nat, x < y, y < x + AllocLen,
         y < 3 * AllocLen
  PROVE  x % AllocLen # y % AllocLen
BY Wrap

-----------------------------------------------------------------------------
(* Type correctness.                                                       *)

\* What decodeQueue returns is a sequence of slots.
LEMMA DecodeType ==
  ASSUME QueueTypeOK
  PROVE  /\ DecodePending \in Seq(Event \cup {Blank})
         /\ \A n \in Nat : DecodeQueue(n) \in Seq(Event \cup {Blank})
<1>1. DecodePending \in [1..count -> Event \cup {Blank}]
  <2>1. ASSUME NEW i \in 1..count
        PROVE  (head + (i - 1)) % AllocLen \in 0..AllocLen - 1
    <3> DEFINE x == head + (i - 1)
    <3>1. x \in Nat /\ x < 3 * AllocLen
      BY DEF QueueTypeOK
    <3> HIDE DEF x
    <3>2. x % AllocLen \in 0..AllocLen - 1
      BY <3>1, WrapType
    <3> QED
      BY <3>2 DEF x
  <2> QED
    BY <2>1 DEF QueueTypeOK, DecodePending
<1>2. ASSUME NEW n \in Nat
      PROVE  DecodeHistory(n)
               \in [1..Least(n, AllocLen) -> Event \cup {Blank}]
  <2>1. ASSUME NEW i \in 1..Least(n, AllocLen)
        PROVE  (head + count + AllocLen - 1 - (i - 1)) % AllocLen
                 \in 0..AllocLen - 1
    <3> DEFINE x == head + count + AllocLen - 1 - (i - 1)
    <3>1. x \in Nat /\ x < 3 * AllocLen
      BY DEF QueueTypeOK, Least
    <3> HIDE DEF x
    <3>2. x % AllocLen \in 0..AllocLen - 1
      BY <3>1, WrapType
    <3> QED
      BY <3>2 DEF x
  <2> QED
    BY <2>1 DEF QueueTypeOK, DecodeHistory
<1>3. ASSUME NEW n \in Nat
      PROVE  Least(n, AllocLen) \in Nat
  BY DEF Least
<1>4. count \in Nat
  BY DEF QueueTypeOK
<1>5. DecodePending \in Seq(Event \cup {Blank})
  BY <1>1, <1>4
<1>6. ASSUME NEW n \in Nat
      PROVE  DecodeHistory(n) \in Seq(Event \cup {Blank})
  <2> DEFINE m == Least(n, AllocLen)
  <2>1. m \in Nat /\ DecodeHistory(n) \in [1..m -> Event \cup {Blank}]
    BY <1>2, <1>3
  <2> HIDE DEF m
  <2> QED
    BY <2>1
<1> QED
  BY <1>5, <1>6 DEF DecodeQueue

\* The queue, the log and the answer have their types: no index of decodeQueue
\* leaves the ring.
THEOREM QueueTypeCorrect == QueueSpec => []QueueTypeOK
<1>1. QueueInit => QueueTypeOK
  BY DEF QueueInit, QueueTypeOK
<1>2. QueueTypeOK /\ [QueueNext]_queueVars => QueueTypeOK'
  <2> SUFFICES ASSUME QueueTypeOK, [QueueNext]_queueVars
               PROVE  QueueTypeOK'
    OBVIOUS
  <2>1. ASSUME NEW e \in Event, PushEvent(e)
        PROVE  QueueTypeOK'
    <3>1. log' \in Seq(Event)
      BY <2>1 DEF QueueTypeOK, PushEvent
    <3>2. slots' \in [0..AllocLen - 1 -> Event \cup {Blank}]
      BY <2>1 DEF QueueTypeOK, PushEvent
    <3>3. count' \in 0..AllocLen
      BY <2>1 DEF QueueTypeOK, PushEvent
    <3> QED
      BY <2>1, <3>1, <3>2, <3>3 DEF QueueTypeOK, PushEvent
  <2>2. ASSUME NEW n \in 1..AllocLen, ConsumeEvents(n)
        PROVE  QueueTypeOK'
    <3>1. head + n \in Nat /\ head + n < 3 * AllocLen
      BY DEF QueueTypeOK
    <3>2. (head + n) % AllocLen \in 0..AllocLen - 1
      BY <3>1, WrapType
    <3> QED
      BY <2>2, <3>2 DEF QueueTypeOK, ConsumeEvents
  <2>3. ASSUME NEW limit \in Limit, LoadFills(limit)
        PROVE  QueueTypeOK'
    <3>1. DecodeQueue(limit) \in Seq(Event \cup {Blank})
      BY DecodeType, LimitAssumption DEF LimitAssumption
    <3> QED
      BY <2>3, <3>1 DEF QueueTypeOK, LoadFills
  <2>4. CASE UNCHANGED queueVars
    BY <2>4 DEF QueueTypeOK, queueVars
  <2> QED
    BY <2>1, <2>2, <2>3, <2>4 DEF QueueNext
<1> QED
  BY <1>1, <1>2, PTL DEF QueueSpec

-----------------------------------------------------------------------------
(* The ring holds the end of the log.                                      *)

\* Writing an event keeps the ring in step with the log.
LEMMA PushKeepsRing ==
  ASSUME QueueTypeOK, RingHoldsLog, NEW e \in Event, PushEvent(e)
  PROVE  RingHoldsLog'
<1> SUFFICES ASSUME NEW j \in 0..AllocLen - 1
             PROVE  slots'[(head + count + 1 + AllocLen - 1 - j) % AllocLen] =
                      IF j < Len(log) + 1 THEN log'[Len(log) + 1 - j] ELSE Blank
  <2>1. head' = head /\ count' = count + 1 /\ Len(log') = Len(log) + 1
    BY DEF PushEvent, QueueTypeOK
  <2>2. head + (count + 1) = head + count + 1
    BY DEF QueueTypeOK
  <2> QED
    BY <2>1, <2>2 DEF RingHoldsLog
<1> DEFINE p == (head + count) % AllocLen
           x == head + count + 1 + AllocLen - 1 - j
<1>1. p \in 0..AllocLen - 1 /\ x \in Nat /\ x < 3 * AllocLen
  <2>1. head + count \in Nat /\ head + count < 3 * AllocLen
    BY DEF QueueTypeOK, PushEvent
  <2>2. x \in Nat /\ x < 3 * AllocLen
    BY DEF QueueTypeOK, PushEvent
  <2> QED
    BY <2>1, <2>2, WrapType
<1>2. slots' = [slots EXCEPT ![p] = e]
  BY DEF PushEvent
<1>3. CASE j = 0
  <2>1. x % AllocLen = p
    <3>1. head + count \in Nat /\ head + count < 2 * AllocLen
      BY DEF QueueTypeOK, PushEvent
    <3>2. x = (head + count) + AllocLen
      BY <1>3 DEF QueueTypeOK
    <3> QED
      BY <3>1, <3>2, WrapAround
  <2>2. log'[Len(log) + 1] = e
    BY DEF PushEvent, QueueTypeOK
  <2> QED
    BY <1>1, <1>2, <1>3, <2>1, <2>2 DEF QueueTypeOK
<1>4. CASE j > 0
  <2>1. x = head + count + AllocLen - 1 - (j - 1) /\ j - 1 \in 0..AllocLen - 1
    BY <1>4 DEF QueueTypeOK
  <2>2. slots[x % AllocLen] =
          IF j - 1 < Len(log) THEN log[Len(log) - (j - 1)] ELSE Blank
    BY <2>1 DEF RingHoldsLog
  <2>3. x % AllocLen # p
    <3>1. /\ head + count \in Nat
          /\ head + count < x
          /\ x < head + count + AllocLen
      BY <1>4 DEF QueueTypeOK, PushEvent
    <3> QED
      BY <1>1, <3>1, WrapDistinct
  <2>4. slots'[x % AllocLen] = slots[x % AllocLen]
    BY <1>1, <1>2, <2>3, WrapType DEF QueueTypeOK
  <2>5. j <= Len(log) => log'[Len(log) + 1 - j] = log[Len(log) + 1 - j]
    <3>1. log' = Append(log, e) /\ log \in Seq(Event) /\ Len(log) \in Nat
      BY DEF PushEvent, QueueTypeOK
    <3>2. j <= Len(log) => Len(log) + 1 - j \in 1..Len(log)
      BY <1>4, <3>1
    <3> QED
      BY <3>1, <3>2
  <2>6. j \in Nat /\ Len(log) \in Nat
    BY DEF QueueTypeOK
  <2> DEFINE slot == slots'[x % AllocLen]
             latest == log'[Len(log) + 1 - j]
  <2>7. slot = IF j < Len(log) + 1 THEN latest ELSE Blank
    <3>1. CASE j <= Len(log)
      <4>1. slot = log[Len(log) - (j - 1)] /\ Len(log) - (j - 1) = Len(log) + 1 - j
        BY <1>4, <2>2, <2>4, <2>6, <3>1
      <4>2. slot = latest
        BY <2>5, <3>1, <4>1
      <4> HIDE DEF slot, latest
      <4> QED
        BY <2>6, <3>1, <4>2
    <3>2. CASE ~(j <= Len(log))
      <4>1. slot = Blank
        BY <1>4, <2>2, <2>4, <2>6, <3>2
      <4> HIDE DEF slot, latest
      <4> QED
        BY <2>6, <3>2, <4>1
    <3> QED
      BY <3>1, <3>2
  <2> QED
    BY <2>7
<1> QED
  BY <1>3, <1>4

\* Consuming events moves the head and the count, not the end of the queue.
LEMMA ConsumeKeepsRing ==
  ASSUME QueueTypeOK, RingHoldsLog, NEW n \in 1..AllocLen, ConsumeEvents(n)
  PROVE  RingHoldsLog'
<1> SUFFICES ASSUME NEW j \in 0..AllocLen - 1
             PROVE  (head' + count' + AllocLen - 1 - j) % AllocLen =
                      (head + count + AllocLen - 1 - j) % AllocLen
  BY DEF RingHoldsLog, ConsumeEvents
<1> DEFINE x == head + count + AllocLen - 1 - j
           y == head' + count' + AllocLen - 1 - j
<1>1. x \in Nat /\ x < 3 * AllocLen
  BY DEF QueueTypeOK
<1>2. count' = count - n /\ n <= count /\ n + head < 2 * AllocLen
  BY DEF QueueTypeOK, ConsumeEvents
<1>3. \/ head + n < AllocLen /\ head' = head + n
      \/ head + n >= AllocLen /\ head' = head + n - AllocLen
  <2>1. head + n \in Nat /\ head + n < 2 * AllocLen
    BY <1>2 DEF QueueTypeOK
  <2> DEFINE z == head + n
  <2>2. head' = z % AllocLen
    BY DEF ConsumeEvents
  <2> HIDE DEF z
  <2>3. z \in Nat /\ z < 2 * AllocLen => z % AllocLen =
          IF z < AllocLen THEN z ELSE z - AllocLen
    BY Wrap
  <2>4. z \in Nat /\ z < 2 * AllocLen
    BY <2>1 DEF z
  <2>5. \/ z < AllocLen /\ head' = z
        \/ z >= AllocLen /\ head' = z - AllocLen
    BY <2>2, <2>3, <2>4
  <2> QED
    BY <2>5 DEF z, QueueTypeOK
<1>4. \/ y = x
      \/ y = x - AllocLen /\ x >= AllocLen
  BY <1>2, <1>3 DEF QueueTypeOK
<1>5. CASE y = x
  BY <1>5
<1>6. CASE y = x - AllocLen /\ x >= AllocLen
  <2>1. y \in Nat /\ y < 2 * AllocLen
    BY <1>1, <1>6
  <2> HIDE DEF x, y
  <2>2. y % AllocLen = IF y < AllocLen THEN y ELSE y - AllocLen
    BY <2>1, Wrap
  <2>3. x % AllocLen = IF x < 2 * AllocLen THEN x - AllocLen
                                           ELSE x - 2 * AllocLen
    BY <1>1, <1>6, Wrap
  <2>4. x % AllocLen = y % AllocLen
    BY <1>1, <1>6, <2>1, <2>2, <2>3
  <2> QED
    BY <2>4 DEF x, y
<1> QED
  BY <1>4, <1>5, <1>6

\* Counted back from the newest, the ring holds the last AllocLen events of the
\* log, then zeros: consuming takes nothing away, and a slot is reused only for
\* an event AllocLen later.
THEOREM RingHoldsLogHolds == QueueSpec => []RingHoldsLog
<1>1. QueueInit => RingHoldsLog
  <2> SUFFICES ASSUME QueueInit, NEW j \in 0..AllocLen - 1
               PROVE  slots[(head + count + AllocLen - 1 - j) % AllocLen] = Blank
    BY DEF QueueInit, RingHoldsLog
  <2> DEFINE x == head + count + AllocLen - 1 - j
  <2>0. x \in Nat /\ x < 3 * AllocLen
    BY DEF QueueInit
  <2> HIDE DEF x
  <2>1. x % AllocLen \in 0..AllocLen - 1
    BY <2>0, WrapType
  <2> USE DEF x
  <2> QED
    BY <2>1 DEF QueueInit
<1>2. QueueTypeOK /\ RingHoldsLog /\ [QueueNext]_queueVars => RingHoldsLog'
  <2> SUFFICES ASSUME QueueTypeOK, RingHoldsLog, [QueueNext]_queueVars
               PROVE  RingHoldsLog'
    OBVIOUS
  <2>1. ASSUME NEW limit \in Limit, LoadFills(limit)
        PROVE  RingHoldsLog'
    BY <2>1 DEF RingHoldsLog, LoadFills
  <2>2. CASE UNCHANGED queueVars
    BY <2>2 DEF RingHoldsLog, queueVars
  <2> QED
    BY <2>1, <2>2, PushKeepsRing, ConsumeKeepsRing DEF QueueNext
<1> QED
  BY <1>1, <1>2, QueueTypeCorrect, PTL DEF QueueSpec

-----------------------------------------------------------------------------
(* What loadFills decodes is the end of the log.                           *)

\* The answer, once given, stays the end of the log as it was.
AnswerInv == answer.read <= Len(log) /\ AnswerIsLatest

\* A new answer is the end of the log.
LEMMA LoadIsLatest ==
  ASSUME QueueTypeOK, RingHoldsLog, NEW limit \in Limit, LoadFills(limit)
  PROVE  AnswerInv'
<1>1. /\ answer' = [limit |-> limit, read |-> Len(log),
                    nodes |-> DecodeQueue(limit)]
      /\ log' = log
  BY DEF LoadFills
<1>2. ASSUME limit # 0
      PROVE  DecodeQueue(limit) =
               [i \in 1..Least(limit, AllocLen) |->
                  IF i <= Len(log) THEN log[Len(log) - (i - 1)] ELSE Blank]
  <2> SUFFICES ASSUME NEW i \in 1..Least(limit, AllocLen)
               PROVE  slots[(head + count + AllocLen - 1 - (i - 1)) % AllocLen] =
                        IF i <= Len(log) THEN log[Len(log) - (i - 1)] ELSE Blank
    BY <1>2 DEF DecodeQueue, DecodeHistory
  <2>1. i - 1 \in 0..AllocLen - 1 /\ i \in Nat
    BY LimitAssumption DEF Least
  <2>2. slots[(head + count + AllocLen - 1 - (i - 1)) % AllocLen] =
          IF i - 1 < Len(log) THEN log[Len(log) - (i - 1)] ELSE Blank
    BY <2>1 DEF RingHoldsLog
  <2>3. i - 1 < Len(log) <=> i <= Len(log)
    BY <2>1 DEF QueueTypeOK
  <2> QED
    BY <2>2, <2>3
<1>3. AnswerIsLatest'
  BY <1>1, <1>2 DEF AnswerIsLatest
<1> QED
  BY <1>1, <1>3 DEF AnswerInv, QueueTypeOK

\* Whatever the queue does, loadFills decodes the last `limit` events written, as
\* far back as the ring goes, newest first, and zeros where there were fewer.
THEOREM AnswerIsLatestHolds == QueueSpec => []AnswerIsLatest
<1>1. QueueInit => AnswerInv
  BY DEF QueueInit, AnswerInv, AnswerIsLatest
<1>2. QueueTypeOK /\ RingHoldsLog /\ AnswerInv /\ [QueueNext]_queueVars => AnswerInv'
  <2> SUFFICES ASSUME QueueTypeOK, RingHoldsLog, AnswerInv, [QueueNext]_queueVars
               PROVE  AnswerInv'
    OBVIOUS
  <2>1. ASSUME NEW e \in Event, PushEvent(e)
        PROVE  AnswerInv'
    <3>1. /\ answer' = answer
          /\ Len(log') = Len(log) + 1
          /\ \A k \in 1..Len(log) : log'[k] = log[k]
      BY <2>1 DEF PushEvent, QueueTypeOK
    <3>2. answer.read \in Nat /\ Len(log) \in Nat
      BY DEF QueueTypeOK
    <3>3. \A i \in 1..Least(answer.limit, AllocLen) :
            i <= answer.read =>
              log'[answer.read - (i - 1)] = log[answer.read - (i - 1)]
      <4> SUFFICES ASSUME NEW i \in 1..Least(answer.limit, AllocLen),
                          i <= answer.read
                   PROVE  answer.read - (i - 1) \in 1..Len(log)
        BY <3>1
      <4>1. i \in Int /\ 1 <= i
        OBVIOUS
      <4> DEFINE r == answer.read
                 n == Len(log)
      <4>2. r \in Nat /\ n \in Nat /\ r <= n /\ i <= r
        BY <3>2 DEF AnswerInv
      <4> HIDE DEF r, n
      <4>3. r - (i - 1) \in 1..n
        BY <4>1, <4>2
      <4> QED
        BY <4>3 DEF r, n
    <3>4. AnswerIsLatest'
      BY <3>1, <3>3 DEF AnswerInv, AnswerIsLatest
    <3> QED
      BY <3>1, <3>2, <3>4 DEF AnswerInv
  <2>2. ASSUME NEW n \in 1..AllocLen, ConsumeEvents(n)
        PROVE  AnswerInv'
    BY <2>2 DEF AnswerInv, AnswerIsLatest, ConsumeEvents
  <2>3. CASE UNCHANGED queueVars
    BY <2>3 DEF AnswerInv, AnswerIsLatest, queueVars
  <2> QED
    BY <2>1, <2>2, <2>3, LoadIsLatest DEF QueueNext
<1>3. AnswerInv => AnswerIsLatest
  BY DEF AnswerInv
<1> QED
  BY <1>1, <1>2, <1>3, QueueTypeCorrect, RingHoldsLogHolds, PTL DEF QueueSpec

-----------------------------------------------------------------------------
(* parseFillEvent undoes what the program did to the amounts.              *)

\* The price of a parsed fill is that of the trade, for either side.
LEMMA ParsedIsTrade ==
  ASSUME NEW t \in Trade, NEW bid \in BOOLEAN, NEW maker \in BOOLEAN
  PROVE  LET f == ParseFillEvent(FillEvent(t, bid, maker))
         IN  /\ f.price.num * QuoteMultiplier =
                  t.price * BaseMultiplier * f.price.den
             /\ f.size.num = t.size
             /\ f.feeCost.num = IF maker THEN -t.rebate ELSE t.fee
<1>1. /\ t.price \in Nat /\ t.size \in Nat /\ t.fee \in Nat /\ t.rebate \in Nat
      /\ BaseMultiplier \in Nat /\ QuoteMultiplier \in Nat
  BY TradeAssumption, MultiplierAssumption
<1> DEFINE q == t.price * t.size
           e == FillEvent(t, bid, maker)
           f == ParseFillEvent(e)
<1>2. q \in Nat
  BY <1>1
<1>3. /\ e.bid = bid /\ e.maker = maker
      /\ e.nativeFeeOrRebate = IF maker THEN t.rebate ELSE t.fee
      /\ e.nativeQuantityPaid =
           IF bid THEN IF maker THEN q - t.rebate ELSE q + t.fee ELSE t.size
      /\ e.nativeQuantityReleased =
           IF bid THEN t.size ELSE IF maker THEN q + t.rebate ELSE q - t.fee
  BY DEF FillEvent
<1> HIDE DEF e, q
<1>4. /\ f.price.num = q * BaseMultiplier
      /\ f.price.den = QuoteMultiplier * t.size
      /\ f.size.num = t.size
      /\ f.feeCost.num = IF maker THEN -t.rebate ELSE t.fee
  <2>1. CASE bid /\ maker
    BY <1>1, <1>2, <1>3, <2>1 DEF ParseFillEvent, Ratio
  <2>2. CASE bid /\ ~maker
    BY <1>1, <1>2, <1>3, <2>2 DEF ParseFillEvent, Ratio
  <2>3. CASE ~bid /\ maker
    BY <1>1, <1>2, <1>3, <2>3 DEF ParseFillEvent, Ratio
  <2>4. CASE ~bid /\ ~maker
    BY <1>1, <1>2, <1>3, <2>4 DEF ParseFillEvent, Ratio
  <2> QED
    BY <2>1, <2>2, <2>3, <2>4
<1>5. (t.price * t.size) * BaseMultiplier * QuoteMultiplier
        = t.price * BaseMultiplier * (QuoteMultiplier * t.size)
  BY <1>1
<1> QED
  BY <1>4, <1>5 DEF e, q

\* Every fill loadFills returns shows the price and the size of its trade and
\* what it cost or earned, for all decimals, prices, sizes, fees and rebates.
THEOREM FillsShowTradesHolds == QueueSpec => []FillsShowTrades
<1>1. QueueTypeOK => FillsShowTrades
  <2> SUFFICES ASSUME QueueTypeOK, NEW i \in DOMAIN answer.nodes,
                      IsFill(answer.nodes[i])
               PROVE  LET f == ParseFillEvent(answer.nodes[i])
                          t == f.event.of
                      IN  /\ f.price.num * QuoteMultiplier =
                               t.price * BaseMultiplier * f.price.den
                          /\ f.size.num = t.size
                          /\ f.feeCost.num = IF f.event.maker THEN -t.rebate
                                                               ELSE t.fee
    BY DEF FillsShowTrades
  <2> DEFINE e == answer.nodes[i]
  <2>1. e \in Event \cup {Blank} /\ e.fill
    BY DEF QueueTypeOK, IsFill
  <2>2. PICK t \in Trade, bid \in BOOLEAN, maker \in BOOLEAN :
          e = FillEvent(t, bid, maker)
    BY <2>1 DEF Event, OutEvent, Blank
  <2> HIDE DEF e
  <2>3. /\ ParseFillEvent(e).event = e
        /\ FillEvent(t, bid, maker).of = t
        /\ FillEvent(t, bid, maker).maker = maker
    BY DEF ParseFillEvent, FillEvent
  <2>4. /\ ParseFillEvent(e).event.of = t
        /\ ParseFillEvent(e).event.maker = maker
    BY <2>2, <2>3
  <2>5. LET f == ParseFillEvent(e)
        IN  /\ f.price.num * QuoteMultiplier =
                 t.price * BaseMultiplier * f.price.den
            /\ f.size.num = t.size
            /\ f.feeCost.num = IF maker THEN -t.rebate ELSE t.fee
    BY <2>2, ParsedIsTrade
  <2> QED
    BY <2>4, <2>5 DEF e
<1> QED
  BY <1>1, QueueTypeCorrect, PTL

-----------------------------------------------------------------------------
(* What loadEventQueue decodes is a queue.                                 *)

\* Writing an event appends it to the pending ones.
LEMMA PushAppends ==
  ASSUME QueueTypeOK, NEW e \in Event, PushEvent(e)
  PROVE  PendingEvents!Push(e)
<1>1. /\ count \in Nat /\ count < AllocLen
      /\ count' = count + 1 /\ head' = head
      /\ slots' = [slots EXCEPT ![(head + count) % AllocLen] = e]
  BY DEF QueueTypeOK, PushEvent
<1>2. Len(DecodePending) = count
  BY <1>1 DEF DecodePending
<1>3. ASSUME NEW i \in 1..count + 1
      PROVE  slots'[(head + (i - 1)) % AllocLen] =
               IF i <= count THEN slots[(head + (i - 1)) % AllocLen] ELSE e
  <2> DEFINE x == head + (i - 1)
             p == head + count
  <2>1. /\ x \in Nat /\ p \in Nat /\ p < 3 * AllocLen /\ x <= p
        /\ p < x + AllocLen
        /\ (i <= count => x < p) /\ (i > count => x = p)
    BY <1>1 DEF QueueTypeOK
  <2> HIDE DEF x, p
  <2>2. x % AllocLen \in 0..AllocLen - 1 /\ p % AllocLen \in 0..AllocLen - 1
    BY <2>1, WrapType
  <2>3. i <= count => x % AllocLen # p % AllocLen
    BY <2>1, WrapDistinct
  <2>4. slots' = [slots EXCEPT ![p % AllocLen] = e]
    BY <1>1 DEF p
  <2>5. slots'[x % AllocLen] = IF i <= count THEN slots[x % AllocLen] ELSE e
    BY <1>1, <2>1, <2>2, <2>3, <2>4 DEF QueueTypeOK
  <2> QED
    BY <2>5 DEF x
<1>4. DecodePending' = [i \in 1..count + 1 |->
                          slots'[(head + (i - 1)) % AllocLen]]
  BY <1>1 DEF DecodePending
<1>5. DecodePending' = Append(DecodePending, e)
  <2>1. Append(DecodePending, e) =
          [i \in 1..count + 1 |->
             IF i <= count THEN slots[(head + (i - 1)) % AllocLen] ELSE e]
    BY <1>1, <1>2, DecodeType DEF DecodePending
  <2> QED
    BY <1>3, <1>4, <2>1
<1> QED
  BY <1>1, <1>2, <1>5 DEF PendingEvents!Push

\* Consuming n events takes the n oldest pending ones away.
LEMMA ConsumeDrops ==
  ASSUME QueueTypeOK, NEW n \in 1..AllocLen, ConsumeEvents(n)
  PROVE  PendingEvents!Drop(n)
<1>1. /\ count \in Nat /\ n <= count /\ count <= AllocLen
      /\ count' = count - n /\ slots' = slots
      /\ head' = (head + n) % AllocLen
  BY DEF QueueTypeOK, ConsumeEvents
<1>2. Len(DecodePending) = count
  BY <1>1 DEF DecodePending
<1>3. ASSUME NEW i \in 1..count - n
      PROVE  (head' + (i - 1)) % AllocLen = (head + (n + i - 1)) % AllocLen
  <2> DEFINE h == head + n
             x == head + (n + i - 1)
  <2>1. /\ h \in Nat /\ h < 2 * AllocLen
        /\ x \in Nat /\ x < 2 * AllocLen /\ x = h + (i - 1)
    BY <1>1 DEF QueueTypeOK
  <2>2. head' = h % AllocLen
    BY <1>1
  <2> HIDE DEF h, x
  <2>3. head' = IF h < AllocLen THEN h ELSE h - AllocLen
    <3>1. h % AllocLen = IF h < AllocLen THEN h ELSE h - AllocLen
      BY <2>1, Wrap
    <3> QED
      BY <2>2, <3>1
  <2>4. CASE h < AllocLen
    BY <2>1, <2>3, <2>4 DEF x
  <2>5. CASE h >= AllocLen
    <3> DEFINE y == head' + (i - 1)
    <3>1. y \in Nat /\ y < 2 * AllocLen /\ x = y + AllocLen
      BY <2>1, <2>3, <2>5
    <3> HIDE DEF y
    <3>2. x % AllocLen = y % AllocLen
      BY <3>1, WrapAround
    <3> QED
      BY <3>2 DEF x, y
  <2> QED
    BY <2>1, <2>4, <2>5
<1>4. DecodePending' = [i \in 1..count - n |->
                          slots[(head' + (i - 1)) % AllocLen]]
  BY <1>1 DEF DecodePending
<1>5. DecodePending' = SubSeq(DecodePending, n + 1, count)
  <2>1. SubSeq(DecodePending, n + 1, count) =
          [i \in 1..count - n |-> slots[(head + (n + i - 1)) % AllocLen]]
    BY <1>1, <1>2 DEF DecodePending
  <2> QED
    BY <1>3, <1>4, <2>1
<1> QED
  BY <1>1, <1>2, <1>5 DEF PendingEvents!Drop

\* The pending events loadEventQueue shows are a bounded first-in first-out queue,
\* for every size of the ring and wherever they lie in it.
THEOREM PendingRefines == QueueSpec => PendingIsFifo
<1>1. QueueInit => PendingEvents!Init
  BY DEF QueueInit, PendingEvents!Init, DecodePending
<1>2. QueueTypeOK /\ [QueueNext]_queueVars => [PendingEvents!Next]_DecodePending
  <2> SUFFICES ASSUME QueueTypeOK, [QueueNext]_queueVars
               PROVE  PendingEvents!Next \/ UNCHANGED DecodePending
    OBVIOUS
  <2>1. ASSUME NEW e \in Event, PushEvent(e)
        PROVE  PendingEvents!Next
    BY <2>1, PushAppends DEF PendingEvents!Next
  <2>2. ASSUME NEW n \in 1..AllocLen, ConsumeEvents(n)
        PROVE  PendingEvents!Next
    BY <2>2, ConsumeDrops DEF PendingEvents!Next
  <2>3. ASSUME NEW limit \in Limit, LoadFills(limit)
        PROVE  UNCHANGED DecodePending
    BY <2>3 DEF LoadFills, DecodePending
  <2>4. CASE UNCHANGED queueVars
    BY <2>4 DEF queueVars, DecodePending
  <2> QED
    BY <2>1, <2>2, <2>3, <2>4 DEF QueueNext
<1> QED
  BY <1>1, <1>2, QueueTypeCorrect, PTL DEF QueueSpec, PendingIsFifo, PendingEvents!Spec

-----------------------------------------------------------------------------
(***************************************************************************)
(* Slab and Orderbook: insertion and removal keep the slab a crit-bit      *)
(* tree, in which Slab.get finds every order, and the generator of         *)
(* Slab.items yields the orders as their ids are numbered.                 *)
(*                                                                         *)
(* Slab.get and the descent to a fork are recursive functions.  Every node *)
(* begins with the bits its parent begins with and at least one more, so   *)
(* the recursion is well-founded: PathsEnd shows that such a function      *)
(* exists, PathsStay what it leads to.                                     *)
(***************************************************************************)

\* f is defined along the paths of next, to where they stop.
IsAlong(f, S, stops, base, next) ==
  f = [i \in S |-> IF i \in stops THEN base[i] ELSE f[next[i]]]

\* Every step of next that is no stop leads deeper, and no depth exceeds the bound.
GoesDown(S, stops, next, depth, bound) ==
  /\ depth \in [S -> Nat] /\ bound \in Nat
  /\ \A i \in S : depth[i] <= bound
  /\ \A i \in S \ stops : next[i] \in S /\ depth[i] < depth[next[i]]

\* From A, next leads nowhere else, and all stops have something in V.
LeadsTo(A, V, S, stops, base, next) ==
  /\ A \subseteq S
  /\ \A i \in A \cap stops : base[i] \in V
  /\ \A i \in A \ stops : next[i] \in A

\* A function that is defined along a path exists if some number goes up at every
\* step and is bounded: so Slab.get and the descent to a fork come to an end.
LEMMA PathsEnd ==
  ASSUME NEW S, NEW stops, NEW base, NEW next, NEW depth, NEW bound,
         GoesDown(S, stops, next, depth, bound)
  PROVE  \E f : IsAlong(f, S, stops, base, next)
<1> USE DEF GoesDown
<1> DEFINE Deep(n) == {i \in S : bound - depth[i] < n}
           Good == {n \in Nat : \E f : f = [i \in Deep(n) |->
                                  IF i \in stops THEN base[i] ELSE f[next[i]]]}
           Bad == Nat \ Good
<1>1. 0 \in Good
  <2>1. Deep(0) = {}
    OBVIOUS
  <2>2. [i \in {} |-> 0] = [i \in {} |-> IF i \in stops THEN base[i]
                                          ELSE [j \in {} |-> 0][next[i]]]
    OBVIOUS
  <2> QED
    BY <2>1, <2>2, Zenon
<1>2. ASSUME NEW n \in Nat, n \in Good
      PROVE  n + 1 \in Good
  <2>1. PICK f : f = [i \in Deep(n) |-> IF i \in stops THEN base[i] ELSE f[next[i]]]
    BY <1>2, Zenon
  <2> DEFINE g == [i \in Deep(n + 1) |-> IF i \in stops THEN base[i] ELSE f[next[i]]]
  <2>2. ASSUME NEW i \in Deep(n + 1), i \notin stops
        PROVE  f[next[i]] = g[next[i]]
    <3>1. next[i] \in Deep(n) /\ next[i] \in Deep(n + 1)
      <4>1. /\ i \in S /\ next[i] \in S
            /\ depth[i] \in Nat /\ depth[next[i]] \in Nat
            /\ depth[i] < depth[next[i]]
        BY <2>2
      <4> QED
        BY <4>1, <2>2
    <3> HIDE DEF Deep
    <3>2. f[next[i]] = IF next[i] \in stops THEN base[next[i]] ELSE f[next[next[i]]]
      BY <2>1, <3>1
    <3> QED
      BY <3>1, <3>2
  <2> HIDE DEF Deep
  <2>3. g = [i \in Deep(n + 1) |-> IF i \in stops THEN base[i] ELSE g[next[i]]]
    <3>1. \A i \in Deep(n + 1) : (IF i \in stops THEN base[i] ELSE f[next[i]])
                                  = (IF i \in stops THEN base[i] ELSE g[next[i]])
      BY <2>2
    <3> QED
      BY <3>1, Zenon
  <2>4. n + 1 \in Nat
    OBVIOUS
  <2> QED
    BY <2>3, <2>4, Zenon
<1>3. Bad = {}
  <2> SUFFICES ASSUME Bad # {}
               PROVE  FALSE
    OBVIOUS
  <2> HIDE DEF Good
  <2>1. PICK n \in Bad : \A m \in Bad : n <= m
    BY LeastOf
  <2>2. n \in Nat /\ n # 0
    BY <1>1
  <2>3. n - 1 \in Good
    <3>1. n - 1 \in Nat /\ ~ (n <= n - 1)
      BY <2>2
    <3> QED
      BY <2>1, <3>1
  <2>4. n - 1 \in Nat /\ n - 1 + 1 = n
    BY <2>2
  <2>5. n \in Good
    <3> DEFINE m == n - 1
    <3>1. m \in Nat /\ m \in Good /\ m + 1 = n
      BY <2>3, <2>4
    <3> HIDE DEF m
    <3> QED
      BY <1>2, <3>1
  <2> QED
    BY <2>5
<1>4. bound + 1 \in Good
  <2> HIDE DEF Good
  <2> QED
    BY <1>3
<1>5. Deep(bound + 1) = S
  OBVIOUS
<1> HIDE DEF Deep
<1> QED
  BY <1>4, <1>5, Zenon DEF IsAlong

\* What all the stops of some paths have in common, the function has along them.
LEMMA PathsStay ==
  ASSUME NEW S, NEW stops, NEW base, NEW next, NEW depth, NEW bound,
         GoesDown(S, stops, next, depth, bound),
         NEW f, IsAlong(f, S, stops, base, next),
         NEW A, NEW V, LeadsTo(A, V, S, stops, base, next)
  PROVE  \A i \in A : f[i] \in V
<1> USE DEF GoesDown, LeadsTo
<1> DEFINE Bad == {i \in A : f[i] \notin V}
           T == {bound - depth[i] : i \in Bad}
<1> SUFFICES ASSUME Bad # {}
             PROVE  FALSE
  OBVIOUS
<1>1. \A i \in A : i \in S /\ depth[i] \in Nat /\ bound - depth[i] \in Nat
  OBVIOUS
<1>2. T \subseteq Nat /\ T # {}
  BY <1>1
<1>3. PICK n \in T : \A m \in T : n <= m
  <2> HIDE DEF T
  <2> QED
    BY <1>2, LeastOf
<1>4. PICK i \in Bad : n = bound - depth[i]
  OBVIOUS
<1>5. i \in A /\ i \in S /\ f[i] \notin V
  BY <1>1
<1>6. f[i] = IF i \in stops THEN base[i] ELSE f[next[i]]
  BY <1>5 DEF IsAlong
<1>7. i \notin stops /\ next[i] \in A /\ f[next[i]] \notin V
  BY <1>5, <1>6
<1>8. next[i] \in Bad /\ depth[i] < depth[next[i]]
  BY <1>5, <1>7
<1>9. bound - depth[next[i]] \in T
  BY <1>8
<1>10. n <= bound - depth[next[i]]
  BY <1>3, <1>9
<1> QED
  BY <1>1, <1>4, <1>5, <1>7, <1>8, <1>10

-----------------------------------------------------------------------------

LEMMA KeyFacts ==
  /\ KeyBits \in Nat /\ KeyBits > 0
  /\ \A b \in Bits : b \in Nat /\ b < KeyBits
  /\ \A b \in Nat : b < KeyBits => b \in Bits
  /\ \A k \in Key : k \in [Bits -> {0, 1}]
BY KeyAssumption DEF Bits

LEMMA NodeFacts ==
  ASSUME NEW slab, NodesOK(slab), NEW i \in Used(slab)
  PROVE  /\ i \in Index
         /\ slab.nodes[i].key \in Key
         /\ slab.nodes[i].tag \in {"leafNode", "innerNode"}
         /\ Length(slab.nodes[i]) \in Nat /\ Length(slab.nodes[i]) <= KeyBits
         /\ slab.nodes[i].tag = "leafNode" => Length(slab.nodes[i]) = KeyBits
         /\ slab.nodes[i].tag = "innerNode" =>
              /\ Length(slab.nodes[i]) = slab.nodes[i].prefixLen
              /\ slab.nodes[i].prefixLen \in Bits
              /\ slab.nodes[i].children \in [{0, 1} -> Index]
              /\ \A c \in {0, 1} : Child(slab, i, c) \in Index
              /\ \A k \in Key : Side(slab, i, k) \in {0, 1}
<1>1. i \in Index /\ slab.nodes[i].tag \in {"leafNode", "innerNode"}
  BY DEF Used
<1> DEFINE node == slab.nodes[i]
<1>2. \/ node.tag = "leafNode" /\ node.key \in Key
      \/ node.tag = "innerNode" /\ node.prefixLen \in Bits /\ node.key \in Key
           /\ node.children \in [{0, 1} -> Index]
  BY <1>1 DEF NodesOK
<1> QED
  BY <1>1, <1>2, KeyFacts DEF Length, Child, Side

LEMMA ExtendsSelf ==
  ASSUME NEW n, Length(n) \in Nat
  PROVE  Extends(n, n)
BY DEF Extends

LEMMA ExtendsTransitive ==
  ASSUME NEW l, NEW m, NEW n, Length(l) \in Nat, Length(m) \in Nat, Length(n) \in Nat,
         Extends(m, l), Extends(n, m)
  PROVE  Extends(n, l)
BY DEF Extends

-----------------------------------------------------------------------------
(* Slab.get.                                                               *)

\* How far down a node is, and the node to which a key goes from there.
DepthOf(slab) ==
  [i \in Index |-> IF i \in Used(slab) THEN Length(slab.nodes[i]) ELSE 0]

NextOf(slab, k) == [i \in Index |-> Child(slab, i, Side(slab, i, k))]

\* The nodes at which the way down of a key ends.
StopsOf(slab, k) ==
  {i \in Index : ~ (slab.nodes[i].tag = "innerNode" /\ SharesPrefix(slab.nodes[i], k))}

\* The way down goes down.
LEMMA WayDown ==
  ASSUME NEW slab, IsCritBit(slab), NEW k \in Key
  PROVE  /\ GoesDown(Index, StopsOf(slab, k), NextOf(slab, k), DepthOf(slab), KeyBits)
         /\ \A i \in Index \ StopsOf(slab, k) :
              /\ i \in Used(slab) /\ slab.nodes[i].tag = "innerNode"
              /\ SharesPrefix(slab.nodes[i], k)
              /\ NextOf(slab, k)[i] = Child(slab, i, Side(slab, i, k))
              /\ NextOf(slab, k)[i] \in Used(slab)
<1> USE DEF IsCritBit
<1>1. \A i \in Used(slab) : i \in Index /\ Length(slab.nodes[i]) \in Nat
                              /\ Length(slab.nodes[i]) <= KeyBits
  BY NodeFacts
<1>2. ASSUME NEW i \in Index \ StopsOf(slab, k)
      PROVE  /\ i \in Used(slab) /\ slab.nodes[i].tag = "innerNode"
             /\ SharesPrefix(slab.nodes[i], k)
             /\ NextOf(slab, k)[i] = Child(slab, i, Side(slab, i, k))
             /\ NextOf(slab, k)[i] \in Index
             /\ NextOf(slab, k)[i] \in Used(slab)
             /\ DepthOf(slab)[i] < DepthOf(slab)[NextOf(slab, k)[i]]
  <2>1. slab.nodes[i].tag = "innerNode" /\ SharesPrefix(slab.nodes[i], k)
    BY DEF StopsOf
  <2>2. i \in Used(slab)
    BY <2>1 DEF Used
  <2>3. Length(slab.nodes[i]) = slab.nodes[i].prefixLen /\ Side(slab, i, k) \in {0, 1}
    BY <2>1, <2>2, NodeFacts
  <2> DEFINE j == Child(slab, i, Side(slab, i, k))
  <2>4. j \in Used(slab) /\ slab.nodes[i].prefixLen < Length(slab.nodes[j])
    BY <2>1, <2>2, <2>3 DEF ChildrenOK
  <2>5. j \in Index
    BY <1>1, <2>4
  <2> QED
    BY <2>1, <2>2, <2>3, <2>4, <2>5 DEF NextOf, DepthOf
<1>3. /\ DepthOf(slab) \in [Index -> Nat] /\ KeyBits \in Nat
      /\ \A i \in Index : DepthOf(slab)[i] <= KeyBits
  BY <1>1, KeyFacts DEF DepthOf
<1>4. GoesDown(Index, StopsOf(slab, k), NextOf(slab, k), DepthOf(slab), KeyBits)
  BY <1>2, <1>3 DEF GoesDown
<1> QED
  BY <1>2, <1>4

\* What Slab.get answers on its way down.
BaseOf(slab, k) ==
  [i \in Index |->
     IF slab.nodes[i].tag = "leafNode" THEN IF slab.nodes[i].key = k THEN i ELSE Null
     ELSE IF slab.nodes[i].tag = "innerNode" THEN Null ELSE "Invalid slab"]

LEMMA GetIsAWay ==
  ASSUME NEW slab, IsCritBit(slab), NEW k \in Key, slab.leafCount # 0
  PROVE  \E f : /\ IsAlong(f, Index, StopsOf(slab, k), BaseOf(slab, k), NextOf(slab, k))
                /\ Get(slab, k) = f[slab.root]
<1> DEFINE Step(f, i) ==
             LET node == slab.nodes[i]
             IN  IF node.tag = "leafNode" THEN IF node.key = k THEN i ELSE Null
                 ELSE IF node.tag # "innerNode" THEN "Invalid slab"
                 ELSE IF SharesPrefix(node, k) THEN f[node.children[k[node.prefixLen]]]
                 ELSE Null
           Along(f, i) == IF i \in StopsOf(slab, k) THEN BaseOf(slab, k)[i]
                          ELSE f[NextOf(slab, k)[i]]
           walk == CHOOSE f : f = [i \in Index |-> Step(f, i)]
<1>1. PICK way : IsAlong(way, Index, StopsOf(slab, k), BaseOf(slab, k), NextOf(slab, k))
  BY WayDown, PathsEnd
<1>2. ASSUME NEW f, NEW i \in Index
      PROVE  Step(f, i) = Along(f, i)
  BY DEF StopsOf, BaseOf, NextOf, Child, Side
<1>3. Get(slab, k) = IF slab.leafCount = 0 THEN Null ELSE walk[slab.root]
  BY Zenon DEF Get
<1> HIDE DEF Step
<1>4. ASSUME NEW f
      PROVE  f = [i \in Index |-> Step(f, i)]
               <=> IsAlong(f, Index, StopsOf(slab, k), BaseOf(slab, k), NextOf(slab, k))
  <2> HIDE DEF Along
  <2>1. [i \in Index |-> Step(f, i)] = [i \in Index |-> Along(f, i)]
    BY <1>2
  <2> QED
    BY <2>1, Zenon DEF IsAlong, Along
<1>5. way = [i \in Index |-> Step(way, i)]
  BY <1>1, <1>4
<1>6. walk = [i \in Index |-> Step(walk, i)]
  BY <1>5, Zenon
<1> HIDE DEF walk
<1> QED
  BY <1>3, <1>4, <1>6

-----------------------------------------------------------------------------
(* The tree.                                                               *)

Inners(slab) == {m \in Used(slab) : slab.nodes[m].tag = "innerNode"}

LEMMA ChildFacts ==
  ASSUME NEW slab, IsCritBit(slab), NEW m \in Inners(slab), NEW c \in {0, 1}
  PROVE  /\ m \in Used(slab) /\ slab.nodes[m].tag = "innerNode"
         /\ Child(slab, m, c) \in Used(slab)
         /\ Length(slab.nodes[m]) = slab.nodes[m].prefixLen
         /\ Length(slab.nodes[m]) \in Nat
         /\ Length(slab.nodes[m]) < KeyBits
         /\ Length(slab.nodes[m]) < Length(slab.nodes[Child(slab, m, c)])
         /\ Extends(slab.nodes[Child(slab, m, c)], slab.nodes[m])
         /\ Side(slab, m, slab.nodes[Child(slab, m, c)].key) = c
         /\ Child(slab, m, c) # m
<1>1. m \in Used(slab) /\ slab.nodes[m].tag = "innerNode"
  BY DEF Inners
<1>2. /\ Child(slab, m, c) \in Used(slab)
      /\ slab.nodes[m].prefixLen < Length(slab.nodes[Child(slab, m, c)])
      /\ Extends(slab.nodes[Child(slab, m, c)], slab.nodes[m])
      /\ Side(slab, m, slab.nodes[Child(slab, m, c)].key) = c
  BY <1>1 DEF IsCritBit, ChildrenOK
<1>3. Length(slab.nodes[m]) = slab.nodes[m].prefixLen /\ slab.nodes[m].prefixLen \in Bits
  BY <1>1, NodeFacts DEF IsCritBit
<1> QED
  BY <1>1, <1>2, <1>3, KeyFacts

LEMMA BranchFacts ==
  ASSUME NEW slab, IsCritBit(slab), NEW m \in Used(slab), NEW n \in Used(slab), m # n,
         Extends(slab.nodes[n], slab.nodes[m])
  PROVE  /\ m \in Inners(slab)
         /\ Length(slab.nodes[m]) < Length(slab.nodes[n])
         /\ Side(slab, m, slab.nodes[n].key) \in {0, 1}
         /\ Extends(slab.nodes[n],
                    slab.nodes[Child(slab, m, Side(slab, m, slab.nodes[n].key))])
<1>1. /\ m \in Inners(slab)
      /\ slab.nodes[m].prefixLen < Length(slab.nodes[n])
      /\ Extends(slab.nodes[n],
                 slab.nodes[Child(slab, m, Side(slab, m, slab.nodes[n].key))])
  BY DEF IsCritBit, BranchesOK, Inners
<1> QED
  BY <1>1, NodeFacts DEF IsCritBit, Inners

LEMMA LeafFacts ==
  ASSUME NEW slab, IsCritBit(slab), NEW i \in Leaves(slab)
  PROVE  /\ i \in Used(slab) /\ slab.nodes[i].tag = "leafNode"
         /\ slab.nodes[i].key \in Key
         /\ Length(slab.nodes[i]) = KeyBits
         /\ i \notin Inners(slab)
         /\ \A n \in Used(slab) : Extends(slab.nodes[n], slab.nodes[i]) => n = i
         /\ \A j \in Leaves(slab) : slab.nodes[j].key = slab.nodes[i].key => j = i
<1>1. i \in Used(slab) /\ slab.nodes[i].tag = "leafNode" /\ i \notin Inners(slab)
  BY DEF Leaves, Used, Inners
<1>2. slab.nodes[i].key \in Key /\ Length(slab.nodes[i]) = KeyBits
  BY <1>1, NodeFacts DEF IsCritBit
<1>3. \A n \in Used(slab) : Extends(slab.nodes[n], slab.nodes[i]) => n = i
  BY <1>1, BranchFacts
<1>4. ASSUME NEW j \in Leaves(slab), slab.nodes[j].key = slab.nodes[i].key
      PROVE  j = i
  <2>1. j \in Used(slab) /\ Length(slab.nodes[j]) = KeyBits
    BY NodeFacts DEF IsCritBit, Leaves, Used
  <2>2. Extends(slab.nodes[j], slab.nodes[i])
    BY <1>2, <1>4, <2>1, KeyFacts DEF Extends
  <2> QED
    BY <1>3, <2>1, <2>2
<1> QED
  BY <1>1, <1>2, <1>3, <1>4

\* Two nodes that a third begins as: one of them begins as the other.
LEMMA OneLine ==
  ASSUME NEW l, NEW m, NEW n, Length(l) \in Nat, Length(m) \in Nat, Length(n) \in Nat,
         Extends(n, l), Extends(n, m)
  PROVE  Length(l) <= Length(m) => Extends(m, l)
BY DEF Extends

LEMMA OneParent ==
  ASSUME NEW slab, IsCritBit(slab), NEW l \in Inners(slab), NEW m \in Inners(slab),
         NEW c \in {0, 1}, NEW d \in {0, 1}, Child(slab, l, c) = Child(slab, m, d)
  PROVE  l = m /\ c = d
<1> DEFINE n == Child(slab, l, c)
<1>1. /\ l \in Used(slab) /\ m \in Used(slab) /\ n \in Used(slab)
      /\ Extends(slab.nodes[n], slab.nodes[l]) /\ Extends(slab.nodes[n], slab.nodes[m])
      /\ Side(slab, l, slab.nodes[n].key) = c /\ Side(slab, m, slab.nodes[n].key) = d
      /\ Length(slab.nodes[l]) \in Nat /\ Length(slab.nodes[m]) \in Nat
      /\ Length(slab.nodes[n]) \in Nat
      /\ Length(slab.nodes[l]) < Length(slab.nodes[n])
      /\ Length(slab.nodes[m]) < Length(slab.nodes[n])
  BY ChildFacts, NodeFacts DEF IsCritBit
<1>2. ASSUME NEW p \in Inners(slab), NEW q \in Inners(slab), NEW e \in {0, 1}, p # q,
             p \in Used(slab), q \in Used(slab), n = Child(slab, p, e),
             Extends(slab.nodes[n], slab.nodes[p]), Extends(slab.nodes[n], slab.nodes[q]),
             Side(slab, p, slab.nodes[n].key) = e,
             Length(slab.nodes[p]) \in Nat, Length(slab.nodes[q]) \in Nat,
             Length(slab.nodes[p]) <= Length(slab.nodes[q]),
             Length(slab.nodes[q]) < Length(slab.nodes[n])
      PROVE  FALSE
  <2>1. Extends(slab.nodes[q], slab.nodes[p])
    BY <1>1, <1>2, OneLine
  <2>2. /\ Length(slab.nodes[p]) < Length(slab.nodes[q])
        /\ Extends(slab.nodes[q],
                   slab.nodes[Child(slab, p, Side(slab, p, slab.nodes[q].key))])
    BY <1>2, <2>1, BranchFacts
  <2>3. Length(slab.nodes[p]) = slab.nodes[p].prefixLen
    BY <1>2, ChildFacts
  <2>4. slab.nodes[q].key[slab.nodes[p].prefixLen] = slab.nodes[n].key[slab.nodes[p].prefixLen]
    BY <1>2, <2>2, <2>3 DEF Extends
  <2>5. Side(slab, p, slab.nodes[q].key) = e
    BY <1>2, <2>4 DEF Side
  <2>6. Length(slab.nodes[n]) <= Length(slab.nodes[q])
    BY <1>2, <2>2, <2>5 DEF Extends
  <2> QED
    BY <1>1, <1>2, <2>6
<1> HIDE DEF n
<1>3. n = Child(slab, l, c) /\ n = Child(slab, m, d)
  BY DEF n
<1>4. l = m
  BY <1>1, <1>2, <1>3
<1> QED
  BY <1>1, <1>4

LEMMA RootHasNoParent ==
  ASSUME NEW slab, IsCritBit(slab), slab.leafCount # 0, NEW m \in Inners(slab),
         NEW c \in {0, 1}
  PROVE  Child(slab, m, c) # slab.root
<1>1. /\ m \in Used(slab) /\ slab.root \in Used(slab)
      /\ Extends(slab.nodes[m], slab.nodes[slab.root])
      /\ Length(slab.nodes[m]) < Length(slab.nodes[Child(slab, m, c)])
      /\ Length(slab.nodes[m]) \in Nat
  BY ChildFacts DEF IsCritBit, RootOK
<1>2. Length(slab.nodes[slab.root]) \in Nat
  BY <1>1, NodeFacts DEF IsCritBit
<1> QED
  BY <1>1, <1>2 DEF Extends

\* Every node but the root has a parent: the longest that it begins as.
LEMMA HasParent ==
  ASSUME NEW slab, IsCritBit(slab), slab.leafCount # 0, NEW n \in Used(slab),
         n # slab.root
  PROVE  \E m \in Inners(slab), c \in {0, 1} : n = Child(slab, m, c)
<1> DEFINE Above == {m \in Used(slab) : m # n /\ Extends(slab.nodes[n], slab.nodes[m])}
           T == {KeyBits - Length(slab.nodes[m]) : m \in Above}
<1>1. \A m \in Used(slab) : Length(slab.nodes[m]) \in Nat /\ Length(slab.nodes[m]) <= KeyBits
  BY NodeFacts DEF IsCritBit
<1>2. slab.root \in Above
  BY DEF IsCritBit, RootOK
<1>3. T \subseteq Nat /\ T # {}
  BY <1>1, <1>2, KeyFacts
<1>4. PICK t \in T : \A u \in T : t <= u
  <2> HIDE DEF T
  <2> QED
    BY <1>3, LeastOf
<1>5. PICK m \in Above : t = KeyBits - Length(slab.nodes[m])
  OBVIOUS
<1> DEFINE c == Side(slab, m, slab.nodes[n].key)
           j == Child(slab, m, c)
<1>6. m \in Inners(slab) /\ c \in {0, 1} /\ Extends(slab.nodes[n], slab.nodes[j])
  BY <1>5, BranchFacts
<1>7. j \in Used(slab) /\ Length(slab.nodes[m]) < Length(slab.nodes[j])
  BY <1>6, ChildFacts
<1>8. j = n
  <2> SUFFICES ASSUME j # n
               PROVE  FALSE
    OBVIOUS
  <2>1. j \in Above
    BY <1>6, <1>7
  <2>2. t <= KeyBits - Length(slab.nodes[j])
    BY <1>4, <2>1
  <2> QED
    BY <1>1, <1>5, <1>7, <2>2, KeyFacts
<1> QED
  BY <1>6, <1>8

-----------------------------------------------------------------------------
(* What Slab.get finds.                                                    *)

\* A leaf of the key is found: it is below every node on the way down.
LEMMA GetFindsTheLeaf ==
  ASSUME NEW slab, IsCritBit(slab), NEW leaf \in Leaves(slab)
  PROVE  Get(slab, slab.nodes[leaf].key) = leaf
<1> DEFINE k == slab.nodes[leaf].key
           A == {i \in Used(slab) : Extends(slab.nodes[leaf], slab.nodes[i])}
<1>1. /\ leaf \in Used(slab) /\ slab.nodes[leaf].tag = "leafNode" /\ k \in Key
      /\ Length(slab.nodes[leaf]) = KeyBits /\ leaf \notin Inners(slab)
  BY LeafFacts
<1>2. slab.leafCount # 0 /\ slab.root \in A
  <2>1. slab.leafCount # 0
    BY <1>1 DEF IsCritBit, CountOK
  <2> QED
    BY <1>1, <2>1 DEF IsCritBit, RootOK
<1>3. PICK f : /\ IsAlong(f, Index, StopsOf(slab, k), BaseOf(slab, k), NextOf(slab, k))
               /\ Get(slab, k) = f[slab.root]
  BY <1>1, <1>2, GetIsAWay
<1>4. ASSUME NEW i \in A \cap StopsOf(slab, k)
      PROVE  BaseOf(slab, k)[i] \in {leaf}
  <2>1. i \in Used(slab) /\ i \in Index /\ Extends(slab.nodes[leaf], slab.nodes[i])
    BY DEF Used
  <2>2. i = leaf
    <3> SUFFICES ASSUME i # leaf
                 PROVE  FALSE
      OBVIOUS
    <3>1. i \in Inners(slab)
      BY <1>1, <2>1, BranchFacts
    <3>2. slab.nodes[i].tag = "innerNode" /\ Length(slab.nodes[i]) = slab.nodes[i].prefixLen
      BY <3>1, ChildFacts
    <3>3. SharesPrefix(slab.nodes[i], k)
      BY <2>1, <3>2 DEF Extends, SharesPrefix
    <3> QED
      BY <3>2, <3>3 DEF StopsOf
  <2> QED
    BY <1>1, <2>1, <2>2 DEF BaseOf
<1>5. ASSUME NEW i \in A \ StopsOf(slab, k)
      PROVE  NextOf(slab, k)[i] \in A
  <2>1. i \in Used(slab) /\ i \in Index /\ Extends(slab.nodes[leaf], slab.nodes[i])
    BY DEF Used
  <2>2. /\ NextOf(slab, k)[i] = Child(slab, i, Side(slab, i, k))
        /\ NextOf(slab, k)[i] \in Used(slab) /\ slab.nodes[i].tag = "innerNode"
    BY <1>1, <2>1, WayDown
  <2>3. i # leaf
    BY <1>1, <2>2
  <2> QED
    BY <1>1, <2>1, <2>2, <2>3, BranchFacts
<1>6. GoesDown(Index, StopsOf(slab, k), NextOf(slab, k), DepthOf(slab), KeyBits)
  BY <1>1, WayDown
<1>7. A \subseteq Index
  BY DEF Used
<1> HIDE DEF A, k
<1>8. LeadsTo(A, {leaf}, Index, StopsOf(slab, k), BaseOf(slab, k), NextOf(slab, k))
  BY <1>4, <1>5, <1>7 DEF LeadsTo
<1>9. \A i \in A : f[i] \in {leaf}
  BY <1>3, <1>6, <1>8, PathsStay
<1> QED
  BY <1>2, <1>3, <1>9 DEF k

\* The key of no leaf is not found, whichever leaf or fork the way down comes to.
LEMMA GetFindsNoOther ==
  ASSUME NEW slab, IsCritBit(slab), NEW k \in Key \ Keys(slab)
  PROVE  Get(slab, k) = Null
<1>1. CASE slab.leafCount = 0
  BY <1>1, Zenon DEF Get
<1>2. CASE slab.leafCount # 0
  <2>1. PICK f : /\ IsAlong(f, Index, StopsOf(slab, k), BaseOf(slab, k), NextOf(slab, k))
                 /\ Get(slab, k) = f[slab.root]
    BY <1>2, GetIsAWay
  <2>2. ASSUME NEW i \in Used(slab) \cap StopsOf(slab, k)
        PROVE  BaseOf(slab, k)[i] \in {Null}
    <3>1. i \in Index /\ slab.nodes[i].tag \in {"leafNode", "innerNode"}
      BY DEF Used
    <3>2. slab.nodes[i].tag = "leafNode" => slab.nodes[i].key # k
      BY <3>1 DEF Keys, Leaves
    <3> QED
      BY <3>1, <3>2 DEF BaseOf
  <2>3. /\ GoesDown(Index, StopsOf(slab, k), NextOf(slab, k), DepthOf(slab), KeyBits)
        /\ \A i \in Used(slab) \ StopsOf(slab, k) : NextOf(slab, k)[i] \in Used(slab)
    BY WayDown DEF Used
  <2>4. Used(slab) \subseteq Index /\ slab.root \in Used(slab)
    BY <1>2 DEF Used, IsCritBit, RootOK
  <2>5. LeadsTo(Used(slab), {Null}, Index, StopsOf(slab, k), BaseOf(slab, k), NextOf(slab, k))
    BY <2>2, <2>3, <2>4 DEF LeadsTo
  <2>6. \A i \in Used(slab) : f[i] \in {Null}
    BY <2>1, <2>3, <2>5, PathsStay
  <2> QED
    BY <2>1, <2>4, <2>6
<1> QED
  BY <1>1, <1>2

-----------------------------------------------------------------------------
(* Where a new key leaves the tree.                                        *)

\* The node i is where the way down of k comes to, from the side on which k belongs.
Reached(slab, i, k) ==
  \/ i = slab.root
  \/ \E m \in Inners(slab) :
       SharesPrefix(slab.nodes[m], k) /\ i = Child(slab, m, Side(slab, m, k))

LEMMA ForkIsReached ==
  ASSUME NEW slab, IsCritBit(slab), slab.leafCount # 0, NEW k \in Key
  PROVE  /\ Fork(slab, k) \in Used(slab) \cap StopsOf(slab, k)
         /\ Reached(slab, Fork(slab, k), k)
<1> DEFINE Step(f, i) ==
             IF slab.nodes[i].tag = "innerNode" /\ SharesPrefix(slab.nodes[i], k)
             THEN f[slab.nodes[i].children[k[slab.nodes[i].prefixLen]]]
             ELSE i
           down == CHOOSE f : f = [i \in Index |-> Step(f, i)]
           base == [i \in Index |-> i]
           Along(f, i) == IF i \in StopsOf(slab, k) THEN base[i] ELSE f[NextOf(slab, k)[i]]
           A == {i \in Used(slab) : Reached(slab, i, k)}
           V == A \cap StopsOf(slab, k)
<1>1. PICK way : IsAlong(way, Index, StopsOf(slab, k), base, NextOf(slab, k))
  <2> HIDE DEF base
  <2> QED
    BY WayDown, PathsEnd
<1>2. ASSUME NEW f, NEW i \in Index
      PROVE  Step(f, i) = Along(f, i)
  BY DEF StopsOf, NextOf, Child, Side
<1>3. Fork(slab, k) = down[slab.root]
  BY Zenon DEF Fork
<1> HIDE DEF Step, base
<1>4. ASSUME NEW f
      PROVE  f = [i \in Index |-> Step(f, i)]
               <=> IsAlong(f, Index, StopsOf(slab, k), base, NextOf(slab, k))
  <2> HIDE DEF Along
  <2>1. [i \in Index |-> Step(f, i)] = [i \in Index |-> Along(f, i)]
    BY <1>2
  <2> QED
    BY <2>1, Zenon DEF IsAlong, Along
<1>5. way = [i \in Index |-> Step(way, i)]
  BY <1>1, <1>4
<1>6. down = [i \in Index |-> Step(down, i)]
  BY <1>5, Zenon
<1> HIDE DEF down
<1>7. IsAlong(down, Index, StopsOf(slab, k), base, NextOf(slab, k))
  BY <1>4, <1>6
<1>8. GoesDown(Index, StopsOf(slab, k), NextOf(slab, k), DepthOf(slab), KeyBits)
  BY WayDown
<1>9. A \subseteq Index /\ slab.root \in A
  BY DEF Used, IsCritBit, RootOK, Reached
<1>10. ASSUME NEW i \in A \ StopsOf(slab, k)
       PROVE  NextOf(slab, k)[i] \in A
  <2>1. /\ i \in Used(slab) /\ slab.nodes[i].tag = "innerNode"
        /\ SharesPrefix(slab.nodes[i], k)
        /\ NextOf(slab, k)[i] = Child(slab, i, Side(slab, i, k))
        /\ NextOf(slab, k)[i] \in Used(slab)
    BY <1>9, WayDown
  <2> QED
    BY <2>1 DEF Reached, Inners
<1>11. \A i \in A \cap StopsOf(slab, k) : base[i] \in V
  BY <1>9 DEF base
<1> HIDE DEF A, V
<1>12. LeadsTo(A, V, Index, StopsOf(slab, k), base, NextOf(slab, k))
  BY <1>9, <1>10, <1>11 DEF LeadsTo
<1>13. \A i \in A : down[i] \in V
  BY <1>7, <1>8, <1>12, PathsStay
<1> QED
  BY <1>3, <1>9, <1>13 DEF A, V

-----------------------------------------------------------------------------
(* A new order: t is s with the key k put in at the fork i.                *)

Grafted(s, t, k, q, i, b, new, old) ==
  /\ i \in Used(s) /\ Reached(s, i, k)
  /\ {new, old} \subseteq Index \ Used(s) /\ new # old
  /\ b \in Bits /\ b < Length(s.nodes[i])
  /\ s.nodes[i].key[b] # k[b] /\ \A c \in 0..b - 1 : s.nodes[i].key[c] = k[c]
  /\ t = [root |-> s.root, leafCount |-> s.leafCount + 1, nodes |-> t.nodes]
  /\ DOMAIN t.nodes = Index
  /\ t.nodes[new] = Leaf(k, q)
  /\ t.nodes[old] = s.nodes[i]
  /\ t.nodes[i] = Inner(b, k, [c \in {0, 1} |-> IF c = k[b] THEN new ELSE old])
  /\ \A j \in Index \ {i, new, old} : t.nodes[j] = s.nodes[j]

LEMMA IndexFacts ==
  /\ Index \subseteq Nat /\ 0 \in Index
  /\ IsFiniteSet(Index)
BY SlabAssumption, FS_Interval DEF Index

LEMMA LowestIs ==
  ASSUME NEW indices, indices \subseteq Index, indices # {}
  PROVE  Lowest(indices) \in indices
<1>1. \E i \in indices : \A j \in indices : i <= j
  BY IndexFacts, LeastOf
<1> QED
  BY <1>1 DEF Lowest

LEMMA CritBitIs ==
  ASSUME NEW k \in Key, NEW l \in Key, NEW len \in Nat, len <= KeyBits,
         \E b \in 0..len - 1 : k[b] # l[b]
  PROVE  /\ CritBit(k, l) \in Bits /\ CritBit(k, l) < len
         /\ k[CritBit(k, l)] # l[CritBit(k, l)]
         /\ \A c \in 0..CritBit(k, l) - 1 : k[c] = l[c]
<1> DEFINE T == {b \in Bits : k[b] # l[b]}
<1>1. PICK d \in 0..len - 1 : k[d] # l[d]
  OBVIOUS
<1>2. d \in T /\ d \in Nat /\ d < len /\ T \subseteq Nat
  BY <1>1, KeyFacts
<1>3. PICK b \in T : \A c \in T : b <= c
  <2> HIDE DEF T
  <2> QED
    BY <1>2, LeastOf
<1>4. b \in Bits /\ k[b] # l[b] /\ \A c \in 0..b - 1 : k[c] = l[c]
  <2>1. b \in Bits /\ k[b] # l[b]
    OBVIOUS
  <2>2. ASSUME NEW c \in 0..b - 1
        PROVE  k[c] = l[c]
    <3>1. c \in Bits /\ ~ (b <= c)
      BY <2>1, KeyFacts
    <3> QED
      BY <1>3, <3>1
  <2> QED
    BY <2>1, <2>2
<1> DEFINE crit == CritBit(k, l)
<1>5. crit \in Bits /\ k[crit] # l[crit] /\ \A c \in 0..crit - 1 : k[c] = l[c]
  BY <1>4 DEF CritBit
<1> HIDE DEF crit
<1>6. crit <= d
  <2>1. crit \in Nat
    BY <1>5, KeyFacts
  <2> QED
    BY <1>1, <1>2, <1>5, <2>1
<1>7. crit \in Nat /\ crit < len
  BY <1>2, <1>5, <1>6, KeyFacts
<1> QED
  BY <1>5, <1>7 DEF crit

LEMMA InsertGrafts ==
  ASSUME NEW s, IsCritBit(s), s.leafCount # 0, NEW k \in Key \ Keys(s), NEW q,
         Cardinality(FreeIndices(s)) >= 2
  PROVE  \E i, b, new, old : Grafted(s, InsertOrder(s, k, q), k, q, i, b, new, old)
<1> DEFINE i == Fork(s, k)
           moved == s.nodes[i]
           b == CritBit(moved.key, k)
           new == Lowest(FreeIndices(s))
           old == Lowest(FreeIndices(s) \ {new})
           children == [c \in {0, 1} |-> IF c = k[b] THEN new ELSE old]
           t == InsertOrder(s, k, q)
<1>1. /\ i \in Used(s) /\ i \in Index /\ Reached(s, i, k)
      /\ ~ (moved.tag = "innerNode" /\ SharesPrefix(moved, k))
  BY ForkIsReached DEF StopsOf
<1>2. /\ moved.key \in Key /\ moved.tag \in {"leafNode", "innerNode"}
      /\ Length(moved) \in Nat /\ Length(moved) <= KeyBits
      /\ moved.tag = "leafNode" => Length(moved) = KeyBits
      /\ moved.tag = "innerNode" => Length(moved) = moved.prefixLen
  BY <1>1, NodeFacts DEF IsCritBit
<1>3. \E c \in 0..Length(moved) - 1 : moved.key[c] # k[c]
  <2>1. CASE moved.tag = "leafNode"
    <3>1. moved.key # k
      BY <1>1, <2>1 DEF Keys, Leaves
    <3>2. PICK c \in Bits : moved.key[c] # k[c]
      BY <1>2, <3>1, KeyFacts
    <3> QED
      BY <1>2, <2>1, <3>2 DEF Bits
  <2>2. CASE moved.tag = "innerNode"
    BY <1>1, <1>2, <2>2 DEF SharesPrefix
  <2> QED
    BY <1>2, <2>1, <2>2
<1>4. /\ b \in Bits /\ b < Length(moved) /\ moved.key[b] # k[b]
      /\ \A c \in 0..b - 1 : moved.key[c] = k[c]
  BY <1>2, <1>3, CritBitIs
<1>5. FreeIndices(s) \subseteq Index /\ IsFiniteSet(FreeIndices(s))
  BY IndexFacts, FS_Subset DEF FreeIndices
<1>6. new \in FreeIndices(s)
  BY <1>5, LowestIs, FS_EmptySet
<1>7. old \in FreeIndices(s) \ {new}
  <2>1. FreeIndices(s) \ {new} # {}
    <3>1. Cardinality(FreeIndices(s) \ {new}) = Cardinality(FreeIndices(s)) - 1
            /\ Cardinality(FreeIndices(s)) \in Nat
      BY <1>5, <1>6, FS_RemoveElement, FS_CardinalityType
    <3> QED
      BY <3>1, FS_EmptySet
  <2> QED
    BY <1>5, <2>1, LowestIs
<1>8. FreeIndices(s) \cap Used(s) = {}
  BY DEF FreeIndices, Used, Free
<1>9. t = [s EXCEPT !.leafCount = @ + 1, !.nodes[new] = Leaf(k, q), !.nodes[old] = moved,
                    !.nodes[i] = Inner(b, k, children)]
  BY DEF InsertOrder
<1>10. s = [root |-> s.root, leafCount |-> s.leafCount, nodes |-> s.nodes]
         /\ DOMAIN s.nodes = Index
  BY DEF IsCritBit, NodesOK
<1> HIDE DEF i, b, new, old, t, children
<1>11. /\ t.nodes = [s.nodes EXCEPT ![new] = Leaf(k, q), ![old] = moved,
                                    ![i] = Inner(b, k, children)]
       /\ t = [root |-> s.root, leafCount |-> s.leafCount + 1, nodes |-> t.nodes]
  BY <1>9, <1>10
<1>12. new \in Index /\ old \in Index /\ new # old /\ new # i /\ old # i
         /\ {new, old} \subseteq Index \ Used(s)
  BY <1>1, <1>5, <1>6, <1>7, <1>8
<1> HIDE DEF moved
<1>13. /\ DOMAIN t.nodes = Index
       /\ t.nodes[new] = Leaf(k, q)
       /\ t.nodes[old] = moved
       /\ t.nodes[i] = Inner(b, k, children)
       /\ \A j \in Index \ {i, new, old} : t.nodes[j] = s.nodes[j]
  BY <1>1, <1>10, <1>11, <1>12
<1>14. Grafted(s, t, k, q, i, b, new, old)
  BY <1>1, <1>4, <1>11, <1>12, <1>13 DEF Grafted, children, moved
<1> QED
  BY <1>14 DEF t

\* What is on the way to the fork branches off before the new key does.
LEMMA ParentOfFork ==
  ASSUME NEW s, IsCritBit(s), s.leafCount # 0, NEW k \in Key, NEW t, NEW q,
         NEW i, NEW b, NEW new, NEW old, Grafted(s, t, k, q, i, b, new, old),
         NEW m \in Inners(s), NEW c \in {0, 1}, Child(s, m, c) = i
  PROVE  /\ SharesPrefix(s.nodes[m], k) /\ Side(s, m, k) = c
         /\ s.nodes[m].prefixLen < b
<1>1. /\ i \in Used(s) /\ Reached(s, i, k) /\ b \in Bits /\ b \in Nat
      /\ s.nodes[i].key[b] # k[b]
  BY KeyFacts DEF Grafted
<1>2. i # s.root
  BY RootHasNoParent
<1>3. PICK l \in Inners(s) : SharesPrefix(s.nodes[l], k) /\ i = Child(s, l, Side(s, l, k))
  BY <1>1, <1>2 DEF Reached
<1>4. Side(s, l, k) \in {0, 1}
  BY NodeFacts DEF Inners, IsCritBit
<1>5. l = m /\ Side(s, l, k) = c
  BY <1>3, <1>4, OneParent
<1>6. /\ Length(s.nodes[m]) = s.nodes[m].prefixLen /\ Length(s.nodes[m]) \in Nat
      /\ Extends(s.nodes[i], s.nodes[m]) /\ Side(s, m, s.nodes[i].key) = c
  BY ChildFacts
<1>7. \A d \in 0..s.nodes[m].prefixLen : s.nodes[i].key[d] = k[d]
  <2>1. \A d \in 0..s.nodes[m].prefixLen - 1 : s.nodes[i].key[d] = k[d]
    BY <1>3, <1>5, <1>6 DEF SharesPrefix, Extends
  <2>2. s.nodes[i].key[s.nodes[m].prefixLen] = k[s.nodes[m].prefixLen]
    BY <1>5, <1>6 DEF Side
  <2> QED
    BY <1>6, <2>1, <2>2
<1>8. s.nodes[m].prefixLen < b
  BY <1>1, <1>6, <1>7
<1> QED
  BY <1>3, <1>5, <1>8

\* The nodes that begin as the new key does up to the fork are below it.
LEMMA ThroughTheFork ==
  ASSUME NEW s, IsCritBit(s), s.leafCount # 0, NEW k \in Key, NEW t, NEW q,
         NEW i, NEW b, NEW new, NEW old, Grafted(s, t, k, q, i, b, new, old),
         NEW n \in Used(s), b <= Length(s.nodes[n]),
         \A c \in 0..b - 1 : s.nodes[n].key[c] = k[c]
  PROVE  Extends(s.nodes[n], s.nodes[i])
<1>1. CASE i = s.root
  BY <1>1 DEF IsCritBit, RootOK
<1>2. CASE i # s.root
  <2>1. b \in Nat /\ Length(s.nodes[n]) \in Nat
    BY KeyFacts, NodeFacts DEF Grafted, IsCritBit
  <2>2. PICK m \in Inners(s) : SharesPrefix(s.nodes[m], k) /\ i = Child(s, m, Side(s, m, k))
    BY <1>2 DEF Grafted, Reached
  <2>3. Side(s, m, k) \in {0, 1}
    BY NodeFacts DEF Inners, IsCritBit
  <2>4. s.nodes[m].prefixLen < b
    BY <2>2, <2>3, ParentOfFork
  <2>5. /\ m \in Used(s) /\ Length(s.nodes[m]) = s.nodes[m].prefixLen
        /\ Length(s.nodes[m]) \in Nat
    BY <2>3, ChildFacts
  <2>6. Extends(s.nodes[n], s.nodes[m]) /\ m # n
    BY <2>1, <2>2, <2>4, <2>5 DEF Extends, SharesPrefix
  <2>7. Extends(s.nodes[n], s.nodes[Child(s, m, Side(s, m, s.nodes[n].key))])
    BY <2>5, <2>6, BranchFacts
  <2>8. Side(s, m, s.nodes[n].key) = Side(s, m, k)
    BY <2>1, <2>4, <2>5 DEF Side
  <2> QED
    BY <2>2, <2>7, <2>8
<1> QED
  BY <1>1, <1>2

\* The nodes of t, and how those of s lie to the new inner node.
LEMMA GraftedFacts ==
  ASSUME NEW s, IsCritBit(s), s.leafCount # 0, NEW k \in Key, NEW t, NEW q,
         NEW i, NEW b, NEW new, NEW old, Grafted(s, t, k, q, i, b, new, old)
  PROVE  /\ i \in Used(s) /\ new \notin Used(s) /\ old \notin Used(s) /\ new # old
         /\ Used(t) = Used(s) \cup {new, old}
         /\ \A j \in Used(s) \ {i} : t.nodes[j] = s.nodes[j]
         /\ t.nodes[old] = s.nodes[i]
         /\ b \in Bits /\ b \in Nat /\ b < KeyBits /\ b < Length(s.nodes[i])
         /\ s.nodes[i].key[b] # k[b]
         /\ t.nodes[new].tag = "leafNode" /\ t.nodes[new].key = k
         /\ Length(t.nodes[new]) = KeyBits
         /\ t.nodes[i].tag = "innerNode" /\ t.nodes[i].key = k
         /\ t.nodes[i].prefixLen = b /\ Length(t.nodes[i]) = b
         /\ k[b] \in {0, 1} /\ s.nodes[i].key[b] \in {0, 1}
         /\ Child(t, i, k[b]) = new /\ Child(t, i, s.nodes[i].key[b]) = old
         /\ Extends(s.nodes[i], t.nodes[i]) /\ Extends(t.nodes[new], t.nodes[i])
         /\ \A j \in Used(s) : Length(s.nodes[j]) \in Nat /\ Length(s.nodes[j]) <= KeyBits
         /\ \A n \in Used(s) :
              Extends(s.nodes[n], t.nodes[i]) <=> Extends(s.nodes[n], s.nodes[i])
         /\ \A m \in Used(s) :
              Extends(t.nodes[i], s.nodes[m]) => Extends(s.nodes[i], s.nodes[m])
<1> USE DEF Grafted
<1> DEFINE children == [c \in {0, 1} |-> IF c = k[b] THEN new ELSE old]
<1>1. /\ i \in Used(s) /\ new \notin Used(s) /\ old \notin Used(s) /\ new # old
      /\ i \in Index /\ new \in Index /\ old \in Index
      /\ b \in Bits /\ b < Length(s.nodes[i]) /\ s.nodes[i].key[b] # k[b]
      /\ \A c \in 0..b - 1 : s.nodes[i].key[c] = k[c]
      /\ t.nodes[new] = Leaf(k, q) /\ t.nodes[old] = s.nodes[i]
      /\ t.nodes[i] = Inner(b, k, children)
      /\ \A j \in Index \ {i, new, old} : t.nodes[j] = s.nodes[j]
  BY DEF Used
<1> HIDE DEF children, Grafted
<1>2. /\ t.nodes[new].tag = "leafNode" /\ t.nodes[new].key = k
      /\ t.nodes[i].tag = "innerNode" /\ t.nodes[i].key = k
      /\ t.nodes[i].prefixLen = b /\ t.nodes[i].children = children
  BY <1>1 DEF Leaf, Inner
<1>3. Length(t.nodes[new]) = KeyBits /\ Length(t.nodes[i]) = b
  BY <1>2 DEF Length
<1>4. s.nodes[i].key \in Key /\ k[b] \in {0, 1} /\ s.nodes[i].key[b] \in {0, 1}
        /\ b \in Nat /\ b < KeyBits
  BY <1>1, NodeFacts, KeyFacts DEF IsCritBit
<1>5. Child(t, i, k[b]) = new /\ Child(t, i, s.nodes[i].key[b]) = old
  BY <1>1, <1>2, <1>4 DEF Child, children
<1>6. /\ \A j \in Used(s) \ {i} : t.nodes[j] = s.nodes[j]
      /\ Used(t) = Used(s) \cup {new, old}
  <2>1. Used(s) \subseteq Index
    BY DEF Used
  <2>2. ASSUME NEW j \in Index
        PROVE  j \in Used(t) <=> j \in Used(s) \cup {new, old}
    <3>1. CASE j \in {i, new}
      BY <1>1, <1>2, <3>1 DEF Used
    <3>2. CASE j = old
      BY <1>1, <3>2 DEF Used
    <3>3. CASE j \notin {i, new, old}
      BY <1>1, <3>3 DEF Used
    <3> QED
      BY <3>1, <3>2, <3>3
  <2>3. Used(t) \subseteq Index
    BY DEF Used
  <2> QED
    BY <1>1, <2>1, <2>2, <2>3
<1>7. \A j \in Used(s) : Length(s.nodes[j]) \in Nat /\ Length(s.nodes[j]) <= KeyBits
  BY NodeFacts DEF IsCritBit
<1>8. Extends(s.nodes[i], t.nodes[i]) /\ Extends(t.nodes[new], t.nodes[i])
  BY <1>1, <1>2, <1>3, <1>4, <1>7, KeyFacts DEF Extends
<1>9. ASSUME NEW n \in Used(s)
      PROVE  Extends(s.nodes[n], t.nodes[i]) <=> Extends(s.nodes[n], s.nodes[i])
  <2>1. ASSUME Extends(s.nodes[n], t.nodes[i])
        PROVE  Extends(s.nodes[n], s.nodes[i])
    <3>1. b <= Length(s.nodes[n]) /\ \A c \in 0..b - 1 : s.nodes[n].key[c] = k[c]
      BY <1>2, <1>3, <2>1 DEF Extends
    <3> QED
      BY <3>1, ThroughTheFork
  <2>2. ASSUME Extends(s.nodes[n], s.nodes[i])
        PROVE  Extends(s.nodes[n], t.nodes[i])
    BY <1>1, <1>3, <1>4, <1>7, <1>8, <2>2, ExtendsTransitive
  <2> QED
    BY <2>1, <2>2
<1>10. ASSUME NEW m \in Used(s), Extends(t.nodes[i], s.nodes[m])
       PROVE  Extends(s.nodes[i], s.nodes[m])
  BY <1>1, <1>3, <1>4, <1>7, <1>8, <1>10, ExtendsTransitive
<1> QED
  BY <1>1, <1>2, <1>3, <1>4, <1>5, <1>6, <1>7, <1>8, <1>9, <1>10

LEMMA GraftedNodes ==
  ASSUME NEW s, IsCritBit(s), s.leafCount # 0, NEW k \in Key, NEW t, NEW q,
         NEW i, NEW b, NEW new, NEW old, Grafted(s, t, k, q, i, b, new, old)
  PROVE  NodesOK(t)
<1> DEFINE NodeOK(node) ==
             \/ node.tag = "freeNode" /\ node = Free
             \/ node.tag = "leafNode" /\ node = Leaf(node.key, node.quantity)
                  /\ node.key \in Key
             \/ node.tag = "innerNode" /\ node = Inner(node.prefixLen, node.key, node.children)
                  /\ node.prefixLen \in Bits /\ node.key \in Key
                  /\ node.children \in [{0, 1} -> Index]
           children == [c \in {0, 1} |-> IF c = k[b] THEN new ELSE old]
<1>1. /\ i \in Index /\ new \in Index /\ old \in Index /\ b \in Bits
      /\ t.nodes[new] = Leaf(k, q) /\ t.nodes[old] = s.nodes[i]
      /\ t.nodes[i] = Inner(b, k, children)
      /\ \A j \in Index \ {i, new, old} : t.nodes[j] = s.nodes[j]
      /\ t = [root |-> s.root, leafCount |-> s.leafCount + 1, nodes |-> t.nodes]
      /\ DOMAIN t.nodes = Index
  BY DEF Grafted, Used
<1>2. \A j \in Index : NodeOK(s.nodes[j])
  BY DEF IsCritBit, NodesOK
<1>3. children \in [{0, 1} -> Index]
  BY <1>1
<1> HIDE DEF children
<1>4. NodeOK(Leaf(k, q)) /\ NodeOK(Inner(b, k, children))
  BY <1>1, <1>3 DEF Leaf, Inner
<1> HIDE DEF NodeOK
<1>5. \A j \in Index : NodeOK(t.nodes[j])
  BY <1>1, <1>2, <1>4
<1>6. t = [root |-> t.root, leafCount |-> t.leafCount, nodes |-> t.nodes]
  BY <1>1
<1> QED
  BY <1>1, <1>5, <1>6 DEF NodesOK, NodeOK

LEMMA GraftedCount ==
  ASSUME NEW s, IsCritBit(s), s.leafCount # 0, NEW k \in Key, NEW t, NEW q,
         NEW i, NEW b, NEW new, NEW old, Grafted(s, t, k, q, i, b, new, old)
  PROVE  CountOK(t)
<1>1. t.leafCount = s.leafCount + 1 /\ s.leafCount = Cardinality(Leaves(s))
  BY DEF Grafted, IsCritBit, CountOK
<1>2. IsFiniteSet(Leaves(s)) /\ Leaves(s) \subseteq Index /\ Cardinality(Leaves(s)) \in Nat
  BY IndexFacts, FS_Subset, FS_CardinalityType DEF Leaves
<1>3. /\ i \in Index /\ new \in Index /\ old \in Index /\ new # old /\ i # new /\ i # old
      /\ new \notin Leaves(s) /\ old \notin Leaves(s)
      /\ t.nodes[new].tag = "leafNode" /\ t.nodes[i].tag = "innerNode"
      /\ t.nodes[old] = s.nodes[i]
      /\ \A j \in Index \ {i, new, old} : t.nodes[j] = s.nodes[j]
  <2>1. t.nodes[new].tag = "leafNode" /\ t.nodes[i].tag = "innerNode"
    BY GraftedFacts
  <2> QED
    BY <2>1 DEF Grafted, Used, Leaves
<1>4. CASE s.nodes[i].tag = "leafNode"
  <2>1. Leaves(t) = ((Leaves(s) \ {i}) \cup {old}) \cup {new} /\ i \in Leaves(s)
    BY <1>3, <1>4 DEF Leaves
  <2>2. /\ IsFiniteSet(Leaves(s) \ {i})
        /\ Cardinality(Leaves(s) \ {i}) = Cardinality(Leaves(s)) - 1
    BY <1>2, <2>1, FS_RemoveElement
  <2>3. /\ IsFiniteSet((Leaves(s) \ {i}) \cup {old})
        /\ Cardinality((Leaves(s) \ {i}) \cup {old}) = Cardinality(Leaves(s) \ {i}) + 1
    BY <1>3, <2>2, FS_AddElement
  <2>4. Cardinality(Leaves(t)) = Cardinality((Leaves(s) \ {i}) \cup {old}) + 1
    BY <1>3, <2>1, <2>3, FS_AddElement
  <2> QED
    BY <1>1, <1>2, <2>2, <2>3, <2>4 DEF CountOK
<1>5. CASE s.nodes[i].tag # "leafNode"
  <2>1. Leaves(t) = Leaves(s) \cup {new}
    BY <1>3, <1>5 DEF Leaves
  <2>2. Cardinality(Leaves(t)) = Cardinality(Leaves(s)) + 1
    BY <1>2, <1>3, <2>1, FS_AddElement
  <2> QED
    BY <1>1, <1>2, <2>2 DEF CountOK
<1> QED
  BY <1>4, <1>5

LEMMA GraftedRoot ==
  ASSUME NEW s, IsCritBit(s), s.leafCount # 0, NEW k \in Key, NEW t, NEW q,
         NEW i, NEW b, NEW new, NEW old, Grafted(s, t, k, q, i, b, new, old)
  PROVE  RootOK(t)
<1> DEFINE r == s.root
<1>1. /\ t.root = r /\ r \in Index /\ r \in Used(s) /\ i \in Used(s)
      /\ \A n \in Used(s) : Extends(s.nodes[n], s.nodes[r])
  BY DEF Grafted, IsCritBit, RootOK
<1> HIDE DEF r
<1>2. CASE i = r
  <2>1. ASSUME NEW n \in Used(t)
        PROVE  Extends(t.nodes[n], t.nodes[i])
    <3>1. CASE n = new
      BY <3>1, GraftedFacts
    <3>2. CASE n = old
      BY <3>2, GraftedFacts
    <3>3. CASE n = i
      <4>1. Length(t.nodes[i]) \in Nat
        BY GraftedFacts
      <4> QED
        BY <3>3, <4>1, ExtendsSelf
    <3>4. CASE n \in Used(s) \ {i}
      <4>1. Extends(s.nodes[n], s.nodes[i])
        BY <1>1, <1>2, <3>4
      <4> QED
        BY <3>4, <4>1, GraftedFacts
    <3> QED
      BY <3>1, <3>2, <3>3, <3>4, GraftedFacts
  <2> QED
    BY <1>1, <1>2, <2>1, GraftedFacts DEF RootOK
<1>3. CASE i # r
  <2>1. /\ t.nodes[r] = s.nodes[r] /\ Length(s.nodes[r]) \in Nat
        /\ Length(t.nodes[i]) = b /\ b \in Nat /\ b < KeyBits
        /\ Length(t.nodes[new]) = KeyBits
        /\ t.nodes[i].key = k /\ t.nodes[new].key = k
        /\ Extends(t.nodes[new], t.nodes[i])
    BY <1>1, <1>3, GraftedFacts
  <2>2. PICK m \in Inners(s) : SharesPrefix(s.nodes[m], k) /\ i = Child(s, m, Side(s, m, k))
    BY <1>1, <1>3 DEF Grafted, Reached, r
  <2>3. Side(s, m, k) \in {0, 1}
    BY NodeFacts DEF Inners, IsCritBit
  <2>4. s.nodes[m].prefixLen < b
    BY <2>2, <2>3, ParentOfFork
  <2>5. m \in Used(s) /\ Length(s.nodes[m]) = s.nodes[m].prefixLen /\ Length(s.nodes[m]) \in Nat
    BY <2>3, ChildFacts
  <2>6. Extends(s.nodes[m], s.nodes[r])
    BY <1>1, <2>5
  <2>7. Extends(t.nodes[i], s.nodes[r])
    BY <2>1, <2>2, <2>4, <2>5, <2>6 DEF Extends, SharesPrefix
  <2>8. ASSUME NEW n \in Used(t)
        PROVE  Extends(t.nodes[n], t.nodes[r])
    <3>1. CASE n = new
      <4>1. KeyBits \in Nat
        BY KeyFacts
      <4> QED
        BY <2>1, <2>7, <3>1, <4>1, ExtendsTransitive
    <3>2. CASE n = old
      BY <1>1, <2>1, <3>2, GraftedFacts
    <3>3. CASE n = i
      BY <2>1, <2>7, <3>3
    <3>4. CASE n \in Used(s) \ {i}
      BY <1>1, <2>1, <3>4, GraftedFacts
    <3> QED
      BY <3>1, <3>2, <3>3, <3>4, GraftedFacts
  <2> QED
    BY <1>1, <2>8, GraftedFacts DEF RootOK
<1> QED
  BY <1>2, <1>3

LEMMA GraftedChildren ==
  ASSUME NEW s, IsCritBit(s), s.leafCount # 0, NEW k \in Key, NEW t, NEW q,
         NEW i, NEW b, NEW new, NEW old, Grafted(s, t, k, q, i, b, new, old)
  PROVE  ChildrenOK(t)
<1> DEFINE IsChild(u, m, c) ==
             /\ Child(u, m, c) \in Used(u)
             /\ u.nodes[m].prefixLen < Length(u.nodes[Child(u, m, c)])
             /\ Extends(u.nodes[Child(u, m, c)], u.nodes[m])
             /\ Side(u, m, u.nodes[Child(u, m, c)].key) = c
<1> SUFFICES ASSUME NEW m \in Used(t), t.nodes[m].tag = "innerNode", NEW c \in {0, 1}
             PROVE  IsChild(t, m, c)
  BY DEF ChildrenOK
<1>1. CASE m = i
  <2>1. CASE c = k[b]
    BY <1>1, <2>1, GraftedFacts DEF Side
  <2>2. CASE c = s.nodes[i].key[b]
    BY <1>1, <2>2, GraftedFacts DEF Side
  <2> QED
    BY <2>1, <2>2, GraftedFacts
<1>2. CASE m \in Used(s) \ {i}
  <2> DEFINE j == Child(s, m, c)
  <2>1. t.nodes[m] = s.nodes[m] /\ m \in Inners(s) /\ Child(t, m, c) = j
          /\ \A l \in Key : Side(t, m, l) = Side(s, m, l)
    BY <1>2, GraftedFacts DEF Inners, Child, Side
  <2>2. /\ j \in Used(s) /\ j \in Used(t)
        /\ Length(s.nodes[m]) = s.nodes[m].prefixLen /\ Length(s.nodes[m]) \in Nat
        /\ s.nodes[m].prefixLen < Length(s.nodes[j])
        /\ Extends(s.nodes[j], s.nodes[m])
        /\ Side(s, m, s.nodes[j].key) = c
        /\ s.nodes[j].key \in Key
    <3>1. j \in Used(s)
      BY <2>1, ChildFacts
    <3> QED
      BY <2>1, <3>1, ChildFacts, GraftedFacts, NodeFacts DEF IsCritBit
  <2>3. CASE j # i
    <3>1. t.nodes[j] = s.nodes[j]
      BY <2>2, <2>3, GraftedFacts
    <3> QED
      BY <2>1, <2>2, <3>1
  <2>4. CASE j = i
    <3>1. /\ SharesPrefix(s.nodes[m], k) /\ Side(s, m, k) = c /\ s.nodes[m].prefixLen < b
      BY <2>1, <2>4, ParentOfFork
    <3>2. /\ t.nodes[i].key = k /\ Length(t.nodes[i]) = b /\ b \in Nat
      BY GraftedFacts
    <3>3. Extends(t.nodes[i], s.nodes[m])
      BY <2>2, <3>1, <3>2 DEF Extends, SharesPrefix
    <3> QED
      BY <2>1, <2>2, <2>4, <3>1, <3>2, <3>3
  <2> QED
    BY <2>3, <2>4
<1>3. CASE m = old
  <2> DEFINE j == Child(s, i, c)
  <2>1. /\ t.nodes[old] = s.nodes[i] /\ i \in Inners(s) /\ Child(t, old, c) = j
        /\ \A l \in Key : Side(t, old, l) = Side(s, i, l)
    BY <1>3, GraftedFacts DEF Inners, Child, Side
  <2>2. /\ j \in Used(s) /\ j \in Used(t) /\ j # i
        /\ Length(s.nodes[i]) = s.nodes[i].prefixLen
        /\ s.nodes[i].prefixLen < Length(s.nodes[j])
        /\ Extends(s.nodes[j], s.nodes[i])
        /\ Side(s, i, s.nodes[j].key) = c
        /\ s.nodes[j].key \in Key
    <3>1. j \in Used(s)
      BY <2>1, ChildFacts
    <3> QED
      BY <2>1, <3>1, ChildFacts, GraftedFacts, NodeFacts DEF IsCritBit
  <2>3. t.nodes[j] = s.nodes[j]
    BY <2>2, GraftedFacts
  <2> QED
    BY <1>3, <2>1, <2>2, <2>3
<1>4. m # new
  BY GraftedFacts
<1> QED
  BY <1>1, <1>2, <1>3, <1>4, GraftedFacts

\* Below the node that was at m before, or the new one that has taken its place.
LEMMA GraftedBelow ==
  ASSUME NEW s, IsCritBit(s), s.leafCount # 0, NEW k \in Key, NEW t, NEW q,
         NEW i, NEW b, NEW new, NEW old, Grafted(s, t, k, q, i, b, new, old),
         NEW j \in Used(s), NEW n \in Used(s), Extends(s.nodes[n], s.nodes[j])
  PROVE  Extends(s.nodes[n], t.nodes[j])
<1>1. CASE j = i
  BY <1>1, GraftedFacts
<1>2. CASE j # i
  BY <1>2, GraftedFacts
<1> QED
  BY <1>1, <1>2

\* What the new inner node begins as, but for itself, is above the fork.
LEMMA GraftedAbove ==
  ASSUME NEW s, IsCritBit(s), s.leafCount # 0, NEW k \in Key, NEW t, NEW q,
         NEW i, NEW b, NEW new, NEW old, Grafted(s, t, k, q, i, b, new, old),
         NEW m \in Used(s), m # i, Extends(t.nodes[i], s.nodes[m])
  PROVE  /\ m \in Inners(s) /\ Length(s.nodes[m]) < b
         /\ Side(s, m, k) \in {0, 1}
         /\ Extends(t.nodes[i], t.nodes[Child(s, m, Side(s, m, k))])
<1> DEFINE c == Side(s, m, s.nodes[i].key)
           j == Child(s, m, c)
<1>1. /\ i \in Used(s) /\ b \in Nat /\ Length(s.nodes[i]) \in Nat /\ b < Length(s.nodes[i])
      /\ Length(s.nodes[m]) \in Nat
      /\ t.nodes[i].key = k /\ Length(t.nodes[i]) = b
      /\ \A d \in 0..b - 1 : s.nodes[i].key[d] = k[d]
      /\ Extends(s.nodes[i], s.nodes[m])
      /\ Extends(s.nodes[i], t.nodes[i])
  <2>1. /\ i \in Used(s) /\ b \in Nat /\ b < Length(s.nodes[i])
        /\ t.nodes[i].key = k /\ Length(t.nodes[i]) = b
    BY GraftedFacts
  <2>2. Length(s.nodes[i]) \in Nat /\ Length(s.nodes[m]) \in Nat
    BY <2>1, NodeFacts DEF IsCritBit
  <2>3. \A d \in 0..b - 1 : s.nodes[i].key[d] = k[d]
    BY DEF Grafted
  <2>4. Extends(s.nodes[i], s.nodes[m]) /\ Extends(s.nodes[i], t.nodes[i])
    BY <2>1, <2>2, <2>3 DEF Extends
  <2> QED
    BY <2>1, <2>2, <2>3, <2>4
<1>2. /\ m \in Inners(s) /\ Length(s.nodes[m]) < Length(s.nodes[i]) /\ c \in {0, 1}
      /\ Extends(s.nodes[i], s.nodes[j])
  BY <1>1, BranchFacts
<1>3. j \in Used(s) /\ Length(s.nodes[j]) \in Nat /\ Length(s.nodes[m]) = s.nodes[m].prefixLen
  BY <1>2, ChildFacts, GraftedFacts
\* Whatever is above the fork and as long as the new inner node is the fork.
<1>4. ASSUME NEW l \in Used(s), l # i, Extends(s.nodes[i], s.nodes[l])
      PROVE  Length(s.nodes[l]) < b
  <2> SUFFICES ASSUME b <= Length(s.nodes[l])
               PROVE  FALSE
    BY <1>1, GraftedFacts
  <2>1. Length(s.nodes[l]) \in Nat /\ Length(s.nodes[l]) < Length(s.nodes[i])
    BY <1>1, <1>4, BranchFacts, GraftedFacts
  <2>2. Extends(s.nodes[l], t.nodes[i])
    BY <1>1, <1>4, <2>1, OneLine
  <2>3. Extends(s.nodes[l], s.nodes[i])
    BY <2>2, GraftedFacts
  <2> QED
    BY <1>1, <2>1, <2>3 DEF Extends
<1>5. Length(s.nodes[m]) < b
  BY <1>1, <1>4
<1>6. Side(s, m, k) = c
  BY <1>1, <1>3, <1>5 DEF Side
<1>7. Extends(t.nodes[i], t.nodes[j])
  <2>1. CASE j = i
    BY <1>1, <2>1, ExtendsSelf
  <2>2. CASE j # i
    <3>1. Length(s.nodes[j]) < b /\ t.nodes[j] = s.nodes[j]
      BY <1>2, <1>3, <1>4, <2>2, GraftedFacts
    <3> QED
      BY <1>1, <1>2, <1>3, <3>1, OneLine
  <2> QED
    BY <2>1, <2>2
<1> HIDE DEF c, j
<1>8. c \in {0, 1} /\ j = Child(s, m, c)
  BY <1>2 DEF j
<1> QED
  BY <1>2, <1>5, <1>6, <1>7, <1>8

LEMMA GraftedBranches ==
  ASSUME NEW s, IsCritBit(s), s.leafCount # 0, NEW k \in Key \ Keys(s), NEW t, NEW q,
         NEW i, NEW b, NEW new, NEW old, Grafted(s, t, k, q, i, b, new, old)
  PROVE  BranchesOK(t)
<1> DEFINE IsBranch(u, m, n) ==
             /\ u.nodes[m].tag = "innerNode"
             /\ u.nodes[m].prefixLen < Length(u.nodes[n])
             /\ Extends(u.nodes[n], u.nodes[Child(u, m, Side(u, m, u.nodes[n].key))])
<1> SUFFICES ASSUME NEW m \in Used(t), NEW n \in Used(t), m # n,
                    Extends(t.nodes[n], t.nodes[m])
             PROVE  IsBranch(t, m, n)
  BY DEF BranchesOK
\* The new leaf: no node begins as it does, for its key was on no leaf.
<1>1. CASE m = new
  <2>1. t.nodes[n].key \in Key /\ Length(t.nodes[n]) <= KeyBits /\ Length(t.nodes[n]) \in Nat
          /\ (t.nodes[n].tag = "innerNode" => Length(t.nodes[n]) < KeyBits)
          /\ t.nodes[n].tag \in {"leafNode", "innerNode"}
    BY GraftedNodes, NodeFacts, KeyFacts
  <2>2. t.nodes[new].key = k /\ Length(t.nodes[new]) = KeyBits
    BY GraftedFacts
  <2>3. t.nodes[n].tag = "leafNode" /\ t.nodes[n].key = k
    <3>1. KeyBits <= Length(t.nodes[n]) /\ \A c \in 0..KeyBits - 1 : t.nodes[n].key[c] = k[c]
      BY <1>1, <2>2 DEF Extends
    <3>2. t.nodes[n].key = k
      BY <2>1, <3>1, KeyFacts DEF Bits
    <3> QED
      BY <2>1, <3>1, <3>2, KeyFacts
  <2>4. n # i
    BY <2>3, GraftedFacts
  <2>5. \E j \in Used(s) : s.nodes[j] = t.nodes[n]
    BY <1>1, <2>4, GraftedFacts
  <2>6. k \in Keys(s)
    BY <2>3, <2>5 DEF Keys, Leaves, Used
  <2> QED
    BY <2>6
\* What was at the fork.
<1>2. CASE m = old
  <2>1. t.nodes[old] = s.nodes[i] /\ i \in Used(s)
    BY GraftedFacts
  <2>2. CASE n \in Used(s) \ {i}
    <3> DEFINE c == Side(s, i, s.nodes[n].key)
               j == Child(s, i, c)
    <3>1. t.nodes[n] = s.nodes[n]
      BY <2>2, GraftedFacts
    <3>2. /\ i \in Inners(s) /\ Length(s.nodes[i]) < Length(s.nodes[n]) /\ c \in {0, 1}
          /\ Extends(s.nodes[n], s.nodes[j])
      BY <1>2, <2>1, <2>2, <3>1, BranchFacts
    <3>3. j \in Used(s) /\ Length(s.nodes[i]) = s.nodes[i].prefixLen
      BY <3>2, ChildFacts
    <3>4. Extends(s.nodes[n], t.nodes[j])
      BY <2>2, <3>2, <3>3, GraftedBelow
    <3>5. Child(t, old, Side(t, old, t.nodes[n].key)) = j
      BY <2>1, <3>1 DEF Child, Side
    <3> QED
      BY <1>2, <2>1, <3>1, <3>2, <3>3, <3>4, <3>5 DEF Inners
  <2>3. CASE n \in {i, new}
    <3>1. /\ t.nodes[n].key = k /\ b < Length(s.nodes[i]) /\ s.nodes[i].key[b] # k[b]
          /\ b \in Nat /\ Length(s.nodes[i]) \in Nat
      BY <2>3, GraftedFacts
    <3>2. s.nodes[i].key[b] = k[b]
      BY <1>2, <2>1, <3>1 DEF Extends
    <3> QED
      BY <3>1, <3>2
  <2> QED
    BY <1>2, <2>2, <2>3, GraftedFacts
\* The new inner node.
<1>3. CASE m = i
  <2>1. /\ t.nodes[i].tag = "innerNode" /\ t.nodes[i].prefixLen = b /\ b \in Nat
        /\ b < KeyBits /\ b < Length(s.nodes[i])
        /\ \A l : Side(t, i, l) = l[b]
    BY GraftedFacts DEF Side
  <2>2. CASE n = new
    <3>1. t.nodes[new].key = k /\ Length(t.nodes[new]) = KeyBits /\ Child(t, i, k[b]) = new
      BY GraftedFacts
    <3>2. Extends(t.nodes[new], t.nodes[new])
      BY <3>1, KeyFacts, ExtendsSelf
    <3> QED
      BY <1>3, <2>1, <2>2, <3>1, <3>2
  <2>3. CASE n = old
    <3>1. /\ t.nodes[old] = s.nodes[i] /\ Child(t, i, s.nodes[i].key[b]) = old
          /\ Length(s.nodes[i]) \in Nat
      BY GraftedFacts
    <3>2. Extends(t.nodes[old], t.nodes[old])
      BY <3>1, ExtendsSelf
    <3> QED
      BY <1>3, <2>1, <2>3, <3>1, <3>2
  <2>4. CASE n \in Used(s) \ {i}
    <3>1. /\ t.nodes[n] = s.nodes[n] /\ t.nodes[old] = s.nodes[i]
          /\ Child(t, i, s.nodes[i].key[b]) = old
          /\ Extends(s.nodes[n], s.nodes[i])
          /\ Length(s.nodes[n]) \in Nat /\ Length(s.nodes[i]) \in Nat
      BY <1>3, <2>4, GraftedFacts
    <3>2. s.nodes[n].key[b] = s.nodes[i].key[b] /\ b < Length(s.nodes[n])
      BY <2>1, <3>1 DEF Extends
    <3> QED
      BY <1>3, <2>1, <3>1, <3>2
  <2> QED
    BY <1>3, <2>2, <2>3, <2>4, GraftedFacts
\* Any other node.
<1>4. CASE m \in Used(s) \ {i}
  <2>1. /\ t.nodes[m] = s.nodes[m] /\ Length(s.nodes[m]) \in Nat
        /\ \A c : Child(t, m, c) = Child(s, m, c)
        /\ \A l : Side(t, m, l) = Side(s, m, l)
    BY <1>4, GraftedFacts DEF Child, Side
  <2>2. ASSUME NEW x \in Used(s), s.nodes[x] = t.nodes[n], x # m
        PROVE  IsBranch(t, m, n)
    <3> DEFINE c == Side(s, m, s.nodes[x].key)
               j == Child(s, m, c)
    <3>1. /\ m \in Inners(s) /\ Length(s.nodes[m]) < Length(s.nodes[x]) /\ c \in {0, 1}
          /\ Extends(s.nodes[x], s.nodes[j])
      BY <1>4, <2>1, <2>2, BranchFacts
    <3>2. j \in Used(s) /\ Length(s.nodes[m]) = s.nodes[m].prefixLen
      BY <3>1, ChildFacts
    <3>3. Extends(s.nodes[x], t.nodes[j])
      BY <2>2, <3>1, <3>2, GraftedBelow
    <3>4. Child(t, m, Side(t, m, t.nodes[n].key)) = j
      BY <2>1, <2>2
    <3> QED
      BY <2>1, <2>2, <3>1, <3>2, <3>3, <3>4 DEF Inners
  <2>3. ASSUME n \in {i, new}
        PROVE  IsBranch(t, m, n)
    <3>1. /\ t.nodes[n].key = k /\ b \in Nat /\ b < KeyBits /\ b <= Length(t.nodes[n])
          /\ Length(t.nodes[n]) \in Nat
          /\ Extends(t.nodes[new], t.nodes[i])
          /\ Length(t.nodes[new]) = KeyBits /\ Length(t.nodes[i]) = b
          /\ t.nodes[i].key = k /\ t.nodes[new].key = k
          /\ KeyBits \in Nat
      BY <2>3, GraftedFacts, KeyFacts
    <3>2. Extends(t.nodes[n], t.nodes[i])
      BY <2>3, <3>1, ExtendsSelf
    <3>3. Extends(t.nodes[i], s.nodes[m])
      <4>1. CASE Length(s.nodes[m]) <= b
        BY <2>1, <3>1, <3>2, <4>1, OneLine
      <4>2. CASE b < Length(s.nodes[m])
        <5>1. s.nodes[m].key[b] = k[b] /\ \A c \in 0..b - 1 : s.nodes[m].key[c] = k[c]
          BY <2>1, <3>1, <4>2 DEF Extends
        <5>2. Extends(s.nodes[m], s.nodes[i])
          BY <1>4, <2>1, <3>1, <4>2, <5>1, ThroughTheFork
        <5>3. s.nodes[m].key[b] = s.nodes[i].key[b] /\ s.nodes[i].key[b] # k[b]
          BY <3>1, <5>2, GraftedFacts DEF Extends
        <5> QED
          BY <5>1, <5>3
      <4> QED
        BY <2>1, <3>1, <4>1, <4>2
    <3> DEFINE c == Side(s, m, k)
               j == Child(s, m, c)
    <3>4. /\ m \in Inners(s) /\ Length(s.nodes[m]) < b /\ c \in {0, 1}
          /\ Extends(t.nodes[i], t.nodes[j])
      BY <1>4, <3>3, GraftedAbove
    <3>5. /\ Length(s.nodes[m]) = s.nodes[m].prefixLen /\ j \in Used(s)
      BY <3>4, ChildFacts
    <3>6. Length(t.nodes[j]) \in Nat
      BY <3>5, GraftedFacts
    <3>7. Extends(t.nodes[n], t.nodes[j])
      BY <3>1, <3>2, <3>4, <3>6, ExtendsTransitive
    <3>8. Child(t, m, Side(t, m, t.nodes[n].key)) = j
      BY <2>1, <3>1
    <3> QED
      BY <2>1, <3>1, <3>4, <3>5, <3>7, <3>8 DEF Inners
  <2>4. n \in {i, new} \/ \E x \in Used(s) : s.nodes[x] = t.nodes[n] /\ x # m
    <3>1. CASE n = old
      BY <1>4, <3>1, GraftedFacts
    <3>2. CASE n \in Used(s) \ {i}
      BY <3>2, GraftedFacts
    <3> QED
      BY <3>1, <3>2, GraftedFacts
  <2> QED
    BY <2>2, <2>3, <2>4
<1> QED
  BY <1>1, <1>2, <1>3, <1>4, GraftedFacts

\* Inserting an order leaves a crit-bit tree.
LEMMA InsertKeepsCritBit ==
  ASSUME NEW s, IsCritBit(s), NEW k \in Key \ Keys(s), NEW q,
         Cardinality(FreeIndices(s)) >= 2
  PROVE  IsCritBit(InsertOrder(s, k, q))
<1> DEFINE t == InsertOrder(s, k, q)
<1>1. CASE s.leafCount # 0
  <2>1. PICK i, b, new, old : Grafted(s, t, k, q, i, b, new, old)
    BY <1>1, InsertGrafts
  <2> HIDE DEF t
  <2> QED
    BY <1>1, <2>1, GraftedNodes, GraftedCount, GraftedRoot, GraftedChildren,
       GraftedBranches DEF IsCritBit, t
<1>2. CASE s.leafCount = 0
  <2>1. Used(s) = {} /\ DOMAIN s.nodes = Index
    BY <1>2 DEF IsCritBit, CountOK, NodesOK
  <2>2. t = [root |-> 0, leafCount |-> 1, nodes |-> [s.nodes EXCEPT ![0] = Leaf(k, q)]]
    BY <1>2 DEF InsertOrder
  <2> HIDE DEF t
  <2>3. /\ t = [root |-> 0, leafCount |-> 1, nodes |-> t.nodes]
        /\ t.nodes[0] = Leaf(k, q) /\ DOMAIN t.nodes = Index
        /\ \A j \in Index \ {0} : t.nodes[j] = s.nodes[j]
    BY <2>1, <2>2, IndexFacts
  <2>4. /\ t.root = 0 /\ t.leafCount = 1
        /\ t.nodes[0].tag = "leafNode" /\ t.nodes[0].key = k
    BY <2>3 DEF Leaf
  <2>5. Used(t) = {0} /\ Leaves(t) = {0}
    BY <2>1, <2>3, <2>4, IndexFacts DEF Used, Leaves
  <2>6. Extends(t.nodes[0], t.nodes[0])
    BY <2>4, KeyFacts DEF Length, Extends
  <2>7. NodesOK(t)
    <3>1. \A j \in Index \ {0} : t.nodes[j] = Free /\ t.nodes[j].tag = "freeNode"
      BY <2>1, <2>3 DEF IsCritBit, NodesOK, Used
    <3>2. t.nodes[0] = Leaf(t.nodes[0].key, t.nodes[0].quantity)
      BY <2>3 DEF Leaf
    <3>3. t = [root |-> t.root, leafCount |-> t.leafCount, nodes |-> t.nodes]
      BY <2>3, <2>4
    <3> QED
      BY <2>3, <2>4, <3>1, <3>2, <3>3 DEF NodesOK
  <2>8. CountOK(t)
    <3>1. Cardinality({0}) = 1
      BY FS_Singleton
    <3> QED
      BY <2>4, <2>5, <3>1 DEF CountOK
  <2>9. RootOK(t) /\ ChildrenOK(t) /\ BranchesOK(t)
    BY <2>4, <2>5, <2>6, IndexFacts DEF RootOK, ChildrenOK, BranchesOK
  <2> QED
    BY <2>7, <2>8, <2>9 DEF IsCritBit, t
<1> QED
  BY <1>1, <1>2 DEF IsCritBit, CountOK

-----------------------------------------------------------------------------
(* An order gone: t is s without the leaf, and its sibling j is where      *)
(* their parent p was.                                                     *)

Pruned(s, t, leaf, p, c, j) ==
  /\ leaf \in Leaves(s) /\ p \in Inners(s) /\ c \in {0, 1}
  /\ Child(s, p, c) = leaf /\ Child(s, p, 1 - c) = j
  /\ t = [root |-> s.root, leafCount |-> s.leafCount - 1, nodes |-> t.nodes]
  /\ DOMAIN t.nodes = Index
  /\ t.nodes[p] = s.nodes[j] /\ t.nodes[j] = Free /\ t.nodes[leaf] = Free
  /\ \A i \in Index \ {p, j, leaf} : t.nodes[i] = s.nodes[i]

LEMMA RemovePrunes ==
  ASSUME NEW s, IsCritBit(s), s.leafCount # 1, NEW leaf \in Leaves(s)
  PROVE  \E p, c, j : Pruned(s, RemoveOrder(s, leaf), leaf, p, c, j)
<1>1. s.leafCount = Cardinality(Leaves(s)) /\ leaf \in Used(s)
  BY LeafFacts DEF IsCritBit, CountOK
<1>2. s.leafCount # 0
  BY <1>1 DEF IsCritBit, CountOK
<1>3. leaf # s.root
  <2> SUFFICES ASSUME leaf = s.root
               PROVE  FALSE
    OBVIOUS
  <2>1. Used(s) = {leaf}
    BY <1>1, <1>2, LeafFacts DEF IsCritBit, RootOK
  <2>2. Leaves(s) = {leaf}
    BY <2>1 DEF Leaves, Used
  <2>3. Cardinality({leaf}) = 1
    BY FS_Singleton
  <2> QED
    BY <1>1, <2>2, <2>3
<1> DEFINE IsParent(i) == /\ s.nodes[i].tag = "innerNode"
                          /\ \E d \in {0, 1} : s.nodes[i].children[d] = leaf
           p == CHOOSE i \in Index : IsParent(i)
           IsSibling(i) == /\ i # leaf
                           /\ \E d \in {0, 1} : s.nodes[p].children[d] = i
           j == CHOOSE i \in Index : IsSibling(i)
           t == RemoveOrder(s, leaf)
<1>4. p \in Index /\ IsParent(p)
  <2>1. \E i \in Index : IsParent(i)
    BY <1>1, <1>2, <1>3, HasParent DEF Inners, Used, Child
  <2> HIDE DEF IsParent
  <2> QED
    BY <2>1
<1>5. PICK c \in {0, 1} : Child(s, p, c) = leaf
  BY <1>4 DEF Child
<1>6. p \in Inners(s)
  BY <1>4 DEF Inners, Used
<1>7. 1 - c \in {0, 1} /\ 1 - c # c
  OBVIOUS
<1> HIDE DEF p
<1>8. Child(s, p, 1 - c) \in Index /\ Child(s, p, 1 - c) # leaf
  BY <1>5, <1>6, <1>7, ChildFacts, OneParent DEF Used
<1>9. j \in Index /\ IsSibling(j)
  <2>1. IsSibling(Child(s, p, 1 - c))
    BY <1>7, <1>8 DEF Child
  <2> HIDE DEF IsSibling
  <2> QED
    BY <1>8, <2>1
<1>10. j = Child(s, p, 1 - c)
  <2>1. PICK d \in {0, 1} : s.nodes[p].children[d] = j
    BY <1>9
  <2>2. d # c
    BY <1>5, <1>9, <2>1 DEF Child
  <2> QED
    BY <2>1, <2>2 DEF Child
<1>11. t = [s EXCEPT !.leafCount = @ - 1, !.nodes[p] = s.nodes[j], !.nodes[j] = Free,
                     !.nodes[leaf] = Free]
  BY DEF RemoveOrder, p
<1>12. s = [root |-> s.root, leafCount |-> s.leafCount, nodes |-> s.nodes]
         /\ DOMAIN s.nodes = Index
  BY DEF IsCritBit, NodesOK
<1>13. p # leaf /\ p # j /\ j # leaf /\ p \in Index /\ j \in Index /\ leaf \in Index
  BY <1>5, <1>6, <1>7, <1>8, <1>9, <1>10, <1>4, ChildFacts DEF Leaves
<1> HIDE DEF j, t
<1>14. /\ t.nodes = [s.nodes EXCEPT ![p] = s.nodes[j], ![j] = Free, ![leaf] = Free]
       /\ t = [root |-> s.root, leafCount |-> s.leafCount - 1, nodes |-> t.nodes]
  BY <1>11, <1>12
<1>15. /\ DOMAIN t.nodes = Index
       /\ t.nodes[p] = s.nodes[j] /\ t.nodes[j] = Free /\ t.nodes[leaf] = Free
       /\ \A i \in Index \ {p, j, leaf} : t.nodes[i] = s.nodes[i]
  BY <1>12, <1>13, <1>14
<1>16. Pruned(s, t, leaf, p, c, j)
  BY <1>5, <1>6, <1>10, <1>14, <1>15 DEF Pruned
<1> QED
  BY <1>16 DEF t

\* The node of s that is at an index of t.
Origin(n, p, j) == IF n = p THEN j ELSE n

LEMMA PrunedFacts ==
  ASSUME NEW s, IsCritBit(s), NEW t, NEW leaf, NEW p, NEW c, NEW j,
         Pruned(s, t, leaf, p, c, j)
  PROVE  /\ leaf \in Used(s) /\ p \in Used(s) /\ j \in Used(s)
         /\ p # leaf /\ p # j /\ j # leaf
         /\ Used(t) = Used(s) \ {j, leaf}
         /\ \A n \in Used(t) : /\ Origin(n, p, j) \in Used(s) \ {p, leaf}
                               /\ t.nodes[n] = s.nodes[Origin(n, p, j)]
         /\ \A n \in Used(t) \ {p} : t.nodes[n] = s.nodes[n]
         /\ t.nodes[p] = s.nodes[j]
         /\ Extends(s.nodes[j], s.nodes[p])
         /\ Length(s.nodes[p]) < Length(s.nodes[j])
         /\ \A m \in Inners(s) \ {p}, d \in {0, 1} :
              Child(s, m, d) \in Used(s) \ {j, leaf}
         /\ \A n \in Used(s) : Length(s.nodes[n]) \in Nat
<1>1. /\ leaf \in Leaves(s) /\ p \in Inners(s) /\ c \in {0, 1}
      /\ 1 - c \in {0, 1} /\ 1 - c # c
      /\ Child(s, p, c) = leaf /\ Child(s, p, 1 - c) = j
      /\ t.nodes[p] = s.nodes[j] /\ t.nodes[j] = Free /\ t.nodes[leaf] = Free
      /\ \A i \in Index \ {p, j, leaf} : t.nodes[i] = s.nodes[i]
  BY DEF Pruned
<1>2. /\ leaf \in Used(s) /\ p \in Used(s) /\ j \in Used(s) /\ Used(s) \subseteq Index
      /\ p # leaf /\ p # j /\ j # leaf
      /\ Extends(s.nodes[j], s.nodes[p])
      /\ Length(s.nodes[p]) < Length(s.nodes[j])
  BY <1>1, ChildFacts, LeafFacts, OneParent DEF Used
<1>3. Used(t) = Used(s) \ {j, leaf}
  <2>1. ASSUME NEW i \in Index
        PROVE  i \in Used(t) <=> i \in Used(s) \ {j, leaf}
    <3>1. CASE i = p
      BY <1>1, <1>2, <3>1 DEF Used
    <3>2. CASE i \in {j, leaf}
      BY <1>1, <3>2 DEF Used, Free
    <3>3. CASE i \notin {p, j, leaf}
      BY <1>1, <3>3 DEF Used
    <3> QED
      BY <3>1, <3>2, <3>3
  <2>2. Used(t) \subseteq Index
    BY DEF Used
  <2> QED
    BY <1>2, <2>1, <2>2
<1>4. ASSUME NEW m \in Inners(s) \ {p}, NEW d \in {0, 1}
      PROVE  Child(s, m, d) \in Used(s) \ {j, leaf}
  BY <1>1, ChildFacts, OneParent
<1>5. \A n \in Used(t) : /\ Origin(n, p, j) \in Used(s) \ {p, leaf}
                         /\ t.nodes[n] = s.nodes[Origin(n, p, j)]
  BY <1>1, <1>2, <1>3 DEF Origin
<1>6. \A n \in Used(s) : Length(s.nodes[n]) \in Nat
  BY NodeFacts DEF IsCritBit
<1> QED
  BY <1>1, <1>2, <1>3, <1>4, <1>5, <1>6 DEF Origin

\* Below the node that was at q before, or the one that has taken its place.
LEMMA PrunedBelow ==
  ASSUME NEW s, IsCritBit(s), NEW t, NEW leaf, NEW p, NEW c, NEW j,
         Pruned(s, t, leaf, p, c, j),
         NEW x \in Used(s) \ {p, leaf}, NEW q \in Used(t), Extends(s.nodes[x], s.nodes[q])
  PROVE  Extends(s.nodes[x], t.nodes[q])
<1>1. CASE q = p
  <2> DEFINE d == Side(s, p, s.nodes[x].key)
  <2>1. p \in Used(s) /\ leaf \in Leaves(s) /\ t.nodes[p] = s.nodes[j]
    BY PrunedFacts DEF Pruned
  <2>2. d \in {0, 1} /\ Extends(s.nodes[x], s.nodes[Child(s, p, d)])
    BY <1>1, <2>1, BranchFacts
  <2>3. Child(s, p, d) # leaf
    BY <2>1, <2>2, LeafFacts
  <2>4. Child(s, p, d) = j
    BY <2>2, <2>3 DEF Pruned
  <2> QED
    BY <1>1, <2>1, <2>2, <2>4
<1>2. CASE q # p
  BY <1>2, PrunedFacts
<1> QED
  BY <1>1, <1>2

LEMMA PrunedIsCritBit ==
  ASSUME NEW s, IsCritBit(s), s.leafCount # 1, NEW t, NEW leaf, NEW p, NEW c, NEW j,
         Pruned(s, t, leaf, p, c, j)
  PROVE  IsCritBit(t)
<1>1. /\ t = [root |-> t.root, leafCount |-> t.leafCount, nodes |-> t.nodes]
      /\ t.root = s.root /\ t.leafCount = s.leafCount - 1 /\ DOMAIN t.nodes = Index
  <2>1. t = [root |-> s.root, leafCount |-> s.leafCount - 1, nodes |-> t.nodes]
          /\ DOMAIN t.nodes = Index
    BY DEF Pruned
  <2>2. t.root = s.root /\ t.leafCount = s.leafCount - 1
    BY <2>1
  <2> QED
    BY <2>1, <2>2
<1>2. s.leafCount # 0 /\ s.leafCount = Cardinality(Leaves(s))
        /\ Leaves(s) \subseteq Index /\ IsFiniteSet(Leaves(s))
  <2>1. leaf \in Used(s) /\ Leaves(s) \subseteq Index
    BY PrunedFacts DEF Leaves
  <2> QED
    BY <2>1, IndexFacts, FS_Subset DEF IsCritBit, CountOK
<1>3. NodesOK(t)
  <2> DEFINE NodeOK(node) ==
               \/ node.tag = "freeNode" /\ node = Free
               \/ node.tag = "leafNode" /\ node = Leaf(node.key, node.quantity)
                    /\ node.key \in Key
               \/ node.tag = "innerNode" /\ node = Inner(node.prefixLen, node.key, node.children)
                    /\ node.prefixLen \in Bits /\ node.key \in Key
                    /\ node.children \in [{0, 1} -> Index]
  <2>1. \A i \in Index : NodeOK(s.nodes[i])
    BY DEF IsCritBit, NodesOK
  <2>2. NodeOK(Free)
    BY DEF Free
  <2> HIDE DEF NodeOK
  <2>3. j \in Index
    BY PrunedFacts DEF Used
  <2>4. \A i \in Index : NodeOK(t.nodes[i])
    BY <2>1, <2>2, <2>3 DEF Pruned
  <2> QED
    BY <1>1, <2>4 DEF NodesOK, NodeOK
<1>4. CountOK(t)
  <2>1. /\ leaf \in Leaves(s) /\ j # leaf /\ p # leaf /\ p # j /\ p \in Index /\ j \in Index
        /\ s.nodes[p].tag = "innerNode"
        /\ t.nodes[p] = s.nodes[j] /\ t.nodes[j] = Free /\ t.nodes[leaf] = Free
        /\ \A i \in Index \ {p, j, leaf} : t.nodes[i] = s.nodes[i]
    BY PrunedFacts DEF Pruned, Inners, Used
  <2>2. Cardinality(Leaves(s)) \in Nat
    BY <1>2, FS_CardinalityType
  <2>3. /\ IsFiniteSet(Leaves(s) \ {leaf})
        /\ Cardinality(Leaves(s) \ {leaf}) = Cardinality(Leaves(s)) - 1
    BY <1>2, <2>1, FS_RemoveElement
  <2>4. Cardinality(Leaves(t)) = Cardinality(Leaves(s) \ {leaf})
    <3>1. CASE s.nodes[j].tag = "leafNode"
      <4>1. /\ Leaves(t) = ((Leaves(s) \ {leaf}) \ {j}) \cup {p}
            /\ j \in Leaves(s) \ {leaf} /\ p \notin (Leaves(s) \ {leaf}) \ {j}
        BY <2>1, <3>1 DEF Leaves, Free
      <4>2. /\ IsFiniteSet((Leaves(s) \ {leaf}) \ {j})
            /\ Cardinality((Leaves(s) \ {leaf}) \ {j}) = Cardinality(Leaves(s) \ {leaf}) - 1
        BY <2>3, <4>1, FS_RemoveElement
      <4>3. Cardinality(Leaves(t)) = Cardinality((Leaves(s) \ {leaf}) \ {j}) + 1
        BY <4>1, <4>2, FS_AddElement
      <4>4. Cardinality(Leaves(s) \ {leaf}) \in Nat
        BY <2>3, FS_CardinalityType
      <4> QED
        BY <4>2, <4>3, <4>4
    <3>2. CASE s.nodes[j].tag # "leafNode"
      <4>1. Leaves(t) = Leaves(s) \ {leaf}
        BY <2>1, <3>2 DEF Leaves, Free
      <4> QED
        BY <4>1
    <3> QED
      BY <3>1, <3>2
  <2> QED
    BY <1>1, <1>2, <2>2, <2>3, <2>4 DEF CountOK
<1>5. RootOK(t)
  <2>1. /\ s.root \in Index /\ s.root \in Used(s)
        /\ \A n \in Used(s) : Extends(s.nodes[n], s.nodes[s.root])
    BY <1>2 DEF IsCritBit, RootOK
  <2>2. s.root # leaf /\ s.root # j
    BY <1>2, RootHasNoParent DEF Pruned
  <2>3. s.root \in Used(t)
    BY <2>1, <2>2, PrunedFacts
  <2>4. ASSUME NEW n \in Used(t)
        PROVE  Extends(t.nodes[n], t.nodes[s.root])
    <3> DEFINE x == Origin(n, p, j)
    <3>1. x \in Used(s) \ {p, leaf} /\ t.nodes[n] = s.nodes[x]
      BY PrunedFacts
    <3> QED
      BY <2>1, <2>3, <3>1, PrunedBelow
  <2> QED
    BY <1>1, <2>1, <2>3, <2>4 DEF RootOK
<1>6. ChildrenOK(t)
  <2> DEFINE IsChild(u, m, d) ==
               /\ Child(u, m, d) \in Used(u)
               /\ u.nodes[m].prefixLen < Length(u.nodes[Child(u, m, d)])
               /\ Extends(u.nodes[Child(u, m, d)], u.nodes[m])
               /\ Side(u, m, u.nodes[Child(u, m, d)].key) = d
  <2> SUFFICES ASSUME NEW m \in Used(t), t.nodes[m].tag = "innerNode", NEW d \in {0, 1}
               PROVE  IsChild(t, m, d)
    BY DEF ChildrenOK
  <2> DEFINE y == Origin(m, p, j)
             q == Child(s, y, d)
  <2>1. y \in Used(s) \ {p, leaf} /\ t.nodes[m] = s.nodes[y]
    BY PrunedFacts
  <2> HIDE DEF y
  <2>2. /\ y \in Inners(s) \ {p} /\ Child(t, m, d) = q
        /\ \A l : Side(t, m, l) = Side(s, y, l)
    BY <2>1 DEF Inners, Child, Side
  <2>3. q \in Used(s) \ {j, leaf} /\ q \in Used(t)
    BY <2>2, PrunedFacts
  <2>4. /\ Length(s.nodes[y]) = s.nodes[y].prefixLen /\ Length(s.nodes[y]) \in Nat
        /\ s.nodes[y].prefixLen < Length(s.nodes[q])
        /\ Extends(s.nodes[q], s.nodes[y])
        /\ Side(s, y, s.nodes[q].key) = d
    BY <2>2, ChildFacts
  <2> HIDE DEF q
  <2>5. CASE q # p
    <3>1. t.nodes[q] = s.nodes[q]
      BY <2>3, <2>5, PrunedFacts
    <3> QED
      BY <2>1, <2>2, <2>3, <2>4, <3>1
  <2>6. CASE q = p
    <3>1. /\ t.nodes[p] = s.nodes[j] /\ Extends(s.nodes[j], s.nodes[p])
          /\ Length(s.nodes[p]) < Length(s.nodes[j])
          /\ Length(s.nodes[p]) \in Nat /\ Length(s.nodes[j]) \in Nat
      BY PrunedFacts
    <3>2. Extends(s.nodes[j], s.nodes[y])
      BY <2>4, <2>6, <3>1, ExtendsTransitive
    <3>3. Side(s, y, s.nodes[j].key) = d
      BY <2>4, <2>6, <3>1 DEF Extends, Side
    <3>4. s.nodes[y].prefixLen < Length(s.nodes[j])
      BY <2>4, <2>6, <3>1
    <3> QED
      BY <2>1, <2>2, <2>3, <2>6, <3>1, <3>2, <3>3, <3>4
  <2> QED
    BY <2>5, <2>6
<1>7. BranchesOK(t)
  <2> SUFFICES ASSUME NEW m \in Used(t), NEW n \in Used(t), m # n,
                      Extends(t.nodes[n], t.nodes[m])
               PROVE  /\ t.nodes[m].tag = "innerNode"
                      /\ t.nodes[m].prefixLen < Length(t.nodes[n])
                      /\ Extends(t.nodes[n],
                                 t.nodes[Child(t, m, Side(t, m, t.nodes[n].key))])
    BY DEF BranchesOK
  <2> DEFINE x == Origin(n, p, j)
             y == Origin(m, p, j)
  <2>1. /\ x \in Used(s) \ {p, leaf} /\ t.nodes[n] = s.nodes[x]
        /\ y \in Used(s) \ {p, leaf} /\ t.nodes[m] = s.nodes[y]
    BY PrunedFacts
  <2>2. x # y
    BY PrunedFacts DEF Origin
  <2> HIDE DEF x, y
  <2> DEFINE d == Side(s, y, s.nodes[x].key)
             q == Child(s, y, d)
  <2>3. /\ y \in Inners(s) \ {p} /\ Length(s.nodes[y]) < Length(s.nodes[x]) /\ d \in {0, 1}
        /\ Extends(s.nodes[x], s.nodes[q])
    BY <2>1, <2>2, BranchFacts
  <2>4. /\ q \in Used(t) /\ Length(s.nodes[y]) = s.nodes[y].prefixLen
        /\ s.nodes[y].tag = "innerNode"
    BY <2>3, PrunedFacts, ChildFacts
  <2>5. Extends(s.nodes[x], t.nodes[q])
    BY <2>1, <2>3, <2>4, PrunedBelow
  <2>6. Child(t, m, Side(t, m, t.nodes[n].key)) = q
    BY <2>1 DEF Child, Side
  <2> QED
    BY <2>1, <2>3, <2>4, <2>5, <2>6
<1> QED
  BY <1>3, <1>4, <1>5, <1>6, <1>7 DEF IsCritBit

LEMMA EmptyIsCritBit == IsCritBit(EmptySlab)
<1>1. /\ EmptySlab.root = 0 /\ EmptySlab.leafCount = 0
      /\ DOMAIN EmptySlab.nodes = Index
      /\ \A i \in Index : EmptySlab.nodes[i] = Free /\ EmptySlab.nodes[i].tag = "freeNode"
      /\ EmptySlab = [root |-> EmptySlab.root, leafCount |-> EmptySlab.leafCount,
                      nodes |-> EmptySlab.nodes]
  BY DEF EmptySlab, Free
<1>2. Used(EmptySlab) = {} /\ Leaves(EmptySlab) = {}
  BY <1>1 DEF Used, Leaves
<1>3. NodesOK(EmptySlab)
  BY <1>1 DEF NodesOK
<1>4. CountOK(EmptySlab)
  BY <1>1, <1>2, FS_EmptySet DEF CountOK
<1> QED
  BY <1>1, <1>2, <1>3, <1>4, IndexFacts
     DEF IsCritBit, RootOK, ChildrenOK, BranchesOK

\* Removing an order leaves a crit-bit tree.
LEMMA RemoveKeepsCritBit ==
  ASSUME NEW s, IsCritBit(s), NEW leaf \in Leaves(s)
  PROVE  IsCritBit(RemoveOrder(s, leaf))
<1>1. CASE s.leafCount = 1
  BY <1>1, EmptyIsCritBit DEF RemoveOrder
<1>2. CASE s.leafCount # 1
  BY <1>2, RemovePrunes, PrunedIsCritBit
<1> QED
  BY <1>1, <1>2

-----------------------------------------------------------------------------
(* Orderbook.                                                              *)

\* All orders below n come before all those below m, in the order of their keys or
\* the reverse.
Comes(descending, n, m) ==
  \E b \in Bits :
    /\ b < Length(n) /\ b < Length(m)
    /\ \A c \in 0..b - 1 : n.key[c] = m.key[c]
    /\ n.key[b] = (IF descending THEN 1 ELSE 0)
    /\ m.key[b] = (IF descending THEN 0 ELSE 1)

\* The order that was yielded i-th.
Yielded(i) == Leaf(it.out[i].key, it.out[i].size)

\* The decoded book has the orders that were on chain, of the sizes they had there
\* until getL2 is called.
LoadedInv ==
  book # NoBook =>
    /\ book = [slab |-> book.slab, isBids |-> book.isBids]
    /\ IsCritBit(book.slab)
    /\ DOMAIN loaded = Keys(book.slab)
    /\ calls = 0 => \A i \in Leaves(book.slab) : Node(i).quantity = loaded[Node(i).key]

IteratorOK ==
  /\ book # NoBook
  /\ it = [state |-> it.state, descending |-> it.descending, stack |-> it.stack,
           out |-> it.out]
  /\ it.state \in {"suspended", "running", "done"}
  /\ it.descending \in BOOLEAN
  /\ it.stack \in Seq(Used(book.slab))
  /\ it.out \in Seq(ToSet(it.out))
  /\ it.state = "done" => it.stack = <<>>

\* Of two nodes on the stack the one above comes first.
StackInv ==
  \A x, y \in DOMAIN it.stack : x < y => Comes(it.descending, Node(it.stack[y]), Node(it.stack[x]))

\* What was yielded is on the book, in order, and before all that is on the stack.
OutInv ==
  \A i \in DOMAIN it.out :
    /\ it.out[i].key \in Keys(book.slab)
    /\ calls = 0 => it.out[i].size = loaded[it.out[i].key]
    /\ \A j \in DOMAIN it.out : i < j => Comes(it.descending, Yielded(i), Yielded(j))
    /\ \A x \in DOMAIN it.stack : Comes(it.descending, Yielded(i), Node(it.stack[x]))

\* An order that was not yielded is below a node on the stack.
RestInv ==
  \A leaf \in Leaves(book.slab) :
    \/ \E i \in DOMAIN it.out : it.out[i].key = Node(leaf).key
    \/ \E x \in DOMAIN it.stack : Extends(Node(leaf), Node(it.stack[x]))

BookIInv ==
  /\ IsCritBit(account)
  /\ calls \in Nat
  /\ LoadedInv
  /\ it # NoIterator => IteratorOK /\ StackInv /\ OutInv /\ RestInv

-----------------------------------------------------------------------------
(* getL2 changes no more of the slab than what its leaves hold.            *)

Requantified(s, t) ==
  /\ t = [root |-> s.root, leafCount |-> s.leafCount, nodes |-> t.nodes]
  /\ DOMAIN t.nodes = Index
  /\ \A i \in Index :
       \/ t.nodes[i] = s.nodes[i]
       \/ s.nodes[i].tag = "leafNode" /\ \E q : t.nodes[i] = Leaf(s.nodes[i].key, q)

LEMMA RequantifiedKeeps ==
  ASSUME NEW s, IsCritBit(s), NEW t, Requantified(s, t)
  PROVE  /\ IsCritBit(t)
         /\ Used(t) = Used(s) /\ Leaves(t) = Leaves(s) /\ Keys(t) = Keys(s)
         /\ \A i \in Used(s) : /\ t.nodes[i].tag = s.nodes[i].tag
                               /\ t.nodes[i].key = s.nodes[i].key
                               /\ Length(t.nodes[i]) = Length(s.nodes[i])
<1>1. t.root = s.root /\ t.leafCount = s.leafCount
  BY DEF Requantified
<1>2. \A i \in Index : /\ t.nodes[i].tag = s.nodes[i].tag
                       /\ s.nodes[i].tag # "leafNode" => t.nodes[i] = s.nodes[i]
                       /\ s.nodes[i].tag = "leafNode" => t.nodes[i].key = s.nodes[i].key
  <2> TAKE i \in Index
  <2>1. CASE t.nodes[i] = s.nodes[i]
    BY <2>1
  <2>2. CASE t.nodes[i] # s.nodes[i]
    <3>1. PICK q : s.nodes[i].tag = "leafNode" /\ t.nodes[i] = Leaf(s.nodes[i].key, q)
      BY <2>2 DEF Requantified
    <3> QED
      BY <3>1 DEF Leaf
  <2> QED
    BY <2>1, <2>2
<1>3. Used(t) = Used(s) /\ Leaves(t) = Leaves(s)
  BY <1>2 DEF Used, Leaves
<1>4. \A i \in Used(s) : /\ i \in Index
                         /\ t.nodes[i].tag = s.nodes[i].tag
                         /\ t.nodes[i].key = s.nodes[i].key
                         /\ Length(t.nodes[i]) = Length(s.nodes[i])
                         /\ t.nodes[i].tag = "innerNode" => t.nodes[i] = s.nodes[i]
  BY <1>2 DEF Used, Length
<1>5. Keys(t) = Keys(s)
  BY <1>3, <1>2 DEF Keys, Leaves
<1>6. NodesOK(t)
  <2>1. t = [root |-> t.root, leafCount |-> t.leafCount, nodes |-> t.nodes]
    BY <1>1 DEF Requantified
  <2>2. ASSUME NEW i \in Index
        PROVE  LET node == t.nodes[i]
               IN  \/ node.tag = "freeNode" /\ node = Free
                   \/ node.tag = "leafNode" /\ node = Leaf(node.key, node.quantity)
                        /\ node.key \in Key
                   \/ node.tag = "innerNode" /\ node = Inner(node.prefixLen, node.key, node.children)
                        /\ node.prefixLen \in Bits /\ node.key \in Key
                        /\ node.children \in [{0, 1} -> Index]
    <3>1. CASE t.nodes[i] = s.nodes[i]
      BY <3>1 DEF IsCritBit, NodesOK
    <3>2. CASE t.nodes[i] # s.nodes[i]
      <4>1. PICK q : s.nodes[i].tag = "leafNode" /\ t.nodes[i] = Leaf(s.nodes[i].key, q)
        BY <3>2 DEF Requantified
      <4>2. s.nodes[i].key \in Key
        BY <4>1 DEF IsCritBit, NodesOK
      <4> QED
        BY <4>1, <4>2 DEF Leaf
    <3> QED
      BY <3>1, <3>2
  <2> QED
    BY <2>1, <2>2 DEF NodesOK, Requantified
<1>7. CountOK(t)
  BY <1>1, <1>3 DEF IsCritBit, CountOK
<1>8. \A m, n \in Used(s) : Extends(t.nodes[n], t.nodes[m]) <=> Extends(s.nodes[n], s.nodes[m])
  BY <1>4 DEF Extends
<1>9. RootOK(t)
  BY <1>1, <1>3, <1>8 DEF IsCritBit, RootOK
<1>10. \A m \in Used(s) : t.nodes[m].tag = "innerNode" =>
         /\ s.nodes[m].tag = "innerNode" /\ t.nodes[m].prefixLen = s.nodes[m].prefixLen
         /\ \A c \in {0, 1} : Child(t, m, c) = Child(s, m, c) /\ Child(s, m, c) \in Used(s)
         /\ \A k : Side(t, m, k) = Side(s, m, k)
  BY <1>4 DEF IsCritBit, ChildrenOK, Child, Side
<1>11. ChildrenOK(t)
  <2> SUFFICES ASSUME NEW m \in Used(s), t.nodes[m].tag = "innerNode", NEW c \in {0, 1}
               PROVE  /\ Child(t, m, c) \in Used(t)
                      /\ t.nodes[m].prefixLen < Length(t.nodes[Child(t, m, c)])
                      /\ Extends(t.nodes[Child(t, m, c)], t.nodes[m])
                      /\ Side(t, m, t.nodes[Child(t, m, c)].key) = c
    BY <1>3 DEF ChildrenOK
  <2>1. /\ Child(s, m, c) \in Used(s)
        /\ s.nodes[m].prefixLen < Length(s.nodes[Child(s, m, c)])
        /\ Extends(s.nodes[Child(s, m, c)], s.nodes[m])
        /\ Side(s, m, s.nodes[Child(s, m, c)].key) = c
    BY <1>10 DEF IsCritBit, ChildrenOK
  <2> QED
    BY <2>1, <1>3, <1>4, <1>8, <1>10
<1>12. BranchesOK(t)
  <2> SUFFICES ASSUME NEW m \in Used(s), NEW n \in Used(s), m # n,
                      Extends(t.nodes[n], t.nodes[m])
               PROVE  /\ t.nodes[m].tag = "innerNode"
                      /\ t.nodes[m].prefixLen < Length(t.nodes[n])
                      /\ Extends(t.nodes[n],
                                 t.nodes[Child(t, m, Side(t, m, t.nodes[n].key))])
    BY <1>3 DEF BranchesOK
  <2>1. /\ m \in Inners(s)
        /\ Length(s.nodes[m]) < Length(s.nodes[n])
        /\ Side(s, m, s.nodes[n].key) \in {0, 1}
        /\ Extends(s.nodes[n], s.nodes[Child(s, m, Side(s, m, s.nodes[n].key))])
    BY <1>8, BranchFacts
  <2>2. t.nodes[m].tag = "innerNode" /\ Length(s.nodes[m]) = s.nodes[m].prefixLen
    BY <2>1, <1>4 DEF Inners, Length
  <2> QED
    BY <2>1, <2>2, <1>4, <1>8, <1>10
<1> QED
  BY <1>3, <1>4, <1>5, <1>6, <1>7, <1>9, <1>11, <1>12 DEF IsCritBit

-----------------------------------------------------------------------------
(* The order of the nodes.                                                 *)

LEMMA ComesBelow ==
  ASSUME NEW descending, NEW n, NEW m, NEW x, NEW y,
         Length(n) \in Nat, Length(m) \in Nat, Length(x) \in Nat, Length(y) \in Nat,
         Comes(descending, n, m), Extends(x, n), Extends(y, m)
  PROVE  Comes(descending, x, y)
<1>1. PICK b \in Bits :
        /\ b < Length(n) /\ b < Length(m)
        /\ \A c \in 0..b - 1 : n.key[c] = m.key[c]
        /\ n.key[b] = (IF descending THEN 1 ELSE 0)
        /\ m.key[b] = (IF descending THEN 0 ELSE 1)
  BY DEF Comes
<1>2. b \in Nat /\ b < Length(x) /\ b < Length(y)
  BY <1>1, KeyFacts DEF Extends
<1>3. \A c \in 0..b : x.key[c] = n.key[c] /\ y.key[c] = m.key[c]
  BY <1>1, <1>2 DEF Extends
<1>4. /\ \A c \in 0..b - 1 : x.key[c] = y.key[c]
      /\ x.key[b] = n.key[b] /\ y.key[b] = m.key[b]
  BY <1>1, <1>2, <1>3
<1> QED
  BY <1>1, <1>2, <1>4 DEF Comes

LEMMA ComesByKey ==
  ASSUME NEW descending, NEW n, NEW m, NEW x, NEW y, Comes(descending, n, m),
         x.key = n.key, y.key = m.key, Length(x) = Length(n), Length(y) = Length(m)
  PROVE  Comes(descending, x, y)
BY DEF Comes

\* Of the children of a node, those on the first side come first.
LEMMA SidesCome ==
  ASSUME NEW slab, IsCritBit(slab), NEW m \in Inners(slab), NEW descending \in BOOLEAN,
         NEW first, first = (IF descending THEN 1 ELSE 0)
  PROVE  Comes(descending, slab.nodes[Child(slab, m, first)],
               slab.nodes[Child(slab, m, 1 - first)])
<1> DEFINE b == slab.nodes[m].prefixLen
           x == slab.nodes[Child(slab, m, first)]
           y == slab.nodes[Child(slab, m, 1 - first)]
<1>0. first \in {0, 1} /\ 1 - first \in {0, 1} /\ 1 - first = (IF descending THEN 0 ELSE 1)
  OBVIOUS
<1>1. /\ b < Length(x) /\ Extends(x, slab.nodes[m]) /\ Side(slab, m, x.key) = first
      /\ Length(slab.nodes[m]) = b /\ b \in Nat /\ b < KeyBits
  BY <1>0, ChildFacts
<1>2. b < Length(y) /\ Extends(y, slab.nodes[m]) /\ Side(slab, m, y.key) = 1 - first
  BY <1>0, ChildFacts
<1>3. \A c \in 0..b - 1 : x.key[c] = y.key[c]
  BY <1>1, <1>2 DEF Extends
<1>4. x.key[b] = first /\ y.key[b] = 1 - first
  BY <1>1, <1>2 DEF Side
<1>5. b \in Bits
  BY <1>1, KeyFacts
<1>6. /\ x.key[b] = (IF descending THEN 1 ELSE 0)
      /\ y.key[b] = (IF descending THEN 0 ELSE 1)
  BY <1>0, <1>4
<1> HIDE DEF b, x, y
<1>7. Comes(descending, x, y)
  BY <1>1, <1>2, <1>3, <1>5, <1>6, Zenon DEF Comes
<1> QED
  BY <1>7 DEF x, y

LEMMA ComesIsBefore ==
  ASSUME NEW n, NEW m, n.key \in Key, m.key \in Key, Comes(it.descending, n, m)
  PROVE  Before(n.key, m.key) /\ n.key # m.key
<1>1. PICK b \in Bits :
        /\ \A c \in 0..b - 1 : n.key[c] = m.key[c]
        /\ n.key[b] = (IF it.descending THEN 1 ELSE 0)
        /\ m.key[b] = (IF it.descending THEN 0 ELSE 1)
  BY DEF Comes
<1>2. DOMAIN n.key = Bits /\ DOMAIN m.key = Bits
  BY KeyFacts
<1>3. n.key[b] # m.key[b]
  BY <1>1
<1>4. CASE it.descending
  BY <1>1, <1>2, <1>3, <1>4 DEF Before, KeyPrecedes
<1>5. CASE ~ it.descending
  BY <1>1, <1>2, <1>3, <1>5 DEF Before, KeyPrecedes
<1> QED
  BY <1>4, <1>5

-----------------------------------------------------------------------------
(* The initial state, and the steps before a generator runs.               *)

LEMMA BookInitOK == BookInit => BookIInv
<1> SUFFICES ASSUME BookInit PROVE BookIInv
  OBVIOUS
<1>1. IsCritBit(account)
  BY EmptyIsCritBit DEF BookInit
<1>2. calls \in Nat /\ LoadedInv /\ it = NoIterator
  BY DEF BookInit, LoadedInv
<1> QED
  BY <1>1, <1>2 DEF BookIInv

\* A generator has a book.
LEMMA NoBookNoIterator == BookIInv /\ book = NoBook => it = NoIterator
BY DEF BookIInv, IteratorOK

\* What is on chain says nothing of a book that was loaded.
LEMMA ChainAside ==
  ASSUME BookIInv, UNCHANGED <<book, loaded, it, calls>>
  PROVE  calls' \in Nat /\ LoadedInv' /\ (it # NoIterator => IteratorOK /\ StackInv /\ OutInv /\ RestInv)'
<1>1. calls' \in Nat
  BY DEF BookIInv
<1>2. \A i : Node(i)' = Node(i) /\ Yielded(i)' = Yielded(i)
  BY DEF Node, Yielded
<1>3. LoadedInv'
  BY <1>2 DEF BookIInv, LoadedInv
<1>4. ASSUME (it # NoIterator)'
      PROVE  (IteratorOK /\ StackInv /\ OutInv /\ RestInv)'
  <2>1. IteratorOK /\ StackInv /\ OutInv /\ RestInv
    BY <1>4 DEF BookIInv, NoIterator
  <2>2. IteratorOK'
    BY <2>1 DEF IteratorOK
  <2>3. StackInv'
    BY <2>1, <1>2 DEF StackInv
  <2>4. OutInv'
    BY <2>1, <1>2 DEF OutInv
  <2>5. RestInv'
    BY <2>1, <1>2 DEF RestInv
  <2> QED
    BY <2>2, <2>3, <2>4, <2>5
<1> QED
  BY <1>1, <1>3, <1>4

LEMMA OrderPostedOK ==
  ASSUME BookIInv, NEW k \in Key, NEW q \in Quantity, OrderPosted(k, q)
  PROVE  BookIInv'
<1>1. IsCritBit(account')
  BY InsertKeepsCritBit DEF BookIInv, OrderPosted
<1>2. UNCHANGED <<book, loaded, it, calls>>
  BY DEF OrderPosted
<1> QED
  BY <1>1, <1>2, ChainAside DEF BookIInv

LEMMA OrderRemovedOK ==
  ASSUME BookIInv, NEW leaf \in Index, OrderRemoved(leaf)
  PROVE  BookIInv'
<1>1. IsCritBit(account')
  BY RemoveKeepsCritBit DEF BookIInv, OrderRemoved
<1>2. UNCHANGED <<book, loaded, it, calls>>
  BY DEF OrderRemoved
<1> QED
  BY <1>1, <1>2, ChainAside DEF BookIInv

LEMMA LoadOK ==
  ASSUME BookIInv, NEW isBids \in BOOLEAN, Load(isBids)
  PROVE  BookIInv'
<1>1. it' = NoIterator /\ account' = account /\ calls' = calls
  BY NoBookNoIterator DEF Load
<1>2. IsCritBit(account) /\ calls \in Nat
  BY DEF BookIInv
<1>3. book' = [slab |-> account, isBids |-> isBids]
  BY DEF Load
<1>4. book'.slab = account /\ book'.isBids = isBids
  BY <1>3
<1>5. ASSUME NEW i \in Leaves(account)
      PROVE  account.nodes[i].quantity = loaded'[account.nodes[i].key]
  <2> DEFINE k == account.nodes[i].key
             j == CHOOSE n \in Leaves(account) : account.nodes[n].key = k
  <2>1. j \in Leaves(account) /\ account.nodes[j].key = k
    OBVIOUS
  <2>2. j = i
    BY <2>1, <1>2, LeafFacts
  <2>3. k \in Keys(account)
    BY DEF Keys
  <2>4. loaded'[k] = account.nodes[j].quantity
    BY <2>3 DEF Load
  <2> QED
    BY <2>2, <2>4
<1>6. DOMAIN loaded' = Keys(account)
  BY DEF Load
<1>7. LoadedInv'
  BY <1>2, <1>3, <1>4, <1>5, <1>6 DEF LoadedInv, Node
<1> QED
  BY <1>1, <1>2, <1>7 DEF BookIInv

LEMMA ItemsOK ==
  ASSUME BookIInv, NEW descending \in BOOLEAN, Items(descending)
  PROVE  BookIInv'
<1> DEFINE slab == book.slab
           stack == IF slab.leafCount = 0 THEN <<>> ELSE <<slab.root>>
<1>1. /\ UNCHANGED <<account, book, loaded, levels, calls>> /\ book # NoBook
      /\ it' = [state |-> "suspended", descending |-> descending, stack |-> stack,
                out |-> <<>>]
  BY DEF Items
<1>2. /\ it'.state = "suspended" /\ it'.descending = descending
      /\ it'.stack = stack /\ it'.out = <<>>
  BY <1>1
<1>3. IsCritBit(account) /\ calls \in Nat /\ LoadedInv /\ IsCritBit(slab)
  BY <1>1 DEF BookIInv, LoadedInv
<1>4. \A i : Node(i)' = Node(i)
  BY <1>1 DEF Node
<1>5. (IsCritBit(account) /\ calls \in Nat /\ LoadedInv)'
  BY <1>1, <1>3, <1>4 DEF LoadedInv
<1>6. RootOK(slab) /\ CountOK(slab)
  BY <1>3 DEF IsCritBit
<1>7. stack \in Seq(Used(slab)) /\ \A x, y \in DOMAIN stack : ~ (x < y)
  <2>1. CASE slab.leafCount = 0
    BY <2>1
  <2>2. CASE slab.leafCount # 0
    <3>1. slab.root \in Used(slab) /\ stack = <<slab.root>>
      BY <2>2, <1>6 DEF RootOK
    <3> HIDE DEF stack
    <3> QED
      BY <3>1
  <2> QED
    BY <2>1, <2>2
<1>8. IteratorOK'
  <2>1. it'.out \in Seq(ToSet(it.out)')
    BY <1>2
  <2> QED
    BY <1>1, <1>2, <1>7, <2>1 DEF IteratorOK
<1>9. StackInv'
  BY <1>2, <1>7 DEF StackInv
<1>10. OutInv'
  BY <1>2 DEF OutInv
<1>11. RestInv'
  <2> SUFFICES ASSUME NEW leaf \in Leaves(slab)
               PROVE  \E x \in DOMAIN stack : Extends(Node(leaf), Node(stack[x]))
    BY <1>1, <1>2, <1>4 DEF RestInv
  <2>1. leaf \in Used(slab)
    BY DEF Leaves, Used
  <2>2. slab.leafCount # 0
    BY <2>1, <1>6 DEF CountOK
  <2>3. Extends(slab.nodes[leaf], slab.nodes[slab.root])
    BY <2>1, <2>2, <1>6 DEF RootOK
  <2> QED
    BY <2>2, <2>3 DEF Node
<1> QED
  BY <1>5, <1>8, <1>9, <1>10, <1>11 DEF BookIInv

-----------------------------------------------------------------------------
(* A turn of the generator.                                                *)

LEMMA TopOfStack ==
  ASSUME NEW S, NEW stack \in Seq(S), stack # <<>>
  PROVE  /\ Len(stack) \in Nat /\ Len(stack) > 0
         /\ Last(stack) = stack[Len(stack)] /\ Last(stack) \in S
         /\ Front(stack) \in Seq(S) /\ Len(Front(stack)) = Len(stack) - 1
         /\ DOMAIN Front(stack) = 1..Len(stack) - 1
         /\ \A x \in 1..Len(stack) - 1 : Front(stack)[x] = stack[x]
         /\ \A x \in DOMAIN stack : x \in 1..Len(stack) - 1 \/ x = Len(stack)
<1>1. Len(stack) \in Nat /\ Len(stack) > 0 /\ DOMAIN stack = 1..Len(stack)
  OBVIOUS
<1>2. Last(stack) = stack[Len(stack)] /\ Last(stack) \in S
  BY <1>1 DEF Last
<1>3. Front(stack) = [x \in 1..Len(stack) - 1 |-> stack[x]]
  BY <1>1 DEF Front
<1>4. Len(stack) - 1 \in Nat /\ \A x \in 1..Len(stack) - 1 : stack[x] \in S
  BY <1>1
<1>5. Front(stack) \in Seq(S) /\ Len(Front(stack)) = Len(stack) - 1
  BY <1>3, <1>4
<1> QED
  BY <1>1, <1>2, <1>3, <1>5

\* What holds of a slab that is being iterated over.
LEMMA IterationFacts ==
  ASSUME BookIInv, it # NoIterator
  PROVE  /\ IsCritBit(account) /\ calls \in Nat /\ LoadedInv
         /\ IteratorOK /\ StackInv /\ OutInv /\ RestInv
         /\ IsCritBit(book.slab) /\ NodesOK(book.slab)
         /\ \A i \in Used(book.slab) : Length(Node(i)) \in Nat
         /\ \A i : Length(Yielded(i)) \in Nat /\ Length(Yielded(i)) = KeyBits
<1>1. /\ IsCritBit(account) /\ calls \in Nat /\ LoadedInv
      /\ IteratorOK /\ StackInv /\ OutInv /\ RestInv
  BY DEF BookIInv
<1>2. IsCritBit(book.slab) /\ NodesOK(book.slab)
  BY <1>1 DEF IteratorOK, LoadedInv, IsCritBit
<1>3. \A i \in Used(book.slab) : Length(Node(i)) \in Nat
  BY <1>2, NodeFacts DEF Node
<1>4. \A i : Length(Yielded(i)) = KeyBits /\ KeyBits \in Nat
  BY KeyFacts DEF Length, Yielded, Leaf
<1> QED
  BY <1>1, <1>2, <1>3, <1>4

LEMMA StackTop ==
  ASSUME BookIInv, it # NoIterator, it.stack # <<>>, NEW i, i = Last(it.stack)
  PROVE  LET n == Len(it.stack)
         IN  /\ n \in Nat /\ n > 0 /\ i = it.stack[n] /\ i \in Used(book.slab)
             /\ Front(it.stack) \in Seq(Used(book.slab)) /\ Len(Front(it.stack)) = n - 1
             /\ \A x \in 1..n - 1 : Front(it.stack)[x] = it.stack[x]
             /\ \A x \in DOMAIN it.stack : x \in 1..n - 1 \/ x = n
<1>1. it.stack \in Seq(Used(book.slab))
  BY IterationFacts DEF IteratorOK
<1>2. /\ Len(it.stack) \in Nat /\ Len(it.stack) > 0
      /\ Last(it.stack) = it.stack[Len(it.stack)] /\ Last(it.stack) \in Used(book.slab)
      /\ Front(it.stack) \in Seq(Used(book.slab))
      /\ Len(Front(it.stack)) = Len(it.stack) - 1
      /\ \A x \in 1..Len(it.stack) - 1 : Front(it.stack)[x] = it.stack[x]
      /\ \A x \in DOMAIN it.stack : x \in 1..Len(it.stack) - 1 \/ x = Len(it.stack)
  BY <1>1, TopOfStack
<1> QED
  BY <1>2

LEMMA LeafIsYielded ==
  ASSUME BookIInv, it # NoIterator, it.stack # <<>>,
         UNCHANGED <<account, book, loaded, calls>>,
         NEW i, i = Last(it.stack), Node(i).tag = "leafNode",
         it' = [it EXCEPT !.state = "suspended", !.stack = Front(it.stack),
                          !.out = Append(@, [key |-> Node(i).key,
                                             size |-> Node(i).quantity])]
  PROVE  BookIInv'
<1> DEFINE slab == book.slab
           n == Len(it.stack)
           m == Len(it.out)
           new == [key |-> Node(i).key, size |-> Node(i).quantity]
<1>1. /\ IsCritBit(account) /\ calls \in Nat /\ LoadedInv
      /\ IteratorOK /\ StackInv /\ OutInv /\ RestInv
      /\ IsCritBit(slab) /\ NodesOK(slab)
  BY IterationFacts
<1>2. it.stack \in Seq(Used(slab)) /\ it.out \in Seq(ToSet(it.out)) /\ book # NoBook
  BY <1>1 DEF IteratorOK
<1>3. /\ n \in Nat /\ n > 0 /\ i = it.stack[n] /\ i \in Used(slab)
      /\ Front(it.stack) \in Seq(Used(slab)) /\ DOMAIN Front(it.stack) = 1..n - 1
      /\ \A x \in 1..n - 1 : Front(it.stack)[x] = it.stack[x]
      /\ \A x \in DOMAIN it.stack : x \in 1..n - 1 \/ x = n
  BY StackTop
<1>4. n \in DOMAIN it.stack /\ \A x \in 1..n - 1 : x \in DOMAIN it.stack /\ x < n
  BY <1>2, <1>3
<1>5. /\ it' = [state |-> "suspended", descending |-> it.descending,
                stack |-> Front(it.stack), out |-> Append(it.out, new)]
      /\ it.descending \in BOOLEAN
  BY <1>1 DEF IteratorOK
<1>6. /\ it'.state = "suspended" /\ it'.descending = it.descending
      /\ it'.stack = Front(it.stack) /\ it'.out = Append(it.out, new)
  BY <1>5
<1>7. /\ m \in Nat /\ DOMAIN it.out = 1..m /\ DOMAIN it'.out = 1..m + 1
      /\ \A j \in 1..m : it'.out[j] = it.out[j]
      /\ it'.out[m + 1] = new
  BY <1>2, <1>6
<1>8. i \in Leaves(slab)
  BY <1>3 DEF Node, Leaves, Used
<1>9. Node(i) = Leaf(new.key, new.size)
  BY <1>1, <1>8 DEF NodesOK, Node, Leaves
<1>10. /\ \A j : Node(j)' = Node(j)
       /\ \A j \in 1..m : Yielded(j)' = Yielded(j)
       /\ \A j : j = m + 1 => Yielded(j)' = Node(i)
  <2>1. \A j : Node(j)' = Node(j)
    BY DEF Node
  <2>2. \A j \in 1..m : Yielded(j)' = Yielded(j)
    BY <1>7 DEF Yielded
  <2>3. \A j : j = m + 1 => Yielded(j)' = Leaf(new.key, new.size)
    BY <1>7 DEF Yielded
  <2> QED
    BY <2>1, <2>2, <2>3, <1>9
<1>11. (IsCritBit(account) /\ calls \in Nat /\ LoadedInv)'
  BY <1>1, <1>10 DEF LoadedInv
<1>12. IteratorOK'
  <2>1. it'.out \in Seq(ToSet(it'.out))
    <3>1. \A j \in 1..m + 1 : it'.out[j] \in ToSet(it'.out)
      BY <1>7 DEF ToSet
    <3>2. it'.out \in Seq(ToSet(it.out) \cup {new}) /\ Len(it'.out) = m + 1
      BY <1>2, <1>6
    <3>3. \A s, S, T : s \in Seq(S) /\ (\A j \in 1..Len(s) : s[j] \in T) => s \in Seq(T)
      OBVIOUS
    <3> QED
      BY <3>1, <3>2, <3>3
  <2> QED
    BY <1>2, <1>3, <1>5, <1>6, <2>1 DEF IteratorOK
<1>13. StackInv'
  <2>1. \A x, y \in 1..n - 1 : x < y =>
          Comes(it.descending, Node(it.stack[y]), Node(it.stack[x]))
    BY <1>1, <1>4 DEF StackInv
  <2>2. DOMAIN it'.stack = 1..n - 1 /\ it'.descending = it.descending
    BY <1>3, <1>6
  <2>3. \A x \in 1..n - 1 : Node(it.stack[x])' = Node(it.stack[x])
    BY <1>3, <1>6, <1>10
  <2> QED
    BY <2>1, <2>2, <2>3 DEF StackInv
<1>14. OutInv'
  <2> SUFFICES ASSUME NEW j \in 1..m + 1
               PROVE  /\ it'.out[j].key \in Keys(slab)
                      /\ calls = 0 => it'.out[j].size = loaded[it'.out[j].key]
                      /\ \A l \in 1..m + 1 : j < l =>
                           Comes(it.descending, Yielded(j)', Yielded(l)')
                      /\ \A x \in 1..n - 1 :
                           Comes(it.descending, Yielded(j)', Node(it.stack[x]))
    <3>1. DOMAIN it'.out = 1..m + 1 /\ DOMAIN it'.stack = 1..n - 1
      BY <1>3, <1>6, <1>7
    <3>2. \A x \in 1..n - 1 : Node(it.stack[x])' = Node(it.stack[x])
      BY <1>3, <1>6, <1>10
    <3>3. /\ it'.descending = it.descending /\ calls' = calls /\ loaded' = loaded
          /\ Keys(book.slab)' = Keys(slab)
      BY <1>6
    <3>4. SUFFICES ASSUME NEW j \in DOMAIN it'.out
                   PROVE  /\ it'.out[j].key \in Keys(book.slab)'
                          /\ calls' = 0 => it'.out[j].size = loaded'[it'.out[j].key]
                          /\ \A l \in DOMAIN it'.out : j < l =>
                               Comes(it'.descending, Yielded(j)', Yielded(l)')
                          /\ \A x \in DOMAIN it'.stack :
                               Comes(it'.descending, Yielded(j)', Node(it.stack[x])')
      BY DEF OutInv
    <3>5. j \in 1..m + 1
      BY <3>1, <3>4
    <3>6. /\ it'.out[j].key \in Keys(book.slab)'
          /\ calls' = 0 => it'.out[j].size = loaded'[it'.out[j].key]
      BY <3>3, <3>5
    <3>7. \A l \in DOMAIN it'.out : j < l =>
            Comes(it'.descending, Yielded(j)', Yielded(l)')
      BY <3>1, <3>3, <3>5
    <3>8. \A x \in DOMAIN it'.stack : Comes(it'.descending, Yielded(j)', Node(it.stack[x])')
      BY <3>1, <3>2, <3>3, <3>5
    <3> QED
      BY <3>6, <3>7, <3>8
  <2>1. CASE j \in 1..m
    <3>1. /\ it.out[j].key \in Keys(slab)
          /\ calls = 0 => it.out[j].size = loaded[it.out[j].key]
          /\ \A l \in 1..m : j < l => Comes(it.descending, Yielded(j), Yielded(l))
          /\ \A x \in DOMAIN it.stack : Comes(it.descending, Yielded(j), Node(it.stack[x]))
      BY <2>1, <1>1, <1>7 DEF OutInv
    <3>2. \A l \in 1..m + 1 : j < l => Comes(it.descending, Yielded(j)', Yielded(l)')
      <4> TAKE l \in 1..m + 1
      <4>1. CASE l \in 1..m
        BY <4>1, <3>1, <2>1, <1>10
      <4>2. CASE l = m + 1
        BY <4>2, <3>1, <2>1, <1>3, <1>4, <1>10
      <4> QED
        BY <4>1, <4>2, <1>7
    <3> QED
      BY <3>1, <3>2, <2>1, <1>4, <1>7, <1>10
  <2>2. CASE j = m + 1
    <3>1. it'.out[j] = new /\ Yielded(j)' = Node(i)
      BY <2>2, <1>7, <1>10
    <3>2. new.key \in Keys(slab)
      BY <1>8 DEF Keys, Node
    <3>3. calls = 0 => new.size = loaded[new.key]
      BY <1>1, <1>2, <1>8 DEF LoadedInv
    <3>4. \A x \in 1..n - 1 : Comes(it.descending, Node(i), Node(it.stack[x]))
      BY <1>1, <1>3, <1>4 DEF StackInv
    <3> QED
      BY <3>1, <3>2, <3>3, <3>4, <2>2, <1>7
  <2> QED
    BY <2>1, <2>2, <1>7
<1>15. RestInv'
  <2> SUFFICES ASSUME NEW leaf \in Leaves(slab)
               PROVE  \/ \E j \in 1..m + 1 : it'.out[j].key = Node(leaf).key
                      \/ \E x \in 1..n - 1 : Extends(Node(leaf), Node(it.stack[x]))
    <3>1. DOMAIN it'.out = 1..m + 1 /\ DOMAIN it'.stack = 1..n - 1
      BY <1>3, <1>6, <1>7
    <3>2. \A x \in 1..n - 1 : Node(it.stack[x])' = Node(it.stack[x])
      BY <1>3, <1>6, <1>10
    <3>3. \A l : Node(l)' = Node(l)
      BY <1>10
    <3> QED
      BY <3>1, <3>2, <3>3 DEF RestInv
  <2>1. \/ \E j \in DOMAIN it.out : it.out[j].key = Node(leaf).key
        \/ \E x \in DOMAIN it.stack : Extends(Node(leaf), Node(it.stack[x]))
    BY <1>1 DEF RestInv
  <2>2. CASE \E j \in DOMAIN it.out : it.out[j].key = Node(leaf).key
    BY <2>2, <1>7
  <2>3. ASSUME NEW x \in DOMAIN it.stack, Extends(Node(leaf), Node(it.stack[x]))
        PROVE  \/ \E j \in 1..m + 1 : it'.out[j].key = Node(leaf).key
               \/ x \in 1..n - 1
    <3>1. CASE x = n
      <4>1. Extends(slab.nodes[leaf], slab.nodes[i]) /\ leaf \in Used(slab)
        BY <3>1, <2>3, <1>3 DEF Node, Leaves, Used
      <4>2. leaf = i
        BY <4>1, <1>1, <1>8, LeafFacts
      <4>3. it'.out[m + 1].key = Node(leaf).key
        BY <4>2, <1>7
      <4> QED
        BY <4>3, <1>7
    <3> QED
      BY <3>1, <1>3
  <2> QED
    BY <2>1, <2>2, <2>3
<1> QED
  BY <1>11, <1>12, <1>13, <1>14, <1>15 DEF BookIInv

LEMMA PushTwo ==
  ASSUME NEW S, NEW s \in Seq(S), NEW a \in S, NEW b \in S,
         NEW t, t = s \o <<a, b>>
  PROVE  /\ t \in Seq(S) /\ Len(t) = Len(s) + 2
         /\ \A x \in 1..Len(s) : t[x] = s[x]
         /\ t[Len(s) + 1] = a /\ t[Len(s) + 2] = b
OBVIOUS

LEMMA ChildrenArePushed ==
  ASSUME BookIInv, it # NoIterator, it.stack # <<>>,
         UNCHANGED <<account, book, loaded, calls>>,
         NEW i, i = Last(it.stack), Node(i).tag = "innerNode",
         NEW first, first = (IF it.descending THEN 1 ELSE 0),
         it' = [it EXCEPT !.state = "running",
                          !.stack = Front(it.stack) \o
                            <<Node(i).children[1 - first], Node(i).children[first]>>]
  PROVE  BookIInv'
<1> DEFINE slab == book.slab
           n == Len(it.stack)
           near == Child(slab, i, first)
           far == Child(slab, i, 1 - first)
           stack == Front(it.stack) \o <<far, near>>
<1>1. /\ IsCritBit(account) /\ calls \in Nat /\ LoadedInv
      /\ IteratorOK /\ StackInv /\ OutInv /\ RestInv
      /\ IsCritBit(slab) /\ NodesOK(slab)
      /\ \A l \in Used(slab) : Length(Node(l)) \in Nat
      /\ \A l : Length(Yielded(l)) \in Nat
  BY IterationFacts
<1>2. it.stack \in Seq(Used(slab)) /\ book # NoBook /\ it.descending \in BOOLEAN
  BY <1>1 DEF IteratorOK
<1>3. /\ n \in Nat /\ n > 0 /\ i = it.stack[n] /\ i \in Used(slab)
      /\ Front(it.stack) \in Seq(Used(slab)) /\ Len(Front(it.stack)) = n - 1
      /\ \A x \in 1..n - 1 : Front(it.stack)[x] = it.stack[x]
      /\ \A x \in DOMAIN it.stack : x \in 1..n - 1 \/ x = n
  BY StackTop
<1>4. n \in DOMAIN it.stack /\ \A x \in 1..n - 1 : x \in DOMAIN it.stack /\ x < n
  BY <1>2, <1>3
<1>5. i \in Inners(slab) /\ i \notin Leaves(slab)
  BY <1>3 DEF Inners, Node, Leaves
<1>6. first \in {0, 1} /\ 1 - first \in {0, 1} /\ \A c \in {0, 1} : c = first \/ c = 1 - first
  BY <1>2
<1>7. /\ near \in Used(slab) /\ far \in Used(slab)
      /\ Extends(Node(near), Node(i)) /\ Extends(Node(far), Node(i))
  BY <1>1, <1>5, <1>6, ChildFacts DEF Node
<1>8. Comes(it.descending, Node(near), Node(far))
  BY <1>1, <1>2, <1>5, SidesCome DEF Node
<1>9. /\ it' = [state |-> "running", descending |-> it.descending, stack |-> stack,
                out |-> it.out]
  BY <1>1 DEF IteratorOK, Node, Child
<1>10. /\ stack \in Seq(Used(slab)) /\ DOMAIN stack = 1..n + 1
       /\ \A x \in 1..n - 1 : stack[x] = it.stack[x]
       /\ stack[n] = far /\ stack[n + 1] = near
  <2> HIDE DEF near, far
  <2> DEFINE rest == Front(it.stack)
  <2> HIDE DEF rest
  <2>1. rest \in Seq(Used(slab)) /\ Len(rest) = n - 1 /\ stack = rest \o <<far, near>>
    BY <1>3 DEF rest
  <2> HIDE DEF stack
  <2>2. /\ stack \in Seq(Used(slab)) /\ Len(stack) = Len(rest) + 2
        /\ \A x \in 1..Len(rest) : stack[x] = rest[x]
        /\ stack[Len(rest) + 1] = far /\ stack[Len(rest) + 2] = near
    BY <2>1, <1>7, PushTwo
  <2>3. Len(rest) + 1 = n /\ Len(rest) + 2 = n + 1
    BY <2>1, <1>3
  <2>4. \A x \in 1..n - 1 : stack[x] = it.stack[x]
    BY <2>1, <2>2, <1>3 DEF rest
  <2>5. DOMAIN stack = 1..n + 1
    BY <2>2, <2>3
  <2> QED
    BY <2>2, <2>3, <2>4, <2>5
<1>11. /\ it'.state = "running" /\ it'.descending = it.descending
       /\ it'.stack = stack /\ it'.out = it.out
  <2> DEFINE next == [state |-> "running", descending |-> it.descending, stack |-> stack,
                      out |-> it.out]
  <2> HIDE DEF stack
  <2>1. /\ next.state = "running" /\ next.descending = it.descending
        /\ next.stack = stack /\ next.out = it.out
    OBVIOUS
  <2> QED
    BY <2>1, <1>9
<1> HIDE DEF stack, near, far
<1>12. \A x \in DOMAIN stack : x \in 1..n - 1 \/ x = n \/ x = n + 1
  <2>1. \A k \in Nat : \A x \in 1..k + 1 : x \in 1..k - 1 \/ x = k \/ x = k + 1
    OBVIOUS
  <2> QED
    BY <2>1, <1>10, <1>3
<1>13. \A j : Node(j)' = Node(j) /\ Yielded(j)' = Yielded(j)
  BY <1>11 DEF Node, Yielded
<1>14. (IsCritBit(account) /\ calls \in Nat /\ LoadedInv)'
  BY <1>1, <1>13 DEF LoadedInv
<1>15. IteratorOK'
  BY <1>1, <1>2, <1>9, <1>10, <1>11 DEF IteratorOK
<1>16. StackInv'
  <2> SUFFICES ASSUME NEW x \in DOMAIN stack, NEW y \in DOMAIN stack, x < y
               PROVE  Comes(it.descending, Node(stack[y]), Node(stack[x]))
    BY <1>11, <1>13 DEF StackInv
  <2>1. CASE x \in 1..n - 1
    <3>1. \A z \in 1..n - 1 : x < z =>
            Comes(it.descending, Node(it.stack[z]), Node(it.stack[x]))
      BY <2>1, <1>1, <1>4 DEF StackInv
    <3>2. Comes(it.descending, Node(i), Node(it.stack[x])) /\ it.stack[x] \in Used(slab)
      BY <2>1, <1>1, <1>2, <1>3, <1>4 DEF StackInv
    <3>3. Extends(Node(it.stack[x]), Node(it.stack[x]))
      BY <3>2, <1>1, ExtendsSelf
    <3>4. \A c \in {near, far} : Comes(it.descending, Node(c), Node(it.stack[x]))
      BY <3>2, <3>3, <1>1, <1>3, <1>7, ComesBelow
    <3> QED
      BY <2>1, <3>1, <3>4, <1>10, <1>12
  <2>2. CASE x = n
    <3>1. y = n + 1
      BY <2>2, <1>3, <1>12
    <3> QED
      BY <3>1, <2>2, <1>8, <1>10
  <2>3. CASE x = n + 1
    BY <2>3, <1>3, <1>12
  <2> QED
    BY <2>1, <2>2, <2>3, <1>12
<1>17. OutInv'
  <2> SUFFICES ASSUME NEW j \in DOMAIN it.out, NEW x \in DOMAIN stack
               PROVE  Comes(it.descending, Yielded(j), Node(stack[x]))
    BY <1>1, <1>11, <1>13 DEF OutInv
  <2>1. \A z \in DOMAIN it.stack : Comes(it.descending, Yielded(j), Node(it.stack[z]))
    BY <1>1 DEF OutInv
  <2>2. Extends(Yielded(j), Yielded(j)) /\ Comes(it.descending, Yielded(j), Node(i))
    BY <2>1, <1>1, <1>3, <1>4, ExtendsSelf
  <2>3. \A c \in {near, far} : Comes(it.descending, Yielded(j), Node(c))
    BY <2>2, <1>1, <1>3, <1>7, ComesBelow
  <2> QED
    BY <2>1, <2>3, <1>4, <1>10, <1>12
<1>18. RestInv'
  <2> SUFFICES ASSUME NEW leaf \in Leaves(slab)
               PROVE  \/ \E j \in DOMAIN it.out : it.out[j].key = Node(leaf).key
                      \/ \E x \in DOMAIN stack : Extends(Node(leaf), Node(stack[x]))
    BY <1>11, <1>13 DEF RestInv
  <2>1. \/ \E j \in DOMAIN it.out : it.out[j].key = Node(leaf).key
        \/ \E x \in DOMAIN it.stack : Extends(Node(leaf), Node(it.stack[x]))
    BY <1>1 DEF RestInv
  <2>2. ASSUME NEW x \in DOMAIN it.stack, Extends(Node(leaf), Node(it.stack[x]))
        PROVE  \E y \in DOMAIN stack : Extends(Node(leaf), Node(stack[y]))
    <3>1. CASE x \in 1..n - 1
      BY <3>1, <2>2, <1>3, <1>10
    <3>2. CASE x = n
      <4>1. /\ Extends(slab.nodes[leaf], slab.nodes[i])
            /\ leaf \in Used(slab) /\ leaf # i
        BY <3>2, <2>2, <1>3, <1>5 DEF Node, Leaves, Used
      <4>2. /\ Side(slab, i, slab.nodes[leaf].key) \in {0, 1}
            /\ Extends(slab.nodes[leaf],
                       slab.nodes[Child(slab, i, Side(slab, i, slab.nodes[leaf].key))])
        BY <4>1, <1>1, <1>3, BranchFacts
      <4>3. Extends(Node(leaf), Node(near)) \/ Extends(Node(leaf), Node(far))
        BY <4>2, <1>6 DEF Node, near, far
      <4>4. n \in DOMAIN stack /\ n + 1 \in DOMAIN stack
        BY <1>3, <1>10
      <4>5. Node(stack[n]) = Node(far) /\ Node(stack[n + 1]) = Node(near)
        BY <1>10
      <4> QED
        BY <4>3, <4>4, <4>5
    <3> QED
      BY <3>1, <3>2, <1>3
  <2> QED
    BY <2>1, <2>2
<1> QED
  BY <1>14, <1>15, <1>16, <1>17, <1>18 DEF BookIInv

LEMMA PopOK ==
  ASSUME BookIInv, Pop
  PROVE  BookIInv'
<1> DEFINE i == Last(it.stack)
           first == IF it.descending THEN 1 ELSE 0
<1>1. /\ UNCHANGED <<account, book, loaded, calls>> /\ it.stack # <<>>
      /\ it' = CASE Node(i).tag = "leafNode" ->
                      [it EXCEPT !.state = "suspended", !.stack = Front(it.stack),
                                 !.out = Append(@, [key |-> Node(i).key,
                                                    size |-> Node(i).quantity])]
                 [] Node(i).tag = "innerNode" ->
                      [it EXCEPT !.state = "running", !.stack = Front(it.stack) \o
                         <<Node(i).children[1 - first], Node(i).children[first]>>]
                 [] OTHER -> [it EXCEPT !.state = "running", !.stack = Front(it.stack)]
  BY Zenon DEF Pop
<1>2. it # NoIterator
  BY DEF Pop, NoIterator
<1>3. i \in Used(book.slab)
  <2>1. it.stack \in Seq(Used(book.slab))
    BY <1>2, IterationFacts DEF IteratorOK
  <2> QED
    BY <2>1, <1>1, TopOfStack
<1> HIDE DEF i, first
<1>4. CASE Node(i).tag = "leafNode"
  <2>1. it' = [it EXCEPT !.state = "suspended", !.stack = Front(it.stack),
                         !.out = Append(@, [key |-> Node(i).key,
                                            size |-> Node(i).quantity])]
    BY <1>1, <1>4
  <2> QED
    BY <2>1, <1>1, <1>2, <1>4, LeafIsYielded DEF i
<1>5. CASE Node(i).tag = "innerNode"
  <2>1. it' = [it EXCEPT !.state = "running", !.stack = Front(it.stack) \o
                 <<Node(i).children[1 - first], Node(i).children[first]>>]
    BY <1>1, <1>5
  <2> QED
    BY <2>1, <1>1, <1>2, <1>5, ChildrenArePushed DEF i, first
<1> QED
  BY <1>3, <1>4, <1>5 DEF Used, Node

LEMMA IteratorEndsOK ==
  ASSUME BookIInv, IteratorEnds
  PROVE  BookIInv'
<1>1. UNCHANGED <<account, book, loaded, calls>> /\ it.stack = <<>>
  BY DEF IteratorEnds
<1>2. it # NoIterator
  BY DEF IteratorEnds, NoIterator
<1>3. /\ IsCritBit(account) /\ calls \in Nat /\ LoadedInv
      /\ IteratorOK /\ StackInv /\ OutInv /\ RestInv
  BY <1>2, IterationFacts
<1>4. it' = [state |-> "done", descending |-> it.descending, stack |-> it.stack,
             out |-> it.out]
  BY <1>3 DEF IteratorEnds, IteratorOK
<1>5. /\ it'.state = "done" /\ it'.descending = it.descending
      /\ it'.stack = it.stack /\ it'.out = it.out
  BY <1>4
<1>6. \A j : Node(j)' = Node(j) /\ Yielded(j)' = Yielded(j)
  BY <1>1, <1>5 DEF Node, Yielded
<1>7. (IsCritBit(account) /\ calls \in Nat /\ LoadedInv)'
  BY <1>1, <1>3, <1>6 DEF LoadedInv
<1>8. IteratorOK'
  BY <1>1, <1>3, <1>4, <1>5 DEF IteratorOK
<1>9. StackInv' /\ OutInv' /\ RestInv'
  BY <1>1, <1>3, <1>5, <1>6 DEF StackInv, OutInv, RestInv
<1> QED
  BY <1>7, <1>8, <1>9 DEF BookIInv

-----------------------------------------------------------------------------
(* getL2 between two turns of the generator.                               *)

\* A record is the same with a field changed that it does not have.
LEMMA OtherField ==
  ASSUME NEW D, NEW g, g = [x \in D |-> g[x]], "quantity" \notin D, NEW q
  PROVE  [g EXCEPT !.quantity = q] = g
OBVIOUS

LEMMA GetL2Requantifies ==
  ASSUME BookIInv, NEW depth \in Depth, GetL2(depth)
  PROVE  /\ book # NoBook /\ book' = [slab |-> book'.slab, isBids |-> book.isBids]
         /\ Requantified(book.slab, book'.slab)
         /\ UNCHANGED <<account, loaded, it>> /\ calls' = calls + 1
<1> DEFINE acc == Collected(depth)
           sizeOf == [i \in {l.first : l \in ToSet(acc.levels)} |->
                        (CHOOSE l \in ToSet(acc.levels) : l.first = i).size]
<1>0. book' = [book EXCEPT !.slab.nodes =
        [i \in Index |-> IF i \in DOMAIN sizeOf
                         THEN [book.slab.nodes[i] EXCEPT !.quantity = sizeOf[i]]
                         ELSE book.slab.nodes[i]]]
  BY Zenon DEF GetL2
<1> HIDE DEF sizeOf
<1>1. \E S, f : book' = [book EXCEPT !.slab.nodes =
        [i \in Index |-> IF i \in S THEN [book.slab.nodes[i] EXCEPT !.quantity = f[i]]
                                    ELSE book.slab.nodes[i]]]
  BY <1>0, Zenon
<1>2. PICK S, f : book' = [book EXCEPT !.slab.nodes =
        [i \in Index |-> IF i \in S THEN [book.slab.nodes[i] EXCEPT !.quantity = f[i]]
                                    ELSE book.slab.nodes[i]]]
  BY <1>1
<1> DEFINE slab == book.slab
           nodes == [i \in Index |-> IF i \in S THEN [slab.nodes[i] EXCEPT !.quantity = f[i]]
                                                ELSE slab.nodes[i]]
           after == [root |-> slab.root, leafCount |-> slab.leafCount, nodes |-> nodes]
<1>3. /\ book # NoBook /\ UNCHANGED <<account, loaded, it>> /\ calls' = calls + 1
      /\ book = [slab |-> slab, isBids |-> book.isBids] /\ NodesOK(slab)
  BY DEF GetL2, BookIInv, LoadedInv, IsCritBit
<1>4. slab = [root |-> slab.root, leafCount |-> slab.leafCount, nodes |-> slab.nodes]
  BY <1>3 DEF NodesOK
<1>5. [slab EXCEPT !.nodes = nodes] = after
  <2> HIDE DEF nodes
  <2> QED
    BY <1>4
<1>6. book' = [book EXCEPT !.slab = [slab EXCEPT !.nodes = nodes]]
  BY <1>2
<1> HIDE DEF after
<1>7. book' = [slab |-> after, isBids |-> book.isBids]
  BY <1>3, <1>5, <1>6
<1>8. book'.slab = after
  BY <1>7
<1>9. ASSUME NEW i \in Index
      PROVE  \/ nodes[i] = slab.nodes[i]
             \/ slab.nodes[i].tag = "leafNode" /\ \E q : nodes[i] = Leaf(slab.nodes[i].key, q)
  <2> DEFINE node == slab.nodes[i]
  <2>1. nodes[i] = node \/ \E q : nodes[i] = [node EXCEPT !.quantity = q]
    OBVIOUS
  <2> SUFFICES ASSUME NEW q, nodes[i] = [node EXCEPT !.quantity = q]
               PROVE  \/ nodes[i] = node
                      \/ node.tag = "leafNode" /\ nodes[i] = Leaf(node.key, q)
    BY <2>1
  <2> HIDE DEF nodes
  <2>2. CASE node = Free
    <3>1. Free = [x \in {"tag"} |-> Free[x]]
      BY DEF Free
    <3>2. [Free EXCEPT !.quantity = q] = Free
      BY <3>1, OtherField
    <3> QED
      BY <2>2, <3>2
  <2>3. CASE node = Leaf(node.key, node.quantity)
    <3>1. \A k, p : [Leaf(k, p) EXCEPT !.quantity = q] = Leaf(k, q)
      BY DEF Leaf
    <3>2. node.tag = "leafNode"
      BY <2>3 DEF Leaf
    <3>3. [node EXCEPT !.quantity = q] = Leaf(node.key, q)
      BY <2>3, <3>1, Zenon
    <3> QED
      BY <3>2, <3>3
  <2>4. CASE node = Inner(node.prefixLen, node.key, node.children)
    <3>1. node = [x \in {"tag", "prefixLen", "key", "children"} |-> node[x]]
      BY <2>4 DEF Inner
    <3>2. [node EXCEPT !.quantity = q] = node
      BY <3>1, OtherField
    <3> QED
      BY <3>2
  <2> QED
    BY <2>2, <2>3, <2>4, <1>3 DEF NodesOK
<1>10. Requantified(slab, after)
  <2>1. after.nodes = nodes
    BY DEF after
  <2>2. after = [root |-> slab.root, leafCount |-> slab.leafCount, nodes |-> after.nodes]
    BY <2>1 DEF after
  <2>3. DOMAIN after.nodes = Index
    BY <2>1
  <2> HIDE DEF nodes
  <2> QED
    BY <2>1, <2>2, <2>3, <1>9 DEF Requantified
<1> QED
  BY <1>3, <1>7, <1>8, <1>10

LEMMA GetL2OK ==
  ASSUME BookIInv, NEW depth \in Depth, GetL2(depth)
  PROVE  BookIInv'
<1> DEFINE s == book.slab
           t == book'.slab
<1>1. /\ book # NoBook /\ book' = [slab |-> t, isBids |-> book.isBids] /\ Requantified(s, t)
      /\ account' = account /\ loaded' = loaded /\ it' = it /\ calls' = calls + 1
  BY GetL2Requantifies
<1>2. /\ IsCritBit(account) /\ calls \in Nat /\ IsCritBit(s)
      /\ DOMAIN loaded = Keys(s)
  BY <1>1 DEF BookIInv, LoadedInv
<1>3. /\ IsCritBit(t)
      /\ Used(t) = Used(s) /\ Leaves(t) = Leaves(s) /\ Keys(t) = Keys(s)
      /\ \A i \in Used(s) : /\ t.nodes[i].key = s.nodes[i].key
                            /\ Length(t.nodes[i]) = Length(s.nodes[i])
  BY <1>1, <1>2, RequantifiedKeeps
<1>4. calls' \in Nat /\ calls' # 0
  BY <1>1, <1>2
<1>5. book'.isBids = book.isBids
  BY <1>1
<1>6. LoadedInv'
  BY <1>1, <1>2, <1>3, <1>4, <1>5 DEF LoadedInv
<1>7. ASSUME it # NoIterator
      PROVE  (IteratorOK /\ StackInv /\ OutInv /\ RestInv)'
  <2>1. IteratorOK /\ StackInv /\ OutInv /\ RestInv
    BY <1>7 DEF BookIInv
  <2>2. /\ it.stack \in Seq(Used(s)) /\ book' # NoBook
        /\ \A x \in DOMAIN it.stack : it.stack[x] \in Used(s)
    <3>1. it.stack \in Seq(Used(s))
      BY <2>1 DEF IteratorOK
    <3>2. book' # NoBook
      <4>1. DOMAIN book' = {"slab", "isBids"} /\ DOMAIN NoBook = {"state"}
        BY <1>1 DEF NoBook
      <4> QED
        BY <4>1
    <3> QED
      BY <3>1, <3>2
  <2>3. \A i : Yielded(i)' = Yielded(i)
    BY <1>1 DEF Yielded
  <2>4. \A i \in Used(s) : Node(i)'.key = Node(i).key /\ Length(Node(i)') = Length(Node(i))
    BY <1>3 DEF Node
  <2>5. \A m, n \in Used(s) : Extends(Node(n)', Node(m)') <=> Extends(Node(n), Node(m))
    BY <2>4 DEF Extends
  <2>6. IteratorOK'
    BY <2>1, <2>2, <1>1, <1>3 DEF IteratorOK
  <2>7. StackInv'
    <3> SUFFICES ASSUME NEW x \in DOMAIN it.stack, NEW y \in DOMAIN it.stack, x < y
                 PROVE  Comes(it.descending, Node(it.stack[y])', Node(it.stack[x])')
      BY <1>1 DEF StackInv
    <3>1. Comes(it.descending, Node(it.stack[y]), Node(it.stack[x]))
      BY <2>1 DEF StackInv
    <3>2. /\ Node(it.stack[y])'.key = Node(it.stack[y]).key
          /\ Length(Node(it.stack[y])') = Length(Node(it.stack[y]))
          /\ Node(it.stack[x])'.key = Node(it.stack[x]).key
          /\ Length(Node(it.stack[x])') = Length(Node(it.stack[x]))
      BY <2>2, <2>4, <1>1 DEF Node
    <3> QED
      BY <3>1, <3>2, ComesByKey
  <2>8. OutInv'
    <3> SUFFICES ASSUME NEW j \in DOMAIN it.out, NEW x \in DOMAIN it.stack
                 PROVE  Comes(it.descending, Yielded(j), Node(it.stack[x])')
      BY <2>1, <2>3, <1>1, <1>3, <1>4 DEF OutInv
    <3>1. Comes(it.descending, Yielded(j), Node(it.stack[x]))
      BY <2>1 DEF OutInv
    <3>2. /\ Node(it.stack[x])'.key = Node(it.stack[x]).key
          /\ Length(Node(it.stack[x])') = Length(Node(it.stack[x]))
      BY <2>2, <2>4, <1>1 DEF Node
    <3> QED
      BY <3>1, <3>2, ComesByKey
  <2>9. RestInv'
    <3> SUFFICES ASSUME NEW leaf \in Leaves(s)
                 PROVE  \/ \E j \in DOMAIN it.out : it.out[j].key = Node(leaf)'.key
                        \/ \E x \in DOMAIN it.stack :
                             Extends(Node(leaf)', Node(it.stack[x])')
      BY <1>1, <1>3 DEF RestInv
    <3>1. leaf \in Used(s)
      BY DEF Leaves, Used
    <3>2. \/ \E j \in DOMAIN it.out : it.out[j].key = Node(leaf).key
          \/ \E x \in DOMAIN it.stack : Extends(Node(leaf), Node(it.stack[x]))
      BY <2>1 DEF RestInv
    <3>3. \A x \in DOMAIN it.stack : Extends(Node(leaf), Node(it.stack[x])) =>
            Extends(Node(leaf)', Node(it.stack[x])')
      BY <2>2, <2>5, <3>1, <1>1 DEF Node
    <3>4. Node(leaf)'.key = Node(leaf).key
      BY <2>4, <3>1
    <3> QED
      BY <3>2, <3>3, <3>4
  <2> QED
    BY <2>6, <2>7, <2>8, <2>9
<1> QED
  BY <1>1, <1>2, <1>4, <1>6, <1>7 DEF BookIInv

-----------------------------------------------------------------------------
(* What the book promises.                                                 *)

\* BookIInv is an invariant of the order book: what Slab decodes is a crit-bit
\* tree, whatever was posted and removed before, and the generator's stack, what
\* it yielded and what it has yet to yield stay in the order of the ids, even if
\* getL2 is called in between.
THEOREM BookInvariance == BookSpec => []BookIInv
<1>1. BookIInv /\ [BookNext]_bookVars => BookIInv'
  <2> SUFFICES ASSUME BookIInv, [BookNext]_bookVars
               PROVE  BookIInv'
    OBVIOUS
  <2>1. CASE \E k \in Key, q \in Quantity : OrderPosted(k, q)
    BY <2>1, OrderPostedOK
  <2>2. CASE \E leaf \in Index : OrderRemoved(leaf)
    BY <2>2, OrderRemovedOK
  <2>3. CASE \E isBids \in BOOLEAN : Load(isBids)
    BY <2>3, LoadOK
  <2>4. CASE \E descending \in BOOLEAN : Items(descending)
    BY <2>4, ItemsOK
  <2>5. CASE Pop
    BY <2>5, PopOK
  <2>6. CASE IteratorEnds
    BY <2>6, IteratorEndsOK
  <2>7. CASE \E depth \in Depth : GetL2(depth)
    BY <2>7, GetL2OK
  <2>8. CASE UNCHANGED bookVars
    <3>1. UNCHANGED <<account, book, loaded, it, calls>> /\ IsCritBit(account)
      BY <2>8 DEF bookVars, BookIInv
    <3>2. IsCritBit(account)'
      BY <3>1
    <3> QED
      BY <3>1, <3>2, ChainAside DEF BookIInv
  <2> QED
    BY <2>1, <2>2, <2>3, <2>4, <2>5, <2>6, <2>7, <2>8 DEF BookNext
<1> QED
  BY BookInitOK, <1>1, PTL DEF BookSpec

LEMMA BookGetFindsOrders == BookIInv => GetFindsOrders
<1> SUFFICES ASSUME BookIInv, book # NoBook, NEW k \in Key
             PROVE  IF k \in DOMAIN loaded
                    THEN Get(book.slab, k) # Null /\ Node(Get(book.slab, k)).key = k
                    ELSE Get(book.slab, k) = Null
  BY DEF GetFindsOrders
<1>1. IsCritBit(book.slab) /\ DOMAIN loaded = Keys(book.slab)
  BY DEF BookIInv, LoadedInv
<1>2. CASE k \in Keys(book.slab)
  <2>1. PICK leaf \in Leaves(book.slab) : book.slab.nodes[leaf].key = k
    BY <1>2 DEF Keys
  <2>2. Get(book.slab, k) = leaf
    BY <2>1, <1>1, GetFindsTheLeaf
  <2>3. leaf # Null
    BY SlabAssumption DEF Leaves
  <2> QED
    BY <2>1, <2>2, <2>3, <1>1, <1>2 DEF Node
<1>3. CASE k \notin Keys(book.slab)
  BY <1>1, <1>3, GetFindsNoOther
<1> QED
  BY <1>2, <1>3

\* Slab.get finds exactly the orders on the book, by their whole id, also after the
\* quantities were changed in place.
THEOREM GetFindsOrdersHolds == BookSpec => []GetFindsOrders
BY BookInvariance, BookGetFindsOrders, PTL

\* Of the orders on the book, those that were not yielded come later.
LEMMA YieldedOrLater ==
  ASSUME BookIInv, it # NoIterator, NEW i \in DOMAIN it.out, NEW k \in Keys(book.slab)
  PROVE  /\ it.out[i].key \in Key
         /\ \/ \E j \in DOMAIN it.out : j <= i /\ it.out[j].key = k
            \/ Before(it.out[i].key, k) /\ it.out[i].key # k
<1> DEFINE slab == book.slab
<1>1. /\ IteratorOK /\ OutInv /\ RestInv /\ IsCritBit(slab)
      /\ \A l \in Used(slab) : Length(Node(l)) \in Nat
      /\ \A l : Length(Yielded(l)) \in Nat
  BY IterationFacts
<1>2. \A l \in Leaves(slab) : Node(l).key \in Key /\ l \in Used(slab)
  BY <1>1, LeafFacts DEF Node
<1>3. \A j \in DOMAIN it.out : Yielded(j).key = it.out[j].key /\ it.out[j].key \in Key
  BY <1>1, <1>2 DEF Yielded, Leaf, OutInv, Keys, Node
<1>4. DOMAIN it.out \subseteq Nat
  BY <1>1 DEF IteratorOK
<1>5. PICK leaf \in Leaves(slab) : Node(leaf).key = k
  BY DEF Keys, Node
<1>6. ASSUME NEW j \in DOMAIN it.out, it.out[j].key = k, ~ (j <= i)
      PROVE  Before(it.out[i].key, k) /\ it.out[i].key # k
  <2>1. i < j
    BY <1>4, <1>6
  <2>2. Comes(it.descending, Yielded(i), Yielded(j))
    BY <2>1, <1>1 DEF OutInv
  <2> QED
    BY <2>2, <1>3, <1>6, ComesIsBefore
<1>7. ASSUME NEW x \in DOMAIN it.stack, Extends(Node(leaf), Node(it.stack[x]))
      PROVE  Before(it.out[i].key, k) /\ it.out[i].key # k
  <2>1. Comes(it.descending, Yielded(i), Node(it.stack[x]))
    BY <1>1 DEF OutInv
  <2>2. Extends(Yielded(i), Yielded(i))
    BY <1>1, ExtendsSelf
  <2>3. it.stack[x] \in Used(slab)
    BY <1>1 DEF IteratorOK
  <2>4. Comes(it.descending, Yielded(i), Node(leaf))
    BY <2>1, <2>2, <2>3, <1>1, <1>2, <1>7, ComesBelow
  <2> QED
    BY <2>4, <1>2, <1>3, <1>5, ComesIsBefore
<1>8. \/ \E j \in DOMAIN it.out : it.out[j].key = k
      \/ \E x \in DOMAIN it.stack : Extends(Node(leaf), Node(it.stack[x]))
  BY <1>1, <1>5 DEF RestInv
<1> QED
  BY <1>3, <1>6, <1>7, <1>8

\* A generator that has come to its end has yielded each order once.
LEMMA AllAreYielded ==
  ASSUME BookIInv, it # NoIterator, it.state = "done"
  PROVE  Len(it.out) = Cardinality(Keys(book.slab))
<1> DEFINE slab == book.slab
           m == Len(it.out)
           f == [i \in 1..m |-> it.out[i].key]
<1>1. IteratorOK /\ OutInv /\ RestInv /\ IsCritBit(slab)
  BY IterationFacts
<1>2. it.stack = <<>> /\ m \in Nat /\ DOMAIN it.out = 1..m
  BY <1>1 DEF IteratorOK
<1>3. \A i \in 1..m : f[i] \in Keys(slab)
  BY <1>1, <1>2 DEF OutInv
<1>4. ASSUME NEW i \in 1..m, NEW j \in 1..m, i < j
      PROVE  f[i] # f[j]
  <2>1. Comes(it.descending, Yielded(i), Yielded(j))
    <3>1. \A k, l \in DOMAIN it.out : k < l => Comes(it.descending, Yielded(k), Yielded(l))
      BY <1>1 DEF OutInv
    <3>2. i \in DOMAIN it.out /\ j \in DOMAIN it.out
      BY <1>2
    <3> QED
      BY <3>1, <3>2, <1>4
  <2>2. Yielded(i).key = f[i] /\ Yielded(j).key = f[j]
    BY DEF Yielded, Leaf
  <2>3. \A k \in Keys(slab) : k \in Key
    BY <1>1, LeafFacts DEF Keys
  <2>4. f[i] \in Key /\ f[j] \in Key
    BY <2>3, <1>3
  <2> QED
    BY <2>1, <2>2, <2>4, ComesIsBefore
<1>5. ASSUME NEW k \in Keys(slab)
      PROVE  \E i \in 1..m : f[i] = k
  <2>1. PICK leaf \in Leaves(slab) : Node(leaf).key = k
    BY DEF Keys, Node
  <2>2. \E i \in DOMAIN it.out : it.out[i].key = Node(leaf).key
    BY <1>1, <1>2 DEF RestInv
  <2> QED
    BY <2>1, <2>2, <1>2
<1>6. f \in Bijection(1..m, Keys(slab))
  <2>1. f \in [1..m -> Keys(slab)]
    BY <1>3
  <2> HIDE DEF f
  <2>2. \A i, j \in 1..m : f[i] = f[j] => i = j
    <3>1. \A i, j \in 1..m : i = j \/ i < j \/ j < i
      BY <1>2
    <3> QED
      BY <3>1, <1>4
  <2>3. f \in Injection(1..m, Keys(slab))
    BY <2>1, <2>2 DEF Injection, IsInjective
  <2>4. f \in Surjection(1..m, Keys(slab))
    BY <2>1, <1>5 DEF Surjection
  <2> QED
    BY <2>3, <2>4 DEF Bijection
<1>7. ExistsBijection(1..m, Keys(slab))
  BY <1>6 DEF ExistsBijection
<1>8. IsFiniteSet(1..m) /\ Cardinality(1..m) = m
  <2>1. \A k \in Int : IsFiniteSet(1..k) /\ Cardinality(1..k) = IF 1 > k THEN 0 ELSE k - 1 + 1
    BY FS_Interval
  <2> QED
    BY <2>1, <1>2
<1> QED
  BY <1>7, <1>8, FS_Bijection

LEMMA BookItemsInOrder == BookIInv => ItemsInOrder
<1> SUFFICES ASSUME BookIInv, it # NoIterator
             PROVE  ItemsInOrder
  BY DEF ItemsInOrder
<1>1. /\ OutInv /\ IteratorOK /\ DOMAIN loaded = Keys(book.slab)
  BY IterationFacts DEF LoadedInv, IteratorOK
<1>2. ASSUME NEW i \in DOMAIN it.out
      PROVE  /\ it.out[i].key \in DOMAIN loaded
             /\ calls = 0 => it.out[i].size = loaded[it.out[i].key]
             /\ \A k \in DOMAIN loaded :
                  k \in {it.out[j].key : j \in 1..i} \/ Before(it.out[i].key, k)
  <2>1. \A j \in DOMAIN it.out : j <= i => j \in 1..i
    BY <1>1 DEF IteratorOK
  <2>2. \A k \in Keys(book.slab) : k \in {it.out[j].key : j \in 1..i} \/ Before(it.out[i].key, k)
    BY <2>1, YieldedOrLater
  <2> QED
    BY <2>2, <1>1 DEF OutInv
<1>3. it.state = "done" => Len(it.out) = Cardinality(DOMAIN loaded)
  BY <1>1, AllAreYielded
<1> QED
  BY <1>2, <1>3 DEF ItemsInOrder

\* Iterating over a book yields its orders in the order of their ids, or the
\* reverse, each once, and all of them if the consumer goes on to the end; with
\* the sizes they had on chain, unless getL2 has been called.
THEOREM ItemsInOrderHolds == BookSpec => []ItemsInOrder
BY BookInvariance, BookItemsInOrder, PTL
=============================================================================
