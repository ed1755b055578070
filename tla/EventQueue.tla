----------------------------- MODULE EventQueue -----------------------------
(***************************************************************************)
(* The event queue of a market as the serum package reads it: decodeQueue, *)
(* loadEventQueue, loadFills and parseFillEvent.                           *)
(*                                                                         *)
(* The queue is an account of the DEX program: a header with the index of  *)
(* the oldest pending event and their number, then a ring of slots, zeroed *)
(* when the account is made.  The program, which is not part of the        *)
(* repository, writes events behind the pending ones and consumes them     *)
(* from the head; consuming leaves a slot as it is until it is reused.     *)
(*                                                                         *)
(* A read takes effect when the node evaluates the request; what is        *)
(* decoded afterwards depends on nothing else.                             *)
(***************************************************************************)
EXTENDS Integers, Sequences

CONSTANTS
  Trade,            \* [price, size, fee, rebate], in native units
  AllocLen,         \* slots in the ring
  Limit,            \* what callers pass as the limit of loadFills
  MaxEvents,        \* bound on the events ever written
  BaseMultiplier,   \* ten to the number of decimals of the base token
  QuoteMultiplier   \* ten to the number of decimals of the quote token

ASSUME AllocAssumption == AllocLen \in Nat \ {0}
ASSUME LimitAssumption == Limit \subseteq Nat
ASSUME BoundAssumption == MaxEvents \in Nat
ASSUME TradeAssumption ==
  Trade \subseteq [price : Nat, size : Nat, fee : Nat, rebate : Nat]

ASSUME MultiplierAssumption ==
  BaseMultiplier \in Nat \ {0} /\ QuoteMultiplier \in Nat \ {0}

VARIABLES
  slots,   \* the ring
  head,    \* index of the oldest pending event
  count,   \* number of pending events
  log,     \* history: every event written, oldest first
  answer   \* the last answer to loadFills: the nodes it decoded, its limit, and
           \* the length of the log when the node read the account

queueVars == <<slots, head, count, log, answer>>

-----------------------------------------------------------------------------
(* Events.                                                                 *)

\* What the program reports to one side of a trade.  The buyer pays quote and
\* is released base.  A taker's fee is taken from the quote amount, a maker's
\* rebate is added to it.  `of` is history: the trade.
FillEvent(t, bid, maker) ==
  LET quote == t.price * t.size
      fee == IF maker THEN t.rebate ELSE t.fee
      received == IF maker THEN quote + fee ELSE quote - fee
      given == IF maker THEN quote - fee ELSE quote + fee
  IN  [fill |-> TRUE, out |-> FALSE, bid |-> bid, maker |-> maker,
       nativeQuantityPaid |-> IF bid THEN given ELSE t.size,
       nativeQuantityReleased |-> IF bid THEN t.size ELSE received,
       nativeFeeOrRebate |-> fee,
       of |-> t]

NoTrade == [price |-> 0, size |-> 0, fee |-> 0, rebate |-> 0]

\* A slot never written decodes to zeros.
Blank ==
  [fill |-> FALSE, out |-> FALSE, bid |-> FALSE, maker |-> FALSE,
   nativeQuantityPaid |-> 0, nativeQuantityReleased |-> 0,
   nativeFeeOrRebate |-> 0, of |-> NoTrade]

\* An order leaves the book.
OutEvent == [Blank EXCEPT !.out = TRUE]

Event ==
  {OutEvent} \cup
  {FillEvent(t, bid, maker) : t \in Trade, bid \in BOOLEAN, maker \in BOOLEAN}

-----------------------------------------------------------------------------
(* Decoding.                                                               *)

Least(a, b) == IF a <= b THEN a ELSE b

\* Mutant: the index of the newest event is off by one.
DecodeHistory_OffByOne(history) ==
  [i \in 1..Least(history, AllocLen) |->
     slots[(head + count + AllocLen - (i - 1)) % AllocLen]]

\* The last `history` events written, newest first, consumed or not.
DecodeHistory(history) ==
  [i \in 1..Least(history, AllocLen) |->
     slots[(head + count + AllocLen - 1 - (i - 1)) % AllocLen]]

\* Mutant: the index does not wrap around the end of the ring.
DecodePending_NoWrap ==
  [i \in 1..count |-> slots[Least(head + (i - 1), AllocLen - 1)]]

\* The pending events, oldest first.
DecodePending ==
  [i \in 1..count |-> slots[(head + (i - 1)) % AllocLen]]

\* A history of 0 is as good as none.
DecodeQueue(history) ==
  IF history # 0 THEN DecodeHistory(history) ELSE DecodePending

Ratio(num, den) == [num |-> num, den |-> den]

\* Mutant: the fee of a maker has the sign of a taker's.
ParseFillEvent_MakerAsTaker(e) ==
  LET fee == e.nativeFeeOrRebate
      quote == IF e.bid THEN e.nativeQuantityPaid - fee
                        ELSE e.nativeQuantityReleased + fee
      base == IF e.bid THEN e.nativeQuantityReleased ELSE e.nativeQuantityPaid
  IN  [side |-> IF e.bid THEN "buy" ELSE "sell",
       price |-> Ratio(quote * BaseMultiplier, QuoteMultiplier * base),
       size |-> Ratio(base, BaseMultiplier),
       feeCost |-> Ratio(fee, QuoteMultiplier),
       event |-> e]

\* The price is the price before fees.
ParseFillEvent(e) ==
  LET signedFee == e.nativeFeeOrRebate * (IF e.maker THEN -1 ELSE 1)
      quote == IF e.bid THEN e.nativeQuantityPaid - signedFee
                        ELSE e.nativeQuantityReleased + signedFee
      base == IF e.bid THEN e.nativeQuantityReleased ELSE e.nativeQuantityPaid
  IN  [side |-> IF e.bid THEN "buy" ELSE "sell",
       price |-> Ratio(quote * BaseMultiplier, QuoteMultiplier * base),
       size |-> Ratio(base, BaseMultiplier),
       feeCost |-> Ratio(signedFee, QuoteMultiplier),
       event |-> e]

IsFill(e) == e.fill /\ e.nativeQuantityPaid > 0

-----------------------------------------------------------------------------
QueueInit ==
  /\ slots = [i \in 0..AllocLen - 1 |-> Blank]
  /\ head = 0
  /\ count = 0
  /\ log = <<>>
  /\ answer = [limit |-> 0, read |-> 0, nodes |-> <<>>]

\* The program writes an event behind the pending ones.
PushEvent(e) ==
  /\ count < AllocLen
  /\ Len(log) < MaxEvents
  /\ slots' = [slots EXCEPT ![(head + count) % AllocLen] = e]
  /\ count' = count + 1
  /\ log' = Append(log, e)
  /\ UNCHANGED <<head, answer>>

\* The program consumes up to n pending events.
ConsumeEvents(n) ==
  /\ n \in 1..count
  /\ head' = (head + n) % AllocLen
  /\ count' = count - n
  /\ UNCHANGED <<slots, log, answer>>

\* Mutant: one event more than the limit is decoded.
LoadFills_OneMore(limit) ==
  /\ answer' = [limit |-> limit + 1, read |-> Len(log),
                nodes |-> DecodeQueue(limit + 1)]
  /\ UNCHANGED <<slots, head, count, log>>

\* loadFills.  The caller gets the fills among them, parsed.
LoadFills(limit) ==
  /\ answer' = [limit |-> limit, read |-> Len(log), nodes |-> DecodeQueue(limit)]
  /\ UNCHANGED <<slots, head, count, log>>

QueueNext ==
  \/ \E e \in Event : PushEvent(e)
  \/ \E n \in 1..AllocLen : ConsumeEvents(n)
  \/ \E limit \in Limit : LoadFills(limit)

QueueSpec == QueueInit /\ [][QueueNext]_queueVars

-----------------------------------------------------------------------------
(* Properties.                                                             *)

QueueTypeOK ==
  /\ slots \in [0..AllocLen - 1 -> Event \cup {Blank}]
  /\ head \in 0..AllocLen - 1
  /\ count \in 0..AllocLen
  /\ log \in Seq(Event)
  /\ answer \in [limit : Limit \cup {0}, read : Nat, nodes : Seq(Event \cup {Blank})]

\* loadEventQueue shows a queue: an event appears at the end when it is written,
\* and leaves from the front when it is consumed, wherever in the ring the
\* pending events lie.
PendingEvents == INSTANCE Fifo WITH
  Item <- Event, Capacity <- AllocLen, queue <- DecodePending

PendingIsFifo == PendingEvents!Spec

\* The ring keeps what was written: counted back from the newest, the slots hold
\* the last AllocLen events of the log, consumed or not, then zeros.
RingHoldsLog ==
  \A j \in 0..AllocLen - 1 :
    slots[(head + count + AllocLen - 1 - j) % AllocLen] =
      IF j < Len(log) THEN log[Len(log) - j] ELSE Blank

\* The last n events of the log as it was when its length was `len`, newest first.
Latest(n, len) == [i \in 1..Least(n, len) |-> log[len - (i - 1)]]

\* What loadFills has decoded is a suffix of the log, newest first, and zeros.
AnswerIsLatest ==
  answer.limit # 0 =>
    answer.nodes = [i \in 1..Least(answer.limit, AllocLen) |->
                      IF i <= answer.read THEN log[answer.read - (i - 1)]
                                          ELSE Blank]

\* Both sides of a trade see its price and size, whichever side paid a fee and
\* whichever was given a rebate, and a rebate as a negative cost.
FillsShowTrades ==
  \A i \in DOMAIN answer.nodes : IsFill(answer.nodes[i]) =>
    LET f == ParseFillEvent(answer.nodes[i])
        t == f.event.of
    IN  /\ f.price.num * QuoteMultiplier = t.price * BaseMultiplier * f.price.den
        /\ f.size.num = t.size
        /\ f.feeCost.num = IF f.event.maker THEN -t.rebate ELSE t.fee
=============================================================================
