----------------------------- MODULE Orderbook ------------------------------
(***************************************************************************)
(* The Orderbook class of the serum package over a decoded slab: iterating *)
(* over the orders with the generator Slab.items, and the price levels of  *)
(* getL2.                                                                  *)
(*                                                                         *)
(* A decoded book is a snapshot: the node is asked once, and what the DEX  *)
(* program does to the slab afterwards does not reach it.  A generator     *)
(* runs from one yield to the next without interruption; between two       *)
(* yields its consumer may call getL2 on the same book.                    *)
(***************************************************************************)
EXTENDS Slab, SequencesExt

CONSTANTS
  Depth,     \* what callers pass to getL2
  MaxCalls   \* bound on the calls of getL2

ASSUME DepthAssumption == Depth \subseteq Nat /\ MaxCalls \in Nat

VARIABLES
  account,   \* the slab in the market's account
  book,    \* the decoded Orderbook: its slab and isBids
  loaded,  \* history: the quantity of each order on the book when it was loaded
  it,      \* a generator of the book
  levels,  \* the last answer of getL2, with its depth
  calls    \* history: the number of calls of getL2

bookVars == <<account, book, loaded, it, levels, calls>>

-----------------------------------------------------------------------------
NoBook == [state |-> "none"]
NoIterator == [state |-> "none"]

BookInit ==
  /\ account = EmptySlab
  /\ book = NoBook
  /\ loaded = <<>>
  /\ it = NoIterator
  /\ levels = Null
  /\ calls = 0

\* The program.

OrderPosted(k, q) ==
  /\ book = NoBook
  /\ k \notin Keys(account)
  /\ Cardinality(FreeIndices(account)) >= 2
  /\ account' = InsertOrder(account, k, q)
  /\ UNCHANGED <<book, loaded, it, levels, calls>>

OrderRemoved(leaf) ==
  /\ book = NoBook
  /\ leaf \in Leaves(account)
  /\ account' = RemoveOrder(account, leaf)
  /\ UNCHANGED <<book, loaded, it, levels, calls>>

\* loadBids or loadAsks.
Load(isBids) ==
  /\ book = NoBook
  /\ book' = [slab |-> account, isBids |-> isBids]
  /\ loaded' = [k \in Keys(account) |->
                  account.nodes[CHOOSE i \in Leaves(account) :
                                account.nodes[i].key = k].quantity]
  /\ UNCHANGED <<account, it, levels, calls>>

-----------------------------------------------------------------------------
(* Slab.items.                                                             *)

Node(i) == book.slab.nodes[i]

Items(descending) ==
  /\ book # NoBook
  /\ it = NoIterator
  /\ it' = [state |-> "suspended", descending |-> descending,
            stack |-> IF book.slab.leafCount = 0 THEN <<>>
                                                 ELSE <<book.slab.root>>,
            out |-> <<>>]
  /\ UNCHANGED <<account, book, loaded, levels, calls>>

\* Mutant: the children are pushed in the same order whichever the direction.
Pop_OneDirection ==
  /\ it.state \in {"suspended", "running"}
  /\ it.stack # <<>>
  /\ LET i == Last(it.stack)
         rest == Front(it.stack)
         node == Node(i)
     IN  it' = CASE node.tag = "leafNode" ->
                      [it EXCEPT !.state = "suspended", !.stack = rest,
                                 !.out = Append(@, [key |-> node.key,
                                                    size |-> node.quantity])]
                 [] node.tag = "innerNode" ->
                      [it EXCEPT !.state = "running", !.stack =
                         rest \o <<node.children[1], node.children[0]>>]
                 [] OTHER -> [it EXCEPT !.state = "running", !.stack = rest]
  /\ UNCHANGED <<account, book, loaded, levels, calls>>

\* One turn of the loop: the consumer has asked for the next order, or the loop
\* has not come to one yet.
Pop ==
  /\ it.state \in {"suspended", "running"}
  /\ it.stack # <<>>
  /\ LET i == Last(it.stack)
         rest == Front(it.stack)
         node == Node(i)
         first == IF it.descending THEN 1 ELSE 0
     IN  it' = CASE node.tag = "leafNode" ->
                      [it EXCEPT !.state = "suspended", !.stack = rest,
                                 !.out = Append(@, [key |-> node.key,
                                                    size |-> node.quantity])]
                 [] node.tag = "innerNode" ->
                      [it EXCEPT !.state = "running", !.stack =
                         rest \o <<node.children[1 - first],
                                   node.children[first]>>]
                 [] OTHER -> [it EXCEPT !.state = "running", !.stack = rest]
  /\ UNCHANGED <<account, book, loaded, levels, calls>>

IteratorEnds ==
  /\ it.state \in {"suspended", "running"}
  /\ it.stack = <<>>
  /\ it' = [it EXCEPT !.state = "done"]
  /\ UNCHANGED <<account, book, loaded, levels, calls>>

-----------------------------------------------------------------------------
(* getL2.                                                                  *)

\* The leaves in the order in which items yields them.
InOrder(slab, descending) ==
  LET first == IF descending THEN 1 ELSE 0
      below[i \in Index] ==
        IF slab.nodes[i].tag = "leafNode" THEN <<i>>
        ELSE below[slab.nodes[i].children[first]]
               \o below[slab.nodes[i].children[1 - first]]
  IN  IF slab.leafCount = 0 THEN <<>> ELSE below[slab.root]

\* Mutant: a level is not extended once there are `depth` of them.
AddOrder_StopsEarly(acc, i, depth) ==
  LET price == GetPriceFromKey(Node(i).key)
      n == Len(acc.levels)
  IN  IF acc.stop \/ n = depth THEN [acc EXCEPT !.stop = TRUE]
      ELSE IF n > 0 /\ Last(acc.levels).price = price
      THEN [acc EXCEPT !.levels[n].size = @ + Node(i).quantity]
      ELSE [acc EXCEPT !.levels =
              Append(@, [price |-> price, size |-> Node(i).quantity, first |-> i])]

\* One order: it is added to the last level if it has its price, ends the loop
\* if there are `depth` levels, and begins a level otherwise.
AddOrder(acc, i, depth) ==
  LET price == GetPriceFromKey(Node(i).key)
      n == Len(acc.levels)
  IN  IF acc.stop THEN acc
      ELSE IF n > 0 /\ Last(acc.levels).price = price
      THEN [acc EXCEPT !.levels[n].size = @ + Node(i).quantity]
      ELSE IF n = depth THEN [acc EXCEPT !.stop = TRUE]
      ELSE [acc EXCEPT !.levels =
              Append(@, [price |-> price, size |-> Node(i).quantity, first |-> i])]

Collected(depth) ==
  FoldLeft(LAMBDA acc, i : AddOrder(acc, i, depth),
           [levels |-> <<>>, stop |-> FALSE],
           InOrder(book.slab, book.isBids))

\* The size of a level is the quantity object of its first order, to which
\* iadd adds in place: the leaf ends up with the size of the level.
GetL2(depth) ==
  /\ book # NoBook
  /\ it.state # "running"
  /\ calls < MaxCalls
  /\ LET acc == Collected(depth)
         sizeOf == [i \in {l.first : l \in ToSet(acc.levels)} |->
                      (CHOOSE l \in ToSet(acc.levels) : l.first = i).size]
     IN  /\ levels' = [depth |-> depth, first |-> calls = 0, levels |-> acc.levels]
         /\ book' = [book EXCEPT !.slab.nodes =
              [i \in Index |-> IF i \in DOMAIN sizeOf
                               THEN [@[i] EXCEPT !.quantity = sizeOf[i]]
                               ELSE @[i]]]
  /\ calls' = calls + 1
  /\ UNCHANGED <<account, loaded, it>>

-----------------------------------------------------------------------------
BookNext ==
  \/ \E k \in Key, q \in Quantity : OrderPosted(k, q)
  \/ \E leaf \in Index : OrderRemoved(leaf)
  \/ \E isBids \in BOOLEAN : Load(isBids)
  \/ \E descending \in BOOLEAN : Items(descending)
  \/ Pop
  \/ IteratorEnds
  \/ \E depth \in Depth : GetL2(depth)

BookSpec == BookInit /\ [][BookNext]_bookVars

-----------------------------------------------------------------------------
(* Properties.                                                             *)

\* The key k comes before l in the direction of the iterator.
Before(k, l) == IF it.descending THEN KeyPrecedes(l, k) ELSE KeyPrecedes(k, l)

\* Iterating over a book yields its orders in the order of their ids, or the
\* reverse, each once, and all of them if the consumer goes on to the end
\* (slab.test.js, "iterates in order"); with the sizes they had on chain, unless
\* getL2 has been called.
ItemsInOrder ==
  it # NoIterator =>
    /\ \A i \in DOMAIN it.out :
         /\ it.out[i].key \in DOMAIN loaded
         /\ calls = 0 => it.out[i].size = loaded[it.out[i].key]
         /\ \A k \in DOMAIN loaded :
              k \in {it.out[j].key : j \in 1..i} \/ Before(it.out[i].key, k)
    /\ it.state = "done" => Len(it.out) = Cardinality(DOMAIN loaded)

\* Slab.get finds exactly the orders on the book, by their whole id.
GetFindsOrders ==
  book # NoBook => \A k \in Key :
    IF k \in DOMAIN loaded
    THEN Get(book.slab, k) # Null /\ Node(Get(book.slab, k)).key = k
    ELSE Get(book.slab, k) = Null

SizeAt(price) ==
  FoldFunctionOnSet(+, 0, loaded,
                    {k \in DOMAIN loaded : GetPriceFromKey(k) = price})

SizesAreTheBooks ==
  \A i \in DOMAIN levels.levels :
    levels.levels[i].size = SizeAt(levels.levels[i].price)

\* getL2, when first called, returns the `depth` best prices on the book, or all
\* of them if there are fewer, best first, each with the total size of its
\* orders.
FirstL2IsBest ==
  levels # Null /\ levels.first =>
    LET ls == levels.levels
        prices == {GetPriceFromKey(k) : k \in DOMAIN loaded}
        Better(p, r) == IF book.isBids THEN KeyPrecedes(r, p) ELSE KeyPrecedes(p, r)
    IN  /\ SizesAreTheBooks
        /\ Len(ls) = Min({levels.depth, Cardinality(prices)})
        /\ \A i \in DOMAIN ls : \A p \in prices :
             p \in {ls[j].price : j \in 1..i} \/ Better(ls[i].price, p)

=============================================================================
