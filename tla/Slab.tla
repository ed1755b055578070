-------------------------------- MODULE Slab --------------------------------
(***************************************************************************)
(* The slab of an order book as the serum package decodes it: a crit-bit   *)
(* tree of orders in an array of nodes, Slab.get, and the DEX program's    *)
(* insertion and removal, which are not part of the repository.            *)
(*                                                                         *)
(* A key is the order id, KeyBits wide, its bits numbered from the most    *)
(* significant; the first half is the price, the rest a sequence number.   *)
(* What else a leaf holds of its order is left out.                        *)
(***************************************************************************)
EXTENDS Naturals, FiniteSets

CONSTANTS
  KeyBits,   \* 128 in the code
  Key,       \* order ids that may occur
  Quantity,  \* sizes in lots an order may have
  MaxIndex,  \* the nodes are numbered from 0 to MaxIndex
  Null

Bits == 0..KeyBits - 1
Index == 0..MaxIndex

ASSUME KeyAssumption ==
  /\ KeyBits \in Nat \ {0}
  /\ Key \subseteq [Bits -> {0, 1}]
ASSUME SlabAssumption == Quantity \subseteq Nat /\ MaxIndex \in Nat /\ Null \notin Index

Leaf(k, q) == [tag |-> "leafNode", key |-> k, quantity |-> q]
Inner(len, k, children) ==
  [tag |-> "innerNode", prefixLen |-> len, key |-> k, children |-> children]
Free == [tag |-> "freeNode"]

\* Price of an order id.
GetPriceFromKey(k) == [b \in 0..(KeyBits \div 2) - 1 |-> k[b]]

\* Order ids, or prices, compared as numbers.
KeyPrecedes(k, l) ==
  \E p \in DOMAIN k : k[p] = 0 /\ l[p] = 1 /\ \A b \in 0..p - 1 : k[b] = l[b]

\* Only the first prefixLen bits of an inner node's key are meaningful.
SharesPrefix(node, k) == \A b \in 0..node.prefixLen - 1 : node.key[b] = k[b]

-----------------------------------------------------------------------------
(* Reading.                                                                *)

Leaves(slab) == {i \in Index : slab.nodes[i].tag = "leafNode"}

\* Mutant: the prefix of an inner node is not compared, nor the key of a leaf.
Get_NoCompare(slab, k) ==
  LET walk[i \in Index] ==
        LET node == slab.nodes[i]
        IN  IF node.tag = "leafNode" THEN i
            ELSE IF node.tag # "innerNode" THEN "Invalid slab"
            ELSE walk[node.children[k[node.prefixLen]]]
  IN  IF slab.leafCount = 0 THEN Null ELSE walk[slab.root]

\* The index of the leaf with the key, or Null.
Get(slab, k) ==
  LET walk[i \in Index] ==
        LET node == slab.nodes[i]
        IN  IF node.tag = "leafNode" THEN IF node.key = k THEN i ELSE Null
            ELSE IF node.tag # "innerNode" THEN "Invalid slab"
            ELSE IF SharesPrefix(node, k) THEN walk[node.children[k[node.prefixLen]]]
            ELSE Null
  IN  IF slab.leafCount = 0 THEN Null ELSE walk[slab.root]

-----------------------------------------------------------------------------
(* The DEX program.                                                        *)

EmptySlab == [root |-> 0, leafCount |-> 0, nodes |-> [i \in Index |-> Free]]

Keys(slab) == {slab.nodes[i].key : i \in Leaves(slab)}

FreeIndices(slab) == {i \in Index : slab.nodes[i] = Free}

\* Where a new key leaves the tree: the first node on its way down that is a
\* leaf, or whose prefix it does not share.
Fork(slab, k) ==
  LET down[i \in Index] ==
        IF slab.nodes[i].tag = "innerNode" /\ SharesPrefix(slab.nodes[i], k)
        THEN down[slab.nodes[i].children[k[slab.nodes[i].prefixLen]]]
        ELSE i
  IN  down[slab.root]

\* The first bit in which two different keys differ.
CritBit(k, l) ==
  CHOOSE b \in Bits : k[b] # l[b] /\ \A c \in 0..b - 1 : k[c] = l[c]

Lowest(indices) == CHOOSE i \in indices : \A j \in indices : i <= j

\* The node at the fork moves to a new index, and an inner node takes its place.
InsertOrder(slab, k, q) ==
  IF slab.leafCount = 0
  THEN [root |-> 0, leafCount |-> 1,
        nodes |-> [slab.nodes EXCEPT ![0] = Leaf(k, q)]]
  ELSE LET i == Fork(slab, k)
           moved == slab.nodes[i]
           b == CritBit(moved.key, k)
           new == Lowest(FreeIndices(slab))
           old == Lowest(FreeIndices(slab) \ {new})
           children == [c \in {0, 1} |-> IF c = k[b] THEN new ELSE old]
       IN  [slab EXCEPT !.leafCount = @ + 1,
                        !.nodes[new] = Leaf(k, q),
                        !.nodes[old] = moved,
                        !.nodes[i] = Inner(b, k, children)]

\* The sibling of the leaf takes the place of their parent.
RemoveOrder(slab, leaf) ==
  IF slab.leafCount = 1
  THEN EmptySlab
  ELSE LET parent == CHOOSE i \in Index :
                       /\ slab.nodes[i].tag = "innerNode"
                       /\ \E c \in {0, 1} : slab.nodes[i].children[c] = leaf
           sibling == CHOOSE j \in Index :
                        /\ j # leaf
                        /\ \E c \in {0, 1} : slab.nodes[parent].children[c] = j
       IN  [slab EXCEPT !.leafCount = @ - 1,
                        !.nodes[parent] = slab.nodes[sibling],
                        !.nodes[sibling] = Free,
                        !.nodes[leaf] = Free]

-----------------------------------------------------------------------------
(* What makes a slab a crit-bit tree.                                      *)

Used(slab) == {i \in Index : slab.nodes[i].tag \in {"leafNode", "innerNode"}}

\* The first bits of its key that all keys below a node have in common.
Length(node) == IF node.tag = "leafNode" THEN KeyBits ELSE node.prefixLen

\* The keys below n, if it is a node, begin as those below m do.
Extends(n, m) ==
  Length(m) <= Length(n) /\ \A b \in 0..Length(m) - 1 : n.key[b] = m.key[b]

Child(slab, i, c) == slab.nodes[i].children[c]

\* The side of the inner node i on which a key belongs.
Side(slab, i, k) == k[slab.nodes[i].prefixLen]

NodesOK(slab) ==
  /\ slab = [root |-> slab.root, leafCount |-> slab.leafCount, nodes |-> slab.nodes]
  /\ DOMAIN slab.nodes = Index
  /\ \A i \in Index :
       LET node == slab.nodes[i]
       IN  \/ node.tag = "freeNode" /\ node = Free
           \/ node.tag = "leafNode" /\ node = Leaf(node.key, node.quantity)
                /\ node.key \in Key
           \/ node.tag = "innerNode" /\ node = Inner(node.prefixLen, node.key, node.children)
                /\ node.prefixLen \in Bits /\ node.key \in Key
                /\ node.children \in [{0, 1} -> Index]

CountOK(slab) ==
  /\ slab.leafCount = Cardinality(Leaves(slab))
  /\ slab.leafCount = 0 => Used(slab) = {}

\* Every node is below the root.
RootOK(slab) ==
  /\ slab.root \in Index
  /\ slab.leafCount # 0 =>
       slab.root \in Used(slab)
         /\ \A n \in Used(slab) : Extends(slab.nodes[n], slab.nodes[slab.root])

\* A child begins as its parent does, with the bit of its side next.
ChildrenOK(slab) ==
  \A m \in Used(slab) : slab.nodes[m].tag = "innerNode" =>
    \A c \in {0, 1} :
      LET child == slab.nodes[Child(slab, m, c)]
      IN  /\ Child(slab, m, c) \in Used(slab)
          /\ slab.nodes[m].prefixLen < Length(child)
          /\ Extends(child, slab.nodes[m])
          /\ Side(slab, m, child.key) = c

\* A node that begins as another does is below it, on the side of its next bit.
BranchesOK(slab) ==
  \A m, n \in Used(slab) : m # n /\ Extends(slab.nodes[n], slab.nodes[m]) =>
    /\ slab.nodes[m].tag = "innerNode"
    /\ slab.nodes[m].prefixLen < Length(slab.nodes[n])
    /\ Extends(slab.nodes[n],
               slab.nodes[Child(slab, m, Side(slab, m, slab.nodes[n].key))])

IsCritBit(slab) ==
  /\ NodesOK(slab)
  /\ CountOK(slab)
  /\ RootOK(slab)
  /\ ChildrenOK(slab)
  /\ BranchesOK(slab)
=============================================================================
