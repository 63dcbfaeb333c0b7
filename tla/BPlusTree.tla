----------------------------- MODULE BPlusTree -----------------------------
(***************************************************************************)
(* The B+ tree (src/src/bplus_tree.rs).  A leaf is a sequence of pairs of  *)
(* a key and a datum, `entries`; an inner node has `keys` that separate    *)
(* its `children`.  Keys are integers: the code asks for any `Ord`.        *)
(***************************************************************************)
EXTENDS Integers, SequencesExt

CONSTANTS
  Order,  \* a node with more entries or keys than this is split, at least 3
  Input   \* the insertions made: pairs of a key and a datum

VARIABLE root

Leaf(entries) == [leaf |-> TRUE, entries |-> entries]
Inner(keys, children) == [leaf |-> FALSE, keys |-> keys, children |-> children]

-----------------------------------------------------------------------------
(* Insertion.  Its result is the node and, if it was split, what goes into *)
(* its parent: a separator and a right sibling.                            *)

Whole(node) == [node |-> node, split |-> FALSE]
Halves(left, separator, right) ==
  [node |-> left, split |-> TRUE, separator |-> separator, right |-> right]

\* Binary search finds the entry to replace or the place for a new one.
Entered(entries, k, v) ==
  SelectSeq(entries, LAMBDA e : e[1] < k) \o <<<<k, v>>>>
    \o SelectSeq(entries, LAMBDA e : e[1] > k)

\* Bug: the separator of two leaves is the last key of the left one.
LeafOrHalvesLeft(entries) ==
  LET half == Len(entries) \div 2 IN
  IF Len(entries) <= Order THEN Whole(Leaf(entries))
  ELSE Halves(Leaf(SubSeq(entries, 1, half)), entries[half][1],
              Leaf(SubSeq(entries, half + 1, Len(entries))))

LeafOrHalves(entries) ==
  LET half == Len(entries) \div 2 IN
  IF Len(entries) <= Order THEN Whole(Leaf(entries))
  ELSE Halves(Leaf(SubSeq(entries, 1, half)), entries[half + 1][1],
              Leaf(SubSeq(entries, half + 1, Len(entries))))

\* Bug: an inner node is never split.
InnerNeverHalved(keys, children) == Whole(Inner(keys, children))

\* The separator in the middle moves up, it stays in neither half.
InnerOrHalves(keys, children) ==
  LET mid == Len(keys) \div 2 IN
  IF Len(keys) <= Order THEN Whole(Inner(keys, children))
  ELSE Halves(Inner(SubSeq(keys, 1, mid), SubSeq(children, 1, mid + 1)), keys[mid + 1],
              Inner(SubSeq(keys, mid + 2, Len(keys)),
                    SubSeq(children, mid + 2, Len(children))))

\* The child whose range a key is in.
Child(keys, k) == Len(SelectSeq(keys, LAMBDA s : s <= k)) + 1

\* The node takes back its child `c`, with its sibling if it was split.
Adopted(node, c, sub) ==
  LET children == [node.children EXCEPT ![c] = sub.node] IN
  IF sub.split
  THEN InnerOrHalves(InsertAt(node.keys, c, sub.separator),
                     InsertAt(children, c + 1, sub.right))
  ELSE InnerOrHalves(node.keys, children)

RECURSIVE Inserted(_, _, _)
Inserted(node, k, v) ==
  IF node.leaf THEN LeafOrHalves(Entered(node.entries, k, v))
  ELSE LET c == Child(node.keys, k) IN Adopted(node, c, Inserted(node.children[c], k, v))

Init == root = Leaf(<<>>)

\* Bug: the new root forgets the right half of the old one.
InsertLosing(k, v) == root' = Inserted(root, k, v).node

\* insert: a split of the root gives the tree a new root.
Insert(k, v) ==
  LET sub == Inserted(root, k, v) IN
  root' = IF sub.split THEN Inner(<<sub.separator>>, <<sub.node, sub.right>>) ELSE sub.node

Next == \E e \in Input : Insert(e[1], e[2])

Spec == Init /\ [][Next]_root

-----------------------------------------------------------------------------
(* Reading.                                                                *)

\* get: the data found under a key, none or one.
RECURSIVE Get(_, _)
Get(node, k) ==
  IF node.leaf THEN {e[2] : e \in {x \in ToSet(node.entries) : x[1] = k}}
  ELSE Get(node.children[Child(node.keys, k)], k)

\* range: every leaf is visited, from left to right.
RECURSIVE RangeOf(_, _, _)
RangeOf(node, lo, hi) ==
  IF node.leaf THEN SelectSeq(node.entries, LAMBDA e : lo <= e[1] /\ e[1] <= hi)
  ELSE FlattenSeq([c \in DOMAIN node.children |-> RangeOf(node.children[c], lo, hi)])

\* height: by way of the first child.
RECURSIVE Height(_)
Height(node) == IF node.leaf THEN 1 ELSE 1 + Height(node.children[1])

-----------------------------------------------------------------------------
(* Properties.                                                             *)

RECURSIVE EntriesOf(_)
EntriesOf(node) ==
  IF node.leaf THEN ToSet(node.entries)
  ELSE UNION {EntriesOf(node.children[c]) : c \in DOMAIN node.children}

Contents == EntriesOf(root)

\* Every node of a tree is well formed and not too large, and its children
\* have one height.
RECURSIVE WellFormed(_)
WellFormed(node) ==
  IF node.leaf THEN Len(node.entries) <= Order
  ELSE /\ Len(node.keys) \in 1..Order
       /\ Len(node.children) = Len(node.keys) + 1
       /\ \A c \in DOMAIN node.children :
            WellFormed(node.children[c]) /\ Height(node.children[c]) = Height(node.children[1])

\* After any splits, of leaves and of inner nodes in one insertion, no node
\* holds more than Order, and an inner node has one child more than keys, so
\* that children[child_index] (bplus_tree.rs:104, :142) always exists.  All
\* leaves are at one depth: height, which looks at first children only
\* (bplus_tree.rs:166), is the height of every path.
NodesAreWellFormed == WellFormed(root)

\* get finds each key that was inserted, with its last datum, and no other: no
\* separator that moved up leads a later search to the wrong child.  range, in
\* which no separator takes part, gives the entries between its bounds, each
\* once and in the order of their keys.
SearchesFindAll ==
  LET keys == {e[1] : e \in Input} IN
  /\ \A k \in keys : Get(root, k) = {e[2] : e \in {x \in Contents : x[1] = k}}
  /\ \A lo, hi \in keys :
       LET found == RangeOf(root, lo, hi) IN
       /\ ToSet(found) = {e \in Contents : lo <= e[1] /\ e[1] <= hi}
       /\ \A i, j \in DOMAIN found : i < j => found[i][1] < found[j][1]

Sorted == INSTANCE SortedMap WITH map <- Contents, Input <- Input

\* The tree implements a sorted map: an insertion changes what is stored
\* under its key and nothing else, whichever nodes it splits on its way.
ImplementsSortedMap == Sorted!Spec

=============================================================================
