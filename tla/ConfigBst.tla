------------------------------ MODULE ConfigBst ------------------------------
(***************************************************************************)
(* The binary search tree under the configuration (base/config_bst.cc) and *)
(* its traversers.  An item is its key.  The code treats &tree->bst_root   *)
(* as a node whose left link is the root: TreeRoot here.                   *)
(*                                                                         *)
(* A generation number is only compared with the tree's, and the tree's    *)
(* only grows: "fresh" says whether a traverser's is the tree's.           *)
(***************************************************************************)
EXTENDS Integers, SequencesExt, FiniteSetsExt

CONSTANTS
  Items,           \* positive integers
  Traversers,
  BST_MAX_HEIGHT   \* 32 in the code

ASSUME BstAssumption ==
  /\ Items \subseteq Nat \ {0}
  /\ BST_MAX_HEIGHT \in Nat \ {0}
  /\ Cardinality(Items) < 2 ^ BST_MAX_HEIGHT

TreeRoot == 0
NoItem == -1

VARIABLES
  bst,     \* links, count, and each traverser: node, stack of parents, fresh
  items    \* what was inserted and not deleted

Root(s) == s.link[0][TreeRoot]
DirOf(item, node) == IF item > node THEN 1 ELSE 0

bst_create ==
  [link |-> [dir \in 0 .. 1 |-> [n \in Items \cup {TreeRoot} |-> NoItem]], count |-> 0,
   node |-> [t \in Traversers |-> NoItem], stack |-> [t \in Traversers |-> <<>>],
   fresh |-> [t \in Traversers |-> TRUE], failed |-> FALSE]

BstInit == bst = bst_create /\ items = {}

\* the nodes compared before the item, or NULL, is reached
RECURSIVE PathFrom(_, _, _)
PathFrom(s, item, n) ==
  IF n \in {NoItem, item} THEN <<>>
  ELSE <<n>> \o PathFrom(s, item, s.link[DirOf(item, n)][n])

PathTo(s, item) == PathFrom(s, item, Root(s))
\* where the search ends: the parent and its side
Parent(s, item) ==
  LET path == PathTo(s, item) IN IF path = <<>> THEN TreeRoot ELSE Last(path)
Side(s, item) == IF Parent(s, item) = TreeRoot THEN 0 ELSE DirOf(item, Parent(s, item))

bst_find(s, item) == s.link[Side(s, item)][Parent(s, item)]

Attached(s, item) ==
  [s EXCEPT !.link = [dir \in 0 .. 1 |->
                [s.link[dir] EXCEPT ![Parent(s, item)] = IF dir = Side(s, item) THEN item ELSE @,
                                    ![item] = NoItem]],
            !.count = @ + 1]

bst_probe(s, item) == IF bst_find(s, item) = item THEN s ELSE Attached(s, item)

\* the nodes from n to the far end of one side
RECURSIVE Spine(_, _, _)
Spine(s, n, dir) == IF n = NoItem THEN <<>> ELSE <<n>> \o Spine(s, s.link[dir][n], dir)

\* Mutant of Successor: the successor's right subtree is not handed to its parent.
SuccessorOnly(s, p) ==
  LET left == Spine(s, s.link[1][p], 0)
      next == Last(left)
      above == left[Len(left) - 1]
  IN  IF Len(left) = 1 THEN [s EXCEPT !.link[0][next] = s.link[0][p]]
      ELSE [s EXCEPT !.link[0][above] = NoItem,
                     !.link[0][next] = s.link[0][p], !.link[1][next] = s.link[1][p]]

\* the leftmost node of the right subtree made to take p's place
Successor(s, p) ==
  LET left == Spine(s, s.link[1][p], 0)
      next == Last(left)
      above == left[Len(left) - 1]
  IN  IF Len(left) = 1 THEN [s EXCEPT !.link[0][next] = s.link[0][p]]
      ELSE [s EXCEPT !.link[0][above] = s.link[1][next],
                     !.link[0][next] = s.link[0][p], !.link[1][next] = s.link[1][p]]

\* a stale stack is built anew before it is read
NewGeneration(s) ==
  [s EXCEPT !.fresh = [t \in Traversers |-> FALSE], !.stack = [t \in Traversers |-> <<>>]]

bst_delete(s, item) ==
  LET q == Parent(s, item)
      dir == Side(s, item)
      leaf == s.link[1][item] = NoItem
      moved == IF leaf THEN s ELSE Successor(s, item)
      heir == IF leaf THEN s.link[0][item] ELSE Last(Spine(s, s.link[1][item], 0))
  IN  IF bst_find(s, item) = NoItem THEN s
      ELSE NewGeneration([moved EXCEPT !.link[dir][q] = heir, !.link[0][item] = NoItem,
                                       !.link[1][item] = NoItem, !.count = @ - 1])

\* right rotations until no node has a right child: a list along the left links
RECURSIVE tree_to_vine(_, _, _)
tree_to_vine(s, q, p) ==
  IF p = NoItem THEN s
  ELSE LET r == s.link[1][p]
       IN  IF r = NoItem THEN tree_to_vine(s, p, s.link[0][p])
           ELSE tree_to_vine([s EXCEPT !.link[1][p] = s.link[0][r], !.link[0][r] = p,
                                       !.link[0][q] = r], q, r)

RECURSIVE compress(_, _, _)
compress(s, root, count) ==
  IF count = 0 THEN s
  ELSE LET red == s.link[0][root]
           black == s.link[0][red]
       IN  compress([s EXCEPT !.link[0][root] = black, !.link[0][red] = s.link[1][black],
                              !.link[1][black] = red], black, count - 1)

\* the halving loop of vine_to_tree, and its exit when the result is too high
RECURSIVE Halve(_, _, _)
Halve(s, vine, height) ==
  IF vine > 1 THEN Halve(compress(s, TreeRoot, vine \div 2), vine \div 2, height + 1)
  ELSE IF height > BST_MAX_HEIGHT THEN [s EXCEPT !.failed = TRUE] ELSE s

\* "leaves" is what count + 1 exceeds the next lower power of two by
vine_to_tree(s) ==
  LET power == Max({2 ^ k : k \in {k \in 0 .. s.count : 2 ^ k <= s.count + 1}})
      leaves == s.count + 1 - power
  IN  Halve(compress(s, TreeRoot, leaves), s.count - leaves, IF leaves > 0 THEN 2 ELSE 1)

bst_balance(s) == NewGeneration(vine_to_tree(tree_to_vine(s, TreeRoot, Root(s))))

-----------------------------------------------------------------------------
(* Traversers *)

At(s, t, node, stack) ==
  [s EXCEPT !.node[t] = node, !.stack[t] = stack, !.fresh[t] = TRUE]

\* the asserts: the node is found, below at most BST_MAX_HEIGHT others
trav_refresh(s, t) ==
  LET path == PathTo(s, s.node[t])
  IN  IF s.node[t] = NoItem THEN [s EXCEPT !.fresh[t] = TRUE]
      ELSE IF bst_find(s, s.node[t]) = NoItem \/ Len(path) > BST_MAX_HEIGHT
      THEN [s EXCEPT !.failed = TRUE]
      ELSE At(s, t, s.node[t], path)

\* bst_t_first goes along the left links (0), bst_t_last along the right ones (1)
RECURSIVE bst_t_first(_, _, _)
bst_t_first(s, t, dir) ==
  LET spine == Spine(s, Root(s), dir)
  IN  IF spine = <<>> THEN At(s, t, NoItem, <<>>)
      ELSE IF Len(spine) - 1 > BST_MAX_HEIGHT THEN bst_t_first(bst_balance(s), t, dir)
      ELSE At(s, t, Last(spine), Front(spine))

RECURSIVE bst_t_find(_, _, _)
bst_t_find(s, t, item) ==
  LET path == PathTo(s, item)
  IN  IF Len(path) > BST_MAX_HEIGHT THEN bst_t_find(bst_balance(s), t, item)
      ELSE IF bst_find(s, item) = item THEN At(s, t, item, path)
      ELSE At(s, t, NoItem, <<>>)

RECURSIVE bst_t_insert(_, _, _)
bst_t_insert(s, t, item) ==
  LET path == PathTo(s, item)
  IN  IF Len(path) > BST_MAX_HEIGHT THEN bst_t_insert(bst_balance(s), t, item)
      ELSE At(bst_probe(s, item), t, item, path)

\* a stale source hands over its node and its staleness
bst_t_copy(s, t, src) ==
  [s EXCEPT !.node[t] = s.node[src], !.fresh[t] = s.fresh[src],
            !.stack[t] = s.stack[src]]

\* up to the first parent that was not left on side dir
RECURSIVE Climb(_, _, _, _, _)
Climb(s, t, dir, y, stack) ==
  IF stack = <<>> THEN At(s, t, NoItem, <<>>)
  ELSE IF s.link[dir][Last(stack)] = y THEN Climb(s, t, dir, Last(stack), Front(stack))
  ELSE At(s, t, Last(stack), Front(stack))

\* Mutant of bst_t_next: the generation is not looked at.
RECURSIVE NextUnrefreshed(_, _, _)
NextUnrefreshed(s, t, dir) ==
  LET x == s.node[t]
      down == Spine(s, s.link[dir][x], 1 - dir)
      stack == Append(s.stack[t], x) \o Front(down)
  IN  IF x = NoItem THEN bst_t_first(s, t, 1 - dir)
      ELSE IF s.link[dir][x] = NoItem THEN Climb(s, t, dir, x, s.stack[t])
      ELSE IF Len(stack) > BST_MAX_HEIGHT THEN NextUnrefreshed(bst_balance(s), t, dir)
      ELSE At(s, t, Last(down), stack)

\* bst_t_next with dir = 1, bst_t_prev with dir = 0
RECURSIVE bst_t_next(_, _, _)
bst_t_next(s, t, dir) ==
  LET r == IF s.fresh[t] THEN s ELSE trav_refresh(s, t)
      x == r.node[t]
      down == Spine(r, r.link[dir][x], 1 - dir)
      stack == Append(r.stack[t], x) \o Front(down)
  IN  IF r.failed THEN r
      ELSE IF x = NoItem THEN bst_t_first(r, t, 1 - dir)
      ELSE IF r.link[dir][x] = NoItem THEN Climb(r, t, dir, x, r.stack[t])
      ELSE IF Len(stack) > BST_MAX_HEIGHT THEN bst_t_next(bst_balance(r), t, dir)
      ELSE At(r, t, Last(down), stack)

\* the items in the order bst_destroy hands them to destroy: it rotates left
\* children up until there are none
RECURSIVE DestroyFrom(_, _)
DestroyFrom(s, p) ==
  LET q == s.link[0][p]
  IN  IF p = NoItem THEN <<>>
      ELSE IF q = NoItem THEN <<p>> \o DestroyFrom(s, s.link[1][p])
      ELSE DestroyFrom([s EXCEPT !.link[0][p] = s.link[1][q], !.link[1][q] = p], q)

bst_destroy(s) == DestroyFrom(s, Root(s))

Keeps(s) == bst' = s /\ items' = items
Adds(s, item) == bst' = s /\ items' = items \cup {item}

\* An item that a traverser stands on is not deleted: its node would be freed
\* under the traverser.
BstNext ==
  \/ \E item \in Items :
       \/ Adds(bst_probe(bst, item), item)
       \/ /\ \A t \in Traversers : bst.node[t] # item
          /\ bst' = bst_delete(bst, item)
          /\ items' = items \ {item}
       \/ \E t \in Traversers :
            \/ Adds(bst_t_insert(bst, t, item), item)
            \/ Keeps(bst_t_find(bst, t, item))
  \/ \E t \in Traversers, dir \in 0 .. 1 :
       Keeps(bst_t_next(bst, t, dir)) \/ Keeps(bst_t_first(bst, t, dir))
  \/ \E t, src \in Traversers : t # src /\ Keeps(bst_t_copy(bst, t, src))
  \/ Keeps(bst_balance(bst))
  \/ items # {} /\ bst' = bst_create /\ items' = {}

-----------------------------------------------------------------------------
(* Properties *)

\* bst_probe, bst_delete, bst_balance: the tree holds what was inserted and not
\* deleted, bst_destroy gives it back in order, each item once, count agrees and
\* the search finds it.
TreeIsSorted ==
  /\ bst_destroy(bst) = SetToSortSeq(items, <)
  /\ bst.count = Cardinality(items)
  /\ \A item \in Items : bst_find(bst, item) = item <=> item \in items

\* bst_t_next and bst_t_prev: from wherever a traverser stands, whatever was
\* inserted, deleted or balanced through others since its last move, the next
\* item is the next in order, the one before it the one before, and neither an
\* assertion of trav_refresh nor the exit of vine_to_tree is reached.
TraverserFindsNeighbours ==
  /\ ~bst.failed
  /\ \A t \in Traversers :
       LET x == bst.node[t]
           above == {item \in items : x = NoItem \/ item > x}
           below == {item \in items : x = NoItem \/ item < x}
           next == bst_t_next(bst, t, 1)
           prev == bst_t_next(bst, t, 0)
       IN  /\ ~next.failed /\ ~prev.failed
           /\ next.node[t] = IF above = {} THEN NoItem ELSE Min(above)
           /\ prev.node[t] = IF below = {} THEN NoItem ELSE Max(below)
=============================================================================
