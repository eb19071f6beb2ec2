---------------------------- MODULE RedBlackTree ----------------------------
(***************************************************************************)
(* The red-black tree of libconhash (libconhash/util_rbtree.c), as         *)
(* operators on the whole tree.  A node is named by its key; Nil is the    *)
(* sentinel rbtree->null, which has a colour and a parent like a node.     *)
(* The code writes every case twice, for left and right: here a side is a  *)
(* parameter.                                                              *)
(*                                                                         *)
(* Freed is a pointer to a node that was freed.  Reading through it is     *)
(* undefined: it sets "undefined" and ends the operation.                  *)
(***************************************************************************)
EXTENDS Integers, Sequences, FiniteSets

CONSTANT Keys  \* hash values, positive

ASSUME KeysAssumption == Keys \subseteq Nat \ {0} /\ IsFiniteSet(Keys)

Nil == 0
Freed == -1
Red == 0
Black == 1
Sides == {"left", "right"}
Other(side) == IF side = "left" THEN "right" ELSE "left"

Pointers == Keys \cup {Nil}

util_rbtree_init ==
  [root |-> Nil, size |-> 0, undefined |-> FALSE,
   color |-> [n \in Pointers |-> Black],
   parent |-> [n \in Pointers |-> Nil],
   child |-> [side \in Sides |-> [n \in Pointers |-> Nil]]]

IsRed(t, n) == t.color[n] = Red
IsBlack(t, n) == t.color[n] = Black
Paint(t, n, c) == [t EXCEPT !.color[n] = c]

\* the side on which n hangs below its parent
SideOf(t, n) == IF n = t.child["left"][t.parent[n]] THEN "left" ELSE "right"

\* n's place below its parent, or as the root, is given to m
Replace(t, n, m) ==
  IF n = t.root THEN [t EXCEPT !.root = m]
  ELSE [t EXCEPT !.child[SideOf(t, n)][t.parent[n]] = m]

\* the node at the far end of one side: util_rbsubtree_min, util_rbsubtree_max
RECURSIVE Outermost(_, _, _)
Outermost(t, n, side) ==
  IF t.child[side][n] = Nil THEN n ELSE Outermost(t, t.child[side][n], side)

\* Mutant of Rotate: the moved grandchild keeps its parent.
RotateForgetful(t, n, side) ==
  LET up == t.child[Other(side)][n]
      moved == t.child[side][up]
      t1 == Replace([t EXCEPT !.parent[up] = t.parent[n]], n, up)
  IN  [t1 EXCEPT !.parent[n] = up, !.child[side][up] = n,
                 !.child[Other(side)][n] = moved]

\* n goes down on the given side, its other child takes its place
Rotate(t, n, side) ==
  LET up == t.child[Other(side)][n]
      moved == t.child[side][up]
      t1 == Replace([t EXCEPT !.parent[up] = t.parent[n]], n, up)
      t2 == [t1 EXCEPT !.parent[n] = up, !.child[side][up] = n,
                       !.child[Other(side)][n] = moved]
  IN  IF moved = Nil THEN t2 ELSE [t2 EXCEPT !.parent[moved] = n]

RECURSIVE rbtree_insert_fixup(_, _)
rbtree_insert_fixup(t, n) ==
  IF t.parent[n] = Freed THEN [t EXCEPT !.undefined = TRUE]
  ELSE IF IsBlack(t, t.parent[n]) THEN Paint(t, t.root, Black)
  ELSE
    LET p == t.parent[n]
        g == t.parent[p]
        side == SideOf(t, p)
        u == t.child[Other(side)][g]
    IN  IF IsRed(t, u)
        THEN rbtree_insert_fixup(Paint(Paint(Paint(t, u, Black), p, Black), g, Red), g)
        ELSE LET inner == n = t.child[Other(side)][p]
                 t1 == IF inner THEN Rotate(t, p, side) ELSE t
                 m == IF inner THEN p ELSE n
                 q == t1.parent[m]
             IN  rbtree_insert_fixup(
                   Rotate(Paint(Paint(t1, q, Black), g, Red), g, Other(side)), m)

\* the last node on the way down to where key n belongs
RECURSIVE InsertPosition(_, _, _)
InsertPosition(t, n, x) ==
  LET next == t.child[IF n < x THEN "left" ELSE "right"][x]
  IN  IF next = Nil THEN x ELSE InsertPosition(t, n, next)

util_rbtree_insert(t, n) ==
  LET y == InsertPosition(t, n, t.root)
      linked == IF t.root = Nil THEN [t EXCEPT !.root = n, !.parent[n] = Nil]
                ELSE [t EXCEPT !.parent[n] = y,
                               !.child[IF n < y THEN "left" ELSE "right"][y] = n]
      fresh == [linked EXCEPT !.child["left"][n] = Nil, !.child["right"][n] = Nil,
                              !.color[n] = Red]
  IN  [rbtree_insert_fixup(fresh, n) EXCEPT !.size = @ + 1]

\* node and its sibling below the same parent, the sibling made black first
RECURSIVE rbtree_delete_fixup(_, _)
rbtree_delete_fixup(t, n) ==
  IF n = t.root \/ IsRed(t, n) THEN Paint(t, n, Black)
  ELSE
    LET side == SideOf(t, n)
        away == Other(side)
        p == t.parent[n]
        w0 == t.child[away][p]
        t1 == IF IsRed(t, w0)
              THEN Rotate(Paint(Paint(t, w0, Black), p, Red), p, side) ELSE t
        w1 == t1.child[away][p]
        near == t1.child[side][w1]
        far == t1.child[away][w1]
        t2 == IF IsBlack(t1, far)
              THEN Rotate(Paint(Paint(t1, near, Black), w1, Red), w1, away) ELSE t1
        w2 == t2.child[away][p]
        t3 == Paint(Paint(Paint(t2, w2, t2.color[p]), p, Black),
                    t2.child[away][w2], Black)
        t4 == Rotate(t3, p, side)
    IN  IF IsBlack(t1, near) /\ IsBlack(t1, far)
        THEN rbtree_delete_fixup(Paint(t1, w1, Red), p)
        ELSE rbtree_delete_fixup(t4, t4.root)

\* rbt_clear_node, and the caller frees the node: what pointed to it dangles
ClearNode(t, n) ==
  [t EXCEPT !.color[n] = Black, !.child["left"][n] = Nil, !.child["right"][n] = Nil,
            !.parent = [m \in Pointers |-> IF m = n THEN Nil
                                           ELSE IF m # Nil /\ t.parent[m] = n THEN Freed
                                           ELSE t.parent[m]]]

\* temp, already taken out of its own place, takes node's place and colour
TakePlace(t, temp, node) ==
  LET t1 == Replace([t EXCEPT !.parent[temp] = t.parent[node]], node, temp)
      t2 == [t1 EXCEPT !.child["left"][temp] = t1.child["left"][node],
                       !.child["right"][temp] = t1.child["right"][node],
                       !.color[temp] = t1.color[node]]
  IN  [t2 EXCEPT !.parent = [m \in Pointers |->
         IF m # Nil /\ \E side \in Sides : m = t2.child[side][temp] THEN temp
         ELSE t2.parent[m]]]

\* A root without two children is dropped early: its child's parent pointer is
\* not written.
util_rbtree_delete(t, node) ==
  LET two == \A side \in Sides : t.child[side][node] # Nil
      temp == IF two THEN Outermost(t, t.child["right"][node], "left") ELSE node
      subst == IF t.child["left"][temp] = Nil THEN t.child["right"][temp]
               ELSE t.child["left"][temp]
      up == IF t.parent[temp] = node THEN temp ELSE t.parent[temp]
      t1 == Replace([t EXCEPT !.parent[subst] = up], temp, subst)
      t2 == ClearNode(IF temp = node THEN t1 ELSE TakePlace(t1, temp, node), node)
      smaller == [t EXCEPT !.size = @ - 1]
  IN  IF temp = t.root
      THEN ClearNode(Paint([smaller EXCEPT !.root = subst], subst, Black), temp)
      ELSE [(IF IsBlack(t, temp) THEN rbtree_delete_fixup(t2, subst) ELSE t2)
              EXCEPT !.size = smaller.size]

-----------------------------------------------------------------------------
(* Reading the tree *)

RECURSIVE SearchFrom(_, _, _)
SearchFrom(t, key, n) ==
  IF n \in {Nil, key} THEN n
  ELSE SearchFrom(t, key, t.child[IF key < n THEN "left" ELSE "right"][n])

util_rbtree_search(t, key) == SearchFrom(t, key, t.root)

\* Mutant of LookupFrom: an equal key is passed by.
RECURSIVE LookupAfter(_, _, _, _)
LookupAfter(t, key, temp, node) ==
  IF temp = Nil THEN node
  ELSE IF key < temp THEN LookupAfter(t, key, t.child["left"][temp], temp)
  ELSE LookupAfter(t, key, t.child["right"][temp], node)

RECURSIVE LookupFrom(_, _, _, _)
LookupFrom(t, key, temp, node) ==
  IF temp = Nil THEN node
  ELSE IF key <= temp THEN LookupFrom(t, key, t.child["left"][temp], temp)
  ELSE LookupFrom(t, key, t.child["right"][temp], node)

util_rbtree_lookup(t, key) ==
  LET found == LookupFrom(t, key, t.root, Nil)
  IN  IF found # Nil \/ t.root = Nil THEN found ELSE Outermost(t, t.root, "left")

RECURSIVE MidTravel(_, _)
MidTravel(t, n) ==
  IF n = Nil THEN <<>>
  ELSE MidTravel(t, t.child["left"][n]) \o <<n>> \o MidTravel(t, t.child["right"][n])

util_rbtree_mid_travel(t) == MidTravel(t, t.root)

\* rbtree_check_subtree: check is [fini, rbh]; a node without a left child is a
\* place to compare the black height at, whatever is on its right.
RECURSIVE rbtree_check_subtree(_, _, _, _)
rbtree_check_subtree(t, n, check, above) ==
  LET height == IF IsBlack(t, n) THEN above + 1 ELSE above
      left == t.child["left"][n]
      right == t.child["right"][n]
      bad(c, kid, misplaced) ==
        IF IsRed(t, n) /\ IsRed(t, kid) THEN [c EXCEPT !.fini = 4]
        ELSE IF misplaced THEN [c EXCEPT !.fini = 5]
        ELSE rbtree_check_subtree(t, kid, c, height)
      here(c) == IF c.rbh \in {0, height} THEN [c EXCEPT !.rbh = height]
                 ELSE [c EXCEPT !.fini = 3]
      c1 == bad(check, left, n < left)
  IN  IF check.fini # 0 THEN check
      ELSE IF left = Nil THEN here(check)
      ELSE IF c1.fini # 0 THEN c1
      ELSE IF right = Nil THEN here(c1)
      ELSE bad(c1, right, n > right)

util_rbtree_check(t) ==
  IF t.root = Nil THEN 0
  ELSE IF IsRed(t, t.root) THEN 1
  ELSE rbtree_check_subtree(t, t.root, [fini |-> 0, rbh |-> 0], 0).fini
=============================================================================
