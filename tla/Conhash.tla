------------------------------- MODULE Conhash -------------------------------
(***************************************************************************)
(* Consistent hashing (libconhash/conhash.c, conhash_inter.c,              *)
(* conhash_util.c): every server puts some virtual nodes on a ring, a      *)
(* red-black tree of hash values; an object belongs to the server of the   *)
(* first virtual node at or after the object's own hash.                   *)
(***************************************************************************)
EXTENDS RedBlackTree, SequencesExt

CONSTANTS
  Servers,   \* node_s, set by conhash_set_node
  Replicas,  \* virtual nodes of a server
  HashOf     \* hash of "iden-index": per server the sequence of its keys

ASSUME ConhashAssumption == HashOf \in [Servers -> [1 .. Replicas -> Keys]]

VARIABLES
  ring,      \* conhash_s: vnode_tree, the server of each node, and ivnodes
  members    \* servers whose flag has NODE_FLAG_IN

Ring0 == [tree |-> util_rbtree_init, node |-> [k \in {} |-> 0], ivnodes |-> 0]

ConhashInit == ring = Ring0 /\ members = {}

\* __conhash_get_rbnode and insert, unless the hash is taken
AddVnode(r, s, hash) ==
  IF util_rbtree_search(r.tree, hash) # Nil THEN r
  ELSE [tree |-> util_rbtree_insert(r.tree, hash),
        node |-> [k \in DOMAIN r.node \cup {hash} |-> IF k = hash THEN s ELSE r.node[k]],
        ivnodes |-> r.ivnodes + 1]

Without(f, k) == [x \in DOMAIN f \ {k} |-> f[x]]

\* Mutant of DelVnode: it is not looked whose virtual node it is.
DelAnyVnode(r, s, hash) ==
  IF util_rbtree_search(r.tree, hash) = Nil THEN r
  ELSE [tree |-> util_rbtree_delete(r.tree, hash), node |-> Without(r.node, hash),
        ivnodes |-> r.ivnodes - 1]

\* only the server's own virtual nodes are deleted
DelVnode(r, s, hash) ==
  IF util_rbtree_search(r.tree, hash) = Nil \/ r.node[hash] # s THEN r
  ELSE [tree |-> util_rbtree_delete(r.tree, hash), node |-> Without(r.node, hash),
        ivnodes |-> r.ivnodes - 1]

__conhash_add_replicas(r, s) == FoldLeft(LAMBDA q, h : AddVnode(q, s, h), r, HashOf[s])
__conhash_del_replicas(r, s) == FoldLeft(LAMBDA q, h : DelVnode(q, s, h), r, HashOf[s])

conhash_add_node(s) ==
  /\ s \notin members
  /\ members' = members \cup {s}
  /\ ring' = __conhash_add_replicas(ring, s)

conhash_del_node(s) ==
  /\ s \in members
  /\ members' = members \ {s}
  /\ ring' = __conhash_del_replicas(ring, s)

\* the root is deleted until the tree is empty
RECURSIVE DeleteRoots(_)
DeleteRoots(t) == IF t.root = Nil THEN t ELSE DeleteRoots(util_rbtree_delete(t, t.root))

\* conhash_fini, then conhash_init for the next run: only what went wrong stays
conhash_fini ==
  /\ members # {}
  /\ members' = {}
  /\ ring' = [Ring0 EXCEPT !.tree.undefined = DeleteRoots(ring.tree).undefined]

conhash_lookup(r, hash) ==
  LET found == util_rbtree_lookup(r.tree, hash)
  IN  IF r.ivnodes = 0 THEN Nil ELSE r.node[found]

conhash_get_vnodes(r) == util_rbtree_mid_travel(r.tree)

ConhashNext ==
  \/ \E s \in Servers : conhash_add_node(s) \/ conhash_del_node(s)
  \/ conhash_fini

-----------------------------------------------------------------------------
(* Properties *)

\* util_rbtree_insert and util_rbtree_delete: whatever servers came and went,
\* util_rbtree_check finds nothing wrong, every path has the same number of
\* black nodes, parent pointers lead back (the root's is never followed), and a
\* traversal gives the keys in order, as many as size and ivnodes say.  The
\* dangling parent that util_rbtree_delete leaves in a node that becomes the root
\* (util_rbtree.c:158-164) is never followed: with two or more virtual nodes per
\* server it is gone with the ring before rbtree_insert_fixup could.
RingIsRedBlack ==
  LET t == ring.tree
      keys == conhash_get_vnodes(ring)
  IN  /\ ~t.undefined
      /\ util_rbtree_check(t) = 0
      /\ \A n \in ToSet(keys), side \in Sides :
           LET kid == t.child[side][n]
           IN  kid # Nil => t.parent[kid] = n /\ ~(IsRed(t, n) /\ IsRed(t, kid))
      /\ \A i \in 1 .. Len(keys) - 1 : keys[i] < keys[i + 1]
      /\ ToSet(keys) = DOMAIN ring.node
      /\ Len(keys) = t.size /\ Len(keys) = ring.ivnodes

\* util_rbtree_lookup as util_rbtree.h describes it: the first key at or after
\* the hash, else the smallest; so conhash_lookup finds the next virtual node
\* clockwise whatever shape the tree has.
LookupFindsSuccessor ==
  \A hash \in Keys \cup {Nil} :
    LET after == {k \in DOMAIN ring.node : k >= hash}
        candidates == IF after = {} THEN DOMAIN ring.node ELSE after
    IN  IF candidates = {} THEN conhash_lookup(ring, hash) = Nil
        ELSE \E k \in candidates : /\ \A j \in candidates : k <= j
                                   /\ conhash_lookup(ring, hash) = ring.node[k]

\* Consistent hashing: when a server leaves, an object that did not belong to it
\* stays where it was, and when one joins, an object moves to it or stays.  It is
\* why Worker has a fixed order in which its address meets the masters.
OnlyOwnObjectsMove ==
  [][\A hash \in Keys :
       LET before == conhash_lookup(ring, hash)
           after == conhash_lookup(ring', hash)
       IN  members' # {} /\ members # {} =>
             after = before \/ before \in members \ members' \/ after \in members' \ members
    ]_<<ring, members>>
=============================================================================
