------------------------------ MODULE SkipList ------------------------------
(***************************************************************************)
(* The skip list of base/skip_list.cc.  A node is named by the key its     *)
(* value compares by; two values with one key compare equal and differ in  *)
(* their content.  The level of a new node is random.                      *)
(***************************************************************************)
EXTENDS Integers, FiniteSets

CONSTANTS
  SkipKeys,            \* positive keys of the values
  Contents,            \* what else is in a value
  SKIPLIST_LEVEL_MAX   \* 8 in the code

ASSUME SkipListAssumption ==
  SkipKeys \subseteq Nat \ {0} /\ SKIPLIST_LEVEL_MAX \in Nat

SKIPLIST_LEVEL_MIN == 0
Levels == SKIPLIST_LEVEL_MIN .. SKIPLIST_LEVEL_MAX
Header == 0
NoNode == -1
Values == SkipKeys \X Contents
KeyOf(value) == value[1]

VARIABLES
  list,    \* skiplist_t: forward pointers per level, level, length, values
  stored   \* what a table of the inserted and not deleted values holds

skiplist_init ==
  [forward |-> [l \in Levels |-> [n \in {Header} |-> NoNode]],
   value |-> [n \in {} |-> <<>>], level |-> SKIPLIST_LEVEL_MIN, length |-> 0]

SkipListInit == list = skiplist_init /\ stored = {}

\* OP_GOTO_NEXT_NODE; otherwise the walk goes one level down
GotoNextNode(fwd, key) == fwd # NoNode /\ fwd < key

\* the last node passed on each level from "level" down: the array update
RECURSIVE UpdateArray(_, _, _, _, _)
UpdateArray(s, key, cur, level, update) ==
  LET fwd == s.forward[level][cur]
      next == IF GotoNextNode(fwd, key) THEN fwd ELSE cur
      down == IF GotoNextNode(fwd, key) THEN level ELSE level - 1
  IN  IF level < SKIPLIST_LEVEL_MIN THEN update
      ELSE UpdateArray(s, key, next, down, [update EXCEPT ![level] = next])

Update(s, key) == UpdateArray(s, key, Header, s.level, [l \in Levels |-> Header])

\* OP_FINISH on some level: the node a walk for key stops at, or NoNode
RECURSIVE FinishAt(_, _, _, _)
FinishAt(s, key, cur, level) ==
  LET fwd == s.forward[level][cur]
  IN  IF level < SKIPLIST_LEVEL_MIN THEN NoNode
      ELSE IF fwd = key THEN fwd
      ELSE IF GotoNextNode(fwd, key) THEN FinishAt(s, key, fwd, level)
      ELSE FinishAt(s, key, cur, level - 1)

skiplist_contains(s, key) == FinishAt(s, key, Header, s.level) # NoNode
skiplist_search(s, key) ==
  IF skiplist_contains(s, key) THEN s.value[FinishAt(s, key, Header, s.level)] ELSE <<>>

\* unused levels go, the lowest one too when the list gets empty: level is then -1
UsedLevel(s) ==
  LET used == {l \in Levels : l <= s.level /\ s.forward[l][Header] # NoNode}
  IN  IF used = {} THEN SKIPLIST_LEVEL_MIN - 1
      ELSE CHOOSE l \in used : \A k \in used : k <= l

Found(s, key) == s.forward[SKIPLIST_LEVEL_MIN][Update(s, key)[SKIPLIST_LEVEL_MIN]]

\* Mutant of Spliced: the loop ends below the list's highest level.
SplicedBelowTop(s, key) ==
  LET update == Update(s, key)
  IN  [l \in Levels |->
        [n \in DOMAIN s.forward[l] |->
           IF (l < s.level \/ l = SKIPLIST_LEVEL_MIN) /\ n = update[l] /\ s.forward[l][n] = key
           THEN s.forward[l][key] ELSE s.forward[l][n]]]

\* the node taken out of every level it is found on, and its memory freed
Spliced(s, key) ==
  LET update == Update(s, key)
  IN  [l \in Levels |->
        [n \in DOMAIN s.forward[l] \ {key} |->
           IF l <= s.level /\ n = update[l] /\ s.forward[l][n] = key THEN s.forward[l][key]
           ELSE s.forward[l][n]]]

skiplist_delete(s, key) ==
  IF Found(s, key) # key THEN s
  ELSE LET without == [s EXCEPT !.forward = Spliced(s, key),
                                !.value = [n \in DOMAIN s.value \ {key} |-> s.value[n]],
                                !.length = @ - 1]
       IN  [without EXCEPT !.level = UsedLevel(without)]

\* the levels above the list's own start at the header; forward has an entry for
\* each level up to the node's
Linked(s, key, level) ==
  LET update == Update(s, key)
  IN  [l \in Levels |->
        IF l > level THEN s.forward[l]
        ELSE [n \in DOMAIN s.forward[l] \cup {key} |->
                IF n = key THEN s.forward[l][update[l]]
                ELSE IF n = update[l] THEN key ELSE s.forward[l][n]]]

\* Without memory for the node the level stays raised and, when the key was
\* there, the old value is already gone.
skiplist_insert(s, value, level, memory) ==
  LET key == KeyOf(value)
      base == IF skiplist_contains(s, key) THEN skiplist_delete(s, key) ELSE s
      raised == [base EXCEPT !.level = IF level > @ THEN level ELSE @]
  IN  IF ~memory THEN raised
      ELSE [raised EXCEPT !.forward = Linked(raised, key, level),
                          !.value = [n \in DOMAIN @ \cup {key} |->
                                       IF n = key THEN value ELSE base.value[n]],
                          !.length = @ + 1]

Insert(value, level, memory) ==
  /\ list' = skiplist_insert(list, value, level, memory)
  /\ stored' = {v \in stored : KeyOf(v) # KeyOf(value)}
               \cup (IF memory THEN {value} ELSE {})

Delete(key) ==
  /\ list' = skiplist_delete(list, key)
  /\ stored' = {v \in stored : KeyOf(v) # key}

\* skiplist_destroy, and skiplist_init for the next use
skiplist_destroy ==
  /\ list # skiplist_init
  /\ list' = skiplist_init
  /\ stored' = {}

SkipListNext ==
  \/ \E value \in Values, level \in Levels, memory \in BOOLEAN : Insert(value, level, memory)
  \/ \E key \in SkipKeys : Delete(key)
  \/ skiplist_destroy

\* the values skiplist_iter_next gives one after the other
RECURSIVE IterateFrom(_, _)
IterateFrom(s, n) ==
  LET next == s.forward[SKIPLIST_LEVEL_MIN][n]
  IN  IF next = NoNode THEN {} ELSE {<<n, next>>} \cup IterateFrom(s, next)

-----------------------------------------------------------------------------
(* Properties *)

\* skiplist_insert, skiplist_delete, skiplist_contains and skiplist_search:
\* whatever levels the nodes were given and whichever allocations failed, the
\* list is the table of the values put in last: search finds each of them and
\* nothing else, iteration goes upwards through all of them, length counts them,
\* and no level leads to a freed node or lies above the list's own level.
ListIsTable ==
  /\ {list.value[n] : n \in DOMAIN list.value} = stored
  /\ \A key \in SkipKeys :
       LET values == {v \in stored : KeyOf(v) = key}
       IN  IF values = {} THEN ~skiplist_contains(list, key)
           ELSE skiplist_search(list, key) \in values
  /\ LET steps == IterateFrom(list, Header)
     IN  /\ \A step \in steps : step[1] < step[2]
         /\ {step[2] : step \in steps} = {KeyOf(v) : v \in stored}
  /\ list.length = Cardinality(stored)
  /\ \A l \in Levels, n \in {Header} \cup DOMAIN list.value :
       n \in DOMAIN list.forward[l] =>
         /\ list.forward[l][n] \in DOMAIN list.forward[l] \cup {NoNode}
         /\ list.forward[l][n] # NoNode => l <= list.level
=============================================================================
