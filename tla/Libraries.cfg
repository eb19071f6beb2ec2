SPECIFICATION Spec
CONSTANTS
  Keys = {1, 2, 3, 4, 5, 6, 7, 8, 9, 10, 11, 12}
  Servers = {1, 2, 3, 4}
  Replicas = 3
  HashOf <- MCHashOf
  SkipKeys = {1, 2, 3}
  Contents = {1, 2}
  SKIPLIST_LEVEL_MAX = 2
  Items = {1, 2, 3, 4, 5}
  Traversers = {1, 2}
  BST_MAX_HEIGHT = 3
  FileLines <- MCFileLines
  MaxLines = 2
  CONFIG_TOKSIZE = 1
  MaxFields = 2
  MaxFieldsThere = 1
INVARIANT RingIsRedBlack
INVARIANT LookupFindsSuccessor
INVARIANT ListIsTable
INVARIANT TreeIsSorted
INVARIANT TraverserFindsNeighbours
INVARIANT FirstDefinitionHolds
INVARIANT RoundTrip
INVARIANT ReadsMayMergeOrCut
PROPERTY OnlyOwnObjectsMove
CHECK_DEADLOCK FALSE
