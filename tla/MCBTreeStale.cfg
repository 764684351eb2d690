SPECIFICATION Spec
CONSTANTS
  TreeKeys = {1, 2, 3, 4, 5, 6}
  Rids = {2}
  LoadRid = 1
  MaxLeafEntries = 4
  MaxInternalKeys = 3
  Loads <- MCTwoLeaves
  MaxOps = 5
CHECK_DEADLOCK FALSE
INVARIANT DeletedIsGone
