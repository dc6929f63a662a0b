CONSTANTS
  Key = {1, 2, 3}
  Amount = {1}
  Prfs <- TagChoices
  Z = 1
  S = 2
  MinHeight = 1
  MaxHeight = 2
  MAX_TREE_HEIGHT = 2
  IdentityBits = 1
  MaxBatch = 2
  Modulus = 16
  MaxTotal = 3
SPECIFICATION Spec
INVARIANTS BlocksOnTheirPaths EvictsAllThatFits
PROPERTY ImplementsCounts
CHECK_DEADLOCK FALSE
