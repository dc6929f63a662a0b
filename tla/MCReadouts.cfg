CONSTANTS
  Key = {1, 2, 3}
  Prfs <- TagChoices
  Z = 2
  S = 2
  Height = 2
  MAX_TREE_HEIGHT = 3
  InboxLens = {2, 8}
  MaxBuffered = 2
SPECIFICATION Spec
INVARIANTS ReadoutIsExact RunsReadyToMerge
CHECK_DEADLOCK FALSE
