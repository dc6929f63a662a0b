CONSTANTS
  Key = {"a", "b", "c"}
  Amount = {1}
  ShardCount = 2
  PrfShards <- TwoShards
  InitialHeight = 1
  MAX_TREE_HEIGHT = 3
  Setups <- OddBatch
SPECIFICATION FairSpec
PROPERTIES DrainedAreDelivered
CHECK_DEADLOCK FALSE
