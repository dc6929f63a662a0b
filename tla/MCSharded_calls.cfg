CONSTANTS
  Key = {"a", "b", "c"}
  Amount = {1}
  ShardCount = 2
  PrfShards <- TwoShards
  InitialHeight = 1
  MAX_TREE_HEIGHT = 3
  Setups <- AllSetups
SPECIFICATION FairSpec
INVARIANTS TypeOK CountedOnce EqualAccesses ReadoutComplete ShardsInStep
PROPERTIES DrainedAreDelivered RefusedForGood CallsReturn KeepsPromise
CHECK_DEADLOCK FALSE
