CONSTANTS
  Key = {"a", "b"}
  Prfs <- AnyTags
  ShardCount = 4
  SubQuotas = {2}
  SubBatchSize = 2
  LowBits = 3
  ShardField = 1
  RouteShift = 1
SPECIFICATION Spec
INVARIANT RoutedToOwnShard
CHECK_DEADLOCK FALSE
