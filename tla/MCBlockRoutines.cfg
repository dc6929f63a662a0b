SPECIFICATION FairSpec
CONSTANTS
  Key = {"a", "b"}
  Epoch = {1, 2}
  Flag = {"SYN", "ACK"}
  Value <- Flows
  Width = 3
  Latest = 3
  MaxLen = 4
  MaxArray = 10
INVARIANTS MovesInOrder SortsEveryInput InBounds SurvivorsHoldTheirRuns NoPanicBelowHalf
INVARIANTS RoutedOnceToOwnShard MergedUnlessTagsCollide
PROPERTY Terminates
CHECK_DEADLOCK FALSE
