SPECIFICATION Spec
CONSTANTS
  MAX_TREE_HEIGHT = 2
  k1 = k1  k2 = k2  k3 = k3
  Key = {k1, k2}
  Amount = {1}
  Z = 1  A = 3  S = 2
  BlockCapacities <- SmallCapacity
  PrfKeys <- SiblingPrf
  TCapacities = {1}
  AutoModes <- Deferred
  ThresholdUnits <- NoUnits
  Noise <- OneSided
  Benchmarking = FALSE
  ManualGrow = FALSE
  MaxAppends = 4
  MaxBatch = 2
  Modulus = 4
  SweepForever = 100
PROPERTY KeepsPromise
CHECK_DEADLOCK FALSE
