SPECIFICATION HSpec
CONSTANTS
  MAX_TREE_HEIGHT = 2
  k1 = k1  k2 = k2  k3 = k3
  Key = {k1, k2}
  Amount = {1}
  Z = 1  A = 5  S = 8
  BlockCapacities <- SmallCapacity
  PrfKeys <- SiblingPrf
  TCapacities = {}
  AutoModes <- NoModes
  ThresholdUnits <- NoUnits
  Noise <- NoUnits
  Benchmarking = FALSE
  ManualGrow = TRUE
  MaxAppends = 8
  MaxBatch = 0
  Modulus = 4
  SweepForever = 100
INVARIANT EvictsEveryA
CHECK_DEADLOCK FALSE
