SPECIFICATION Spec
CONSTANTS
  MAX_TREE_HEIGHT = 2
  k1 = k1  k2 = k2  k3 = k3
  Key = {k1, k2, k3}
  Amount = {1, 3}
  Z = 1  A = 2  S = 1
  BlockCapacities <- SmallCapacity
  PrfKeys <- ThreeKeyPrfs
  TCapacities = {}
  AutoModes <- NoModes
  ThresholdUnits <- NoUnits
  Noise <- OneSided
  Benchmarking = TRUE
  ManualGrow = FALSE
  MaxAppends = 4
  MaxBatch = 0
  Modulus = 4
  SweepForever = 100
INVARIANT WithinCapacity
PROPERTY KeepsCounts
CHECK_DEADLOCK FALSE
