SPECIFICATION Spec
CONSTANTS
  MAX_TREE_HEIGHT = 2
  k1 = k1  k2 = k2  k3 = k3
  Key = {k1, k2}
  Amount = {1}
  Z = 1  A = 2  S = 4
  BlockCapacities <- SmallCapacity
  PrfKeys <- TwoKeyPrfs
  TCapacities = {}
  AutoModes <- NoModes
  ThresholdUnits <- NoUnits
  Noise <- NoUnits
  Benchmarking = FALSE
  ManualGrow = TRUE
  MaxAppends = 6
  MaxBatch = 0
  Modulus = 4
  SweepForever = 100
INVARIANTS TypeOK PathInvariant HeldExactlyOnce NoStashPanic
PROPERTY KeepsPromise
CHECK_DEADLOCK FALSE
