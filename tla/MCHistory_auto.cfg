SPECIFICATION HSpec
CONSTANTS
  MAX_TREE_HEIGHT = 2
  k1 = k1  k2 = k2  k3 = k3
  Key = {k1, k2}
  Amount = {1}
  Z = 1  A = 2  S = 4
  BlockCapacities <- SmallCapacity
  PrfKeys <- TwoKeyPrfs
  TCapacities = {4}
  AutoModes <- Immediate
  ThresholdUnits <- NoUnits
  Noise <- OneSided
  Benchmarking = FALSE
  ManualGrow = FALSE
  MaxAppends = 6
  MaxBatch = 0
  Modulus = 4
  SweepForever = 100
INVARIANTS EvictsEveryA SweepVisitsEveryOldLeaf EpochIsOldest WindowSamplesDistinctLeaves
PROPERTY EstimatorCountsFreshKeys
CHECK_DEADLOCK FALSE
