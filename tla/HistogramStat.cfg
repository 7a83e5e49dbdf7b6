CONSTANTS
  Writers = {w1}
  Controls = {c1}
  numFeatures = 4
  FirstOf = {1}
  MaxSamples = 3
  Free = Free
  Serializer = Serializer
  num_bins = 2
  min_range <- below_zero
  max_range = 2
  Samples <- MCSamples
SPECIFICATION HistSpec
INVARIANTS BinsHoldTheirSamples DumpLosesNothing NumbersOnceSerialized
