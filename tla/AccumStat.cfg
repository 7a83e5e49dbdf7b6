CONSTANTS
  Writers = {w1, w2}
  Controls = {c1}
  numFeatures = 2
  FirstOf = {1, 2}
  MaxSamples = 4
  Free = Free
  Serializer = Serializer
SPECIFICATION FairSpec
INVARIANTS TypeOK ClearNotLost ClearTakesNoMore OneSnapshot DumpSkew StopJoins
PROPERTIES EverySampleShown ClearReachesFeatures
