CONSTANTS
  Writers = {w1}
  Controls = {c1}
  numFeatures = 2
  FirstOf = {1, 2}
  MaxSamples = 2
  Free = Free
  Serializer = Serializer
SPECIFICATION Spec
INVARIANT ClearedIsGone
