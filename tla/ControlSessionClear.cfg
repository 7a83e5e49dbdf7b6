CONSTANTS
  Tags <- MCTags
  StatTagTree = "R"
  LogTagTree = "L"
  children <- MCchildren
  depth <- MCdepth
  MaxDepth = 2
  name <- MCname
  dims <- MCdims
  numLoggers = 2
  Threads = {g1, g2}
  Counters = {"A"}
  Modulus = 4
  MaxWrites = 2
  Calls <- MCCalls
  NumBits = 3
  BitCalls <- MCBitCalls
  OptionSets <- MCOptionSets
  Descs <- MCDescs
  MaxDescs = 1
  LevelArgs <- MCLevelArgs

SPECIFICATION Spec
SYMMETRY Symmetry
INVARIANTS ClearedStaysClear
