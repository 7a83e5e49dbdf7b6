CONSTANTS
  Tags <- MCTags
  StatTagTree = "R"
  LogTagTree = "L"
  children <- MCchildren
  depth <- MCdepth
  MaxDepth = 2
  name <- MCname
  dims <- MCdims
  numLoggers = 2
  Threads = {g1, g2}
  Counters = {"A"}
  Modulus = 2
  MaxWrites = 2
  Calls <- MCCalls
  NumBits = 3
  BitCalls <- MCBitCalls
  OptionSets <- MCOptionSets
  Descs <- MCDescs
  MaxDescs = 2
  LevelArgs <- MCLevelArgs

SPECIFICATION Spec
SYMMETRY Symmetry
INVARIANTS TypeOK CounterExactUnlessRaced ReportIsWhatWasAsked RowsShowOwnWrites CommandHitsItsTargets
