CONSTANTS
  Threads = {t1, t2}
  Controls = {c1}
  LogTags = {"L", "M"}
  theLogs <- MCtheLogs
  LongNames = {"L"}
  numSlots = 3
  numLoggers = 2
  Capacity = 3
  Sizes = {1, 2}
  Statements <- MCStatements
  LevelCommands <- MCLevelCommands
  OutputCommands <- MCOutputCommands
  MaxEntries = 3
  MaxStarts = 2
SPECIFICATION Spec
SYMMETRY Symmetry
INVARIANTS TypeOK NothingBelowAsked QuietAfterRaise PrintedIsWhatWasAsked
