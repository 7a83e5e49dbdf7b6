CONSTANTS
  Threads = {t1}
  Controls = {c1}
  LogTags = {"L", "M"}
  theLogs <- MCtheLogs
  LongNames = {"L"}
  numSlots = 3
  numLoggers = 2
  Capacity = 2
  Sizes = {1, 2}
  Statements <- MCStatements
  LevelCommands <- MCLevelCommands
  OutputCommands <- MCOutputCommands
  MaxEntries = 1
  MaxStarts = 1
SPECIFICATION Spec
INVARIANT ExcludedTagsAreLeftOut
