CONSTANTS
  Threads = {t1, t2}
  Readers = {r1}
  numLogEntries = 3
  FirstCap = 2
  OtherCap = 3
  Lens <- MCLens
  MaxMsgs = 2
  MinTick = 1
  MaxTick = 1
  CanKill = FALSE
  Free = Free
  Dead = Dead
SPECIFICATION Spec
PROPERTY DropOnlyForReader
