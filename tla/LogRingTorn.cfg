CONSTANTS
  Threads = {t1}
  Readers = {r1}
  numLogEntries = 3
  FirstCap = 2
  OtherCap = 3
  Lens <- MCLens
  MaxMsgs = 2
  MinTick = 0
  MaxTick = 1
  CanKill = TRUE
  Free = Free
  Dead = Dead
  MaxRestarts = 1
  ReadersAway = FALSE
SPECIFICATION RSpec
INVARIANT SnapshotIntact
