CONSTANTS
  Threads = {t1}
  Readers = {r1}
  numLogEntries = 3
  FirstCap = 2
  OtherCap = 3
  Lens <- MCLens
  MaxMsgs = 4
  MinTick = 1
  MaxTick = 1
  CanKill = TRUE
  Free = Free
  Dead = Dead
  MaxRestarts = 2
  ReadersAway = TRUE
SPECIFICATION RSpec
INVARIANT SnapshotIntact
PROPERTY OldestFirst
