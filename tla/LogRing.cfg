CONSTANTS
  Threads = {t1, t2}
  Readers = {r1}
  numLogEntries = 3
  FirstCap = 2
  OtherCap = 3
  Lens <- MCLens
  MaxMsgs = 3
  MinTick = 0
  MaxTick = 1
  CanKill = TRUE
  Free = Free
  Dead = Dead
SPECIFICATION FairSpec
INVARIANTS TypeOK MutualExclusion SnapshotIntact RingInv
PROPERTIES ImplementsBoundedLog LogCallReturns MutexReleased
