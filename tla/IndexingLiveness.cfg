\* Two viewers and the automatic scan share the slot with rebuilds that complete, failed transactions and restarts.
SPECIFICATION FairSpec
CONSTANTS
  Partitions = {p1}
  Today = {p1}
  Requests = {r1, r2}
  Autoscan = Autoscan
  NoPartition = NoPartition
  MaxGeneration = 2
  Faults = {"database", "record", "restart"}
CHECK_DEADLOCK TRUE
INVARIANT QueuedHasJob
PROPERTIES OpenedDayScanned RebuildReturns
