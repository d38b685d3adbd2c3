\* A rebuild that does not reach its end, and one viewer.
SPECIFICATION FairSpec
CONSTANTS
  Partitions = {p1}
  Today = {}
  Requests = {r1}
  Autoscan = Autoscan
  NoPartition = NoPartition
  MaxGeneration = 1
  Faults = {"rebuild"}
CHECK_DEADLOCK FALSE
PROPERTY OpenedDayScanned
