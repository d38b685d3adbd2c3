\* Two viewers open days while today is scanned automatically and the index is rebuilt;
\* probes fail, with or without a record of it, rebuilds time out, the process restarts.
SPECIFICATION Spec
CONSTANTS
  Partitions = {p1, p2}
  Today = {p1}
  Requests = {r1, r2}
  Autoscan = Autoscan
  NoPartition = NoPartition
  MaxGeneration = 2
  Faults = {"rebuild", "record", "restart"}
CHECK_DEADLOCK TRUE
SYMMETRY Symmetry
INVARIANTS TypeOK RebuildAlone OneScan ScanHasRow ScanningHasJob
PROPERTY ReservationHolds
