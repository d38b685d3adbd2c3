\* Two sessions of at most four samples; two of: a crash, a reload, a failed write, an event storm.
\* The recorder may stop for good: the session is stopped and exported.
SPECIFICATION FairSpec
CONSTANTS
  Backlog = 3
  MaxSamples = 4
  MaxSessions = 2
  MaxFaults = 2
CHECK_DEADLOCK FALSE
INVARIANTS TypeOK NoSampleLost StoreWhole FailureVisible ExportWhole
PROPERTY LifecycleSettles
