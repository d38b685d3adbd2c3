\* A camera joins another one, both end, one goes on after a gap; one seek, reload or fault.
\* The page may stop for good: it is paused, or at the end of the timeline.
SPECIFICATION FairSpec
CONSTANTS
  Cameras = {1, 2}
  Segments <- Joining
  Transports = {"native", "mp4"}
  Tolerance = 0
  Tail = 0
  Spread = 0
  MaxRestarts = 1
  MaxActs = 1
  MaxFaults = 1
  MaxTogether = 1
CHECK_DEADLOCK FALSE
INVARIANTS TypeOK BarrierTimed NoneForgotten
PROPERTIES NoRewind LeavesAligned ClockMoves
