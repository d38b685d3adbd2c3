\* Two days, a history shorter than what scans emit; any request may fail, also the first poll.
SPECIFICATION Spec
CONSTANTS
  Days = {d1, d2}
  HistoryLimit = 1
  BatchLimit = 1
  MaxVersion = 2
  MaxEvents = 2
  MaxEpoch = 1
  MaxRequests = 2
  Faults = {"latePoll", "timeline"}
CHECK_DEADLOCK TRUE
SYMMETRY Symmetry
INVARIANT OneLoop
PROPERTY NeverOlder
