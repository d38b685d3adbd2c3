\* One day, a server that restarts, polls that fail now and then.
SPECIFICATION FairSpec
CONSTANTS
  Days = {d1}
  HistoryLimit = 1
  BatchLimit = 1
  MaxVersion = 2
  MaxEvents = 1
  MaxEpoch = 2
  MaxRequests = 2
  Faults = {}
CHECK_DEADLOCK TRUE
INVARIANT AnnouncedShown
PROPERTY ChangesReachPage
