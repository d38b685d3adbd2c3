\* One session, cancelled in every state by a viewer and by the budget task, or by nobody: no canceller is fair.
SPECIFICATION FairSpec
CONSTANTS
  Sessions = {s1}
  NoSession = NoSession
  Limits = {0, 1}
  MaxRejected = 1
  Cancellers = {"delete", "budget"}
CHECK_DEADLOCK TRUE
INVARIANTS HlsCancelReported NoLeftoverDirectory
PROPERTIES TranscoderEnds CancelReturns SlotReleased DirectoryRemoved
