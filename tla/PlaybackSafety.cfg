\* Two sessions, a limit that moves between none and one, viewers that cancel in any state.
SPECIFICATION Spec
CONSTANTS
  Sessions = {s1, s2}
  NoSession = NoSession
  Limits = {0, 1}
  MaxRejected = 1
  Cancellers = {"delete"}
CHECK_DEADLOCK TRUE
SYMMETRY Symmetry
INVARIANTS Conservation TranscoderHoldsSlot PlaylistBacked
PROPERTY ImplementsLease
