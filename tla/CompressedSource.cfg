\* Two cameras with a slot each, one of them with a gap in its recordings; one request or stream breaks.
SPECIFICATION Spec
CONSTANTS
  Cameras = {1, 2}
  Positions = {1, 2}
  Gaps <- OneGap
  Transport = "mp4"
  Limit = 2
  MaxIds = 3
  MaxFaults = 1
CHECK_DEADLOCK TRUE
INVARIANTS NoOrphan SourceAdmitted CameraServed PausedIsTimed
PROPERTY NeverRefusesItself
