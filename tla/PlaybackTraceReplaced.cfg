\* Two sessions, one failed write: a recording that gives up with chunks on their way,
\* and another one that is started before they are settled.
SPECIFICATION Spec
CONSTANTS
  Backlog = 3
  MaxSamples = 4
  MaxSessions = 2
  MaxFaults = 1
CHECK_DEADLOCK FALSE
INVARIANT ReplacesPrevious
