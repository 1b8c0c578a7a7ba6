SPECIFICATION Spec
CONSTANTS
  p1 = p1
  p2 = p2
  Procs = {p1, p2}
  Timed = {p2}
  None = None
  ShimFails = TRUE
  MaxCrashes = 1
INVARIANTS
  OnceAndRecorded
  HistoryIsTrue
  LiveIsHeld
PROPERTIES
  ExitOutlivesRecord
  HistoryIsFinal
