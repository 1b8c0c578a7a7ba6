SPECIFICATION FairSpec
CONSTANTS
  p1 = p1
  p2 = p2
  Procs = {p1}
  Timed = {p1}
  None = None
  ShimFails = TRUE
  MaxCrashes = 2
PROPERTIES
  ExitIsRecorded
  DeadlineIsKept
