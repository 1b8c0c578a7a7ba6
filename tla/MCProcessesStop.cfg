SPECIFICATION Spec
CONSTANTS
  p1 = p1
  p2 = p2
  Procs = {p1}
  Timed = {p1}
  None = None
  ShimFails = FALSE
  MaxCrashes = 1
INVARIANT
  StopWaitsForExits
