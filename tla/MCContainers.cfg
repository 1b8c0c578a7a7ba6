SPECIFICATION FairSpec
CONSTANTS
  s1 = s1
  s2 = s2
  Sandboxes = {s1, s2}
  None = None
  MaxProjects = 3
  MaxFaults = 3
INVARIANTS
  TaskIsLimited
  QuotaIsJournalled
PROPERTIES
  FilesAreKept
  ImplementsService
  ResidueIsReclaimed
