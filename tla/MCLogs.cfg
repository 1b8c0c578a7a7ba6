SPECIFICATION FairSpec
CONSTANTS
  Limit = 2
  Buffer = 2
  Capacity = 2
  MaxOutput = 3
  MaxFaults = 1
INVARIANTS
  StoredOrMarked
  FinalAnswerIsExact
PROPERTIES
  PipesAreDrained
  CollectorEnds
