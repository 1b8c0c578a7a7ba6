SPECIFICATION FairSpec
CONSTANT N = 4
INVARIANTS
  EndsClean
PROPERTIES
  DependentsFinishFirst
  StartsInOrder
  ServiceEnds
CHECK_DEADLOCK FALSE
