SPECIFICATION FairSpec
CONSTANTS
  a1 = a1
  a2 = a2
  s1 = s1
  s2 = s2
  s3 = s3
  Adapters = {a1, a2}
  Sandboxes = {s1, s2, s3}
  Owner <- MCOwner
  Hash <- MCHash
  PoolSize = 2
  None = None
  MaxFaults = 1
INVARIANTS
  Firewalled
  AddressIsExclusive
  RunningIsConnected
PROPERTIES
  OrphansAreRemoved
