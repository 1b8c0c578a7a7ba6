SPECIFICATION FairSpec
CONSTANTS
  i1 = i1  i2 = i2  i3 = i3  s1 = s1  s2 = s2  d1 = d1  d2 = d2
  None = None
  Images = {i1, i2, i3}
  Sandboxes = {s1, s2}
  Deleters = {d1, d2}
  MaxPending = 2
  MaxUploads = 2
INVARIANTS
  SlotsAreCounted
  StoreAgrees
  ContainersKeepImage
PROPERTIES
  ImplementsTable
  BuildsEnd
