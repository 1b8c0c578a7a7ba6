SPECIFICATION FairSpec
CONSTANTS
  Names = {a, b}
  Temps = {t, u}
  Inodes = {i1, i2, i3, i4}
  None = None
  MaxSize = 0
  MaxFaults = 1
INVARIANTS
  TypeOK
  UploadIsAtomic
  OneOverlay
PROPERTIES
  RequestEnds
