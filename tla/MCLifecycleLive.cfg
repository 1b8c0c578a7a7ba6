SPECIFICATION FairSpec
CONSTANTS
  s1 = s1  s2 = s2  x1 = x1  k1 = k1  k2 = k2  small = small  im = im
  None = None
  Sandboxes = {s1}
  Strays = {x1}
  Keys = {k1}
  Configs = {small}
  Images = {}
  Demand <- MCDemand
  ImageOf <- MCNoImage
  HasTtl <- MCHasTtl
  Capacity <- MCCapacity
PROPERTIES
  EndedSandboxesGo
  StraysAreRemoved
