SPECIFICATION Spec
CONSTANTS
  s1 = s1  s2 = s2  x1 = x1  k1 = k1  k2 = k2  small = small  im = im
  None = None
  Sandboxes = {s1, s2}
  Strays = {}
  Keys = {k1}
  Configs = {small}
  Images = {im}
  Demand <- MCDemand
  ImageOf <- MCImageOf
  HasTtl <- MCHasTtl
  Capacity <- MCCapacity
SYMMETRY MCSymmetry
INVARIANTS
  DeletedIsGone
  ReservationsHold
  JournalLeads
  ResponsesFit
PROPERTIES
  PromisesAreKept
