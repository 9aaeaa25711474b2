CONSTANTS
  Resources = {r1, r2}
  MaxGeneration = 1
  MaxOwners = 3
  MaxPendingSubmissions = 2
  Leases = {l1, l2}
  NoLease = NoLease
  MaxSequence = 2
  MaxInvalidations = 2
SPECIFICATION Spec
SYMMETRY Symmetry
INVARIANTS
  OwnersCounted
  OnlyCurrentDevice
PROPERTIES
  RetiredOnlyWhenCompleted
