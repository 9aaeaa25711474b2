CONSTANTS
  Resources = {r1}
  MaxGeneration = 2
  MaxOwners = 2
  MaxPendingSubmissions = 2
  SurfaceIds = {s1, s2}
  Sizes = {small, large}
  BadSize = BadSize
  Revisions = {0, 1}
  Frames = {good, bad}
  Renderable = {good}
  NoFrame = NoFrame
  MaxFence = 3
  MaxPendingWork = 2
SPECIFICATION Spec
VIEW WithoutResult
SYMMETRY Symmetry
INVARIANTS
  QueueHoldsOnlyNewest
  FreshTokenHasTicket
  NoLeaseOutlivesItsOperation
  CommitIsAdmissible
  DrawableIsReady
PROPERTIES
  ImplementsGate
