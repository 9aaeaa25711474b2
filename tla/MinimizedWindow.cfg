CONSTANTS
  Resources = {}
  MaxGeneration = 2
  MaxOwners = 1
  MaxPendingSubmissions = 1
  SurfaceIds = {s1}
  Surface = s1
  Sizes = {small, large}
  WantedSize = small
  OverBound = {}
  BadSize = minimized
  MaxRevision = 2
  Revisions <- FrameCounters
  Frames = {}
  Renderable = {}
  NoFrame = NoFrame
  MaxFence = 1
  MaxPendingWork = 2
  MaxEvents = 2
SPECIFICATION WindowSpec
CHECK_DEADLOCK FALSE
PROPERTIES
  MinimizedWindowStaysOpen
