CONSTANTS
  Resources = {}
  MaxGeneration = 3
  MaxOwners = 1
  MaxPendingSubmissions = 1
  SurfaceIds = {s1}
  Surface = s1
  Sizes = {small, large}
  WantedSize = small
  OverBound = {huge}
  BadSize = minimized
  MaxRevision = 2
  Revisions <- FrameCounters
  Frames = {}
  Renderable = {}
  NoFrame = NoFrame
  MaxFence = 1
  MaxPendingWork = 2
  MaxEvents = 2
SPECIFICATION WindowSpec
VIEW LoopState
CHECK_DEADLOCK FALSE
PROPERTIES
  SkipsNeverLatch
  SettledSizeReachesSurface
  CloseIsHonoured
