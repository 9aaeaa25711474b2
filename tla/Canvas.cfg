CONSTANTS
  Calls <- ThreeCalls
  Hybrid = TRUE
  Dpis = {screen, print}
  OriginalDpi = screen
  FigureDpi = FigureDpi
  InvalidDpi = InvalidDpi
  MaxGeneration = 3
  Scale = 8
  Fine = 4
  Levels = 16
  Width = 10
  Height = 10
  MaxCells = 1000
  SnapLimit = 10
  PointLimit = 60
  MaxDepth = 8
  PathCommands <- SmallCommands
  SuperSample = 4
  LegacySample = 2
  FlattenDepth = 4
  SafeBound = 10000
  MaxMask = 2000
  MaxSide = 100
  MaxOutput = 2000
  Unit = 1800
  Frames <- SmallFrames
SPECIFICATION PythonSpec
CONSTRAINT ThreadsInPairs
INVARIANTS
  DiagnosticsOfNewestDelivery
  FigureIsGivenBack
  MasksAreExact
  GapsAreNotBridged
PROPERTIES
  OlderFailuresWithdrawNothing
  PaintIsOverlay
