SPECIFICATION Spec
CONSTANTS
  Frames <- MCFrames
  MaxDimension = 6
  MaxPixels = 12
  MaxSeries = 2
  MaxSegments = 3
  MaxPoints = 6
  MaxDraws = 3
  MaxResources = 4
  MaxLineWidth = 4
  MaxTexture = 5
  MaxBuffer = 14
  MaxTriangles = 13
  RowAlignment = 2
  MaxSingle = 8
  MaxFrames = 2
  MaxGeneration = 1
INVARIANTS
  PictureShowsItsFrame
  RoomIsFound
PROPERTY OnlySpoiledRenderersFail
CHECK_DEADLOCK FALSE
