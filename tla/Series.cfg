SPECIFICATION AllSpec
CONSTANTS
  Pieces <- MCPieces
  Viewports <- MCViewports
  MaxSourceLen = 10
  MaxPointsPerChunk = 8
  LastRevision = 8
  BlockSize = 2
  PointsPerBin = 1
  MaxBins = 3
  Specs <- MCSpecs
  TickRanges <- MCTickRanges
  Unit = 60
  MaxFramePoints = 7
  MaxFrameSegments = 3
  MaxTicksPerAxis = 10
  FixtureMarks <- MCFixtureMarks
  MaxRetained = 5
  HitHalfWidth = 2
  Arrays <- MCArrays
  Requests <- MCRequests
  FirstMemory <- MCMemory
  Scribbles <- MCScribbles
  MaxWritten = 1
  Word = 200
  Alignment = 8
  MaxPoints = 8
  MaxSourcePoints = 8
  Scenes <- MCScenes
  Sheets <- MCSheets
  MaxDimension = 24
  MaxPixels = 480
  MaxOutput = 16000
  MaxWork = 34000
  MaxPathPoints = 700
  MaxPdfSeries = 3
  LargestFloat = 6480
  Fine = 1
INVARIANTS
  StorageHoldsSource
  ChunksHoldStorage
  SummaryIsScan
  SelectionKeepsTheCurve
  PathsAreVisibleCurve
  ReadsStayInside
  DrawsWhatWasHeld
  LayersAgree
  ReadingsAgree
  PlannedFilesSucceed
  StrokesAreDrawnOrRefused
  FileResolves
  SinksAgree
  ShownIsFound
CHECK_DEADLOCK FALSE
