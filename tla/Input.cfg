CONSTANTS
  Axes <- OneAxis
  Coordinates <- Sparse
  PanParts = 2
  HistoryLimit = 3
  NoView = NoView
  None = None
  Ids = {k1}
  Codes <- AllCodes
VIEW WithoutFocus
CONSTRAINT OneHome
SPECIFICATION InputSpec
INVARIANTS
  GestureBeganHere
PROPERTIES
  UndoUndisturbed
