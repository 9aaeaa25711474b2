CONSTANTS
  Calls <- TwoCalls
  Hybrid = TRUE
  Dpis = {screen, print}
  OriginalDpi = screen
  FigureDpi = FigureDpi
  InvalidDpi = InvalidDpi
  MaxGeneration = 2
SPECIFICATION Spec
PROPERTIES
  StaleNeverOverwritesNewer
