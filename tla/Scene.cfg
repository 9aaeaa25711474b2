CONSTANTS
  Axes = {x}
  Ranges = {positive, mixed}
  PositiveRanges = {positive}
  AnnotationValues = {a1}
  NoAnnotation = NoAnnotation
  NoSeries = NoSeries
  NoTransaction = NoTransaction
  LastSeriesId = 2
  LastEpoch = 1
  LastAnnotationId = 1
  MaxAnnotations = 1
  MaxRevision = 2
  MaxSourceLen = 1
SPECIFICATION Spec
VIEW WithoutResult
INVARIANTS
  RevisionsNameContents
  IdentitiesNeverReused
PROPERTIES
  ImplementsVersionedScene
