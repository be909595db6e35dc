SPECIFICATION SketchSpec
CONSTANTS
  HeaderBytes = 3
  RowBytes = 2
  AlignBytes = 4
  MaxWindowBytes = 6
  MaxGapRows = 1
  Amplification <- WindowRatio
  SketchPlans <- FourPoints
  MinChunkRows = 1
  ChunkBytes = 2
  BuildRowBytes = 1
  SamplePoints = 3
  PointAt <- PointValues
INVARIANT
  SketchesMatch
CHECK_DEADLOCK FALSE
