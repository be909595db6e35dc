SPECIFICATION Spec
CONSTANTS
  NumPoints = 5
  ShardPoints = 2
  FlushThreshold = 2
  PartMaxRecords = 3
  MaxPartId = 9
  MaxDegree = 2
  Budget = 1
  MaxRuns = 2
  Dist <- Line
  Leaves <- TwoDataSets
  Configs <- AllConfigs
INVARIANTS
  TypeOK
  SegmentsExact
  NoSpuriousError
  RefusedKeepsGraph
  LoadsOnlyFinished
  OkLeavesOnlyTheGraph
PROPERTY
  RefinesCandidateGraph
