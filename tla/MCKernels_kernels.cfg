SPECIFICATION KernelSpec
CONSTANTS
  Candidates <- FiveTargets
  Hash <- ThreeBuckets
  LMax = 3
  Grain = 2
  HeaderBytes = 3
  RowBytes = 2
  AlignBytes = 4
  MaxWindowBytes = 6
  MaxGapRows = 1
  Amplification <- MCAmplification
  Stores <- MCStores
  Requests <- MCRequests
  QueueDepth = 2
  MaxReads = 2
  MaxReadFaults = 1
  SketchPlans <- MCSketchPlans
  MinChunkRows = 1
  ChunkBytes = 2
  BuildRowBytes = 1
  SamplePoints = 3
  PointAt <- MCPointAt
  LuneScenarios <- MCLuneScenarios
  LuneKinds = {"memory", "raw", "digest"}
  LunePoints = 5
  LuneShards = 2
  LuneWidth = 3
  LuneDegree = 2
  LuneCore = 1
  VictimWitnesses = 2
  InlineWitnesses = 1
  RowGrowth = 1
  BufferRecords = 2
  DigestSlots = 4
  LoadRecords = 3
  LeaderBlock = 2
  GroupDims = 1
  StreamInputs <- MCStreamInputs
  PoolThreads = 3
  ChannelSlots = 2
  MaxStreamFaults = 1
  LeafJobSets <- MCLeafJobSets
  CpuBudget = 2
  MinWorkerShare = 1
  TileRows <- MCTileRows
  QueryTile = 1
  BlockSize = 2
  WaveWidth = 2
  MaxLeafFaults = 1
INVARIANTS
  WellFormed
  NearestKept
  RowsGathered
  SketchesKept
  LuneRowExact
  AnswersExact
PROPERTY
  OperatorEnds
