SPECIFICATION Spec
CONSTANTS
  Points <- FourPoints
  Param <- TwoKeys
  RawAssign <- FewAssignments
  BufferPoints = 2
  BatchPoints = 1
  Inflight = 2
  ReorderCapacity = 3
  Threads = 2
  Callers = {c1, c2}
  ChunkPoints = 1
  QueueDepth = 1
  GateBytes = 2
  ChildDepthLimit = 1
  MaxDepth = 4
  MaxAttempts = 2
  MaxLeaders = 3
  MinShrink = 1
  HardCap = 2
  Builds = 2
  MaxFaults = 1
INVARIANTS TypeOK LeavesCover ReuseIsFresh RecordsMatchPoints ErrorsHaveCause
PROPERTY PipelinesEnd
