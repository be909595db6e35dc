CONSTANTS
  l1 = l1
  l2 = l2
  l3 = l3
  l4 = l4
  Leaves = {l1, l2}
  Size <- MCSize
  Emitters = {e1}
  Drainers = {d1, d2}
  Main = Main
  NoLeaf = NoLeaf
  NoLimit = NoLimit
  BacklogCapacity = 2
  WorkerCapacity = 3
  SoftLimit = 1
  WorkTarget = 1
  WordMod = 8
  BatchEnabled = TRUE
  BatchLeaves = 2
  BatchPoints = 4
  MinBacklog = 1
  PostScale = 2
  PostLeaves = 4
  PostPoints = 4
  MaxHydrations = 1
  LimitPairs <- MCLimitPairs
  LargeEmitters = {e1}
  LeafFaults = {"panic"}
  ProducerFaults = {"err", "panic"}
SPECIFICATION FairSpec
PROPERTY Termination
INVARIANTS DrainersExact NoStrandedBacklog
