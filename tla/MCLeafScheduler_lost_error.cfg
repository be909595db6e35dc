CONSTANTS
  l1 = l1
  l2 = l2
  l3 = l3
  l4 = l4
  Leaves = {l1, l2}
  Size <- MCSize
  Emitters = {e1}
  Drainers = {d1, d2}
  Main = Main
  NoLeaf = NoLeaf
  NoLimit = NoLimit
  BacklogCapacity = 2
  WorkerCapacity = 2
  SoftLimit = 0
  WorkTarget = 0
  WordMod = 8
  BatchEnabled = TRUE
  BatchLeaves = 2
  BatchPoints = 4
  MinBacklog = 1
  PostScale = 1
  PostLeaves = 2
  PostPoints = 4
  MaxHydrations = 0
  LimitPairs <- NoPairs
  LargeEmitters = {}
  LeafFaults = {"err"}
  ProducerFaults = {}
SPECIFICATION Spec
INVARIANT OkMeansBuilt
