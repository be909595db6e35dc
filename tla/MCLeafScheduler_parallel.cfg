CONSTANTS
  l1 = l1
  l2 = l2
  l3 = l3
  l4 = l4
  Leaves = {l1, l2, l3, l4}
  Size <- MCSize
  Emitters = {e1, e2}
  Drainers = {d1, d2}
  Main = Main
  NoLeaf = NoLeaf
  NoLimit = NoLimit
  BacklogCapacity = 1
  WorkerCapacity = 2
  SoftLimit = 0
  WorkTarget = 1
  WordMod = 8
  BatchEnabled = TRUE
  BatchLeaves = 2
  BatchPoints = 4
  MinBacklog = 1
  PostScale = 1
  PostLeaves = 2
  PostPoints = 4
  MaxHydrations = 1
  LimitPairs <- NoPairs
  LargeEmitters = {}
  LeafFaults = {"err", "panic"}
  ProducerFaults = {"err", "panic"}
SPECIFICATION Spec
SYMMETRY MCSymmetry
INVARIANTS TypeOK OutstandingExact ExactlyOnce OkMeansSettled CreditExact HydrationBound
ACTION_CONSTRAINT SlotContention
