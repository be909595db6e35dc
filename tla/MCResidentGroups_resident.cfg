SPECIFICATION Spec
CONSTANTS
  w1 = w1
  w2 = w2
  e1 = e1
  e2 = e2
  Workers = {w1, w2}
  Emitters = {e1, e2}
  Instances <- MCInstances
  AccessorBytes = 8
  MaxFaults = 2
INVARIANTS TypeOK BytesBounded OkBuildsEveryLeaf
PROPERTY CallReturns
CHECK_DEADLOCK FALSE
