SPECIFICATION Spec
CONSTANTS
  Candidates <- OneOffer
  Hash <- TwoBuckets
  LMax = 2
  Grain = 1
INVARIANT
  OrderIndependent
