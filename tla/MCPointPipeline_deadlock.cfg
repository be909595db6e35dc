SPECIFICATION FairSpec
CONSTANTS
  Configs <- OneBatchPerWorker
  RowBytes = 2
  ReadFaults = {}
  ConsumeFaults = {}
PROPERTY
  Returns
CHECK_DEADLOCK FALSE
