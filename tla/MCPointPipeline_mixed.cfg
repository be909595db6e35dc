SPECIFICATION FairSpec
CONSTANTS
  Configs <- MixedConfigs
  RowBytes = 2
  ReadFaults = {"err", "panic"}
  ConsumeFaults = {"err"}
INVARIANTS
  TypeOK
  PermitsExact
  NoLostWakeup
  InOrder
  NoSpuriousError
PROPERTY
  ReturnsWhenRoomy
CHECK_DEADLOCK FALSE
