CONSTANTS
  Cell <- ThreeCells
  AtSets <- SomeSets
  BlePins = {1662}
  BleParas <- OneBle
  Orders = {"restore", "write"}
  MaxMsgs = 1
SPECIFICATION Spec
INVARIANTS FlashInRange OkIsDurable QuietIsSaved
PROPERTIES FlashCatchesUp
