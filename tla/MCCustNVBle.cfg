\* Expected to be violated.
CONSTANTS
  Cell <- ThreeCells
  AtSets <- GoodSets
  BlePins = {1662}
  BleParas <- OneBle
  Orders = {"restore"}
  MaxMsgs = 2
SPECIFICATION Spec
INVARIANT BleReadsCurrent
