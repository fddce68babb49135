\* Expected to be violated.
CONSTANTS
  Cell <- ThreeCells
  AtSets <- BadPinSets
  BlePins = {1662}
  BleParas <- OneBle
  Orders = {"restore"}
  MaxMsgs = 2
SPECIFICATION Spec
INVARIANT InRangeIsAccepted
