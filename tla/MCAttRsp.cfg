CONSTANTS
  MaxRsp = 2
  MaxMsgs = 2
  MaxSignals = 4
SPECIFICATION Spec
INVARIANTS BuffersAreAccountedFor HeldIsWatched AwakeForMessages
PROPERTIES HeldIsReleased
