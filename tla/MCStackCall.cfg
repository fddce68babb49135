SPECIFICATION Spec
CONSTANTS
  AppCalls <- SoundCalls
  CmdCalls <- StoreCalls
  Builds <- BothBuilds
  MaxRequests = 2
  MaxMsgs = 1
INVARIANTS
  ArgsOutlive
  AnswerIsOwn
PROPERTIES
  CallReturns
  IsRemoteCall
CHECK_DEADLOCK FALSE
