CONSTANTS
  Param <- TwoParam
  HostLines <- SomeLines
  BlePins = {}
  BleParas <- TwoBle
  MaxAsked = 2
  MaxMsgs = 1
  MaxMishaps = 1
SPECIFICATION Spec
INVARIANTS ConnIsTold ParametersAreTold OneAnswerEach VisibleOnceStarted
PROPERTIES AppGoesOn
