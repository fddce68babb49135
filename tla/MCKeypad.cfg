CONSTANTS
  Key = {"1", "8", "*", "#"}
  KP_MAX_INPUT = 5
SPECIFICATION Spec
INVARIANTS ReportIsRight WaitsOnlyForCodes
PROPERTIES PressIsAnswered
