\* Expected to be violated.
CONSTANTS
  Led = {"test"}
  Wrap = 10
  LeftSize = 4
  Calls <- BlinkCalls
SPECIFICATION Spec
PROPERTIES BlinkGoesOn
