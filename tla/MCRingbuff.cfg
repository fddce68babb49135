CONSTANTS
  Byte = {0, 1, 2}
  size = 4
  MaxCall = 3
SPECIFICATION Spec
INVARIANTS FieldsAgree ReadsOldest
PROPERTIES IsFifo
