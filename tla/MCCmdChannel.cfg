\* Room for more than two of the longest lines; two bytes NUL, failing
\* allocations or lost reads.
CONSTANTS
  Byte = {"c", "r", "n", "0"}
  Capacity = 7
  MaxChunk = 2
  MaxLine = 3
  MaxMishaps = 2
SPECIFICATION Spec
INVARIANTS IdleIsReady
PROPERTIES HandlesLinesInOrder LinesAreHandled
