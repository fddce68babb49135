CONSTANTS
  Writers = {"cmd"}
  MaxRx = 1
  EarlyEdge = FALSE
SPECIFICATION MrdySpec
INVARIANTS OneTx WritesArePowered RunServesHeldSleeps NeverDeaf RingBeforeUse SettledIsSeen
PROPERTIES CloseCutsNoWrite HostIsServed SuspendIsServed WriterIsServed
