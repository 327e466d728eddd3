SPECIFICATION FairAcquireSpec
CONSTANTS
  w1 = w1  w2 = w2  r1 = r1  r2 = r2
  Waits = {w1, w2}
  Requests = {r1, r2}
  MaxProbes = 2
  MaxNodes = 2
INVARIANTS OnlyRequestsDangle
PROPERTIES CancelledIsSilent WaitServed
CHECK_DEADLOCK FALSE
