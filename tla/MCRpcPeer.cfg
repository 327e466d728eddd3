SPECIFICATION FairSpec
CONSTANTS
  CallIds = {c1}
  MethodIds = {m1}
  Stoppers = {s1, s2}
  Io = io
INVARIANTS AtMostOnce NoneStranded ClosedMeansUnsent
PROPERTY ImplementsContract
CHECK_DEADLOCK FALSE
