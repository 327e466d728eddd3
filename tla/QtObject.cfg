SPECIFICATION FairHandleSpec
CONSTANTS
  a1 = a1  a2 = a2  s1 = s1  s2 = s2
  Async = {a1}
  Sync = {s1, s2}
  MaxCalls = 2
  MaxHelpers = 2
INVARIANTS DeliveredOnce TimeoutIsReal QuietReleaseIsSafe
PROPERTY AnsweredUnlessTornDown
CHECK_DEADLOCK FALSE
