SPECIFICATION FairExchangeSpec
CONSTANTS
  Async = {a1, a2}
  Sync = {s1}
  MaxInvocations = 2
  MaxFaults = 1
INVARIANTS AnsweredOnce FirstCallsNotRejected
PROPERTY EveryCallAnswered
CHECK_DEADLOCK FALSE
