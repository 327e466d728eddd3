SPECIFICATION FairSpec
CONSTANTS
  a1 = a1
  f1 = f1
  s1 = s1
  s2 = s2
  Async = {a1}
  Sync = {s1, s2}
  Multi = {a1, s1, s2}
  Foreign = {f1}
  ParkedCap = 1
  Env = {"fail", "disconnect", "release"}
  Mixes <- MCMixes
  NoCall = NoCall
INVARIANTS CallbackAtMostOnce CompletionNotLost NoUseAfterDelete
PROPERTY EveryCallAnswered
CHECK_DEADLOCK FALSE
