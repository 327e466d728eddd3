SPECIFICATION FairSpec
CONSTANTS
  w1 = w1  s1 = s1
  Workers = {w1}
  Subs = {s1}
  MaxDepth = 3
INVARIANTS QuietAfterReturn OwnerAlive OnlyNestedCallsDeadlock
PROPERTY EventuallyUntracked
CHECK_DEADLOCK FALSE
