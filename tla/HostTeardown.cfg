SPECIFICATION FairSpec
CONSTANTS
  c1 = c1  c2 = c2  r1 = r1  r2 = r2  r3 = r3
  Conns = {c1, c2}
  Modules <- MCModules
  Requests = {r1, r2, r3}
  Of <- MCOf
INVARIANTS HandlerAlive NoneSurvives
PROPERTY CallAnswered
CHECK_DEADLOCK FALSE
