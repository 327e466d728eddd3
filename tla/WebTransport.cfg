SPECIFICATION FairWebSpec
CONSTANTS
  p1 = p1  p2 = p2  h1 = h1  h2 = h2
  PageConns = {p1, p2}
  HostConns = {h1, h2}
  MaxSends = 2
INVARIANTS DispatchEndsWithHost HearsUnlessOlderDestroyed
PROPERTY TeardownEnds
CHECK_DEADLOCK FALSE
