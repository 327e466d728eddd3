SPECIFICATION FairSpec
CONSTANTS
  Objects = {"a", "b"}
  Subs = {"s1", "s2", "r"}
  Readiness = {"r"}
  ObjectOf <- MCObjectOf
  Transports = {TRUE, FALSE}
  Policies <- MCPolicies
  Watchers = {"a"}
  Mismatched = {"a"}
  Reentrant = {"add", "rearm"}
  Mixes <- MCMixes
  MaxFaults = 3
INVARIANTS OnlyEmptyRearmForgets ArmedIsAttached
PROPERTY NoneLeftBehind
