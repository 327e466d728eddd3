SPECIFICATION FairSpec
CONSTANTS
  k1 = k1
  k2 = k2
  r1 = r1
  r2 = r2
  r3 = r3
  r4 = r4
  Conns = {k1, k2}
  Regs = {r1, r2, r3, r4}
  RegConn <- MCRegConn
  RegKey <- MCRegKey
  Emissions = {m1}
  EventName <- MCEventName
  Names = {"e", ""}
  Wildcard = ""
  Mixes <- MCMixes
  Fallible = {k1}
  Undecodable = 1
INVARIANTS OneCopy WireAgrees
PROPERTY EventReaches
CHECK_DEADLOCK FALSE
