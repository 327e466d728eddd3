--------------------------- MODULE MCEventRouting ---------------------------
(***************************************************************************)
(* Two consumers: on one connection a handle with a sibling on the same    *)
(* event, or with a wildcard sibling, or with a handle of the other.       *)
(***************************************************************************)
EXTENDS EventRouting

CONSTANTS k1, k2, r1, r2, r3, r4

MCRegConn == [r \in Regs |-> IF r = r4 THEN k2 ELSE k1]
MCRegKey == [r \in Regs |-> IF r = r3 THEN Wildcard ELSE "e"]
MCEventName == [m \in Emissions |-> "e"]
MCMixes == {{r1, r2}, {r1, r3}, {r1, r4}}
=============================================================================
