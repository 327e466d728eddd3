----------------------- MODULE MCPendingSubscriptions -----------------------
(***************************************************************************)
(* s1 subscribes to the object a, s2 to b, and r waits for a, whose policy *)
(* may be set to Manual.  At most two of the three are made.               *)
(***************************************************************************)
EXTENDS PendingSubscriptions

MCObjectOf == [s \in Subs |-> IF s = "s2" THEN "b" ELSE "a"]
MCPolicies == {<<"a", "Manual">>}
MCMixes == {{"s1", "s2"}, {"s1", "r"}}
=============================================================================
