---------------------------- MODULE MCHostDispatch ----------------------------
(***************************************************************************)
(* Instances of HostDispatch: two clients, two modules; one client calls   *)
(* the second module and asks for its methods, the other, the module       *)
(* "caller", is granted a token there.                                     *)
(***************************************************************************)
EXTENDS HostDispatch

CONSTANTS c1, c2, r1, r2, r3

MCModules == <<"alpha", "beta">>
MCOf ==
  [r \in Requests |->
     CASE r = r1 -> [conn |-> c1, kind |-> "call", module |-> "beta", name |-> "none"]
       [] r = r2 -> [conn |-> c2, kind |-> "token", module |-> "beta", name |-> "caller"]
       [] r = r3 -> [conn |-> c1, kind |-> "methods", module |-> "alpha", name |-> "none"]]
=============================================================================
