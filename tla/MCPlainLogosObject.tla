------------------------- MODULE MCPlainLogosObject -------------------------
(***************************************************************************)
(* One asynchronous call and a completion that is not its own, or two      *)
(* synchronous calls; every provider may defer.                            *)
(***************************************************************************)
EXTENDS PlainLogosObject

CONSTANTS a1, f1, s1, s2

MCMixes == {{a1, f1}, {s1, s2}}
=============================================================================
