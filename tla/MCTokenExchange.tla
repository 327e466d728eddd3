--------------------------- MODULE MCTokenExchange ---------------------------
(***************************************************************************)
(* Instances of TokenExchange.                                             *)
(***************************************************************************)
EXTENDS TokenExchange
=============================================================================
