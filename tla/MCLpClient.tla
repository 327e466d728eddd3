------------------------------ MODULE MCLpClient ------------------------------
(***************************************************************************)
(* Instances of LpClient for TLC.                                          *)
(***************************************************************************)
EXTENDS LpClient

CONSTANTS w1, s1
=============================================================================
