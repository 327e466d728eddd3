--------------------------- MODULE MCRemoteAcquire ---------------------------
(***************************************************************************)
(* Instances of RemoteAcquire for TLC.                                     *)
(***************************************************************************)
EXTENDS RemoteAcquire

CONSTANTS w1, w2, r1, r2
=============================================================================
