--------------------------- MODULE MCWebTransport ---------------------------
(***************************************************************************)
(* Instances of WebTransport for TLC.                                      *)
(***************************************************************************)
EXTENDS WebTransport

CONSTANTS p1, p2, h1, h2
=============================================================================
