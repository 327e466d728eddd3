--------------------------- MODULE MCQtLogosObject ---------------------------
(***************************************************************************)
(* Instance of QtLogosObject for TLC.                                      *)
(***************************************************************************)
EXTENDS QtLogosObject

CONSTANTS a1, a2, s1, s2
=============================================================================
