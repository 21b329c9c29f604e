--------------------------- MODULE MCAutoProgress ---------------------------
(***************************************************************************)
(* TLC instances of AutoProgress.                                          *)
(***************************************************************************)
EXTENDS AutoProgress

CONSTANTS r1
=============================================================================
