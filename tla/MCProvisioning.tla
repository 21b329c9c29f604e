--------------------------- MODULE MCProvisioning ---------------------------
(***************************************************************************)
(* TLC instances of Provisioning.                                          *)
(***************************************************************************)
EXTENDS Provisioning

CONSTANTS s1, s2

MovedBoth == {[db |-> "data", cache |-> "data"]}
=============================================================================
