---------------------------- MODULE MCPeriphery -----------------------------
(* Instances of Periphery.                                                 *)
EXTENDS Periphery
=============================================================================
