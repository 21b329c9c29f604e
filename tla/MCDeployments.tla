--------------------------- MODULE MCDeployments ---------------------------
(***************************************************************************)
(* TLC instances of Deployments.                                           *)
(***************************************************************************)
EXTENDS Deployments
=============================================================================
