---------------------------- MODULE MCSessions ----------------------------
(* Sessions with interchangeable requests. *)
EXTENDS Sessions, TLC

SessionsSymmetry == Permutations(Requests)
=============================================================================
