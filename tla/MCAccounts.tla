---------------------------- MODULE MCAccounts ----------------------------
(* Accounts with two interchangeable requests and invitations. *)
EXTENDS Accounts, TLC

AccountsSymmetry == Permutations(Requests) \cup Permutations(Invites)
=============================================================================
