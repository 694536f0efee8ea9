-------------------------- MODULE MCPasswordReset --------------------------
(* PasswordReset with interchangeable requests and users. *)
EXTENDS PasswordReset, TLC
Symmetry == Permutations(Req) \cup Permutations(User)
=============================================================================
