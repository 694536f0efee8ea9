----------------------------- MODULE MCProfile ------------------------------
(* Profile with interchangeable requests, users and e-mails. *)
EXTENDS Profile, TLC
Symmetry == Permutations(Req) \cup Permutations(User) \cup Permutations(Email)
=============================================================================
