--------------------------- MODULE MCSocialLogin ----------------------------
(* SocialLogin with interchangeable logins and callbacks. *)
EXTENDS SocialLogin, TLC
Symmetry == Permutations(Logins) \cup Permutations(Callbacks)
=============================================================================
