--------------------------- MODULE MCRegistration ---------------------------
(* Registration with four requests.  Requests and e-mails are told apart   *)
(* by nothing but equality, so they may be permuted.                       *)
EXTENDS Registration, TLC

Symmetry == Permutations(Req) \cup Permutations(Email)
=============================================================================
