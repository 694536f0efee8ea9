---------------------------- MODULE MCOtpService ----------------------------
(* OtpService on small sets; keys and requests are interchangeable. *)
EXTENDS OtpService, TLC

Symmetry == Permutations(Req) \cup Permutations(Key) \cup Permutations(Code)
=============================================================================
