----------------------------- MODULE MCHttpApi ------------------------------
(* HttpApi with interchangeable requests and users. *)
EXTENDS HttpApi, TLC
Symmetry == Permutations(Req)
=============================================================================
