---------------------------- MODULE MCAdminToken ----------------------------
(* AdminToken with two callers and a margin of three time units. *)
EXTENDS AdminToken
=============================================================================
