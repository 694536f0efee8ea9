----------------------------- MODULE MCUserCdc ------------------------------
(* UserCdc with two workers and two partitions.                            *)
EXTENDS UserCdc

CONSTANTS p1, p2

Content(l1, l2) == [p \in Part |-> IF p = p1 THEN l1 ELSE l2]

\* One user changed twice; one created and then deleted, for which there is no
\* event; two users, of two partitions, one changed and one deleted.
Users ==
  {Content(<<"u", "u">>, << >>), Content(<<"c", "d">>, << >>), Content(<<"u">>, <<"d">>)}
=============================================================================
