--------------------------- MODULE OneTimeSecret ---------------------------
(***************************************************************************)
(* What a secret that is good for one use promises.  A client is let in    *)
(* with a secret, crosses it out and goes on to use it.  Clients may be    *)
(* let in side by side, but nobody is let in with a secret that somebody   *)
(* else has crossed out, unless the crossing out failed, or with one that  *)
(* has run out.  Where and how the secrets are kept is left open.          *)
(*                                                                         *)
(* PasswordReset implements this by the reset tokens, SocialLogin by the   *)
(* states of a social login.                                               *)
(***************************************************************************)
CONSTANTS Client, Secret, None

VARIABLES
  inside,  \* client -> the secret it has been let in with and not crossed out
  used,    \* client -> the secret it has crossed out
  failed,  \* secrets some client failed to cross out
  dead     \* secrets that ran out

vars == <<inside, used, failed, dead>>

Init ==
  /\ inside = [c \in Client |-> None]
  /\ used = [c \in Client |-> None]
  /\ failed = {}
  /\ dead = {}

Good(s) == s \notin dead /\ (s \in failed \/ \A c \in Client : used[c] # s)

LetIn(c, s) ==
  /\ inside[c] = None /\ used[c] = None
  /\ Good(s)
  /\ inside' = [inside EXCEPT ![c] = s]
  /\ UNCHANGED <<used, failed, dead>>

CrossOut(c) ==
  /\ inside[c] # None
  /\ used' = [used EXCEPT ![c] = inside[c]]
  /\ inside' = [inside EXCEPT ![c] = None]
  /\ failed' \in {failed, failed \cup {inside[c]}}
  /\ UNCHANGED dead

RunOut(s) ==
  /\ dead' = dead \cup {s}
  /\ UNCHANGED <<inside, used, failed>>

Next ==
  \/ \E c \in Client : CrossOut(c) \/ \E s \in Secret : LetIn(c, s)
  \/ \E s \in Secret : RunOut(s)

Spec == Init /\ [][Next]_vars
=============================================================================
