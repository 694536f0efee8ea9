\* Four one-shot requests, an admin and another user, one fault.
\* The system may stop: every request makes one call.
CONSTANTS
  Req = {r1, r2, r3, r4}
  User = {u1, u2}
  FirstAdmins = {u1}
  MaxFaults = 1
  None = None
SYMMETRY Symmetry
SPECIFICATION Spec
CHECK_DEADLOCK FALSE
INVARIANTS
  TypeOK
  AdminsFromAdmins
  AnswerTellsEffect
  LogoutFinal
