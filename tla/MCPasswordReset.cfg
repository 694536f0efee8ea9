\* Four requests of any kind, two users, one fault, two changes of e-mail: one
\* user drops it, the other takes it.
\* The system may stop: every request makes one call.
CONSTANTS
  Req = {r1, r2, r3, r4}
  Email = {e1}
  User = {u1, u2}
  MaxFaults = 1
  MaxMoves = 2
  None = None
SYMMETRY Symmetry
SPECIFICATION Spec
CHECK_DEADLOCK FALSE
INVARIANTS
  TypeOK
  PasswordTraceable
  AnswerIsTrue
PROPERTY ImplementsOneTimeSecret
