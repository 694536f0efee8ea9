\* Four requests of any kind, two users, two new e-mails, one fault.
\* The system may stop: every request makes one call.
CONSTANTS
  Req = {r1, r2, r3, r4}
  User = {u1, u2}
  Email = {e1, e2}
  MaxFaults = 1
  None = None
SYMMETRY Symmetry
SPECIFICATION Spec
CHECK_DEADLOCK FALSE
INVARIANTS
  TypeOK
  LostOnlyByOverlap
  EmailShown
