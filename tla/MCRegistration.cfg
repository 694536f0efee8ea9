\* Four one-shot requests, two e-mails, one user name, two faults.  The
\* system may stop: every request is answered.
CONSTANTS
  Req = {r1, r2, r3, r4}
  Email = {e1, e2}
  Name = {n1}
  MaxFaults = 2
  Free = Free
SPECIFICATION Spec
SYMMETRY Symmetry
CHECK_DEADLOCK FALSE
INVARIANTS
  TypeOK
  LockExcludes
  AtMostOneRegistered
  AnswersTrue
  BusyForAReason
