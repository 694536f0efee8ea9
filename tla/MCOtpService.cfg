\* Two requests on one code with the limit of the code (5).
CONSTANTS
  Req = {r1, r2}
  Key = {k1}
  Code = {c1, c2}
  MaxRetries = 5
  MaxFaults = 2
  NoDoc = NoDoc
SYMMETRY Symmetry
SPECIFICATION Spec
CHECK_DEADLOCK TRUE
INVARIANTS
  TypeOK
  RetryAccounting
  GuessBound
  NoEarlyLockout
  ReuseBound
