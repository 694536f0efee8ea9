\* A login and a request with its token.
CONSTANTS
  Req = {r1, r2}
  User = {u1}
  FirstAdmins = {}
  MaxFaults = 0
  None = None
SYMMETRY Symmetry
SPECIFICATION Spec
CHECK_DEADLOCK FALSE
INVARIANT BearerLetIn
