\* One change, no fault.
CONSTANTS
  Req = {r1, r2}
  Email = {e1}
  User = {u1}
  MaxFaults = 0
  MaxMoves = 0
  None = None
SYMMETRY Symmetry
SPECIFICATION Spec
CHECK_DEADLOCK FALSE
INVARIANT ChangeWorks
