\* Two logins, three callbacks, an allowed provider and another, one fault.
\* The system may stop: every request makes one call.
CONSTANTS
  Logins = {l1, l2}
  Callbacks = {c1, c2, c3}
  Provider = {google, other}
  Allowed = {google}
  HasCache = TRUE
  MaxFaults = 1
  None = None
SYMMETRY Symmetry
SPECIFICATION Spec
CHECK_DEADLOCK FALSE
INVARIANTS
  TypeOK
  EventsMatchLogins
  RejectedForAReason
PROPERTY ImplementsOneTimeSecret
