\* Two requests, one change of a dependency on top of any initial outage.  The
\* process may end.
CONSTANTS
  Request = {r1, r2}
  MaxChanges = 1
SPECIFICATION FairSpec
CHECK_DEADLOCK FALSE
INVARIANTS
  ProcessTypeOK
  WorkBeforeClose
  ExitZeroMeansServed
  ReadyMeansReached
PROPERTIES
  SignalEndsWork
  SecondSignalEnds
