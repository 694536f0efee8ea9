\* Two workers, two partitions with two records together, one fault, one rebalance
\* or shutdown.  Liveness, so without symmetry.  The events are finite: the system
\* may stop.
CONSTANTS
  p1 = p1
  p2 = p2
  Worker = {w1, w2}
  Part = {p1, p2}
  Logs <- Users
  MaxLog = 2
  MaxFaults = 1
  MaxMoves = 1
  Nobody = Nobody
SPECIFICATION FairSpec
CHECK_DEADLOCK FALSE
INVARIANTS
  TypeOK
  CommittedAccounted
  FirstInOrder
PROPERTY EventuallyPublished
