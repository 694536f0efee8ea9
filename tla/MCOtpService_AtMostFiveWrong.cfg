CONSTANTS
  Req = {r1, r2}
  Key = {k1}
  Code = {c1, c2}
  MaxRetries = 5
  MaxFaults = 0
  NoDoc = NoDoc
SPECIFICATION Spec
INVARIANT
  AtMostFiveWrong
