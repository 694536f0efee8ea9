\* Margin = MaxLatency + MaxUse: the tightest instance the assumptions allow.
\* Lifetime 6 is cached for 3 units; 4 is too short to be cached for long.
CONSTANTS
  Caller = {c1, c2}
  Margin = 3
  Lifetime = {4, 6}
  MaxLatency = 2
  MaxUse = 1
  MaxTime = 9
  NoToken = NoToken
  Nobody = Nobody
SPECIFICATION FairSpec
INVARIANTS
  TypeOK
  LoginJustified
  HeldAlive
  ReadyIsRecent
PROPERTIES
  ImplementsTokenSource
