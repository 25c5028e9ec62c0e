\* Three calls over two keys; a lease can be lost, a permit expire, and
\* neither limit admits all three.
CONSTANTS
  Call = {c1, c2, c3}
  Key = {k1, k2}
  Plan = {cheap, dear}
  None = None
  LeaseTime = 2
  MaxAttempts = 2
  Budget = 2
  ReserveTime = 2
  StartBy = 1
  RouteTime = 1
  ProtectTime = 2
  Window = 2
  PerWindow = 2
  Concurrent = 2
  MaxTime = 3
SPECIFICATION Spec
CHECK_DEADLOCK FALSE
SYMMETRY Interchangeable
INVARIANTS
  WithinLimits AnswersStand
PROPERTIES
  IssuedByHolder
