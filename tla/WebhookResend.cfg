\* A delivered event is sent again and the receiver says no.
CONSTANTS
  Event = {e1}
  Poller = {w1}
  Request = {r1}
  None = None
  MaxAttempts = 2
  Limit = 2
SPECIFICATION Spec
INVARIANTS
  ResendIsAudited
