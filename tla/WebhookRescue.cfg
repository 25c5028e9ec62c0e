\* A rescue of an event given up before its budget was spent.
CONSTANTS
  Event = {e1}
  Poller = {w1}
  Request = {r1}
  None = None
  MaxAttempts = 3
  Limit = 3
SPECIFICATION Spec
PROPERTIES
  RescueBuysOneAttempt
