\* A pass and a manual push of one event, a rescue past the budget, fairness.
CONSTANTS
  Event = {e1}
  Poller = {w1}
  Request = {r1}
  None = None
  MaxAttempts = 2
  Limit = 3
SPECIFICATION FairSpec
INVARIANTS
  HistoryMatchesCount DeliveredMeansReceived LeaseHolderCanRecord BudgetKept
PROPERTIES
  EndingsStand HandedOverOrGivenUp
