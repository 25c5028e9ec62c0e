\* One dispatch, two providers and a driver that works for one of them and
\* also on its own account; all of them but p2 come and go.
CONSTANTS
  d1 = d1  d2 = d2  p1 = p1  p2 = p2  r1 = r1  r2 = r2  v1 = v1  v2 = v2  w1 = w1  w2 = w2
  None = None
  Dispatch = {d1}
  Provider = {p1, p2}
  Driver = {r1}
  Vehicle = {v1, w1}
  Employer <- MCEmployer
  VehicleOwner <- MCVehicleOwner
  Monetized = {d1}
  OpenToIndependent = {d1}
  PreAward <- NobodyBefore
  Price <- MCPrice
  MaxBalance = 2
  Movements <- Amounts
  Volatile = {p1, r1, v1, w1}
SPECIFICATION Spec
INVARIANTS
  TypeOK ClaimMatchesCandidates NoWithdrawalMidService DeliveredOnce CancelledIsOver
