\* Two dispatches compete for one driver that is also independent, and for
\* the credits of one provider.  d1 was held by p1 before charging began; d2 is
\* a LEGACY dispatch.
CONSTANTS
  d1 = d1  d2 = d2  p1 = p1  p2 = p2  r1 = r1  r2 = r2  v1 = v1  v2 = v2  w1 = w1  w2 = w2
  None = None
  Dispatch = {d1, d2}
  Provider = {p1}
  Driver = {r1}
  Vehicle = {v1, v2, w1}
  Employer <- MCEmployer
  VehicleOwner <- MCVehicleOwner
  Monetized = {d1}
  OpenToIndependent = {d1, d2}
  PreAward <- P1Before
  Price <- MCPrice
  MaxBalance = 2
  Movements <- Amounts
  Volatile = {}
SPECIFICATION Spec
INVARIANTS
  OneJobAtATime WorkBelongsToHolder PairingFollowsWork BalanceIsLedger HolderPays
PROPERTIES
  KeepsContract
