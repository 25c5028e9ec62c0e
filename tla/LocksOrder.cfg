\* Every kind of transaction; the request of d2 is still to be accepted.
CONSTANTS
  Session = {s1, s2, s3}
  Dispatch = {d1, d2}
  Fresh = {d2}
  Provider = {p1}
  Driver = {r1, r2}
  Vehicle = {v1}
  User = {u1}
  Fleet <- AllInOneFleet
  Operation <- Everything
  None = None
SPECIFICATION Spec
SYMMETRY Connections
INVARIANTS
  OnlyKnownDeadlocks
