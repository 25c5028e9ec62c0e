\* A completion races a cancellation.
CONSTANTS
  Session = {s1, s2}
  Dispatch = {d1}
  Fresh = {}
  Provider = {p1}
  Driver = {r1}
  Vehicle = {v1}
  User = {u1}
  Fleet <- AllInOneFleet
  Operation <- Finishing
  None = None
SPECIFICATION Spec
SYMMETRY Connections
INVARIANTS
  CompletionNeverFails
