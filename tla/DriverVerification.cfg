CONSTANTS
  d1 = d1  None = None
  Driver = {d1}
  Vehicle = {w1}
  OwnerOf <- MCOwner
  Case = {c1, c2, c3}
  Material = {m1, m2}
  Data = {"LICENSED", "OWNED"}
  Until = {1}
  MaxRevision = 3
  MaxTime = 1
SPECIFICATION Spec
SYMMETRY Interchangeable
INVARIANTS
  StatusesAreEarned WorkersStayInService
PROPERTIES
  AdmittedOnEvidence ReviewedAsSeen SanctionsStand
