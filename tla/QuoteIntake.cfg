\* Two requests, one prequote and two quotes; plans, zone, client and clocks
\* change under the calls.
CONSTANTS
  Request = {r1, r2}
  Quote = {q1, q2}
  Prequote = {p1}
  Price = {cheap, dear}
  None = None
  Validity = 1
  Skew = 1
  MaxTime = 2
SPECIFICATION Spec
SYMMETRY Interchangeable
INVARIANTS
  OneOpenQuote DispatchFollowsAcceptance ConvertedAsPromised
PROPERTIES
  AcceptedInTime
