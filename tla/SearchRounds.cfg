\* Two pollers race for the rounds of one dispatch; process clocks drift by 1.
CONSTANTS
  Provider = {p1, p2}
  Driver = {r1}
  Worker = {w1, w2}
  None = None
  MaxAttempts = 3
  Window = 2
  Skew = 1
SPECIFICATION FairSpec
INVARIANTS
  ReasonTellsOutcome RoundsReachProviders
PROPERTIES
  OneRoundPerWindow SearchRunsDown KeepsContract EndedSearchStaysEnded SearchEnds
