SPECIFICATION HSpec
CONSTANTS
  NoEntry = NoEntry
  Model = {m1}
  Req = {r1, r2, r3}
  ModelOf <- OneModel
  FAILURE_THRESHOLD_5XX = 2
  WINDOW_DURATION = 2
  OPEN_DURATION = 2
  HALF_OPEN_MAX_ATTEMPTS = 2
INVARIANTS BreakersConsistent ProbesBounded
PROPERTIES TripsOnlyOnBurst OpenEnds
