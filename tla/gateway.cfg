SPECIFICATION HSpec
CONSTANTS
  m1 = m1
  r1 = r1
  r2 = r2
  k1 = k1
  k2 = k2
  NoEntry = NoEntry
  NoKey = NoKey
  Model = {m1}
  Req = {r1, r2}
  ModelOf <- OneModel
  FAILURE_THRESHOLD_5XX = 1
  WINDOW_DURATION = 0
  OPEN_DURATION = 1
  HALF_OPEN_MAX_ATTEMPTS = 2
  PoolKeys = {k1, k2}
  FixedKey = "fixed"
  MAX_UPSTREAM_ATTEMPTS = 2
  LINE_MAX_UPSTREAM_ATTEMPTS = 2
INVARIANTS TypeOK AdmissionsOwned OnceWhileOpen FailoverComplete
PROPERTIES BreakerProtocol Answered
