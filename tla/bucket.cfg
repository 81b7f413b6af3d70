SPECIFICATION HSpec
CONSTANTS
  r1 = r1
  r2 = r2
  NoBucket = NoBucket
  Req = {r1, r2}
  Kinds = {"chat", "embed", "multi", "fixed", "acu"}
  RPM_LIMIT = 2
  PER_KEY_CONCURRENCY_CAP = 2
  SLIDE_WINDOW = 1
  STALE_AGE = 2
  COOLDOWN_429 <- Cool429
  LEVEL2_THRESHOLD = 2
  LEVEL3_THRESHOLD = 3
  COOLDOWN_403 <- Cool403
  COOLDOWN_5XX = 1
  COOLDOWN_CONN_ERR = 1
  COOLDOWN_4XX = 1
  ACU_PROBE_WINDOW = 1
  RT_SCORES = {0}
  MAX_TOTAL = 3
  MAX_INFLIGHT = 3
INVARIANTS HealthFloor InflightExact
PROPERTIES KeyReturns
