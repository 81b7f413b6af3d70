SPECIFICATION PoolSpec
CONSTANTS
  own = own
  Key = {general, own, fixed}
  Model = {m1}
  Caller = {r1}
  Task = task
  Fixed = {fixed}
  Dedicated <- MCDedicated
  NoKey = NoKey
  NoModel = NoModel
  TTL = 1
  QUERY_TIME = 1
  MAX_FAULTS = 1
CONSTRAINT Small
PROPERTIES StaleBound DisabledLeaves
CHECK_DEADLOCK FALSE
