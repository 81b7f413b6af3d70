SPECIFICATION HSpec
CONSTANTS
  User = {u1}
  Client = {c1, c2}
  Key = {k1, k2}
  Req = {r1, r2}
  NoUser = NoUser
  NoClient = NoClient
  NoKey = NoKey
  LIMIT = 1
  MAX_FAULTS = 1
SYMMETRY Symmetry
CONSTRAINT FaultOrSecondClient
INVARIANTS TypeOK LimitOvershoot TablesAgree
PROPERTIES LifeSpec
CHECK_DEADLOCK FALSE
