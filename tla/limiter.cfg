SPECIFICATION HSpec
CONSTANTS
  user = user
  script = script
  human = human
  robot = robot
  Req = {r1, r2}
  Client = {human, robot}
  NoClient = NoClient
  Global = global
  Key = {global, user, script}
  Script = {script}
  Path <- MCPath
  UNIT = 3
  Cap <- MCCap
  Rate <- MCRate
  MAX_WAIT = 2
  EXPIRE = 5
INVARIANT WakeInTime
PROPERTY EagerSpec
SYMMETRY Symmetry
