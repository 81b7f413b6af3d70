SPECIFICATION HSpec
CONSTANTS
  User = {u1}
  Email = {e1, e2}
  Session = {s1, s2}
  Code = {c1, c2}
  world = world
  lan = lan
  linked = linked
  p172 = p172
  edge = edge
  Blank = Blank
  Private <- MCPrivate
  PrefixPrivate <- MCPrefixPrivate
  Header <- MCHeader
  Req = {r1, r2}
  NoUser = NoUser
  NoEmail = NoEmail
  NoCode = NoCode
  NoIp = NoIp
  LOGIN_RATE = 1
  MAX_LOGIN_FAILS = 1
  MAX_GEN = 1
  MAX_FAULTS = 1
SYMMETRY Symmetry
INVARIANTS AddressRight ResetEndsSessions CodeSpentOnce
CHECK_DEADLOCK FALSE
