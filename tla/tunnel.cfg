SPECIFICATION TunnelSpec
CONSTANTS
  Conn = {c1, c2}
  Tun = {t1}
  NoTun = NoTun
  NoConn = NoConn
  ROOM = 2
  MAX_DATA = 1
INVARIANT Accounted
PROPERTY EndReaches
CHECK_DEADLOCK FALSE
