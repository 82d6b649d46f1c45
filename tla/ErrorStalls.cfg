SPECIFICATION Spec
CONSTANTS
  c1 = c1
  c2 = c2
  c3 = c3
  Conns = {c1}
  NoConn = NoConn
  MaxClients = 1
  BufSize = 8
  Script <- Malformed
  RequestUnits = 2
  ReplyUnits = 2
  Slow = {}
  Leaving = {c1}
  EarlySignal = FALSE
CHECK_DEADLOCK FALSE
PROPERTIES Answered
