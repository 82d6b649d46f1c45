SPECIFICATION Spec
CONSTANTS
  c1 = c1
  c2 = c2
  c3 = c3
  Conns = {c1, c2, c3}
  NoConn = NoConn
  MaxClients = 2
  BufSize = 3
  Script <- Busy
  RequestUnits = 2
  ReplyUnits = 2
  Slow = {}
  Leaving = {c1}
  EarlySignal = FALSE
CHECK_DEADLOCK FALSE
INVARIANTS ServerTypeOK SlotsAccounted RepliesInOrder
PROPERTIES StopsWhenTold Answered
