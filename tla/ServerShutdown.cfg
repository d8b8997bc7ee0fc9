SPECIFICATION FairSpec
CONSTANTS
  Conns = {c1}
  MaxConn = 1
  NoConn = NoConn
PROPERTIES
  DeadlineEndsShutdown
CHECK_DEADLOCK FALSE
