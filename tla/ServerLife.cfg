SPECIFICATION FairSpec
CONSTANTS
  Conns = {c1, c2}
  MaxConn = 1
  NoConn = NoConn
INVARIANTS
  CountExact
  AdmissionBound
  NoWorkAfterShutdown
PROPERTIES
  ImplementsLifecycle
  ShutdownEndsTasks
  ShutdownReturns
  SlotsComeBack
CHECK_DEADLOCK FALSE
