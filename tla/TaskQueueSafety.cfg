SPECIFICATION Spec
CONSTANTS
  t1 = t1
  t2 = t2
  s1 = s1
  s2 = s2
  Tasks <- MCTasks
  Sessions <- MCSessions
  Owner <- MCOwner
  Interactive <- MCInteractive
  OutboxSize = 2
  NoTask = NoTask
  NoSession = NoSession
INVARIANTS
  OpenWhileUsed
  NothingLost
  NoOrphans
  NoLostWakeup
  InputOnlyToOwner
  QueueNewsBeforeOutput
PROPERTIES
  ShutdownDrains
CHECK_DEADLOCK FALSE
