SPECIFICATION FairSpec
CONSTANTS
  t1 = t1
  t2 = t2
  s1 = s1
  s2 = s2
  Tasks <- MCTasks
  Sessions = {s1}
  Owner <- MCOneOwner
  Interactive <- MCInteractive
  OutboxSize = 1
  NoTask = NoTask
  NoSession = NoSession
PROPERTIES
  EveryTaskEnds
  PositionEventuallyShown
CHECK_DEADLOCK FALSE
