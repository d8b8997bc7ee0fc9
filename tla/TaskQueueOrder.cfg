SPECIFICATION Spec
CONSTANTS
  t1 = t1
  t2 = t2
  t3 = t3
  s1 = s1
  Tasks <- MCTasks
  Sessions = {s1}
  Owner <- MCOwner
  Interactive = {}
  OutboxSize = 1
  NoTask = NoTask
  NoSession = NoSession
SYMMETRY MCSymmetry
PROPERTIES
  PositionsNeverGrow
  ImplementsLifecycle
CHECK_DEADLOCK FALSE
