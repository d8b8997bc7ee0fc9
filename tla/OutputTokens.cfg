SPECIFICATION FairSpec
CONSTANT
  MaxBytes = 4
INVARIANTS
  OnlyUnfinishedHeld
  NothingLost
PROPERTIES
  ImplementsLineStream
  LinesShown
CHECK_DEADLOCK FALSE
