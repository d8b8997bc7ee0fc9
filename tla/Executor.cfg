SPECIFICATION FairSpec
CONSTANTS
  OutboxSize = 1
  PipeSize = 1
  StdinSize = 1
  MaxTokens <- MCBlocking
  MaxInputs = 3
INVARIANTS
  StreamsInOrder
  NoOutputLost
  NothingOutlivesRun
PROPERTIES
  ImplementsRunner
  CancelEndsRun
  RunEnds
CHECK_DEADLOCK FALSE
