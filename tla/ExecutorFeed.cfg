SPECIFICATION FairSpec
CONSTANTS
  OutboxSize = 1
  PipeSize = 1
  StdinSize = 1
  MaxTokens <- MCOneToken
  MaxInputs = 1
PROPERTIES
  FeedInputReturns
CHECK_DEADLOCK FALSE
