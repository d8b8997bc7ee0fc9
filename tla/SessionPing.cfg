SPECIFICATION FairSpec
CONSTANTS
  OutboxSize = 1
  InboxSize = 1
  MaxOutput = 1
  MaxInput = 0
PROPERTIES
  PingFailureCloses
CHECK_DEADLOCK FALSE
