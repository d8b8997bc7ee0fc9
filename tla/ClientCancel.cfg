SPECIFICATION FairSpec
CONSTANTS
  Interactive = TRUE
  UseSSH = FALSE
  MaxWire = 1
PROPERTIES
  CancelEndsExecute
CHECK_DEADLOCK FALSE
