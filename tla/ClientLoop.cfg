SPECIFICATION FairSpec
CONSTANTS
  Interactive = TRUE
  UseSSH = TRUE
  MaxWire = 1
INVARIANTS
  RequestFirst
  OneChunkLate
  NothingLeftOpen
PROPERTIES
  ExecuteEnds
  LoopsEnd
CHECK_DEADLOCK FALSE
