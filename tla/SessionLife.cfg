SPECIFICATION FairSpec
CONSTANTS
  OutboxSize = 1
  InboxSize = 1
  MaxOutput = 1
  MaxInput = 2
INVARIANTS
  SignalBeforeClose
  FinishedAlone
  NoPingerLeft
  NoCircularWait
PROPERTIES
  HandlerReturns
  MutexReturned
  CloseFreesWorker
CHECK_DEADLOCK FALSE
