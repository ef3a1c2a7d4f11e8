\* stop() races the first instructions of the spinning thread.
CONSTANTS
  ExecThread = {e1}
  MaxStarts = 1
SPECIFICATION FairSpec
PROPERTY StopReturns
CHECK_DEADLOCK FALSE
