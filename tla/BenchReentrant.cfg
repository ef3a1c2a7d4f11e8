\* Two callbacks of one subscription overtake each other.
CONSTANTS
  RingSize = 1
  NumSeqs = 4
  Worker = {w1, w2}
  PeriodA = 1
  PeriodB = 1
  DurationA = 2
  DurationB = 1
  MaxStart = 0
  MaxRows = 2
  Disturbed = {}
  MaxRestarts = 0
  Period <- MCPeriod
  Duration <- MCDuration
SPECIFICATION Spec
INVARIANT EchoIsLatest
CHECK_DEADLOCK FALSE
