\* A process is started again while its peer is still up.
CONSTANTS
  RingSize = 1
  NumSeqs = 4
  Worker = {w1}
  PeriodA = 1
  PeriodB = 1
  DurationA = 1
  DurationB = 1
  MaxStart = 0
  MaxRows = 1
  Disturbed = {"A"}
  MaxRestarts = 1
  Period <- MCPeriod
  Duration <- MCDuration
SPECIFICATION Spec
INVARIANT RttIsOfThisRun
CHECK_DEADLOCK FALSE
