\* A may be signalled, at any time but before the handlers are installed,
\* or be killed, or finish, and is started again.  B is A's mirror image
\* and goes on.
CONSTANTS
  RingSize = 1
  NumSeqs = 4
  Worker = {w1}
  PeriodA = 1
  PeriodB = 1
  DurationA = 1
  DurationB = 1
  MaxStart = 0
  MaxRows = 1
  Disturbed = {"A"}
  MaxRestarts = 1
  Period <- MCPeriod
  Duration <- MCDuration
SPECIFICATION FairSpec
INVARIANT AckedSendIsFound
PROPERTY EveryRunEnds
CHECK_DEADLOCK FALSE
