\* One delivering thread per side: raw_udp and the single-threaded
\* executors.  A sends twice into a ring of one slot, with a period that
\* does not divide its duration.
CONSTANTS
  RingSize = 1
  NumSeqs = 4
  Worker = {w1}
  PeriodA = 2
  PeriodB = 1
  DurationA = 3
  DurationB = 1
  MaxStart = 0
  MaxRows = 2
  Disturbed = {}
  MaxRestarts = 0
  Period <- MCPeriod
  Duration <- MCDuration
SPECIFICATION Spec
INVARIANTS AckedSendIsFound RttNonNegative EchoIsLatest
INVARIANTS NoDrift SendsWithinPlan
CHECK_DEADLOCK FALSE
