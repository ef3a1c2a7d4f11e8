\* run(), and besides it three lives of one transport with any owner.
CONSTANTS
  MaxStarts = 3
SPECIFICATION RunFairSpec
INVARIANTS NothingLeftBehind ListensUntilStop
INVARIANTS LocalsOutliveCallbacks ExitsClean
PROPERTIES StopReturns ImplementsContract RunEnds
\* The process ends, and nobody calls the transport.
CHECK_DEADLOCK FALSE
