\* Two executor threads, as ros2_mte has them: run(), and besides it two
\* lives of one transport with any owner.
CONSTANTS
  ExecThread = {e1, e2}
  MaxStarts = 2
SPECIFICATION RunFairSpec
INVARIANTS NothingDestroyedInUse StopLeavesNothing
INVARIANTS LocalsOutliveCallbacks ExitsClean
PROPERTIES StopReturnsOnceSpinning ImplementsContract RunEnds
\* The process ends, nobody calls the transport, or stop() never returns.
CHECK_DEADLOCK FALSE
