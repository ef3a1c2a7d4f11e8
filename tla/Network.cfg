\* Five runs of scripts, one reboot, two keys made.
CONSTANTS
  MaxKeys = 2
  MaxRuns = 5
  MaxReboots = 1
SPECIFICATION MCSpec
INVARIANTS  UpAsAsked RerunRepairs AbcdReady CleanLanReady
\* Scripts that nobody runs, or too many of them.
CHECK_DEADLOCK FALSE
