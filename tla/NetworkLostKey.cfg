\* As Network.cfg: two runs of setup_wg.sh suffice.
CONSTANTS
  MaxKeys = 2
  MaxRuns = 2
  MaxReboots = 0
SPECIFICATION MCSpec
INVARIANT ShownKeyStays
CHECK_DEADLOCK FALSE
