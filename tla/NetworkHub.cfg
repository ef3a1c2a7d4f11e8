\* Three runs of scripts on PC c, none of them disturbed, from a hub that is
\* connected: the tunnel is brought up, abcd, clean_lan.
CONSTANTS
  MaxKeys = 1
  MaxRuns = 3
  MaxReboots = 0
SPECIFICATION HubSpec
INVARIANT HubIsBack
CHECK_DEADLOCK FALSE
