\* When the host is gone and the watchdog has acted and died, nothing is left to do.
CHECK_DEADLOCK FALSE
SPECIFICATION FairSpec
CONSTANTS
  MaxUnread = 0
  MaxHangs = 1
  MaxBreaks = 1
  MaxRestarts = 1
  HostMayDie = TRUE
INVARIANTS
  OutputIsWatched
PROPERTIES
  OutputEnds
