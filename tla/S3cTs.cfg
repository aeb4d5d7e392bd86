CONSTANTS
  Clients = {a}
  Samples = 2
  CanSuspend = TRUE
  FastPen = FALSE
SPECIFICATION FairSpec
INVARIANTS LockNotLeaked
PROPERTIES TouchReleased
