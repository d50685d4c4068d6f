SPECIFICATION Spec
CONSTANTS
  Threads = {t1}
  Reconnects = TRUE
  MaxSockets = 2
INVARIANT StartsDisconnected
CHECK_DEADLOCK FALSE
