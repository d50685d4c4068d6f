SPECIFICATION Spec
CONSTANTS
  Threads = {t1}
  Delays = {1}
  Moments = {2}
  MinAfter = 1
  MaxTimers = 2
  MaxQueue = 2
  MaxTime = 3
INVARIANT RunIsThreadSafe
CHECK_DEADLOCK FALSE
