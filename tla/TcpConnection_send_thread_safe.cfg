SPECIFICATION Spec
CONSTANTS
  Threads = {t1}
  ThreadOps = {"send"}
  ServerMayDie = FALSE
  HighWaterMark = 2
  MaxBytes = 2
  MaxMessage = 1
  MaxCloses = 1
  MaxQueue = 2
INVARIANT SendIsThreadSafe
CHECK_DEADLOCK FALSE
