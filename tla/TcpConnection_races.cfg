\* A sending and force-closing thread, and a TcpServer that may be destroyed.
SPECIFICATION Spec
CONSTANTS
  Threads = {t1}
  ThreadOps = {"send", "forceClose"}
  ServerMayDie = TRUE
  HighWaterMark = 2
  MaxBytes = 3
  MaxMessage = 1
  MaxCloses = 1
  MaxQueue = 2
INVARIANTS
  FlowControl
  DestroyedDisconnected
CHECK_DEADLOCK FALSE
