SPECIFICATION FairSpec
CONSTANTS
  Threads = {t1, t2}
  Reconnects = FALSE
  MaxSockets = 3
INVARIANTS DchecksHold SocketsOwned
PROPERTIES AttemptsEnd ClosedIsReleased
CHECK_DEADLOCK FALSE
