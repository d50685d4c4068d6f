\* Everything on the connection's loop.
SPECIFICATION FairSpec
CONSTANTS
  Threads = {}
  ThreadOps = {}
  ServerMayDie = FALSE
  HighWaterMark = 3
  MaxBytes = 5
  MaxMessage = 2
  MaxCloses = 1
  MaxQueue = 3
INVARIANTS
  StreamInOrder
  WritingIffWaiting
  ShutdownAfterData
  CallbacksInOrder
  RemovedOnce
PROPERTIES
  ShutdownCompletes
  ClosedIsDestroyed
