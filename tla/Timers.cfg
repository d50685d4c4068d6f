\* One other thread, two timers, three ticks.
SPECIFICATION FairSpec
CONSTANTS
  Threads = {t1}
  Delays = {0, 1}
  Moments = {2}
  MinAfter = 1
  MaxTimers = 2
  MaxQueue = 2
  MaxTime = 3
INVARIANTS
  TypeOK
  TimersOwned
  CancelSticks
  OneShotOnce
PROPERTY TimerFires
\* After the EventLoop is destroyed nothing happens any more.
CHECK_DEADLOCK FALSE
