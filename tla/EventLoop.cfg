\* Two other threads, three functors, loop() called twice.
SPECIFICATION FairSpec
CONSTANTS
  Threads = {t1, t2}
  MaxFunctors = 3
  MaxLoops = 2
INVARIANTS
  TypeOK
  ExactlyOnceInOrder
  NoLostWakeup
  QuitDrains
PROPERTIES
  IsFunctorQueue
  FunctorsRun
  QuitStops
\* After the last loop() has returned the program may be over.
CHECK_DEADLOCK FALSE
