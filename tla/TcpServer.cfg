SPECIFICATION FairSpec
CONSTANTS
  MaxThreads = 2
  MaxClients = 4
INVARIANTS LoopsReady Balanced HeldUntilDestroyed FunctorsInTurn UpAndDownOnce
PROPERTY AcceptedComesUp
CHECK_DEADLOCK FALSE
