SPECIFICATION FairSpec
CONSTANTS
  MaxVersion = 3
  MaxFaults = 2
  MaxWaiters = 2
  Environment = {"drop", "rehome", "pushError", "timeout", "refresh", "cancel"}
  None = None
INVARIANTS ViewMatchesCookie
PROPERTIES MissedOnlyWhenDisconnected CatchesUp
\* A tab that has caught up with the last version has nothing left to do.
CHECK_DEADLOCK FALSE
