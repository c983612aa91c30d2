SPECIFICATION FairSpec
CONSTANTS
  MaxMutations = 2
  MaxFaults = 2
  MaxPushers = 2
  Environment = {"drop", "pushFails", "peerPush", "peerRefresh", "reject"}
INVARIANTS AppliedOnceInOrder ResultsKept NoneForgotten
PROPERTIES FalseSuccessOnlyOnConnect 
\* With every mutation made and confirmed there is nothing left to do.
CHECK_DEADLOCK FALSE
