\* One replicator, with data messages, through catchup, live forwarding, rollbacks by
\* the source and faults.
SPECIFICATION FairSpec
CONSTANTS
  Subs = {s1}
  Backups = {}
  MaxTx = 2
  DataPerTx = 1
  Threshold = 2
  MaxFaults = 2
  Environment = {"rollback"}
INVARIANTS
  ReplicaComplete
  AckedIsStored
PROPERTIES
  CatchesUp
  
\* The loop ends in a final state when the bounds are reached or a reset is due.
CHECK_DEADLOCK FALSE
