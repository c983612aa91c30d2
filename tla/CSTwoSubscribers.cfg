\* The backup replicator and another one, with purges and a source that rolls back.
SPECIFICATION Spec
CONSTANTS
  Subs = {s1, s2}
  Backups = {s1}
  MaxTx = 3
  DataPerTx = 0
  Threshold = 2
  MaxFaults = 1
  Environment = {"lateStop", "lateDeath", "rollback"}
INVARIANTS
  LogContiguous
  
PROPERTIES
  NeverStranded
  ImplementsFeed
\* The loop ends in a final state when the bounds are reached or a reset is due.
CHECK_DEADLOCK FALSE
