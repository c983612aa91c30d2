SPECIFICATION FairSpec
CONSTANTS
  None = None
  c1 = c1 c2 = c2 q1 = q1 q2 = q2 r1 = r1 r2 = r2
  Clients = {c1, c2}
  Queries = {q1, q2}
  Rows = {r1, r2}
  Replica <- MCReplica
  InitialWants <- MCWants
  MaxRequests = 1
  MaxFaults = 1
  Environment = {"deaf", "restart", "reset"}
INVARIANTS ViewsMatch RowsMatchQueries AssertionsHold
PROPERTY CatchesUp
CHECK_DEADLOCK FALSE
