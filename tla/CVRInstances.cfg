\* One task with two view-syncers of the client group, a client having connected while
\* the first was stopping, and one fault: a crash, an error of the database at any
\* statement, a commit whose answer is lost, or a lock task that fails, or starts over,
\* with what it has put into the store.  The owner is the same, so that the version alone
\* decides; both write rows back.
SPECIFICATION FairSpec
CONSTANTS
  Tasks = {t1}
  Instances = 2
  Rows = {r1}
  Threshold = 0
  MaxAttempts = 2
  MaxUpdates = 2
  MaxTime = 0
  MaxFaults = 1
  None = None
  Environment = {"reopen", "softError"}

INVARIANTS RowsMatchVersion
PROPERTIES RowsCatchUp 
\* A CVR whose rows are lost is never loaded again, and clients may stop coming.
CHECK_DEADLOCK FALSE
