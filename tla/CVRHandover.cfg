\* Two tasks hand a CVR over to one another, without faults: two rows, of which
\* one may be flushed with the CVR and two are left for later.
SPECIFICATION Spec
CONSTANTS
  Tasks = {t1, t2}
  Instances = 1
  Rows = {r1, r2}
  Threshold = 1
  MaxAttempts = 2
  MaxUpdates = 2
  MaxTime = 1
  MaxFaults = 0
  None = None
  Environment = {}
SYMMETRY Symmetry

INVARIANTS InSync
PROPERTIES ImplementsHistory
\* A CVR whose rows are lost is never loaded again, and clients may stop coming.
CHECK_DEADLOCK FALSE
