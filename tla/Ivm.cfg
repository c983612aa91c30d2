\* Three rows joined with themselves, of which two may be pushed out of a limit, for
\* queries with and without a limit and an exists, in a view and in the view syncer.
SPECIFICATION Spec
CONSTANTS
  Ids = {1, 2, 3}
  k1 = k1
  k2 = k2
  Keys = {k1, k2}
  Queries <- MCQueries
  ExistsLimit = 2
  Environment = {}
  None = None
SYMMETRY Symmetry
INVARIANTS
  ViewIsAnswer
  ChangesValid
  WithinLimit
