\* A view of whereExists() over two rows with the same join key.
SPECIFICATION Spec
CONSTANTS
  Ids = {1, 2}
  k1 = k1
  k2 = k2
  Keys = {k1, k2}
  Queries <- ClientQueries
  ExistsLimit = 2
  Environment = {"shared"}
  None = None
SYMMETRY Symmetry
INVARIANTS ViewIsAnswer
