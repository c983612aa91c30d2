SPECIFICATION Spec
CONSTANTS
  m0 = m0
  m1 = m1
  m2 = m2
  m3 = m3
  f = f
  t = t
  p = p
  q = q
  c = c
  d = d
  Chunks = {m0, m1, m2, m3, f, t, p, q, c, d}
  Refs <- MCRefs
  Cookie <- MCCookie
  Own = {m1, m2, m3, t}
  Foreign = {f}
  Head0 = m0
  CacheLimit = 2
  Environment = {"peer"}
  None = None
INVARIANTS StoredIsReachable CountsMatch ChunksReadable NothingLeaks
\* The tab has made all its chunks, and persisted them.
CHECK_DEADLOCK FALSE
