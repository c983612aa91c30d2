---------------------------- MODULE MCLazyStore ----------------------------
EXTENDS LazyStore

CONSTANTS m0, m1, m2, m3, f, t, p, q, c, d

\* Two trees share the subtree c; what the tab and its peer make shares parts of them.  m2
\* is a mutation on top of m1, and m3 a snapshot with a new node t.
MCRefs ==
  [h \in {m0, m1, m2, m3, f, t, p, q, c, d} |->
     CASE h = m0 -> {p, q} [] h = m1 -> {p} [] h = m2 -> {m1, d} [] h = m3 -> {t, c}
       [] h = f -> {q} [] h = t -> {d} [] h \in {p, q} -> {c} [] h = c -> {d} [] OTHER -> {}]

\* The peer's snapshot is newer than one of the tab's and older than the other.
MCCookie ==
  [h \in {m0, m1, m2, m3, f, t, p, q, c, d} |->
     CASE h = m1 -> 1 [] h = f -> 2 [] h = m3 -> 3 [] OTHER -> 0]

------------------------------------------------------------------------------
(* compute() of gc.ts, in all orders *)

RECURSIVE WalksFrom(_, _, _)
WalksFrom(job, walks, latest) ==
  IF latest = {} THEN walks
  ELSE LET next == UNION {Steps(job, walk) : walk \in latest} \ walks
       IN  WalksFrom(job, walks \cup next, next)

\* All the states of the walks of a job.
Walks(job) == WalksFrom(job, {Begun(job)}, {Begun(job)})

\* The chunks whose refs may be counted when the heads are these: a read comes to a chunk
\* by way of those above it.
CountedBelow(heads) ==
  {some \in SUBSET Reach(heads) : \A h \in some \ heads : Above[h] \cap some # {}}

\* From the old to the new heads, for what is counted before, what is known and not counted,
\* and what is put: each way that compute() takes ends, with the counts of RefCountUpdates.
ASSUME WalksAgree ==
  \A old \in {{m0}, {m1}, {m0, m3}} : \A new \in {{m2}, {m2, m3}, {f}} :
    \A some \in CountedBelow(old) : \A more \in SUBSET {m1, c} : \A puts \in SUBSET {m2, m3, p} :
      LET n == CountsOf(some, old)
          before == some \cup {h \in more : n[h] = 0}
          readable == before \cup puts
          job == [new |-> new, old |-> old, n |-> n, puts |-> puts,
                  before |-> before, readable |-> readable]
      IN  \A walk \in Walks(job) :
            IF Done(walk)
            THEN walk.n = RefCountUpdates(n, new, old, puts, before, readable)
            ELSE Steps(job, walk) # {}
=============================================================================
