----------------------------- MODULE LazyStore -----------------------------
(***************************************************************************)
(* Where a tab's chunks live: the perdag (a StoreImpl over IndexedDB,      *)
(* shared by the tabs) and the tab's memdag (a LazyStore), and the         *)
(* reference counting that both use to drop what no head reaches.          *)
(*                                                                         *)
(* A chunk is its hash: what it refers to is fixed when it is made.  The   *)
(* memdag keeps the chunks it made until they are persisted, a bounded     *)
(* cache of the perdag's, and the counts of the references that it has     *)
(* come to know.  A write excludes reads and other writes, and is a step.  *)
(***************************************************************************)
EXTENDS RefCounts, FiniteSetsExt

CONSTANTS
  Cookie,      \* of the chunks that may be snapshots
  Own,         \* the chunks that this tab makes
  Foreign,     \* the chunks that another tab makes
  Head0,       \* the head of the client group when the tab opens
  CacheLimit,  \* chunks (of size 1) in the cache
  Environment, \* "peer": another tab persists; "suspendedReads": see Read
  None

\* A chunk refers to chunks that were there before it: its hash is fresh, and what was
\* stored when the tab opens knows nothing of what is made later.
ASSUME ChunksAssumption ==
  /\ IsFiniteSet(Chunks) /\ None \notin Chunks
  /\ None \notin [head : Chunks, chunks : SUBSET Chunks, written : BOOLEAN]
  /\ None \notin [head : Chunks, before : SUBSET Chunks, done : BOOLEAN, chunks : SUBSET Chunks]
  /\ Refs \in [Chunks -> SUBSET Chunks] /\ Cookie \in [Chunks -> Nat]
  /\ \A some \in SUBSET Chunks : some # {} => \E h \in some : Refs[h] \cap some = {}
  /\ Own \subseteq Chunks /\ Foreign \subseteq Chunks
  /\ Own \cap Foreign = {} /\ Head0 \in Chunks \ (Own \cup Foreign)
  /\ \A h \in Chunks \ (Own \cup Foreign) : Refs[h] \cap (Own \cup Foreign) = {}
  /\ CacheLimit \in Nat \ {0} /\ Environment \subseteq {"peer", "suspendedReads"}

VARIABLES
  stored,     \* perdag: the chunks
  refCounts,  \* perdag: their counts, 0 for a chunk that has none
  group,      \* perdag: the client group's head
  persisted,  \* perdag: the client's persistHash
  retained,   \* perdag: the client's refreshHashes
  main, sync, \* the memdag's heads
  base,       \* the base snapshot of main
  syncBase,   \* the one that the sync head was made from
  memOnly,    \* _memOnlyChunks
  cache,      \* _sourceChunksCache
  counts,     \* _refCounts
  known,      \* the chunks whose refs are in _refs
  suspended,  \* #evictsAndDeletesSuspended
  made,       \* the chunks made so far
  persisting, \* persist(): the snapshot and its chunks
  refreshing  \* refresh(): the head and the chunks gathered

perdagVars == <<stored, refCounts, group, persisted, retained>>
storeVars == <<main, sync, memOnly, cache, counts, known>>
memdagVars == <<storeVars, base, syncBase>>
vars == <<perdagVars, memdagVars, suspended, made, persisting, refreshing>>

Hashes(h) == {h} \ {None}

------------------------------------------------------------------------------
(* The perdag: WriteImpl.commit() *)

\* Of what was there and what is put, the chunks that are left.
Kept(n, puts) == {h \in stored \cup puts : n[h] # 0}

\* Every chunk is readable, and counted before.
PerdagCommit(puts, newHeads, oldHeads) ==
  LET n == RefCountUpdates(refCounts, newHeads, oldHeads, puts, Chunks, Chunks)
  IN  refCounts' = n /\ stored' = Kept(n, puts)

Roots == Hashes(group) \cup Hashes(persisted) \cup retained
SetRoots(puts, g, p, r) ==
  /\ group' = g /\ persisted' = p /\ retained' = r
  /\ PerdagCommit(puts, Hashes(g) \cup Hashes(p) \cup r, Roots)

------------------------------------------------------------------------------
(* The memdag *)

Heads == Hashes(main) \cup Hashes(sync)

\* #ensureCacheSizeLimit: the rest is evicted; which, the LRU order says.
Evictions(chunks) ==
  IF Cardinality(chunks) <= CacheLimit THEN {chunks} ELSE kSubset(CacheLimit, chunks)
Trimmed(chunks) == IF suspended THEN {chunks} ELSE Evictions(chunks)

\* A traversal reads a head, or what a chunk that was read refers to.
Found(h) == h \in Heads \/ \E p \in known : counts[p] > 0 /\ h \in Refs[p]

\* Mutant: what a chunk refers to is counted whenever the chunk is read again.
CountedOnRead_Again(h) == Refs[h]
CountedOnRead(h) == IF h \in known THEN {} ELSE Refs[h]

\* LazyRead.getChunk: a chunk that is not in memory is read from the perdag, and cached
\* if a head is known to reach it.
Read(h) ==
  /\ Found(h) /\ h \notin memOnly \cup cache /\ h \in stored
  /\ suspended => "suspendedReads" \in Environment
  /\ counts[h] >= 1
  /\ \E c \in Trimmed(cache \cup {h}) : cache' = c
  /\ counts' = [k \in Chunks |-> counts[k] + IF k \in CountedOnRead(h) THEN 1 ELSE 0]
  /\ known' = known \cup {h}
  /\ UNCHANGED <<perdagVars, main, sync, base, syncBase, memOnly, suspended, made, persisting, refreshing>>

\* #deleteEntryByHash, unless it is suspended.
Deleted(gone) == IF suspended THEN {} ELSE gone

\* LazyWrite.commit() with the chunks that are put: those of the memdag's own, and
\* those that the write has read from the perdag.
MemdagCommit(mem, loaded, newMain, newSync) ==
  LET heads == Hashes(newMain) \cup Hashes(newSync)
      n == RefCountUpdates(counts, heads, Heads, mem \cup loaded, known,
                           mem \cup loaded \cup memOnly \cup known)
      own == mem \cup memOnly
      gone == {h \in Chunks : n[h] = 0}
      put == loaded \ (own \cup gone)
  IN  /\ main' = newMain /\ sync' = newSync /\ counts' = n
      /\ memOnly' = own \ gone
      /\ known' = ((known \cup (mem \ gone) \cup put) \ (own \cap gone)) \ Deleted(gone)
      /\ \E c \in Trimmed((cache \ Deleted(gone)) \cup put) : cache' = c

\* What a write may have read from the perdag: a traversal comes to a chunk by way of
\* those above it.
Loads ==
  {loads \in SUBSET ((Below[main] \cap stored) \ (memOnly \cup cache)) :
     \A h \in loads : Found(h) \/ \E above \in loads : h \in Refs[above]}

\* The new chunks that a write makes: they refer to what main reaches, or to one another.
Makes(chunks) ==
  /\ chunks \subseteq Own \ made
  /\ \A h \in chunks : Refs[h] \subseteq chunks \cup Reach({main})
  /\ made' = made \cup chunks

\* The write of a mutation: a new commit at the main head, which refers to the one before,
\* and perhaps chunks that no head reaches, as when a tree is split twice.
Mutate(head) ==
  /\ main \in Refs[head]
  /\ \E new \in SUBSET (Own \ made) : \E loaded \in Loads :
       head \in new /\ Makes(new) /\ MemdagCommit(new, loaded, head, sync)
  /\ UNCHANGED <<perdagVars, base, syncBase, suspended, persisting, refreshing>>

\* handlePullResponse: a newer snapshot at the sync head, in place of what was there.
BeginSync(head) ==
  /\ Cookie[head] > Cookie[base]
  /\ \E new \in SUBSET (Own \ made) : \E loaded \in Loads :
       head \in new /\ Makes(new) /\ MemdagCommit(new, loaded, main, head)
  /\ syncBase' = base
  /\ UNCHANGED <<perdagVars, base, suspended, persisting, refreshing>>

\* Main may have another snapshot now.
Overlaps == syncBase # base

\* maybeEndPull: the sync head becomes main, unless a sync has overlapped.
EndSync ==
  /\ sync # None /\ ~Overlaps
  /\ MemdagCommit({}, {}, sync, None)
  /\ base' = sync /\ syncBase' = None
  /\ UNCHANGED <<perdagVars, suspended, made, persisting, refreshing>>

------------------------------------------------------------------------------
(* persist() *)

\* GatherMemoryOnlyVisitor goes down from the head as long as chunks are memory-only.
\* Mutant: it does not go down.
Gather_Heads(hashes, inside) == hashes
Gather(hashes, inside) ==
  LET gathered[h \in Chunks] ==
        h \in hashes \/ (h \in inside /\ \E p \in Above[h] : gathered[p])
  IN  {h \in Chunks : gathered[h]}

PersistRead ==
  /\ persisting = None /\ base \in memOnly /\ Cookie[base] > Cookie[group]
  /\ persisting' = [head |-> base, chunks |-> Gather({base}, memOnly), written |-> FALSE]
  /\ UNCHANGED <<perdagVars, memdagVars, suspended, made, refreshing>>

\* The perdag may have a newer snapshot by now.
StillNewer == Cookie[persisting.head] > Cookie[group]

PersistWrite ==
  /\ persisting # None /\ ~persisting.written
  /\ IF StillNewer
     THEN /\ SetRoots(persisting.chunks, persisting.head, persisting.head, retained)
          /\ persisting' = [persisting EXCEPT !.written = TRUE]
     ELSE persisting' = None /\ UNCHANGED perdagVars
  /\ UNCHANGED <<memdagVars, suspended, made, refreshing>>

\* Mutant: the chunks that are memory-only now are taken for persisted.
Persisted_Now == memOnly
Persisted == persisting.chunks \cap memOnly

\* chunksPersisted(): they become chunks of the cache.
ChunksPersisted ==
  /\ persisting # None /\ persisting.written
  /\ memOnly' = memOnly \ Persisted
  /\ \E c \in Trimmed(cache \cup Persisted) : cache' = c
  /\ persisting' = None
  /\ UNCHANGED <<perdagVars, main, sync, base, syncBase, counts, known, suspended, made, refreshing>>

------------------------------------------------------------------------------
(* refresh(), and another tab *)

PeerPersist(head) ==
  /\ "peer" \in Environment /\ head \in Foreign \ made
  /\ Refs[head] \subseteq stored /\ Cookie[head] > Cookie[group]
  /\ made' = made \cup {head}
  /\ SetRoots({head}, head, persisted, retained)
  /\ UNCHANGED <<memdagVars, suspended, persisting, refreshing>>

\* GatherNotCachedVisitor goes down as long as chunks are not cached; the head is
\* retained.
Retained == retained \cup {group}

BeginRefresh ==
  /\ refreshing = None /\ ~suspended /\ Cookie[group] > Cookie[base]
  /\ suspended' = TRUE
  /\ SetRoots({}, group, persisted, Retained)
  /\ refreshing' = [head |-> group, before |-> retained, done |-> FALSE,
                    chunks |-> IF group \in cache THEN {} ELSE Gather({group}, stored \ cache)]
  /\ UNCHANGED <<memdagVars, made, persisting>>

\* The write of the memdag: the chunks are put, and the head becomes main.
FinishRefresh ==
  /\ refreshing # None /\ suspended /\ ~refreshing.done
  /\ Cookie[refreshing.head] > Cookie[base]
  /\ MemdagCommit(refreshing.chunks \cap memOnly, refreshing.chunks \ memOnly,
                  refreshing.head, sync)
  /\ base' = refreshing.head /\ UNCHANGED syncBase
  /\ refreshing' = [refreshing EXCEPT !.done = TRUE]
  /\ UNCHANGED <<perdagVars, suspended, made, persisting>>

\* The deletes that were suspended, but for a chunk that is counted again.
\* Mutant: they are forgotten.
SuspendedDeletes_Lost == {}
SuspendedDeletes == {h \in cache \cup known : counts[h] = 0}

\* withSuspendedEvictsAndDeletes() ends, whether or not the refresh was aborted.
Resume ==
  /\ suspended
  /\ suspended' = FALSE
  /\ known' = known \ SuspendedDeletes
  /\ \E c \in Evictions(cache \ SuspendedDeletes) : cache' = c
  /\ UNCHANGED <<perdagVars, main, sync, base, syncBase, memOnly, counts, made, persisting, refreshing>>

\* refreshHashes: the new head alone, or those of before.
CleanUpRefresh ==
  /\ refreshing # None /\ ~suspended
  /\ SetRoots({}, group, persisted,
              IF refreshing.done THEN {refreshing.head} ELSE refreshing.before)
  /\ refreshing' = None
  /\ UNCHANGED <<memdagVars, suspended, made, persisting>>

------------------------------------------------------------------------------
InitCounts(hashes) == CountsOf(Reach(hashes), hashes)

Init ==
  /\ stored = Reach({Head0}) /\ refCounts = InitCounts({Head0})
  /\ group = Head0 /\ persisted = None /\ retained = {Head0}
  /\ main = Head0 /\ sync = None /\ base = Head0 /\ syncBase = None
  /\ memOnly = {} /\ cache = {} /\ known = {}
  /\ counts = [h \in Chunks |-> IF h = Head0 THEN 1 ELSE 0]
  /\ suspended = FALSE /\ made = {} /\ persisting = None /\ refreshing = None

Next ==
  \/ \E h \in Chunks : Read(h)
  \/ \E h \in Own : Mutate(h)
  \/ \E h \in Own : BeginSync(h)
  \/ EndSync
  \/ PersistRead \/ PersistWrite \/ ChunksPersisted
  \/ \E h \in Foreign : PeerPersist(h)
  \/ BeginRefresh \/ FinishRefresh \/ Resume \/ CleanUpRefresh

Spec == Init /\ [][Next]_vars

------------------------------------------------------------------------------
(* Properties *)

\* The perdag holds exactly the chunks that its heads reach, with all their references
\* counted: nothing leaks, nothing is lost, whatever the writes were.
StoredIsReachable ==
  LET roots == Roots
  IN  stored = Reach(roots) /\ refCounts = InitCounts(roots)

\* The memdag's counts are those of its heads and of the refs it knows of ("These ref
\* counts count the refs in this._heads and this._refs").
CountsMatch ==
  \A h \in Chunks :
    counts[h] = Cardinality({p \in known : counts[p] > 0 /\ h \in Refs[p]})
                + (IF h = main THEN 1 ELSE 0) + (IF h = sync THEN 1 ELSE 0)

\* Whatever the tab's main head reaches can be read, from memory or from the perdag, and
\* so can a sync head that has not been overlapped: no chunk is dropped while it is
\* persisted, refreshed, pulled or collected around.
ChunksReadable ==
  Reach({main} \cup IF syncBase = base THEN Hashes(sync) ELSE {}) \subseteq memOnly \cup stored

\* Nothing in memory outlives the heads, once deletes are not suspended.
NothingLeaks ==
  /\ memOnly \subseteq Reach(Heads)
  /\ ~suspended => known \cup cache \subseteq Reach(Heads) /\ Cardinality(cache) <= CacheLimit

=============================================================================
