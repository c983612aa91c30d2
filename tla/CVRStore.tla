------------------------------- MODULE CVRStore -------------------------------
(***************************************************************************)
(* The client view record (CVR) of one client group: the tables in         *)
(* Postgres, and the view-syncers of several tasks that load it, change it *)
(* and take it over from one another.  Covered are CVRStore (load, flush), *)
(* RowRecordCache (which may write rows back after the CVR has been        *)
(* committed), the lock task of ViewSyncerService that uses both, and the  *)
(* ServiceRunner that creates view-syncers.                                *)
(*                                                                         *)
(* An update of the CVR is a number.  The configuration (clients, queries, *)
(* desires) is the set of the updates that have changed it, and a row      *)
(* record, that of a deleted row included, is the update that wrote it.    *)
(* An action is what happens between two awaits, or one SQL statement.     *)
(***************************************************************************)
EXTENDS Integers, FiniteSets

CONSTANTS
  Tasks,        \* zero-cache tasks, each with a taskID
  Instances,    \* bound: view-syncers that a task creates
  Rows,         \* the rows of the CVR
  Threshold,    \* deferredRowFlushThreshold
  MaxAttempts,  \* MAX_LOAD_ATTEMPTS
  MaxUpdates,   \* bound: updates that are begun
  MaxTime,      \* bound: times at which clients connect
  MaxFaults,    \* bound: crashes, errors of the database, failing updates
  None,
  Environment   \* what the surroundings may do, a subset of Behaviours

\* "softError"   a lock task may fail, or start over, without stopping the
\*               view-syncer, before it has flushed
\* "firstFlush"  a new CVR may be committed by two view-syncers at a time
\* "reopen"      a client may connect while the previous view-syncer stops
Behaviours == {"softError", "firstFlush", "reopen"}

ASSUME CVRAssumption ==
  /\ Instances \in Nat \ {0} /\ Threshold \in Nat /\ MaxAttempts \in Nat \ {0}
  /\ MaxUpdates \in Nat /\ MaxTime \in Nat /\ MaxFaults \in Nat
  /\ None \notin Tasks /\ None \notin Tasks \X (1 .. Instances)
  /\ Environment \subseteq Behaviours

Syncers == Tasks \X (1 .. Instances)
TaskOf(s) == s[1]
Update == 1 .. MaxUpdates
Version == 0 .. MaxUpdates     \* 0 is EMPTY_CVR_VERSION
Time == 0 .. MaxTime
NoUpdate == 0
NoRows == [r \in Rows |-> NoUpdate]
NoCVR == [version |-> -1, config |-> {}]

VARIABLES
  \* Postgres
  version, owner, grantedAt,  \* the row of cvr.instances, absent at version 0
  config,                     \* cvr.clients, cvr.queries, cvr.desires
  rowsVersion,                \* cvr.rowsVersion
  rows,                       \* cvr.rows
  lock,                       \* who holds the lock on the instances row
  takeovers,                  \* ownership UPDATEs that are under way
  \* ServiceRunner, per task
  current,                    \* #instances.get(clientGroupID)
  \* ViewSyncerService, per view-syncer
  status, lastConnect, cvr,
  phase,                      \* where its lock task stands
  attempts,                   \* load attempts made
  next,                       \* the updater's _cvr
  \* CVRStore
  writes, puts,               \* #writes, #pendingRowRecordUpdates
  since,                      \* lastConnectTime, as given to load() or flush()
  deferred,                   \* the flush under way leaves the rows for later
  \* RowRecordCache
  cache,                      \* #cache: none, or loaded ...
  cached,                     \* ... with these rows
  pending, pendingVersion,    \* #pending, #pendingRowsVersion
  flushing,                   \* #flushing and where #flush() stands
  batch, batchVersion,        \* what its transaction writes
  \* history
  content,                    \* the rows that the CVR at `version` stands for
  updates, faults             \* count the updates begun and the faults

instanceVars == <<version, owner, grantedAt, config>>
rowVars      == <<rowsVersion, rows>>
syncerVars   == <<status, lastConnect>>
taskVars     == <<cvr, phase, attempts>>
storeVars    == <<next, writes, puts, since, deferred>>
cacheVars    == <<cache, cached>>
backVars     == <<pending, pendingVersion, flushing, batch, batchVersion>>
memoryVars   == <<taskVars, storeVars, cacheVars, backVars>>
vars == <<instanceVars, rowVars, lock, takeovers, current, syncerVars, memoryVars,
          content, updates, faults>>

Overlay(old, new) == [r \in Rows |-> IF new[r] # NoUpdate THEN new[r] ELSE old[r]]
Changed(new) == {r \in Rows : new[r] # NoUpdate}

Fault == faults < MaxFaults /\ faults' = faults + 1

-----------------------------------------------------------------------------
(* ServiceRunner and the life of a view-syncer *)

\* A client connects to task t: getService() returns the view-syncer there is if
\* it is not shutting down, or creates one; the time of the connection is noted.
Connect(t) ==
  /\ \E s \in Syncers, now \in Time :
       /\ TaskOf(s) = t
       /\ IF current[t] # None /\ status[current[t]] = "up"
          THEN s = current[t] /\ UNCHANGED <<status, current>>
          ELSE /\ status[s] = "new"
               /\ \A i \in 1 .. s[2] - 1 : status[<<t, i>>] # "new"
               /\ \/ "reopen" \in Environment
                  \/ \A i \in 1 .. s[2] - 1 : status[<<t, i>>] = "ended"
               /\ status' = [status EXCEPT ![s] = "up"]
               /\ current' = [current EXCEPT ![t] = s]
       /\ \A o \in Syncers : TaskOf(o) = t => now >= lastConnect[o]
       /\ status[s] = "up" => now > lastConnect[s]
       /\ lastConnect' = [lastConnect EXCEPT ![s] = now]
  /\ UNCHANGED <<instanceVars, rowVars, lock, takeovers, taskVars, storeVars,
                 cacheVars, backVars, content, updates, faults>>

\* #stateChanges is canceled: all clients are gone, or the task drains.
Shutdown(s) ==
  /\ status[s] = "up"
  /\ status' = [status EXCEPT ![s] = "stopping"]
  /\ UNCHANGED <<instanceVars, rowVars, lock, takeovers, current, lastConnect,
                 taskVars, storeVars, cacheVars, backVars, content, updates, faults>>

\* What the ServiceRunner does once run() has returned: whatever is registered
\* under the service's id is removed.
Unregister(s) == current' = [current EXCEPT ![TaskOf(s)] = None]

\* What the view-syncers S have in memory is gone.
Drop(S) ==
  LET Reset(f, v) == [s \in Syncers |-> IF s \in S THEN v ELSE f[s]]
  IN  /\ cvr' = Reset(cvr, NoCVR) /\ phase' = Reset(phase, "idle")
      /\ attempts' = Reset(attempts, 0) /\ next' = Reset(next, NoCVR)
      /\ writes' = Reset(writes, {}) /\ puts' = Reset(puts, NoRows)
      /\ since' = Reset(since, 0) /\ deferred' = Reset(deferred, FALSE)
      /\ cache' = Reset(cache, "none") /\ cached' = Reset(cached, NoRows)
      /\ pending' = Reset(pending, NoRows)
      /\ pendingVersion' = Reset(pendingVersion, 0)
      /\ flushing' = Reset(flushing, "no") /\ batch' = Reset(batch, NoRows)
      /\ batchVersion' = Reset(batchVersion, 0)

\* run() returns when the pending rows have been flushed, or that has failed.
Ended(s) ==
  /\ status[s] = "stopping" /\ flushing[s] \in {"no", "failed"}
  /\ status' = [status EXCEPT ![s] = "ended"]
  /\ Unregister(s)
  /\ IF phase[s] = "idle" THEN Drop({s}) ELSE UNCHANGED memoryVars
  /\ UNCHANGED <<instanceVars, rowVars, lock, takeovers, lastConnect, content,
                 updates, faults>>

\* The process of task t dies, with what its view-syncers had in memory.
Crash(t) ==
  /\ Fault
  /\ \E s \in Syncers : TaskOf(s) = t /\ status[s] \in {"up", "stopping"}
  /\ Drop({s \in Syncers : TaskOf(s) = t})
  /\ status' = [s \in Syncers |-> IF TaskOf(s) = t /\ status[s] # "new"
                                  THEN "ended" ELSE status[s]]
  /\ lock' = IF lock \in Syncers /\ TaskOf(lock) = t THEN None ELSE lock
  /\ current' = [current EXCEPT ![t] = None]
  /\ UNCHANGED <<instanceVars, rowVars, takeovers, lastConnect, content, updates>>

\* An error ends the lock task.  In run() it stops the view-syncer, otherwise
\* only the client's connection is closed.
Survives(s) == status' \in {status, [status EXCEPT ![s] =
                                       IF @ = "up" THEN "stopping" ELSE @]}

-----------------------------------------------------------------------------
(* CVRStore.load() *)

\* Another task has the CVR for a client that connected after the given time.
Lost(s, time) == owner # TaskOf(s) /\ grantedAt > time

\* The rows in the database are those of the CVR.  Mutant: not compared.
RowsBehind_Never == FALSE
RowsBehind == version # rowsVersion

\* A lock task begins without a CVR: load() is called.
LoadBegin(s) ==
  /\ phase[s] = "idle" /\ status[s] = "up" /\ cvr[s] = NoCVR
  /\ phase' = [phase EXCEPT ![s] = "loading"]
  /\ since' = [since EXCEPT ![s] = lastConnect[s]]
  /\ attempts' = [attempts EXCEPT ![s] = 1]
  /\ UNCHANGED <<instanceVars, rowVars, lock, takeovers, current, syncerVars, cvr,
                 next, writes, puts, deferred, cacheVars, backVars, content,
                 updates, faults>>

\* An UPDATE of the owner is sent if need be, and not waited for.
SignalOwner(s) ==
  takeovers' = IF version # 0 /\ owner # TaskOf(s)
               THEN takeovers \cup {<<TaskOf(s), since[s]>>} ELSE takeovers

\* #load() reads the instance, and the rows are not behind it.
LoadInstance(s) ==
  /\ phase[s] = "loading"
  /\ ~Lost(s, since[s]) /\ ~RowsBehind
  /\ SignalOwner(s)
  /\ cvr' = [cvr EXCEPT ![s] = [version |-> version, config |-> {}]]
  /\ phase' = [phase EXCEPT ![s] = "reading"]
  /\ since' = [since EXCEPT ![s] = 0]
  /\ attempts' = [attempts EXCEPT ![s] = 0]
  /\ UNCHANGED <<instanceVars, rowVars, lock, current, syncerVars, next, writes,
                 puts, deferred, cacheVars, backVars, content, updates, faults>>

\* The loop counts its attempts.  Mutant: it does not.
Attempt_Uncounted(s) == attempts[s]
Attempt(s) == attempts[s] + 1

Exhausted(s) == attempts[s] = MaxAttempts

\* RowsVersionBehindError: wait for the rows and try again.
LoadAgain(s) ==
  /\ phase[s] = "loading"
  /\ ~Lost(s, since[s]) /\ RowsBehind
  /\ ~Exhausted(s)
  /\ SignalOwner(s)
  /\ attempts' = [attempts EXCEPT ![s] = Attempt(s)]
  /\ UNCHANGED <<instanceVars, rowVars, lock, current, syncerVars, cvr, phase,
                 storeVars, cacheVars, backVars, content, updates, faults>>

\* OwnershipError, or ClientNotFound when the attempts are used up.
LoadFails(s) ==
  /\ phase[s] = "loading"
  /\ \/ Lost(s, since[s]) /\ UNCHANGED takeovers
     \/ ~Lost(s, since[s]) /\ RowsBehind /\ Exhausted(s) /\ SignalOwner(s)
  /\ phase' = [phase EXCEPT ![s] = "idle"]
  /\ since' = [since EXCEPT ![s] = 0]
  /\ attempts' = [attempts EXCEPT ![s] = 0]
  /\ Survives(s)
  /\ UNCHANGED <<instanceVars, rowVars, lock, current, lastConnect, cvr, next,
                 writes, puts, deferred, cacheVars, backVars, content, updates,
                 faults>>

\* The statements after the first one see what has been committed meanwhile.
LoadConfig(s) ==
  /\ phase[s] = "reading"
  /\ cvr' = [cvr EXCEPT ![s].config = config]
  /\ phase' = [phase EXCEPT ![s] = "working"]
  /\ UNCHANGED <<instanceVars, rowVars, lock, takeovers, current, syncerVars,
                 attempts, storeVars, cacheVars, backVars, content, updates, faults>>

\* The UPDATE gets the row and is carried out if it still applies.
TakeOver ==
  /\ lock = None
  /\ \E o \in takeovers :
       /\ takeovers' = takeovers \ {o}
       /\ IF grantedAt <= o[2]
          THEN owner' = o[1] /\ grantedAt' = o[2]
          ELSE UNCHANGED <<owner, grantedAt>>
  /\ UNCHANGED <<version, config, rowVars, lock, current, syncerVars, taskVars,
                 storeVars, cacheVars, backVars, content, updates, faults>>

-----------------------------------------------------------------------------
(* The lock task of a view-syncer that has a CVR *)

\* #runInLockWithCVR() with the CVR that is there.
TaskBegin(s) ==
  /\ phase[s] = "idle" /\ status[s] = "up" /\ cvr[s] # NoCVR
  /\ phase' = [phase EXCEPT ![s] = "working"]
  /\ UNCHANGED <<instanceVars, rowVars, lock, takeovers, current, syncerVars, cvr,
                 attempts, storeVars, cacheVars, backVars, content, updates, faults>>

TaskEnd(s) ==
  /\ phase[s] = "working"
  /\ phase' = [phase EXCEPT ![s] = "idle"]
  /\ UNCHANGED <<instanceVars, rowVars, lock, takeovers, current, syncerVars, cvr,
                 attempts, storeVars, cacheVars, backVars, content, updates, faults>>

\* RowRecordCache.#ensureLoaded() for an update that needs the rows.
FillCache(s) ==
  /\ phase[s] = "working" /\ cache[s] = "none"
  /\ cache' = [cache EXCEPT ![s] = "loaded"]
  /\ cached' = [cached EXCEPT ![s] = rows]
  /\ UNCHANGED <<instanceVars, rowVars, lock, takeovers, current, syncerVars,
                 taskVars, storeVars, backVars, content, updates, faults>>

\* An updater changes its copy of the CVR and puts what is to be written into the
\* store: configuration, rows or both.  Rows are compared with those in the cache.
Prepare(s) ==
  /\ phase[s] = "working" /\ updates < MaxUpdates
  /\ \E configured \in BOOLEAN, changed \in SUBSET Rows :
       LET u == updates + 1
           stamp == IF configured THEN {u} ELSE {}
       IN  /\ configured \/ changed # {}
           /\ changed # {} => cache[s] = "loaded"
           /\ updates' = u
           /\ next' = [next EXCEPT ![s] = [version |-> cvr[s].version + 1,
                                           config |-> cvr[s].config \cup stamp]]
           /\ writes' = [writes EXCEPT ![s] = @ \cup stamp]
           /\ puts' = [puts EXCEPT ![s] =
                [r \in Rows |-> IF r \in changed THEN u ELSE @[r]]]
  /\ phase' = [phase EXCEPT ![s] = "prepared"]
  /\ UNCHANGED <<instanceVars, rowVars, lock, takeovers, current, syncerVars, cvr,
                 attempts, since, deferred, cacheVars, backVars, content, faults>>

\* What an error in a lock task clears outside of flush(): the CVR only.
Forget(s) ==
  /\ cvr' = [cvr EXCEPT ![s] = NoCVR]
  /\ next' = [next EXCEPT ![s] = NoCVR]
  /\ phase' = [phase EXCEPT ![s] = "idle"]

\* The lock task fails before it flushes: a client with a newer cookie, a schema
\* that does not match, a query that cannot be run.
TaskFails(s) ==
  /\ phase[s] \in {"working", "prepared"}
  /\ Fault
  /\ Forget(s)
  /\ Survives(s)
  /\ "softError" \in Environment \/ status'[s] # "up"
  /\ UNCHANGED <<instanceVars, rowVars, lock, takeovers, current, lastConnect,
                 attempts, writes, puts, since, deferred, cacheVars, backVars,
                 content, updates>>

\* advancePipelines() gives up after a page of rows: the pipelines are reset in the
\* same lock task.
PipelinesReset(s) ==
  /\ "softError" \in Environment
  /\ phase[s] = "prepared" /\ next[s].config = cvr[s].config
  /\ Fault
  /\ phase' = [phase EXCEPT ![s] = "working"]
  /\ next' = [next EXCEPT ![s] = NoCVR]
  /\ UNCHANGED <<instanceVars, rowVars, lock, takeovers, current, syncerVars, cvr,
                 attempts, writes, puts, since, deferred, cacheVars, backVars,
                 content, updates>>

-----------------------------------------------------------------------------
(* CVRStore.flush() *)

\* The check that the CVR is the one that was loaded.  Mutant: only the owner is.
Unexpected_Never(s) == FALSE
Unexpected(s) == version # cvr[s].version

\* flush() in vain: `catch` and `finally`, and the lock task ends.  #pending stays.
Discard(s) ==
  /\ Forget(s)
  /\ cache' = [cache EXCEPT ![s] = "none"]
  /\ cached' = [cached EXCEPT ![s] = NoRows]
  /\ writes' = [writes EXCEPT ![s] = {}]
  /\ puts' = [puts EXCEPT ![s] = NoRows]
  /\ since' = [since EXCEPT ![s] = 0]
  /\ deferred' = [deferred EXCEPT ![s] = FALSE]
  /\ Survives(s)

\* Whether executeRowUpdates() leaves the rows for later.
\* Mutant: also not behind rows that are still being flushed.
Defers_BySize(s) == Cardinality(Changed(puts[s])) > Threshold
Defers(s) == flushing[s] # "no" \/ Cardinality(Changed(puts[s])) > Threshold

\* flush() sends the statements of its transaction, the check first.
FlushSend(s) ==
  /\ phase[s] = "prepared"
  /\ phase' = [phase EXCEPT ![s] = "sent"]
  /\ since' = [since EXCEPT ![s] = lastConnect[s]]
  /\ deferred' = [deferred EXCEPT ![s] = Defers(s)]
  /\ UNCHANGED <<instanceVars, rowVars, lock, takeovers, current, syncerVars, cvr,
                 attempts, next, writes, puts, cacheVars, backVars, content,
                 updates, faults>>

\* SELECT ... FOR UPDATE waits for the lock, if there is a row to be locked.
Lockable(s) ==
  /\ phase[s] = "sent"
  /\ version # 0 => lock = None
  /\ version = 0 /\ "firstFlush" \notin Environment =>
       \A o \in Syncers : phase[o] # "flushing"

\* #checkVersionAndOwnership() passes; the writes follow.
FlushBegin(s) ==
  /\ Lockable(s)
  /\ ~Lost(s, since[s]) /\ ~Unexpected(s)
  /\ phase' = [phase EXCEPT ![s] = "flushing"]
  /\ lock' = IF version # 0 THEN s ELSE lock
  /\ UNCHANGED <<instanceVars, rowVars, takeovers, current, syncerVars, cvr,
                 attempts, storeVars, cacheVars, backVars, content, updates, faults>>

\* OwnershipError or ConcurrentModificationException.
FlushRejected(s) ==
  /\ Lockable(s)
  /\ Lost(s, since[s]) \/ Unexpected(s)
  /\ Discard(s)
  /\ UNCHANGED <<instanceVars, rowVars, lock, takeovers, current, lastConnect,
                 attempts, backVars, content, updates, faults>>

\* The transaction commits.
Committed(s) ==
  /\ phase[s] = "flushing"
  /\ version' = next[s].version
  /\ owner' = TaskOf(s) /\ grantedAt' = since[s]
  /\ config' = config \cup writes[s]
  /\ content' = Overlay(content, puts[s])
  /\ IF deferred[s]
     THEN UNCHANGED rowVars
     ELSE rows' = Overlay(rows, puts[s]) /\ rowsVersion' = next[s].version
  /\ lock' = IF lock = s THEN None ELSE lock
  /\ UNCHANGED <<takeovers, current, lastConnect, attempts, backVars, updates>>

FlushCommit(s) ==
  /\ Committed(s)
  /\ phase' = [phase EXCEPT ![s] = "applying"]
  /\ since' = [since EXCEPT ![s] = 0]
  /\ UNCHANGED <<status, cvr, next, writes, puts, deferred, cacheVars, faults>>

\* The transaction fails, or commits although the connection is lost.
FlushFails(s) ==
  /\ phase[s] \in {"sent", "flushing"}
  /\ Fault
  /\ Discard(s)
  /\ \/ Committed(s)
     \/ /\ lock' = IF lock = s THEN None ELSE lock
        /\ UNCHANGED <<instanceVars, rowVars, takeovers, current, lastConnect,
                       attempts, backVars, content, updates>>

\* RowRecordCache.apply(), after the commit; a flush of the rows is scheduled
\* unless one is under way.  Without deferred rows none is: Defers.
Applied(s) ==
  /\ IF deferred[s]
     THEN /\ pending' = [pending EXCEPT ![s] = Overlay(@, puts[s])]
          /\ pendingVersion' = [pendingVersion EXCEPT ![s] = next[s].version]
          /\ flushing' = [flushing EXCEPT ![s] = IF @ = "no" THEN "due" ELSE @]
     ELSE UNCHANGED <<pending, pendingVersion, flushing>>
  /\ UNCHANGED <<batch, batchVersion>>

\* The cache is filled if need be, the updates are applied to it, and the CVR is
\* the updated one.
Apply(s) ==
  /\ phase[s] = "applying"
  /\ Applied(s)
  /\ cache' = [cache EXCEPT ![s] = "loaded"]
  /\ cached' = [cached EXCEPT ![s] =
                  Overlay(IF cache[s] = "loaded" THEN @ ELSE rows, puts[s])]
  /\ cvr' = [cvr EXCEPT ![s] = next[s]]
  /\ next' = [next EXCEPT ![s] = NoCVR]
  /\ writes' = [writes EXCEPT ![s] = {}]
  /\ puts' = [puts EXCEPT ![s] = NoRows]
  /\ deferred' = [deferred EXCEPT ![s] = FALSE]
  /\ phase' = [phase EXCEPT ![s] = "working"]
  /\ UNCHANGED <<instanceVars, rowVars, lock, takeovers, current, syncerVars,
                 attempts, since, content, updates, faults>>

\* The deletion of mutation results upstream, which comes last, fails.
ApplyFails(s) ==
  /\ phase[s] = "applying"
  /\ Fault
  /\ Applied(s)
  /\ Discard(s)
  /\ UNCHANGED <<instanceVars, rowVars, lock, takeovers, current, lastConnect,
                 attempts, content, updates>>

-----------------------------------------------------------------------------
(* RowRecordCache.#flush(), in the background *)

\* The transaction takes all that is pending.
RowsBegin(s) ==
  /\ flushing[s] = "due"
  /\ flushing' = [flushing EXCEPT ![s] = "writing"]
  /\ batch' = [batch EXCEPT ![s] = pending[s]]
  /\ batchVersion' = [batchVersion EXCEPT ![s] = pendingVersion[s]]
  /\ pending' = [pending EXCEPT ![s] = NoRows]
  /\ UNCHANGED <<instanceVars, rowVars, lock, takeovers, current, syncerVars,
                 taskVars, storeVars, cacheVars, pendingVersion, content, updates,
                 faults>>

\* The loop goes on while there is a newer #pendingRowsVersion.
\* Mutant: it does not look.
MoreRows_Never(s) == FALSE
MoreRows(s) == pendingVersion[s] # batchVersion[s]

RowsCommit(s) ==
  /\ flushing[s] = "writing"
  /\ rows' = Overlay(rows, batch[s])
  /\ rowsVersion' = batchVersion[s]
  /\ flushing' = [flushing EXCEPT ![s] = IF MoreRows(s) THEN "due" ELSE "no"]
  /\ batch' = [batch EXCEPT ![s] = NoRows]
  /\ batchVersion' = [batchVersion EXCEPT ![s] = 0]
  /\ pendingVersion' = [pendingVersion EXCEPT ![s] = IF MoreRows(s) THEN @ ELSE 0]
  /\ UNCHANGED <<instanceVars, lock, takeovers, current, syncerVars, taskVars,
                 storeVars, cacheVars, pending, content, updates, faults>>

\* failService(): the view-syncer stops.
RowsFail(s) ==
  /\ flushing[s] = "writing"
  /\ Fault
  /\ flushing' = [flushing EXCEPT ![s] = "failed"]
  /\ batch' = [batch EXCEPT ![s] = NoRows]
  /\ status' = [status EXCEPT ![s] = IF @ = "up" THEN "stopping" ELSE @]
  /\ UNCHANGED <<instanceVars, rowVars, lock, takeovers, current, lastConnect,
                 taskVars, storeVars, cacheVars, pending, pendingVersion,
                 batchVersion, content, updates>>

-----------------------------------------------------------------------------
Init ==
  /\ version = 0 /\ owner = None /\ grantedAt = 0 /\ config = {}
  /\ rowsVersion = 0 /\ rows = NoRows /\ lock = None /\ takeovers = {}
  /\ current = [t \in Tasks |-> None]
  /\ status = [s \in Syncers |-> "new"] /\ lastConnect = [s \in Syncers |-> 0]
  /\ cvr = [s \in Syncers |-> NoCVR] /\ phase = [s \in Syncers |-> "idle"]
  /\ attempts = [s \in Syncers |-> 0] /\ next = [s \in Syncers |-> NoCVR]
  /\ writes = [s \in Syncers |-> {}] /\ puts = [s \in Syncers |-> NoRows]
  /\ since = [s \in Syncers |-> 0] /\ deferred = [s \in Syncers |-> FALSE]
  /\ cache = [s \in Syncers |-> "none"] /\ cached = [s \in Syncers |-> NoRows]
  /\ pending = [s \in Syncers |-> NoRows]
  /\ pendingVersion = [s \in Syncers |-> 0]
  /\ flushing = [s \in Syncers |-> "no"] /\ batch = [s \in Syncers |-> NoRows]
  /\ batchVersion = [s \in Syncers |-> 0]
  /\ content = NoRows /\ updates = 0 /\ faults = 0

Load(s) == \/ LoadBegin(s) \/ LoadInstance(s) \/ LoadAgain(s) \/ LoadFails(s)
           \/ LoadConfig(s)

Work(s) == \/ TaskBegin(s) \/ TaskEnd(s) \/ FillCache(s)
           \/ Prepare(s) \/ PipelinesReset(s) \/ TaskFails(s)

Flush(s) == \/ FlushSend(s) \/ FlushBegin(s) \/ FlushRejected(s) \/ FlushCommit(s)
            \/ FlushFails(s) \/ Apply(s) \/ ApplyFails(s)

FlushRows(s) == RowsBegin(s) \/ RowsCommit(s) \/ RowsFail(s)

Next ==
  \/ \E t \in Tasks : Connect(t) \/ Crash(t)
  \/ TakeOver
  \/ \E s \in Syncers : \/ Shutdown(s) \/ Ended(s)
                        \/ Load(s) \/ Work(s) \/ Flush(s) \/ FlushRows(s)

Spec == Init /\ [][Next]_vars

\* Every handler that is ready is run, every statement gets an answer, and a lock
\* task gets to its end.  Nothing obliges a client to come or an update to be made.
Fairness ==
  /\ WF_vars(TakeOver)
  /\ \A s \in Syncers :
       /\ WF_vars(Ended(s)) /\ WF_vars(Load(s) /\ phase[s] # "idle")
       /\ WF_vars(TaskEnd(s))
       /\ WF_vars(FlushSend(s)) /\ WF_vars(FlushBegin(s) \/ FlushRejected(s))
       /\ WF_vars(FlushCommit(s)) /\ WF_vars(Apply(s))
       /\ WF_vars(RowsBegin(s)) /\ WF_vars(RowsCommit(s))

FairSpec == Spec /\ Fairness

-----------------------------------------------------------------------------
(* Properties *)

Records == [Rows -> 0 .. MaxUpdates]
CVRs == [version : -1 .. MaxUpdates, config : SUBSET Update]

DbTypeOK ==
  /\ version \in Version /\ owner \in Tasks \cup {None} /\ grantedAt \in Time
  /\ config \in SUBSET Update /\ rowsVersion \in Version /\ rows \in Records
  /\ lock \in Syncers \cup {None} /\ takeovers \in SUBSET (Tasks \X Time)
  /\ content \in Records /\ updates \in 0 .. MaxUpdates /\ faults \in 0 .. MaxFaults

SyncerTypeOK ==
  /\ current \in [Tasks -> Syncers \cup {None}]
  /\ status \in [Syncers -> {"new", "up", "stopping", "ended"}]
  /\ lastConnect \in [Syncers -> Time] /\ since \in [Syncers -> Time]
  /\ cvr \in [Syncers -> CVRs] /\ next \in [Syncers -> CVRs]
  /\ phase \in [Syncers -> {"idle", "loading", "reading", "working", "prepared",
                            "sent", "flushing", "applying"}]
  /\ attempts \in [Syncers -> 0 .. MaxAttempts]

StoreTypeOK ==
  /\ writes \in [Syncers -> SUBSET Update] /\ puts \in [Syncers -> Records]
  /\ deferred \in [Syncers -> BOOLEAN]
  /\ cache \in [Syncers -> {"none", "loaded"}]
  /\ cached \in [Syncers -> Records]
  /\ pending \in [Syncers -> Records] /\ pendingVersion \in [Syncers -> Version]
  /\ flushing \in [Syncers -> {"no", "due", "writing", "failed"}]
  /\ batch \in [Syncers -> Records] /\ batchVersion \in [Syncers -> Version]

\* Every variable has its type: the parts above.
TypeOK == DbTypeOK /\ SyncerTypeOK /\ StoreTypeOK

\* What load() relies on: when the versions of the CVR and of its rows are equal,
\* the rows in the database are those of the CVR, whoever has written them and
\* however late.
RowsMatchVersion == version = rowsVersion => rows = content

\* A view-syncer whose CVR is at the version of the database has in memory what is there,
\* the configuration and, if it has loaded them, the rows ("The state in the #cache is
\* always in sync with the CVR metadata"): its next flush takes both for granted.
Loaded(s) == cvr[s] # NoCVR /\ phase[s] # "reading"
InSync ==
  \A s \in Syncers : Loaded(s) /\ cvr[s].version = version =>
    cvr[s].config = config /\ (cache[s] = "loaded" => cached[s] = content)

\* The CVR goes from version to version by one update at a time, each made from
\* the previous version, although several view-syncers load, change and take over
\* the CVR and the rows may reach the database later: the history is implemented.
History == INSTANCE CVRHistory WITH rows <- content
ImplementsHistory == History!Spec

\* getService() gives all connections of a client group the same view-syncer: no
\* second one is created while the first is neither ending nor invalid.
OneSyncer ==
  \A s, o \in Syncers :
    status[s] = "up" /\ status[o] = "up" /\ TaskOf(s) = TaskOf(o) => s = o

\* Rows that have still to be written by some view-syncer.
Owes(s) ==
  \/ flushing[s] \in {"due", "writing"}
  \/ flushing[s] # "failed" /\ pending[s] # NoRows
  \/ flushing[s] # "failed" /\ phase[s] = "applying" /\ deferred[s]

\* Rows that are written back later catch up with the CVR, as a view-syncer that
\* takes over waits for, unless those who had them have died or failed.
RowsCatchUp ==
  version # rowsVersion ~> (version = rowsVersion \/ \A s \in Syncers : ~Owes(s))

\* The lock is released: a task ends, with an error or not.
LockReleased == \A s \in Syncers : phase[s] # "idle" ~> phase[s] = "idle"
=============================================================================
