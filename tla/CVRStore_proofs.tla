--------------------------- MODULE CVRStore_proofs ---------------------------
(***************************************************************************)
(* Theorems about CVRStore: its type, that it implements CVRHistory, that  *)
(* rows catch up with the record, and that what is in memory is in sync.   *)
(***************************************************************************)
EXTENDS CVRStore, FiniteSetTheorems, TLAPS

USE DEF instanceVars, rowVars, syncerVars, taskVars, storeVars, cacheVars, backVars,
        memoryVars

-----------------------------------------------------------------------------
(* Types *)

\* The phases of a lock task in which there is a CVR, and those in which there is
\* an updated one.
HasCVR == {"reading", "working", "prepared", "sent", "flushing", "applying"}
HasNext == {"prepared", "sent", "flushing", "applying"}
Phases == {"idle", "loading"} \cup HasCVR

\* There are no more versions than updates, and -1 stands for no CVR.
VersionsBounded ==
  /\ version <= updates
  /\ \A s \in Syncers :
       /\ cvr[s].version <= updates /\ next[s].version <= updates
       /\ cvr[s] # NoCVR => cvr[s].version >= 0
       /\ phase[s] \in HasCVR => cvr[s].version >= 0
       /\ phase[s] \in HasNext => next[s].version >= 0

TypeInv == TypeOK /\ VersionsBounded

LEMMA Constants ==
  /\ Instances \in Nat /\ MaxAttempts \in Nat /\ MaxAttempts >= 1
  /\ MaxUpdates \in Nat /\ MaxTime \in Nat /\ MaxFaults \in Nat
  /\ NoRows \in Records /\ NoCVR \in CVRs /\ 0 \in Version /\ 0 \in Time
  /\ NoCVR.version = -1
  BY CVRAssumption
  DEF CVRAssumption, NoRows, Records, NoCVR, CVRs, Version, Time, NoUpdate

LEMMA SyncerTask ==
  ASSUME NEW s \in Syncers
  PROVE  TaskOf(s) \in Tasks
  BY DEF Syncers, TaskOf

LEMMA OverlayType ==
  ASSUME NEW f \in Records, NEW g \in Records
  PROVE  Overlay(f, g) \in Records
  BY DEF Overlay, Records

LEMMA LoadBeginType ==
  ASSUME TypeInv, NEW s \in Syncers, LoadBegin(s)
  PROVE  TypeInv'
<1> USE Constants DEF TypeInv, TypeOK, LoadBegin
<1>1. DbTypeOK'
  BY DEF DbTypeOK
<1>2. SyncerTypeOK'
  BY DEF SyncerTypeOK
<1>3. StoreTypeOK'
  BY DEF StoreTypeOK
<1>4. VersionsBounded'
  BY DEF VersionsBounded, SyncerTypeOK, HasCVR, HasNext
<1> QED
  BY <1>1, <1>2, <1>3, <1>4

LEMMA LoadInstanceType ==
  ASSUME TypeInv, NEW s \in Syncers, LoadInstance(s)
  PROVE  TypeInv'
<1> USE Constants DEF TypeInv, TypeOK, LoadInstance
<1>1. DbTypeOK'
  BY SyncerTask DEF DbTypeOK, SyncerTypeOK, SignalOwner
<1>2. [version |-> version, config |-> {}] \in CVRs
  BY DEF DbTypeOK, CVRs, Version
<1>3. SyncerTypeOK'
  BY <1>2 DEF SyncerTypeOK
<1>4. StoreTypeOK'
  BY DEF StoreTypeOK
<1>5. VersionsBounded'
  BY DEF VersionsBounded, SyncerTypeOK, DbTypeOK, Version, HasCVR, HasNext
<1> QED
  BY <1>1, <1>3, <1>4, <1>5

LEMMA LoadAgainType ==
  ASSUME TypeInv, NEW s \in Syncers, LoadAgain(s)
  PROVE  TypeInv'
<1> USE Constants, SyncerTask, OverlayType
        DEF TypeInv, TypeOK, LoadAgain, SignalOwner, Attempt, Exhausted
<1>1. DbTypeOK'
  BY DEF DbTypeOK, SyncerTypeOK, StoreTypeOK, VersionsBounded, HasNext, Version
<1>2. SyncerTypeOK'
  BY DEF SyncerTypeOK
<1>3. StoreTypeOK'
  BY DEF StoreTypeOK, SyncerTypeOK, DbTypeOK
<1>4. VersionsBounded'
  BY DEF VersionsBounded, DbTypeOK, SyncerTypeOK, Version, CVRs, HasCVR, HasNext
<1> QED
  BY <1>1, <1>2, <1>3, <1>4

LEMMA LoadFailsType ==
  ASSUME TypeInv, NEW s \in Syncers, LoadFails(s)
  PROVE  TypeInv'
<1> USE Constants, SyncerTask, OverlayType
        DEF TypeInv, TypeOK, LoadFails, SignalOwner, Survives
<1>1. DbTypeOK'
  BY DEF DbTypeOK, SyncerTypeOK, StoreTypeOK, VersionsBounded, HasNext, Version
<1>2. SyncerTypeOK'
  BY DEF SyncerTypeOK
<1>3. StoreTypeOK'
  BY DEF StoreTypeOK, SyncerTypeOK, DbTypeOK
<1>4. VersionsBounded'
  BY DEF VersionsBounded, DbTypeOK, SyncerTypeOK, Version, CVRs, HasCVR, HasNext
<1> QED
  BY <1>1, <1>2, <1>3, <1>4

LEMMA LoadConfigType ==
  ASSUME TypeInv, NEW s \in Syncers, LoadConfig(s)
  PROVE  TypeInv'
<1> USE Constants, SyncerTask, OverlayType
        DEF TypeInv, TypeOK, LoadConfig
<1>1. DbTypeOK'
  BY DEF DbTypeOK, SyncerTypeOK, StoreTypeOK, VersionsBounded, HasNext, Version
<1>2. SyncerTypeOK'
  <2>1. [cvr[s] EXCEPT !.config = config] \in CVRs
    BY DEF SyncerTypeOK, DbTypeOK, CVRs
  <2>2. cvr' = [cvr EXCEPT ![s] = [cvr[s] EXCEPT !.config = config]]
    BY DEF SyncerTypeOK
  <2> QED
    BY <2>1, <2>2 DEF SyncerTypeOK
<1>3. StoreTypeOK'
  BY DEF StoreTypeOK, SyncerTypeOK, DbTypeOK
<1>4. VersionsBounded'
  BY DEF VersionsBounded, DbTypeOK, SyncerTypeOK, Version, CVRs, HasCVR, HasNext
<1> QED
  BY <1>1, <1>2, <1>3, <1>4

LEMMA TaskBeginType ==
  ASSUME TypeInv, NEW s \in Syncers, TaskBegin(s)
  PROVE  TypeInv'
<1> USE Constants, SyncerTask, OverlayType
        DEF TypeInv, TypeOK, TaskBegin
<1>1. DbTypeOK'
  BY DEF DbTypeOK, SyncerTypeOK, StoreTypeOK, VersionsBounded, HasNext, Version
<1>2. SyncerTypeOK'
  BY DEF SyncerTypeOK
<1>3. StoreTypeOK'
  BY DEF StoreTypeOK, SyncerTypeOK, DbTypeOK
<1>4. VersionsBounded'
  BY DEF VersionsBounded, DbTypeOK, SyncerTypeOK, Version, CVRs, HasCVR, HasNext
<1> QED
  BY <1>1, <1>2, <1>3, <1>4

LEMMA TaskEndType ==
  ASSUME TypeInv, NEW s \in Syncers, TaskEnd(s)
  PROVE  TypeInv'
<1> USE Constants, SyncerTask, OverlayType
        DEF TypeInv, TypeOK, TaskEnd
<1>1. DbTypeOK'
  BY DEF DbTypeOK, SyncerTypeOK, StoreTypeOK, VersionsBounded, HasNext, Version
<1>2. SyncerTypeOK'
  BY DEF SyncerTypeOK
<1>3. StoreTypeOK'
  BY DEF StoreTypeOK, SyncerTypeOK, DbTypeOK
<1>4. VersionsBounded'
  BY DEF VersionsBounded, DbTypeOK, SyncerTypeOK, Version, CVRs, HasCVR, HasNext
<1> QED
  BY <1>1, <1>2, <1>3, <1>4

LEMMA FillCacheType ==
  ASSUME TypeInv, NEW s \in Syncers, FillCache(s)
  PROVE  TypeInv'
<1> USE Constants, SyncerTask, OverlayType
        DEF TypeInv, TypeOK, FillCache
<1>1. DbTypeOK'
  BY DEF DbTypeOK, SyncerTypeOK, StoreTypeOK, VersionsBounded, HasNext, Version
<1>2. SyncerTypeOK'
  BY DEF SyncerTypeOK
<1>3. StoreTypeOK'
  BY DEF StoreTypeOK, SyncerTypeOK, DbTypeOK
<1>4. VersionsBounded'
  BY DEF VersionsBounded, DbTypeOK, SyncerTypeOK, Version, CVRs, HasCVR, HasNext
<1> QED
  BY <1>1, <1>2, <1>3, <1>4

LEMMA TaskFailsType ==
  ASSUME TypeInv, NEW s \in Syncers, TaskFails(s)
  PROVE  TypeInv'
<1> USE Constants, SyncerTask, OverlayType
        DEF TypeInv, TypeOK, TaskFails, Forget, Survives, Fault
<1>1. DbTypeOK'
  BY DEF DbTypeOK, SyncerTypeOK, StoreTypeOK, VersionsBounded, HasNext, Version
<1>2. SyncerTypeOK'
  BY DEF SyncerTypeOK
<1>3. StoreTypeOK'
  BY DEF StoreTypeOK, SyncerTypeOK, DbTypeOK
<1>4. VersionsBounded'
  BY DEF VersionsBounded, DbTypeOK, SyncerTypeOK, Version, CVRs, HasCVR, HasNext
<1> QED
  BY <1>1, <1>2, <1>3, <1>4

LEMMA PipelinesResetType ==
  ASSUME TypeInv, NEW s \in Syncers, PipelinesReset(s)
  PROVE  TypeInv'
<1> USE Constants, SyncerTask, OverlayType
        DEF TypeInv, TypeOK, PipelinesReset, Fault
<1>1. DbTypeOK'
  BY DEF DbTypeOK, SyncerTypeOK, StoreTypeOK, VersionsBounded, HasNext, Version
<1>2. SyncerTypeOK'
  BY DEF SyncerTypeOK
<1>3. StoreTypeOK'
  BY DEF StoreTypeOK, SyncerTypeOK, DbTypeOK
<1>4. VersionsBounded'
  BY DEF VersionsBounded, DbTypeOK, SyncerTypeOK, Version, CVRs, HasCVR, HasNext
<1> QED
  BY <1>1, <1>2, <1>3, <1>4

LEMMA FlushSendType ==
  ASSUME TypeInv, NEW s \in Syncers, FlushSend(s)
  PROVE  TypeInv'
<1> USE Constants, SyncerTask, OverlayType
        DEF TypeInv, TypeOK, FlushSend
<1>1. DbTypeOK'
  BY DEF DbTypeOK, SyncerTypeOK, StoreTypeOK, VersionsBounded, HasNext, Version
<1>2. SyncerTypeOK'
  BY DEF SyncerTypeOK
<1>3. StoreTypeOK'
  <2>1. Defers(s) \in BOOLEAN
    BY Zenon DEF Defers
  <2> QED
    BY <2>1 DEF StoreTypeOK
<1>4. VersionsBounded'
  BY DEF VersionsBounded, DbTypeOK, SyncerTypeOK, Version, CVRs, HasCVR, HasNext
<1> QED
  BY <1>1, <1>2, <1>3, <1>4

LEMMA FlushBeginType ==
  ASSUME TypeInv, NEW s \in Syncers, FlushBegin(s)
  PROVE  TypeInv'
<1> USE Constants, SyncerTask, OverlayType
        DEF TypeInv, TypeOK, FlushBegin
<1>1. DbTypeOK'
  BY DEF DbTypeOK, SyncerTypeOK, StoreTypeOK, VersionsBounded, HasNext, Version
<1>2. SyncerTypeOK'
  BY DEF SyncerTypeOK
<1>3. StoreTypeOK'
  BY DEF StoreTypeOK, SyncerTypeOK, DbTypeOK
<1>4. VersionsBounded'
  BY DEF VersionsBounded, DbTypeOK, SyncerTypeOK, Version, CVRs, HasCVR, HasNext, Lockable
<1> QED
  BY <1>1, <1>2, <1>3, <1>4

LEMMA FlushRejectedType ==
  ASSUME TypeInv, NEW s \in Syncers, FlushRejected(s)
  PROVE  TypeInv'
<1> USE Constants, SyncerTask, OverlayType
        DEF TypeInv, TypeOK, FlushRejected, Discard, Forget, Survives
<1>1. DbTypeOK'
  BY DEF DbTypeOK, SyncerTypeOK, StoreTypeOK, VersionsBounded, HasNext, Version
<1>2. SyncerTypeOK'
  BY DEF SyncerTypeOK
<1>3. StoreTypeOK'
  BY DEF StoreTypeOK, SyncerTypeOK, DbTypeOK
<1>4. VersionsBounded'
  BY DEF VersionsBounded, DbTypeOK, SyncerTypeOK, Version, CVRs, HasCVR, HasNext
<1> QED
  BY <1>1, <1>2, <1>3, <1>4

LEMMA FlushCommitType ==
  ASSUME TypeInv, NEW s \in Syncers, FlushCommit(s)
  PROVE  TypeInv'
<1> USE Constants, SyncerTask, OverlayType
        DEF TypeInv, TypeOK, FlushCommit, Committed
<1>1. DbTypeOK'
  <2>1. next[s].version \in Version /\ TaskOf(s) \in Tasks
    BY DEF SyncerTypeOK, VersionsBounded, HasNext, CVRs, Version
  <2>2. puts[s] \in Records /\ writes[s] \in SUBSET Update /\ since[s] \in Time
    BY DEF StoreTypeOK, SyncerTypeOK
  <2>3. Overlay(content, puts[s]) \in Records /\ Overlay(rows, puts[s]) \in Records
    BY <2>2 DEF DbTypeOK
  <2> QED
    BY <2>1, <2>2, <2>3 DEF DbTypeOK
<1>2. SyncerTypeOK'
  BY DEF SyncerTypeOK
<1>3. StoreTypeOK'
  BY DEF StoreTypeOK, SyncerTypeOK, DbTypeOK
<1>4. VersionsBounded'
  BY DEF VersionsBounded, DbTypeOK, SyncerTypeOK, Version, CVRs, HasCVR, HasNext
<1> QED
  BY <1>1, <1>2, <1>3, <1>4

LEMMA FlushFailsType ==
  ASSUME TypeInv, NEW s \in Syncers, FlushFails(s)
  PROVE  TypeInv'
<1> USE Constants, SyncerTask, OverlayType
        DEF TypeInv, TypeOK, FlushFails, Fault, Discard, Forget, Survives, Committed
<1>1. DbTypeOK'
  <2>1. next[s].version \in Version /\ TaskOf(s) \in Tasks
    BY DEF SyncerTypeOK, VersionsBounded, HasNext, CVRs, Version
  <2>2. puts[s] \in Records /\ writes[s] \in SUBSET Update /\ since[s] \in Time
    BY DEF StoreTypeOK, SyncerTypeOK
  <2>3. Overlay(content, puts[s]) \in Records /\ Overlay(rows, puts[s]) \in Records
    BY <2>2 DEF DbTypeOK
  <2>4. CASE UNCHANGED <<instanceVars, rowVars, content>>
    BY <2>4 DEF DbTypeOK
  <2>5. CASE Committed(s)
    BY <2>1, <2>2, <2>3, <2>5 DEF DbTypeOK
  <2> QED
    BY <2>4, <2>5
<1>2. SyncerTypeOK'
  BY DEF SyncerTypeOK
<1>3. StoreTypeOK'
  BY DEF StoreTypeOK, SyncerTypeOK, DbTypeOK
<1>4. VersionsBounded'
  BY DEF VersionsBounded, DbTypeOK, SyncerTypeOK, Version, CVRs, HasCVR, HasNext
<1> QED
  BY <1>1, <1>2, <1>3, <1>4

LEMMA ApplyFailsType ==
  ASSUME TypeInv, NEW s \in Syncers, ApplyFails(s)
  PROVE  TypeInv'
<1> USE Constants, SyncerTask, OverlayType
        DEF TypeInv, TypeOK, ApplyFails, Fault, Discard, Forget, Survives, Applied
<1>1. DbTypeOK'
  BY DEF DbTypeOK, SyncerTypeOK, StoreTypeOK, VersionsBounded, HasNext, Version
<1>2. SyncerTypeOK'
  BY DEF SyncerTypeOK
<1>3. StoreTypeOK'
  <2>1. next[s].version \in Version
    BY DEF SyncerTypeOK, VersionsBounded, HasNext, CVRs, Version
  <2>2. Overlay(pending[s], puts[s]) \in Records
    BY DEF StoreTypeOK
  <2> QED
    BY <2>1, <2>2 DEF StoreTypeOK
<1>4. VersionsBounded'
  BY DEF VersionsBounded, DbTypeOK, SyncerTypeOK, Version, CVRs, HasCVR, HasNext
<1> QED
  BY <1>1, <1>2, <1>3, <1>4

LEMMA RowsBeginType ==
  ASSUME TypeInv, NEW s \in Syncers, RowsBegin(s)
  PROVE  TypeInv'
<1> USE Constants, SyncerTask, OverlayType
        DEF TypeInv, TypeOK, RowsBegin
<1>1. DbTypeOK'
  BY DEF DbTypeOK, SyncerTypeOK, StoreTypeOK, VersionsBounded, HasNext, Version
<1>2. SyncerTypeOK'
  BY DEF SyncerTypeOK
<1>3. StoreTypeOK'
  BY DEF StoreTypeOK, SyncerTypeOK, DbTypeOK
<1>4. VersionsBounded'
  BY DEF VersionsBounded, DbTypeOK, SyncerTypeOK, Version, CVRs, HasCVR, HasNext
<1> QED
  BY <1>1, <1>2, <1>3, <1>4

LEMMA RowsCommitType ==
  ASSUME TypeInv, NEW s \in Syncers, RowsCommit(s)
  PROVE  TypeInv'
<1> USE Constants, SyncerTask, OverlayType
        DEF TypeInv, TypeOK, RowsCommit
<1>1. DbTypeOK'
  BY DEF DbTypeOK, SyncerTypeOK, StoreTypeOK, VersionsBounded, HasNext, Version
<1>2. SyncerTypeOK'
  BY DEF SyncerTypeOK
<1>3. StoreTypeOK'
  BY DEF StoreTypeOK, SyncerTypeOK, DbTypeOK
<1>4. VersionsBounded'
  BY DEF VersionsBounded, DbTypeOK, SyncerTypeOK, Version, CVRs, HasCVR, HasNext
<1> QED
  BY <1>1, <1>2, <1>3, <1>4

LEMMA RowsFailType ==
  ASSUME TypeInv, NEW s \in Syncers, RowsFail(s)
  PROVE  TypeInv'
<1> USE Constants, SyncerTask, OverlayType
        DEF TypeInv, TypeOK, RowsFail, Fault
<1>1. DbTypeOK'
  BY DEF DbTypeOK, SyncerTypeOK, StoreTypeOK, VersionsBounded, HasNext, Version
<1>2. SyncerTypeOK'
  BY DEF SyncerTypeOK
<1>3. StoreTypeOK'
  BY DEF StoreTypeOK, SyncerTypeOK, DbTypeOK
<1>4. VersionsBounded'
  BY DEF VersionsBounded, DbTypeOK, SyncerTypeOK, Version, CVRs, HasCVR, HasNext
<1> QED
  BY <1>1, <1>2, <1>3, <1>4

LEMMA ShutdownType ==
  ASSUME TypeInv, NEW s \in Syncers, Shutdown(s)
  PROVE  TypeInv'
<1> USE Constants, SyncerTask, OverlayType
        DEF TypeInv, TypeOK, Shutdown
<1>1. DbTypeOK'
  BY DEF DbTypeOK, SyncerTypeOK, StoreTypeOK, VersionsBounded, HasNext, Version
<1>2. SyncerTypeOK'
  BY DEF SyncerTypeOK
<1>3. StoreTypeOK'
  BY DEF StoreTypeOK, SyncerTypeOK, DbTypeOK
<1>4. VersionsBounded'
  BY DEF VersionsBounded, DbTypeOK, SyncerTypeOK, Version, CVRs, HasCVR, HasNext
<1> QED
  BY <1>1, <1>2, <1>3, <1>4

\* What is left of the memory of view-syncers that are gone.
LEMMA DropType ==
  ASSUME TypeInv, NEW S \in SUBSET Syncers, Drop(S), updates' = updates,
         version' = version
  PROVE  /\ since' \in [Syncers -> Time] /\ cvr' \in [Syncers -> CVRs]
         /\ next' \in [Syncers -> CVRs] /\ phase' \in [Syncers -> Phases]
         /\ attempts' \in [Syncers -> 0 .. MaxAttempts]
         /\ StoreTypeOK' /\ VersionsBounded'
<1> USE Constants DEF TypeInv, TypeOK
<1>1. /\ since' \in [Syncers -> Time] /\ attempts' \in [Syncers -> 0 .. MaxAttempts]
      /\ cvr' \in [Syncers -> CVRs] /\ next' \in [Syncers -> CVRs]
      /\ phase' \in [Syncers -> Phases]
  BY DEF Drop, SyncerTypeOK, Phases, HasCVR
<1>2. StoreTypeOK'
  <2>1. /\ writes' \in [Syncers -> SUBSET Update] /\ puts' \in [Syncers -> Records]
        /\ deferred' \in [Syncers -> BOOLEAN]
    BY DEF Drop, StoreTypeOK
  <2>2. /\ cache' \in [Syncers -> {"none", "loaded"}]
        /\ cached' \in [Syncers -> Records]
    BY DEF Drop, StoreTypeOK
  <2>3. /\ pending' \in [Syncers -> Records] /\ pendingVersion' \in [Syncers -> Version]
        /\ flushing' \in [Syncers -> {"no", "due", "writing", "failed"}]
    BY DEF Drop, StoreTypeOK
  <2>4. batch' \in [Syncers -> Records] /\ batchVersion' \in [Syncers -> Version]
    BY DEF Drop, StoreTypeOK
  <2> QED
    BY <2>1, <2>2, <2>3, <2>4 DEF StoreTypeOK
<1>3. VersionsBounded'
  <2> SUFFICES ASSUME NEW s \in Syncers
               PROVE  (VersionsBounded!2!(s))'
    BY DEF VersionsBounded
  <2>1. CASE s \in S
    BY <2>1 DEF Drop, DbTypeOK, HasCVR, HasNext
  <2>2. CASE s \notin S
    BY <2>2 DEF Drop, VersionsBounded
  <2> QED
    BY <2>1, <2>2
<1> QED
  BY <1>1, <1>2, <1>3

LEMMA EndedType ==
  ASSUME TypeInv, NEW s \in Syncers, Ended(s)
  PROVE  TypeInv'
<1> USE Constants, SyncerTask DEF TypeInv, TypeOK
<1>1. DbTypeOK'
  BY DEF Ended, DbTypeOK
<1>2. /\ current' \in [Tasks -> Syncers \cup {None}]
      /\ status' \in [Syncers -> {"new", "up", "stopping", "ended"}]
      /\ lastConnect' \in [Syncers -> Time]
  BY DEF Ended, Unregister, SyncerTypeOK
<1>3. CASE phase[s] = "idle"
  BY <1>1, <1>2, <1>3, DropType DEF Ended, SyncerTypeOK, Phases, HasCVR
<1>4. CASE phase[s] # "idle"
  <2>1. UNCHANGED memoryVars /\ UNCHANGED <<version, updates>>
    BY <1>4 DEF Ended
  <2>2. SyncerTypeOK'
    BY <1>2, <2>1 DEF SyncerTypeOK
  <2>3. StoreTypeOK'
    BY <2>1 DEF StoreTypeOK
  <2>4. VersionsBounded'
    BY <2>1 DEF VersionsBounded
  <2> QED
    BY <1>1, <2>2, <2>3, <2>4
<1> QED
  BY <1>3, <1>4

LEMMA CrashType ==
  ASSUME TypeInv, NEW t \in Tasks, Crash(t)
  PROVE  TypeInv'
<1> USE Constants DEF TypeInv, TypeOK
<1>1. DbTypeOK'
  BY DEF Crash, Fault, DbTypeOK
<1>2. /\ current' \in [Tasks -> Syncers \cup {None}]
      /\ status' \in [Syncers -> {"new", "up", "stopping", "ended"}]
      /\ lastConnect' \in [Syncers -> Time]
  BY DEF Crash, SyncerTypeOK
<1>3. /\ Drop({s \in Syncers : TaskOf(s) = t})
      /\ updates' = updates /\ version' = version
  BY DEF Crash
<1> QED
  BY <1>1, <1>2, <1>3, DropType DEF SyncerTypeOK, Phases, HasCVR

LEMMA ConnectType ==
  ASSUME TypeInv, NEW t \in Tasks, Connect(t)
  PROVE  TypeInv'
<1> USE Constants DEF TypeInv, TypeOK, Connect
<1>1. DbTypeOK'
  BY DEF DbTypeOK
<1>2. SyncerTypeOK'
  BY DEF SyncerTypeOK
<1>3. StoreTypeOK'
  BY DEF StoreTypeOK
<1>4. VersionsBounded'
  BY DEF VersionsBounded
<1> QED
  BY <1>1, <1>2, <1>3, <1>4

LEMMA TakeOverType ==
  ASSUME TypeInv, TakeOver
  PROVE  TypeInv'
<1> USE Constants DEF TypeInv, TypeOK, TakeOver
<1>1. DbTypeOK'
  BY DEF DbTypeOK
<1>2. SyncerTypeOK'
  BY DEF SyncerTypeOK
<1>3. StoreTypeOK'
  BY DEF StoreTypeOK
<1>4. VersionsBounded'
  BY DEF VersionsBounded
<1> QED
  BY <1>1, <1>2, <1>3, <1>4

LEMMA PrepareType ==
  ASSUME TypeInv, NEW s \in Syncers, Prepare(s)
  PROVE  TypeInv'
<1> USE Constants DEF TypeInv, TypeOK
<1> DEFINE u == updates + 1
<1>1. PICK configured \in BOOLEAN, changed \in SUBSET Rows :
        /\ next' = [next EXCEPT ![s] =
             [version |-> cvr[s].version + 1,
              config |-> cvr[s].config \cup (IF configured THEN {u} ELSE {})]]
        /\ writes' = [writes EXCEPT ![s] = @ \cup (IF configured THEN {u} ELSE {})]
        /\ puts' = [puts EXCEPT ![s] = [r \in Rows |-> IF r \in changed THEN u ELSE @[r]]]
  BY DEF Prepare
<1>2. updates' = u /\ u \in Update
  BY DEF Prepare, DbTypeOK, Update
<1>3. cvr[s] \in CVRs /\ cvr[s].version >= 0 /\ cvr[s].version <= updates
  BY DEF Prepare, VersionsBounded, SyncerTypeOK, HasCVR
<1>4. DbTypeOK'
  BY <1>2 DEF Prepare, DbTypeOK, Update
<1>5. SyncerTypeOK'
  <2>1. /\ cvr[s].version + 1 \in -1 .. MaxUpdates
        /\ cvr[s].config \cup (IF configured THEN {u} ELSE {}) \in SUBSET Update
    BY <1>2, <1>3 DEF CVRs, Update, DbTypeOK
  <2>2. next'[s] \in CVRs
    BY <1>1, <2>1 DEF CVRs, SyncerTypeOK
  <2> QED
    BY <1>1, <2>2 DEF Prepare, SyncerTypeOK
<1>6. StoreTypeOK'
  <2>1. writes' \in [Syncers -> SUBSET Update]
    BY <1>1, <1>2 DEF StoreTypeOK
  <2>2. puts' \in [Syncers -> Records]
    BY <1>1, <1>2 DEF StoreTypeOK, Records, Update
  <2> QED
    BY <2>1, <2>2 DEF Prepare, StoreTypeOK
<1>7. VersionsBounded'
  <2>1. /\ next'[s].version = cvr[s].version + 1
        /\ \A o \in Syncers : o # s => next'[o] = next[o]
    BY <1>1 DEF SyncerTypeOK
  <2>2. /\ version' = version /\ cvr' = cvr
        /\ \A o \in Syncers : o # s => phase'[o] = phase[o]
        /\ phase'[s] = "prepared"
    BY DEF Prepare, SyncerTypeOK
  <2> QED
    BY <1>2, <1>3, <2>1, <2>2
    DEF VersionsBounded, DbTypeOK, SyncerTypeOK, CVRs, Version, HasCVR, HasNext
<1> QED
  BY <1>4, <1>5, <1>6, <1>7

LEMMA ApplyType ==
  ASSUME TypeInv, NEW s \in Syncers, Apply(s)
  PROVE  TypeInv'
<1> USE Constants DEF TypeInv, TypeOK, Apply
<1>1. DbTypeOK'
  BY DEF DbTypeOK
<1>2. SyncerTypeOK'
  BY DEF SyncerTypeOK
<1>3. StoreTypeOK'
  <2>1. next[s].version \in Version
    BY DEF SyncerTypeOK, VersionsBounded, HasNext, CVRs, Version
  <2>2. /\ Overlay(pending[s], puts[s]) \in Records
        /\ Overlay(IF cache[s] = "loaded" THEN cached[s] ELSE rows, puts[s]) \in Records
    BY OverlayType DEF StoreTypeOK, DbTypeOK
  <2>3. cached' \in [Syncers -> Records]
    BY <2>2 DEF StoreTypeOK
  <2>4. /\ pending' \in [Syncers -> Records] /\ pendingVersion' \in [Syncers -> Version]
        /\ flushing' \in [Syncers -> {"no", "due", "writing", "failed"}]
    BY <2>1, <2>2 DEF Applied, StoreTypeOK
  <2> QED
    BY <2>3, <2>4 DEF Applied, StoreTypeOK
<1>4. VersionsBounded'
  BY DEF VersionsBounded, SyncerTypeOK, DbTypeOK, Version, HasCVR, HasNext
<1> QED
  BY <1>1, <1>2, <1>3, <1>4

LEMMA InitType ==
  ASSUME Init
  PROVE  TypeInv
<1> USE Constants DEF Init, TypeInv, TypeOK
<1>1. DbTypeOK
  BY DEF DbTypeOK
<1>2. SyncerTypeOK
  BY DEF SyncerTypeOK
<1>3. StoreTypeOK
  BY DEF StoreTypeOK
<1>4. VersionsBounded
  BY DEF VersionsBounded, HasCVR, HasNext
<1> QED
  BY <1>1, <1>2, <1>3, <1>4

LEMMA NextType ==
  ASSUME TypeInv, [Next]_vars
  PROVE  TypeInv'
<1>1. CASE UNCHANGED vars
  BY <1>1 DEF vars, TypeInv, TypeOK, DbTypeOK, SyncerTypeOK, StoreTypeOK,
              VersionsBounded
<1>2. CASE TakeOver
  BY <1>2, TakeOverType
<1>3. CASE \E t \in Tasks : Connect(t) \/ Crash(t)
  BY <1>3, ConnectType, CrashType
<1>4. ASSUME NEW s \in Syncers, Shutdown(s) \/ Ended(s)
      PROVE  TypeInv'
  BY <1>4, ShutdownType, EndedType
<1>5. ASSUME NEW s \in Syncers, Load(s)
      PROVE  TypeInv'
  BY <1>5, LoadBeginType, LoadInstanceType, LoadAgainType, LoadFailsType,
     LoadConfigType DEF Load
<1>6. ASSUME NEW s \in Syncers, Work(s)
      PROVE  TypeInv'
  BY <1>6, TaskBeginType, TaskEndType, FillCacheType, PrepareType,
     PipelinesResetType, TaskFailsType DEF Work
<1>7. ASSUME NEW s \in Syncers, Flush(s)
      PROVE  TypeInv'
  BY <1>7, FlushSendType, FlushBeginType, FlushRejectedType, FlushCommitType,
     FlushFailsType, ApplyType, ApplyFailsType DEF Flush
<1>8. ASSUME NEW s \in Syncers, FlushRows(s)
      PROVE  TypeInv'
  BY <1>8, RowsBeginType, RowsCommitType, RowsFailType DEF FlushRows
<1> QED
  BY <1>1, <1>2, <1>3, <1>4, <1>5, <1>6, <1>7, <1>8 DEF Next

\* Every variable of the CVR's tables, its view-syncers and their stores has its
\* type; a CVR at work has a version, and there are no more versions than updates.
THEOREM StoreTypeCorrect == Spec => []TypeOK
<1>1. Init => TypeInv
  BY InitType
<1>2. TypeInv /\ [Next]_vars => TypeInv'
  BY NextType
<1>3. TypeInv => TypeOK
  BY DEF TypeInv
<1> QED
  BY <1>1, <1>2, <1>3, PTL DEF Spec

-----------------------------------------------------------------------------
(* Transactions of flush() come one after the other *)

\* A CVR that does not exist is not committed by two at a time.
OneFirstFlush == "firstFlush" \notin Environment

Busy == {"prepared", "sent", "flushing"}

\* An updated CVR is one version ahead of the one it was made from.
Stepwise == \A s \in Syncers : phase[s] \in Busy => next[s].version = cvr[s].version + 1

\* One transaction at a time, which holds the lock if there is one, and whose CVR is
\* that of the database.
Exclusive ==
  \A s \in Syncers : phase[s] = "flushing" =>
    /\ cvr[s].version = version
    /\ version = 0 \/ lock = s
    /\ \A o \in Syncers : phase[o] = "flushing" => o = s

SerialInv == TypeInv /\ Stepwise /\ Exclusive

LEMMA LoadBeginSerial ==
  ASSUME SerialInv, NEW s \in Syncers, LoadBegin(s)
  PROVE  Stepwise' /\ Exclusive'
<1> USE DEF SerialInv, TypeInv, TypeOK, SyncerTypeOK, LoadBegin
<1>1. Stepwise'
  BY DEF Stepwise, Busy
<1>2. Exclusive'
  BY DEF Exclusive
<1> QED
  BY <1>1, <1>2

LEMMA LoadInstanceSerial ==
  ASSUME SerialInv, NEW s \in Syncers, LoadInstance(s)
  PROVE  Stepwise' /\ Exclusive'
<1> USE DEF SerialInv, TypeInv, TypeOK, SyncerTypeOK, LoadInstance
<1>1. Stepwise'
  BY DEF Stepwise, Busy
<1>2. Exclusive'
  BY DEF Exclusive
<1> QED
  BY <1>1, <1>2

LEMMA LoadAgainSerial ==
  ASSUME SerialInv, NEW s \in Syncers, LoadAgain(s)
  PROVE  Stepwise' /\ Exclusive'
<1> USE DEF SerialInv, TypeInv, TypeOK, SyncerTypeOK, LoadAgain
<1>1. Stepwise'
  BY DEF Stepwise, Busy
<1>2. Exclusive'
  BY DEF Exclusive
<1> QED
  BY <1>1, <1>2

LEMMA LoadFailsSerial ==
  ASSUME SerialInv, NEW s \in Syncers, LoadFails(s)
  PROVE  Stepwise' /\ Exclusive'
<1> USE DEF SerialInv, TypeInv, TypeOK, SyncerTypeOK, LoadFails, Survives
<1>1. Stepwise'
  BY DEF Stepwise, Busy
<1>2. Exclusive'
  BY DEF Exclusive
<1> QED
  BY <1>1, <1>2

LEMMA LoadConfigSerial ==
  ASSUME SerialInv, NEW s \in Syncers, LoadConfig(s)
  PROVE  Stepwise' /\ Exclusive'
<1> USE DEF SerialInv, TypeInv, TypeOK, SyncerTypeOK, LoadConfig
<1>1. Stepwise'
  BY DEF Stepwise, Busy
<1>2. Exclusive'
  BY DEF Exclusive
<1> QED
  BY <1>1, <1>2

LEMMA TaskBeginSerial ==
  ASSUME SerialInv, NEW s \in Syncers, TaskBegin(s)
  PROVE  Stepwise' /\ Exclusive'
<1> USE DEF SerialInv, TypeInv, TypeOK, SyncerTypeOK, TaskBegin
<1>1. Stepwise'
  BY DEF Stepwise, Busy
<1>2. Exclusive'
  BY DEF Exclusive
<1> QED
  BY <1>1, <1>2

LEMMA TaskEndSerial ==
  ASSUME SerialInv, NEW s \in Syncers, TaskEnd(s)
  PROVE  Stepwise' /\ Exclusive'
<1> USE DEF SerialInv, TypeInv, TypeOK, SyncerTypeOK, TaskEnd
<1>1. Stepwise'
  BY DEF Stepwise, Busy
<1>2. Exclusive'
  BY DEF Exclusive
<1> QED
  BY <1>1, <1>2

LEMMA FillCacheSerial ==
  ASSUME SerialInv, NEW s \in Syncers, FillCache(s)
  PROVE  Stepwise' /\ Exclusive'
<1> USE DEF SerialInv, TypeInv, TypeOK, SyncerTypeOK, FillCache
<1>1. Stepwise'
  BY DEF Stepwise, Busy
<1>2. Exclusive'
  BY DEF Exclusive
<1> QED
  BY <1>1, <1>2

LEMMA PipelinesResetSerial ==
  ASSUME SerialInv, NEW s \in Syncers, PipelinesReset(s)
  PROVE  Stepwise' /\ Exclusive'
<1> USE DEF SerialInv, TypeInv, TypeOK, SyncerTypeOK, PipelinesReset
<1>1. Stepwise'
  BY DEF Stepwise, Busy
<1>2. Exclusive'
  BY DEF Exclusive
<1> QED
  BY <1>1, <1>2

LEMMA TaskFailsSerial ==
  ASSUME SerialInv, NEW s \in Syncers, TaskFails(s)
  PROVE  Stepwise' /\ Exclusive'
<1> USE DEF SerialInv, TypeInv, TypeOK, SyncerTypeOK, TaskFails, Forget, Survives
<1>1. Stepwise'
  BY DEF Stepwise, Busy
<1>2. Exclusive'
  BY DEF Exclusive
<1> QED
  BY <1>1, <1>2

LEMMA FlushSendSerial ==
  ASSUME SerialInv, NEW s \in Syncers, FlushSend(s)
  PROVE  Stepwise' /\ Exclusive'
<1> USE DEF SerialInv, TypeInv, TypeOK, SyncerTypeOK, FlushSend
<1>1. Stepwise'
  BY DEF Stepwise, Busy
<1>2. Exclusive'
  BY DEF Exclusive
<1> QED
  BY <1>1, <1>2

LEMMA FlushRejectedSerial ==
  ASSUME SerialInv, NEW s \in Syncers, FlushRejected(s)
  PROVE  Stepwise' /\ Exclusive'
<1> USE DEF SerialInv, TypeInv, TypeOK, SyncerTypeOK, FlushRejected, Discard, Forget, Survives
<1>1. Stepwise'
  BY DEF Stepwise, Busy
<1>2. Exclusive'
  BY DEF Exclusive
<1> QED
  BY <1>1, <1>2

LEMMA ApplySerial ==
  ASSUME SerialInv, NEW s \in Syncers, Apply(s)
  PROVE  Stepwise' /\ Exclusive'
<1> USE DEF SerialInv, TypeInv, TypeOK, SyncerTypeOK, Apply
<1>1. Stepwise'
  BY DEF Stepwise, Busy
<1>2. Exclusive'
  BY DEF Exclusive
<1> QED
  BY <1>1, <1>2

LEMMA ApplyFailsSerial ==
  ASSUME SerialInv, NEW s \in Syncers, ApplyFails(s)
  PROVE  Stepwise' /\ Exclusive'
<1> USE DEF SerialInv, TypeInv, TypeOK, SyncerTypeOK, ApplyFails, Discard, Forget, Survives
<1>1. Stepwise'
  BY DEF Stepwise, Busy
<1>2. Exclusive'
  BY DEF Exclusive
<1> QED
  BY <1>1, <1>2

LEMMA RowsBeginSerial ==
  ASSUME SerialInv, NEW s \in Syncers, RowsBegin(s)
  PROVE  Stepwise' /\ Exclusive'
<1> USE DEF SerialInv, TypeInv, TypeOK, SyncerTypeOK, RowsBegin
<1>1. Stepwise'
  BY DEF Stepwise, Busy
<1>2. Exclusive'
  BY DEF Exclusive
<1> QED
  BY <1>1, <1>2

LEMMA RowsCommitSerial ==
  ASSUME SerialInv, NEW s \in Syncers, RowsCommit(s)
  PROVE  Stepwise' /\ Exclusive'
<1> USE DEF SerialInv, TypeInv, TypeOK, SyncerTypeOK, RowsCommit
<1>1. Stepwise'
  BY DEF Stepwise, Busy
<1>2. Exclusive'
  BY DEF Exclusive
<1> QED
  BY <1>1, <1>2

LEMMA RowsFailSerial ==
  ASSUME SerialInv, NEW s \in Syncers, RowsFail(s)
  PROVE  Stepwise' /\ Exclusive'
<1> USE DEF SerialInv, TypeInv, TypeOK, SyncerTypeOK, RowsFail
<1>1. Stepwise'
  BY DEF Stepwise, Busy
<1>2. Exclusive'
  BY DEF Exclusive
<1> QED
  BY <1>1, <1>2

LEMMA ShutdownSerial ==
  ASSUME SerialInv, NEW s \in Syncers, Shutdown(s)
  PROVE  Stepwise' /\ Exclusive'
<1> USE DEF SerialInv, TypeInv, TypeOK, SyncerTypeOK, Shutdown
<1>1. Stepwise'
  BY DEF Stepwise, Busy
<1>2. Exclusive'
  BY DEF Exclusive
<1> QED
  BY <1>1, <1>2

LEMMA ConnectSerial ==
  ASSUME SerialInv, NEW t \in Tasks, Connect(t)
  PROVE  Stepwise' /\ Exclusive'
<1> USE DEF SerialInv, TypeInv, TypeOK, SyncerTypeOK, Connect
<1>1. Stepwise'
  BY DEF Stepwise, Busy
<1>2. Exclusive'
  BY DEF Exclusive
<1> QED
  BY <1>1, <1>2

LEMMA TakeOverSerial ==
  ASSUME SerialInv, TakeOver
  PROVE  Stepwise' /\ Exclusive'
<1> USE DEF SerialInv, TypeInv, TypeOK, SyncerTypeOK, TakeOver
<1>1. Stepwise'
  BY DEF Stepwise, Busy
<1>2. Exclusive'
  BY DEF Exclusive
<1> QED
  BY <1>1, <1>2

LEMMA FlushBeginSerial ==
  ASSUME OneFirstFlush, SerialInv, NEW s \in Syncers, FlushBegin(s)
  PROVE  Stepwise' /\ Exclusive'
<1> USE DEF SerialInv, TypeInv, TypeOK, SyncerTypeOK, FlushBegin, Lockable, Unexpected,
            OneFirstFlush
<1>1. Stepwise'
  BY DEF Stepwise, Busy
<1>2. Exclusive'
  <2>1. \A o \in Syncers : o # s => phase[o] # "flushing"
    BY CVRAssumption DEF Exclusive, Syncers, CVRAssumption
  <2>2. version = 0 \/ lock' = s
    OBVIOUS
  <2>3. \A o \in Syncers : phase'[o] = "flushing" => o = s
    BY <2>1
  <2> QED
    BY <2>2, <2>3 DEF Exclusive
<1> QED
  BY <1>1, <1>2

LEMMA PrepareSerial ==
  ASSUME SerialInv, NEW s \in Syncers, Prepare(s)
  PROVE  Stepwise' /\ Exclusive'
<1> USE DEF SerialInv, TypeInv, TypeOK, SyncerTypeOK
<1>1. PICK c : next' = [next EXCEPT ![s] = [version |-> cvr[s].version + 1, config |-> c]]
  BY DEF Prepare
<1>2. phase' = [phase EXCEPT ![s] = "prepared"] /\ UNCHANGED <<version, cvr, lock>>
  BY DEF Prepare
<1>3. Stepwise'
  BY <1>1, <1>2 DEF Stepwise, Busy
<1>4. Exclusive'
  BY <1>2 DEF Exclusive
<1> QED
  BY <1>3, <1>4

\* View-syncers that are gone have nothing, the others what they had.
LEMMA DropOutcome ==
  ASSUME NEW S \in SUBSET Syncers, Drop(S), NEW o \in Syncers
  PROVE  /\ o \in S => /\ phase'[o] = "idle" /\ writes'[o] = {} /\ puts'[o] = NoRows
                       /\ cvr'[o] = NoCVR
         /\ o \notin S => /\ phase'[o] = phase[o] /\ writes'[o] = writes[o]
                          /\ puts'[o] = puts[o] /\ next'[o] = next[o]
                          /\ cvr'[o] = cvr[o]
  BY DEF Drop

LEMMA DropSerial ==
  ASSUME SerialInv, NEW S \in SUBSET Syncers, Drop(S), version' = version,
         \A o \in Syncers \ S : lock = o => lock' = o
  PROVE  Stepwise' /\ Exclusive'
<1> USE DropOutcome DEF SerialInv
<1>1. Stepwise'
  BY DEF Stepwise, Busy
<1>2. Exclusive'
  BY DEF Exclusive
<1> QED
  BY <1>1, <1>2

LEMMA EndedSerial ==
  ASSUME SerialInv, NEW s \in Syncers, Ended(s)
  PROVE  Stepwise' /\ Exclusive'
<1>1. UNCHANGED <<version, lock>>
  BY DEF Ended
<1>2. CASE phase[s] = "idle"
  BY <1>1, <1>2, DropSerial DEF Ended
<1>3. CASE phase[s] # "idle"
  <2>1. UNCHANGED memoryVars
    BY <1>3 DEF Ended
  <2> QED
    BY <1>1, <2>1 DEF SerialInv, Stepwise, Exclusive
<1> QED
  BY <1>2, <1>3

LEMMA CrashSerial ==
  ASSUME SerialInv, NEW t \in Tasks, Crash(t)
  PROVE  Stepwise' /\ Exclusive'
<1> DEFINE S == {s \in Syncers : TaskOf(s) = t}
<1>1. Drop(S) /\ S \in SUBSET Syncers /\ version' = version
  BY DEF Crash
<1>2. \A o \in Syncers \ S : lock = o => lock' = o
  BY DEF Crash
<1> QED
  BY <1>1, <1>2, DropSerial

LEMMA FlushCommitSerial ==
  ASSUME SerialInv, NEW s \in Syncers, FlushCommit(s)
  PROVE  Stepwise' /\ Exclusive'
<1> USE DEF SerialInv, TypeInv, TypeOK, SyncerTypeOK, FlushCommit, Committed
<1>1. Stepwise'
  BY DEF Stepwise, Busy
<1>2. Exclusive'
  BY DEF Exclusive
<1> QED
  BY <1>1, <1>2

LEMMA FlushFailsSerial ==
  ASSUME SerialInv, NEW s \in Syncers, FlushFails(s)
  PROVE  Stepwise' /\ Exclusive'
<1> USE DEF SerialInv, TypeInv, TypeOK, SyncerTypeOK, FlushFails, Discard, Forget
<1>1. Stepwise'
  BY DEF Stepwise, Busy
<1>2. /\ phase'[s] = "idle"
      /\ \A o \in Syncers : o # s => phase'[o] = phase[o] /\ cvr'[o] = cvr[o]
  OBVIOUS
<1>3. CASE Committed(s)
  <2>1. \A o \in Syncers : phase'[o] # "flushing"
    BY <1>2, <1>3 DEF Exclusive, Committed
  <2> QED
    BY <1>1, <2>1 DEF Exclusive
<1>4. CASE version' = version /\ lock' = IF lock = s THEN None ELSE lock
  BY <1>1, <1>2, <1>4 DEF Exclusive
<1> QED
  BY <1>3, <1>4

LEMMA NextSerial ==
  ASSUME OneFirstFlush, SerialInv, [Next]_vars
  PROVE  SerialInv'
<1>1. TypeInv'
  BY NextType DEF SerialInv
<1>2. Stepwise' /\ Exclusive' => SerialInv'
  BY <1>1 DEF SerialInv
<1>3. CASE UNCHANGED vars
  BY <1>2, <1>3 DEF vars, SerialInv, Stepwise, Exclusive
<1>4. CASE TakeOver
  BY <1>2, <1>4, TakeOverSerial
<1>5. ASSUME NEW t \in Tasks, Connect(t) \/ Crash(t)
      PROVE  SerialInv'
  BY <1>2, <1>5, ConnectSerial, CrashSerial
<1>6. ASSUME NEW s \in Syncers, Shutdown(s) \/ Ended(s)
      PROVE  SerialInv'
  BY <1>2, <1>6, ShutdownSerial, EndedSerial
<1>7. ASSUME NEW s \in Syncers, Load(s)
      PROVE  SerialInv'
  BY <1>2, <1>7, LoadBeginSerial, LoadInstanceSerial, LoadAgainSerial, LoadFailsSerial,
     LoadConfigSerial DEF Load
<1>8. ASSUME NEW s \in Syncers, Work(s)
      PROVE  SerialInv'
  BY <1>2, <1>8, TaskBeginSerial, TaskEndSerial, FillCacheSerial, PrepareSerial,
     PipelinesResetSerial, TaskFailsSerial DEF Work
<1>9. ASSUME NEW s \in Syncers, Flush(s)
      PROVE  SerialInv'
  BY <1>2, <1>9, FlushSendSerial, FlushBeginSerial, FlushRejectedSerial,
     FlushCommitSerial, FlushFailsSerial, ApplySerial, ApplyFailsSerial DEF Flush
<1>10. ASSUME NEW s \in Syncers, FlushRows(s)
       PROVE  SerialInv'
  BY <1>2, <1>10, RowsBeginSerial, RowsCommitSerial, RowsFailSerial DEF FlushRows
<1> QED
  BY <1>3, <1>4, <1>5, <1>6, <1>7, <1>8, <1>9, <1>10 DEF Next

LEMMA InitSerial ==
  ASSUME Init
  PROVE  SerialInv
  BY InitType DEF Init, SerialInv, Stepwise, Exclusive, Busy

-----------------------------------------------------------------------------
(* The CVR goes from version to version *)

\* Moreover, lock tasks do not leave anything in the store that a later one finds there.
Orderly == OneFirstFlush /\ "softError" \notin Environment

\* No update is anywhere before it has been begun.
Known ==
  /\ config \subseteq 1 .. updates
  /\ \A r \in Rows : content[r] <= updates
  /\ \A s \in Syncers : /\ writes[s] \subseteq 1 .. updates
                        /\ \A r \in Rows : puts[s][r] <= updates

\* The store is empty when an update is made.
Clean(s) == writes[s] = {} /\ puts[s] = NoRows
CleanAtWork ==
  \A s \in Syncers :
    /\ status[s] = "new" => phase[s] = "idle"
    /\ phase[s] \in {"loading", "reading", "working"} => Clean(s)
    /\ phase[s] = "idle" /\ status[s] \in {"new", "up"} => Clean(s)

\* What s has put into the store is update u, which nobody else has.
Sole(s, u) == writes[s] \subseteq {u} /\ \A r \in Rows : puts[s][r] \in {NoUpdate, u}
Uncommitted(u) == u \notin config /\ \A r \in Rows : content[r] # u
NotOf(o, u) == u \notin writes[o] /\ \A r \in Rows : puts[o][r] # u
Mine(s, u) == /\ Sole(s, u) /\ Uncommitted(u)
              /\ \A o \in Syncers \ {s} : NotOf(o, u)
OwnUpdate == \A s \in Syncers : phase[s] \in Busy =>
               \E u \in 1 .. updates : Mine(s, u)

HistoryInv == SerialInv /\ Known /\ CleanAtWork /\ OwnUpdate

\* What most steps leave as it is: nothing new is in any store or in the database, and
\* who is busy has been so.
Lessens ==
  /\ UNCHANGED <<config, content, updates>>
  /\ \A o \in Syncers : /\ writes'[o] \in {writes[o], {}}
                        /\ puts'[o] \in {puts[o], NoRows}
  /\ \A o \in Syncers : phase'[o] \in Busy =>
       /\ phase[o] \in Busy
       /\ writes'[o] = writes[o] /\ puts'[o] = puts[o]

LEMMA LessensKeeps ==
  ASSUME TypeInv, Known, OwnUpdate, Lessens
  PROVE  Known' /\ OwnUpdate'
<1>1. Known'
  BY DEF Lessens, Known, NoRows, NoUpdate, TypeInv, TypeOK, DbTypeOK
<1>2. ASSUME NEW s \in Syncers, phase'[s] \in Busy
      PROVE  \E u \in 1 .. updates' : Mine(s, u)'
  <2>1. PICK u \in 1 .. updates : Mine(s, u)
    BY <1>2 DEF Lessens, OwnUpdate
  <2>2. Sole(s, u)' /\ Uncommitted(u)'
    BY <1>2, <2>1 DEF Lessens, Mine, Sole, Uncommitted
  <2>3. ASSUME NEW o \in Syncers, o # s
        PROVE  NotOf(o, u)'
    BY <2>1, <2>3 DEF Lessens, Mine, NotOf, NoRows, NoUpdate
  <2> QED
    BY <2>2, <2>3 DEF Lessens, Mine
<1> QED
  BY <1>1, <1>2 DEF OwnUpdate

LEMMA LoadBeginHistory ==
  ASSUME HistoryInv, NEW s \in Syncers, LoadBegin(s)
  PROVE  Lessens /\ CleanAtWork'
<1> USE DEF HistoryInv, SerialInv, TypeInv, TypeOK, SyncerTypeOK, StoreTypeOK, LoadBegin
<1>1. Lessens
  BY DEF Lessens, Busy
<1>2. CleanAtWork'
  BY DEF CleanAtWork, Clean
<1> QED
  BY <1>1, <1>2

LEMMA LoadInstanceHistory ==
  ASSUME HistoryInv, NEW s \in Syncers, LoadInstance(s)
  PROVE  Lessens /\ CleanAtWork'
<1> USE DEF HistoryInv, SerialInv, TypeInv, TypeOK, SyncerTypeOK, StoreTypeOK,
            LoadInstance
<1>1. Lessens
  BY DEF Lessens, Busy
<1>2. CleanAtWork'
  BY DEF CleanAtWork, Clean
<1> QED
  BY <1>1, <1>2

LEMMA LoadAgainHistory ==
  ASSUME HistoryInv, NEW s \in Syncers, LoadAgain(s)
  PROVE  Lessens /\ CleanAtWork'
<1> USE DEF HistoryInv, SerialInv, TypeInv, TypeOK, SyncerTypeOK, StoreTypeOK, LoadAgain
<1>1. Lessens
  BY DEF Lessens, Busy
<1>2. CleanAtWork'
  BY DEF CleanAtWork, Clean
<1> QED
  BY <1>1, <1>2

LEMMA LoadFailsHistory ==
  ASSUME HistoryInv, NEW s \in Syncers, LoadFails(s)
  PROVE  Lessens /\ CleanAtWork'
<1> USE DEF HistoryInv, SerialInv, TypeInv, TypeOK, SyncerTypeOK, StoreTypeOK,
            LoadFails, Survives
<1>1. Lessens
  BY DEF Lessens, Busy
<1>2. CleanAtWork'
  BY DEF CleanAtWork, Clean
<1> QED
  BY <1>1, <1>2

LEMMA LoadConfigHistory ==
  ASSUME HistoryInv, NEW s \in Syncers, LoadConfig(s)
  PROVE  Lessens /\ CleanAtWork'
<1> USE DEF HistoryInv, SerialInv, TypeInv, TypeOK, SyncerTypeOK, StoreTypeOK, LoadConfig
<1>1. Lessens
  BY DEF Lessens, Busy
<1>2. CleanAtWork'
  BY DEF CleanAtWork, Clean
<1> QED
  BY <1>1, <1>2

LEMMA TaskBeginHistory ==
  ASSUME HistoryInv, NEW s \in Syncers, TaskBegin(s)
  PROVE  Lessens /\ CleanAtWork'
<1> USE DEF HistoryInv, SerialInv, TypeInv, TypeOK, SyncerTypeOK, StoreTypeOK, TaskBegin
<1>1. Lessens
  BY DEF Lessens, Busy
<1>2. CleanAtWork'
  BY DEF CleanAtWork, Clean
<1> QED
  BY <1>1, <1>2

LEMMA TaskEndHistory ==
  ASSUME HistoryInv, NEW s \in Syncers, TaskEnd(s)
  PROVE  Lessens /\ CleanAtWork'
<1> USE DEF HistoryInv, SerialInv, TypeInv, TypeOK, SyncerTypeOK, StoreTypeOK, TaskEnd
<1>1. Lessens
  BY DEF Lessens, Busy
<1>2. CleanAtWork'
  BY DEF CleanAtWork, Clean
<1> QED
  BY <1>1, <1>2

LEMMA FillCacheHistory ==
  ASSUME HistoryInv, NEW s \in Syncers, FillCache(s)
  PROVE  Lessens /\ CleanAtWork'
<1> USE DEF HistoryInv, SerialInv, TypeInv, TypeOK, SyncerTypeOK, StoreTypeOK, FillCache
<1>1. Lessens
  BY DEF Lessens, Busy
<1>2. CleanAtWork'
  BY DEF CleanAtWork, Clean
<1> QED
  BY <1>1, <1>2

LEMMA FlushSendHistory ==
  ASSUME HistoryInv, NEW s \in Syncers, FlushSend(s)
  PROVE  Lessens /\ CleanAtWork'
<1> USE DEF HistoryInv, SerialInv, TypeInv, TypeOK, SyncerTypeOK, StoreTypeOK, FlushSend
<1>1. Lessens
  BY DEF Lessens, Busy
<1>2. CleanAtWork'
  BY DEF CleanAtWork, Clean
<1> QED
  BY <1>1, <1>2

LEMMA FlushBeginHistory ==
  ASSUME HistoryInv, NEW s \in Syncers, FlushBegin(s)
  PROVE  Lessens /\ CleanAtWork'
<1> USE DEF HistoryInv, SerialInv, TypeInv, TypeOK, SyncerTypeOK, StoreTypeOK,
            FlushBegin, Lockable, Unexpected
<1>1. Lessens
  BY DEF Lessens, Busy
<1>2. CleanAtWork'
  BY DEF CleanAtWork, Clean
<1> QED
  BY <1>1, <1>2

LEMMA FlushRejectedHistory ==
  ASSUME HistoryInv, NEW s \in Syncers, FlushRejected(s)
  PROVE  Lessens /\ CleanAtWork'
<1> USE DEF HistoryInv, SerialInv, TypeInv, TypeOK, SyncerTypeOK, StoreTypeOK,
            FlushRejected, Discard, Forget, Survives
<1>1. Lessens
  BY DEF Lessens, Busy
<1>2. CleanAtWork'
  BY DEF CleanAtWork, Clean
<1> QED
  BY <1>1, <1>2

LEMMA ApplyHistory ==
  ASSUME HistoryInv, NEW s \in Syncers, Apply(s)
  PROVE  Lessens /\ CleanAtWork'
<1> USE DEF HistoryInv, SerialInv, TypeInv, TypeOK, SyncerTypeOK, StoreTypeOK, Apply
<1>1. Lessens
  BY DEF Lessens, Busy
<1>2. CleanAtWork'
  BY DEF CleanAtWork, Clean
<1> QED
  BY <1>1, <1>2

LEMMA ApplyFailsHistory ==
  ASSUME HistoryInv, NEW s \in Syncers, ApplyFails(s)
  PROVE  Lessens /\ CleanAtWork'
<1> USE DEF HistoryInv, SerialInv, TypeInv, TypeOK, SyncerTypeOK, StoreTypeOK,
            ApplyFails, Discard, Forget, Survives
<1>1. Lessens
  BY DEF Lessens, Busy
<1>2. CleanAtWork'
  BY DEF CleanAtWork, Clean
<1> QED
  BY <1>1, <1>2

LEMMA RowsBeginHistory ==
  ASSUME HistoryInv, NEW s \in Syncers, RowsBegin(s)
  PROVE  Lessens /\ CleanAtWork'
<1> USE DEF HistoryInv, SerialInv, TypeInv, TypeOK, SyncerTypeOK, StoreTypeOK, RowsBegin
<1>1. Lessens
  BY DEF Lessens, Busy
<1>2. CleanAtWork'
  BY DEF CleanAtWork, Clean
<1> QED
  BY <1>1, <1>2

LEMMA RowsCommitHistory ==
  ASSUME HistoryInv, NEW s \in Syncers, RowsCommit(s)
  PROVE  Lessens /\ CleanAtWork'
<1> USE DEF HistoryInv, SerialInv, TypeInv, TypeOK, SyncerTypeOK, StoreTypeOK, RowsCommit
<1>1. Lessens
  BY DEF Lessens, Busy
<1>2. CleanAtWork'
  BY DEF CleanAtWork, Clean
<1> QED
  BY <1>1, <1>2

LEMMA RowsFailHistory ==
  ASSUME HistoryInv, NEW s \in Syncers, RowsFail(s)
  PROVE  Lessens /\ CleanAtWork'
<1> USE DEF HistoryInv, SerialInv, TypeInv, TypeOK, SyncerTypeOK, StoreTypeOK, RowsFail
<1>1. Lessens
  BY DEF Lessens, Busy
<1>2. CleanAtWork'
  BY DEF CleanAtWork, Clean
<1> QED
  BY <1>1, <1>2

LEMMA ShutdownHistory ==
  ASSUME HistoryInv, NEW s \in Syncers, Shutdown(s)
  PROVE  Lessens /\ CleanAtWork'
<1> USE DEF HistoryInv, SerialInv, TypeInv, TypeOK, SyncerTypeOK, StoreTypeOK, Shutdown
<1>1. Lessens
  BY DEF Lessens, Busy
<1>2. CleanAtWork'
  BY DEF CleanAtWork, Clean
<1> QED
  BY <1>1, <1>2

LEMMA TaskFailsHistory ==
  ASSUME HistoryInv, NEW s \in Syncers, TaskFails(s), Orderly
  PROVE  Lessens /\ CleanAtWork'
<1> USE DEF HistoryInv, SerialInv, TypeInv, TypeOK, SyncerTypeOK, StoreTypeOK,
            TaskFails, Forget, Survives, Orderly
<1>1. Lessens
  BY DEF Lessens, Busy
<1>2. CleanAtWork'
  BY DEF CleanAtWork, Clean
<1> QED
  BY <1>1, <1>2

LEMMA PipelinesResetHistory ==
  ASSUME HistoryInv, NEW s \in Syncers, PipelinesReset(s), Orderly
  PROVE  Lessens /\ CleanAtWork'
<1> USE DEF HistoryInv, SerialInv, TypeInv, TypeOK, SyncerTypeOK, StoreTypeOK,
            PipelinesReset, Orderly
<1>1. Lessens
  BY DEF Lessens, Busy
<1>2. CleanAtWork'
  BY DEF CleanAtWork, Clean
<1> QED
  BY <1>1, <1>2

LEMMA ConnectHistory ==
  ASSUME HistoryInv, NEW t \in Tasks, Connect(t)
  PROVE  Lessens /\ CleanAtWork'
<1> USE DEF HistoryInv, SerialInv, TypeInv, TypeOK, SyncerTypeOK, StoreTypeOK, Connect
<1>1. Lessens
  BY DEF Lessens, Busy
<1>2. CleanAtWork'
  BY DEF CleanAtWork, Clean
<1> QED
  BY <1>1, <1>2

LEMMA TakeOverHistory ==
  ASSUME HistoryInv, TakeOver
  PROVE  Lessens /\ CleanAtWork'
<1> USE DEF HistoryInv, SerialInv, TypeInv, TypeOK, SyncerTypeOK, StoreTypeOK, TakeOver
<1>1. Lessens
  BY DEF Lessens, Busy
<1>2. CleanAtWork'
  BY DEF CleanAtWork, Clean
<1> QED
  BY <1>1, <1>2

LEMMA DropHistory ==
  ASSUME HistoryInv, NEW S \in SUBSET Syncers, Drop(S),
         UNCHANGED <<config, content, updates>>,
         \A o \in Syncers \ S : status'[o] = status[o]
  PROVE  Lessens /\ CleanAtWork'
<1> USE DropOutcome
<1>1. Lessens
  BY DEF Lessens, Busy
<1>2. CleanAtWork'
  BY DEF HistoryInv, CleanAtWork, Clean
<1> QED
  BY <1>1, <1>2

LEMMA EndedHistory ==
  ASSUME HistoryInv, NEW s \in Syncers, Ended(s)
  PROVE  Lessens /\ CleanAtWork'
<1>1. /\ UNCHANGED <<config, content, updates>>
      /\ status' = [status EXCEPT ![s] = "ended"]
      /\ status \in [Syncers -> {"new", "up", "stopping", "ended"}]
  BY DEF Ended, HistoryInv, SerialInv, TypeInv, TypeOK, SyncerTypeOK
<1>2. CASE phase[s] = "idle"
  <2>1. Drop({s})
    BY <1>2 DEF Ended
  <2> QED
    BY <1>1, <2>1, DropHistory
<1>3. CASE phase[s] # "idle"
  <2>1. UNCHANGED memoryVars
    BY <1>3 DEF Ended
  <2> USE <1>1, <2>1
  <2>2. Lessens
    BY DEF Lessens
  <2>3. CleanAtWork'
    BY DEF HistoryInv, CleanAtWork, Clean
  <2> QED
    BY <2>2, <2>3
<1> QED
  BY <1>2, <1>3

LEMMA CrashHistory ==
  ASSUME HistoryInv, NEW t \in Tasks, Crash(t)
  PROVE  Lessens /\ CleanAtWork'
<1> DEFINE S == {s \in Syncers : TaskOf(s) = t}
<1>1. /\ Drop(S) /\ S \in SUBSET Syncers
      /\ UNCHANGED <<config, content, updates>>
  BY DEF Crash
<1>2. \A o \in Syncers \ S : status'[o] = status[o]
  BY DEF Crash
<1> QED
  BY <1>1, <1>2, DropHistory

LEMMA PrepareHistory ==
  ASSUME HistoryInv, NEW s \in Syncers, Prepare(s)
  PROVE  Known' /\ OwnUpdate' /\ CleanAtWork'
<1> USE DEF HistoryInv, SerialInv, TypeInv, TypeOK
<1>0. PICK u : u = updates + 1
  OBVIOUS
<1>1. PICK configured \in BOOLEAN, changed \in SUBSET Rows :
        /\ writes' = [writes EXCEPT ![s] =
             @ \cup (IF configured THEN {updates + 1} ELSE {})]
        /\ puts' = [puts EXCEPT ![s] =
             [r \in Rows |-> IF r \in changed THEN updates + 1 ELSE @[r]]]
  BY DEF Prepare
<1>2. /\ updates' = u /\ updates \in 0 .. MaxUpdates
      /\ UNCHANGED <<config, content, status>>
      /\ phase[s] = "working" /\ phase' = [phase EXCEPT ![s] = "prepared"]
  BY <1>0 DEF Prepare, DbTypeOK
<1>3. Clean(s)
  BY <1>2 DEF CleanAtWork
<1>4. /\ writes'[s] \subseteq {u}
      /\ \A r \in Rows : puts'[s][r] \in {NoUpdate, u}
  BY <1>0, <1>1, <1>3 DEF Clean, NoRows, StoreTypeOK, SyncerTypeOK
<1>5. \A o \in Syncers : o # s =>
        /\ writes'[o] = writes[o] /\ puts'[o] = puts[o]
        /\ phase'[o] = phase[o]
  BY <1>1, <1>2 DEF StoreTypeOK, SyncerTypeOK
<1>6. phase'[s] = "prepared"
  BY <1>2 DEF SyncerTypeOK
<1>7. Known'
  <2>1. /\ config' \subseteq 1 .. updates' /\ writes'[s] \subseteq 1 .. updates'
        /\ \A o \in Syncers : o # s => writes'[o] \subseteq 1 .. updates'
    BY <1>0, <1>2, <1>4, <1>5 DEF Known
  <2>2. \A r \in Rows : content[r] \in Nat /\ content'[r] <= updates'
    BY <1>0, <1>2, Constants DEF Known, DbTypeOK, Records
  <2>3. \A r \in Rows : puts'[s][r] <= updates'
    BY <1>0, <1>2, <1>4, Constants DEF NoUpdate
  <2>4. \A o \in Syncers : o # s =>
          \A r \in Rows : puts[o][r] \in Nat /\ puts'[o][r] <= updates'
    BY <1>0, <1>2, <1>5, Constants DEF Known, StoreTypeOK, Records
  <2> QED
    BY <2>1, <2>2, <2>3, <2>4 DEF Known
<1>8. OwnUpdate'
  <2>1. \A o \in Syncers \ {s} : NotOf(o, u)' /\ NotOf(o, u)
    BY <1>0, <1>2, <1>5, Constants DEF Known, NotOf, StoreTypeOK, Records
  <2>2. Mine(s, u)'
    <3>1. Sole(s, u)'
      BY <1>4 DEF Sole
    <3>2. Uncommitted(u)'
      BY <1>0, <1>2, Constants DEF Known, Uncommitted, DbTypeOK, Records
    <3> QED
      BY <2>1, <3>1, <3>2 DEF Mine
  <2>3. ASSUME NEW o \in Syncers, o # s, phase'[o] \in Busy
        PROVE  \E v \in 1 .. updates' : Mine(o, v)'
    <3>1. PICK v \in 1 .. updates : Mine(o, v)
      BY <1>5, <2>3 DEF OwnUpdate
    <3>2. v # u /\ v # NoUpdate /\ v \in 1 .. updates'
      BY <1>0, <1>2, Constants DEF NoUpdate
    <3>3. Sole(o, v)' /\ Uncommitted(v)'
      BY <1>2, <1>5, <2>3, <3>1 DEF Mine, Sole, Uncommitted
    <3>4. NotOf(s, v)'
      BY <1>4, <3>2 DEF NotOf
    <3>5. \A q \in Syncers \ {o, s} : NotOf(q, v)'
      BY <1>5, <3>1 DEF Mine, NotOf
    <3> QED
      BY <3>2, <3>3, <3>4, <3>5 DEF Mine
  <2> QED
    BY <1>0, <1>2, <1>4, <1>5, <2>2, <2>3, Constants DEF OwnUpdate
<1>9. CleanAtWork'
  BY <1>2, <1>5, <1>6 DEF CleanAtWork, Clean
<1> QED
  BY <1>7, <1>8, <1>9

LEMMA CommittedHistory ==
  ASSUME HistoryInv, NEW s \in Syncers, Committed(s), phase'[s] \notin Busy,
         \A o \in Syncers : o # s => phase'[o] = phase[o],
         \A o \in Syncers :
           /\ writes'[o] \in {writes[o], {}} /\ puts'[o] \in {puts[o], NoRows}
           /\ o # s => writes'[o] = writes[o] /\ puts'[o] = puts[o]
  PROVE  Known' /\ OwnUpdate'
<1>1. /\ config' = config \cup writes[s] /\ updates' = updates
      /\ phase[s] = "flushing"
  BY DEF Committed
<1>2. \A r \in Rows : content'[r] \in {content[r], puts[s][r]}
  BY DEF Committed, Overlay
<1>3. Known'
  <2>1. config' \subseteq 1 .. updates' /\ \A r \in Rows : content'[r] <= updates'
    BY <1>1, <1>2 DEF HistoryInv, Known
  <2>2. \A o \in Syncers : /\ writes'[o] \subseteq 1 .. updates'
                            /\ \A r \in Rows : puts'[o][r] <= updates'
    BY <1>1 DEF HistoryInv, Known, NoRows, NoUpdate, SerialInv, TypeInv, TypeOK, DbTypeOK
  <2> QED
    BY <2>1, <2>2 DEF Known
<1>4. OwnUpdate'
  <2> SUFFICES ASSUME NEW o \in Syncers, phase'[o] \in Busy
               PROVE  \E u \in 1 .. updates : Mine(o, u)'
    BY <1>1 DEF OwnUpdate
  <2>1. o # s /\ phase[o] \in Busy
    OBVIOUS
  <2>2. PICK u \in 1 .. updates : Mine(o, u)
    BY <2>1 DEF HistoryInv, OwnUpdate
  <2>3. NotOf(s, u)
    BY <2>1, <2>2 DEF Mine
  <2>4. Sole(o, u)' /\ Uncommitted(u)'
    BY <1>1, <1>2, <2>1, <2>2, <2>3 DEF Mine, Sole, Uncommitted, NotOf
  <2>5. ASSUME NEW q \in Syncers, q # o
        PROVE  NotOf(q, u)'
    BY <2>2, <2>5 DEF Mine, NotOf, NoRows, NoUpdate
  <2> QED
    BY <2>2, <2>4, <2>5 DEF Mine
<1> QED
  BY <1>3, <1>4

LEMMA FlushCommitHistory ==
  ASSUME HistoryInv, NEW s \in Syncers, FlushCommit(s)
  PROVE  Known' /\ OwnUpdate' /\ CleanAtWork'
<1> USE DEF HistoryInv, SerialInv, TypeInv, TypeOK, SyncerTypeOK, FlushCommit
<1>1. phase'[s] \notin Busy
  BY DEF Busy
<1>2. \A o \in Syncers : o # s => phase'[o] = phase[o]
  OBVIOUS
<1>3. Known' /\ OwnUpdate'
  BY <1>1, <1>2, CommittedHistory
<1>4. CleanAtWork'
  BY DEF CleanAtWork, Clean, Committed
<1> QED
  BY <1>3, <1>4

LEMMA FlushFailsHistory ==
  ASSUME HistoryInv, NEW s \in Syncers, FlushFails(s)
  PROVE  Known' /\ OwnUpdate' /\ CleanAtWork'
<1> USE DEF HistoryInv, SerialInv, TypeInv, TypeOK, SyncerTypeOK, StoreTypeOK, FlushFails,
            Discard, Forget
<1>1. phase'[s] \notin Busy
  BY DEF Busy
<1>2. \A o \in Syncers : o # s =>
        /\ phase'[o] = phase[o]
        /\ writes'[o] = writes[o] /\ puts'[o] = puts[o]
  OBVIOUS
<1>3. writes'[s] = {} /\ puts'[s] = NoRows
  OBVIOUS
<1>4. Known' /\ OwnUpdate'
  <2>1. CASE Committed(s)
    BY <1>1, <1>2, <1>3, <2>1, CommittedHistory
  <2>2. CASE UNCHANGED <<config, content, updates>>
    <3>1. Lessens
      BY <1>1, <1>2, <1>3, <2>2 DEF Lessens
    <3> QED
      BY <3>1, LessensKeeps
  <2> QED
    BY <2>1, <2>2
<1>5. CleanAtWork'
  BY DEF CleanAtWork, Clean, Survives
<1> QED
  BY <1>4, <1>5

LEMMA InitHistory ==
  ASSUME Init
  PROVE  HistoryInv
<1>1. SerialInv
  BY InitSerial
<1>2. Known /\ CleanAtWork
  BY DEF Init, Known, CleanAtWork, Clean, NoRows, NoUpdate
<1>3. OwnUpdate
  BY DEF Init, OwnUpdate, Busy
<1> QED
  BY <1>1, <1>2, <1>3 DEF HistoryInv

LEMMA NextHistory ==
  ASSUME Orderly, HistoryInv, [Next]_vars
  PROVE  HistoryInv'
<1>1. SerialInv'
  BY NextSerial DEF HistoryInv, Orderly
<1>2. /\ Lessens /\ CleanAtWork' => HistoryInv'
      /\ Known' /\ OwnUpdate' /\ CleanAtWork' => HistoryInv'
  BY <1>1, LessensKeeps DEF HistoryInv, SerialInv
<1>3. CASE UNCHANGED vars
  <2>1. Lessens
    BY <1>3 DEF vars, Lessens
  <2>2. CleanAtWork'
    BY <1>3 DEF vars, HistoryInv, CleanAtWork, Clean
  <2> QED
    BY <1>2, <2>1, <2>2
<1>4. CASE TakeOver
  BY <1>2, <1>4, TakeOverHistory
<1>5. ASSUME NEW t \in Tasks, Connect(t) \/ Crash(t)
      PROVE  HistoryInv'
  BY <1>2, <1>5, ConnectHistory, CrashHistory
<1>6. ASSUME NEW s \in Syncers, Shutdown(s) \/ Ended(s)
      PROVE  HistoryInv'
  BY <1>2, <1>6, ShutdownHistory, EndedHistory
<1>7. ASSUME NEW s \in Syncers, Load(s)
      PROVE  HistoryInv'
  BY <1>2, <1>7, LoadBeginHistory, LoadInstanceHistory, LoadAgainHistory,
     LoadFailsHistory, LoadConfigHistory DEF Load
<1>8. ASSUME NEW s \in Syncers, Work(s)
      PROVE  HistoryInv'
  BY <1>2, <1>8, TaskBeginHistory, TaskEndHistory, FillCacheHistory, PrepareHistory,
     PipelinesResetHistory, TaskFailsHistory DEF Work
<1>9. ASSUME NEW s \in Syncers, Flush(s)
      PROVE  HistoryInv'
  BY <1>2, <1>9, FlushSendHistory, FlushBeginHistory, FlushRejectedHistory,
     FlushCommitHistory, FlushFailsHistory, ApplyHistory, ApplyFailsHistory DEF Flush
<1>10. ASSUME NEW s \in Syncers, FlushRows(s)
       PROVE  HistoryInv'
  BY <1>2, <1>10, RowsBeginHistory, RowsCommitHistory, RowsFailHistory DEF FlushRows
<1> QED
  BY <1>3, <1>4, <1>5, <1>6, <1>7, <1>8, <1>9, <1>10 DEF Next

LEMMA CommittedRefines ==
  ASSUME HistoryInv, NEW s \in Syncers, Committed(s)
  PROVE  History!Next
<1>1. phase[s] \in Busy /\ phase[s] = "flushing"
  BY DEF Committed, Busy
<1>2. PICK u \in 1 .. updates : Mine(s, u)
  BY <1>1 DEF HistoryInv, OwnUpdate
<1>3. u \in 1 .. MaxUpdates
  BY Constants DEF HistoryInv, SerialInv, TypeInv, TypeOK, DbTypeOK
<1>4. History!Fresh(u)
  BY <1>2 DEF History!Fresh, Mine, Uncommitted
<1>5. History!Commit(u)
  <2>1. version' = version + 1
    BY <1>1 DEF Committed, HistoryInv, SerialInv, Stepwise, Exclusive
  <2>2. config' \in {config, config \cup {u}}
    BY <1>2 DEF Committed, Mine, Sole
  <2>3. content' = [r \in Rows |-> IF r \in Changed(puts[s]) THEN u ELSE content[r]]
    BY <1>2 DEF Committed, Mine, Sole, Overlay, Changed
  <2>4. Changed(puts[s]) \in SUBSET Rows
    BY DEF Changed
  <2> QED
    BY <2>1, <2>2, <2>3, <2>4 DEF History!Commit
<1> QED
  BY <1>3, <1>4, <1>5 DEF History!Next

LEMMA NextRefines ==
  ASSUME HistoryInv, [Next]_vars
  PROVE  [History!Next]_(History!historyVars)
<1>1. CASE \E s \in Syncers : Committed(s)
  BY <1>1, CommittedRefines
<1>2. ASSUME \A s \in Syncers : ~Committed(s)
      PROVE  UNCHANGED <<version, config, content>>
  <2>1. CASE UNCHANGED vars
    BY <2>1 DEF vars
  <2>2. CASE TakeOver
    BY <2>2 DEF TakeOver
  <2>3. ASSUME NEW t \in Tasks, Connect(t) \/ Crash(t)
        PROVE  UNCHANGED <<version, config, content>>
    BY <2>3 DEF Connect, Crash
  <2>4. ASSUME NEW s \in Syncers, Shutdown(s) \/ Ended(s)
        PROVE  UNCHANGED <<version, config, content>>
    BY <2>4 DEF Shutdown, Ended
  <2>5. ASSUME NEW s \in Syncers, Load(s)
        PROVE  UNCHANGED <<version, config, content>>
    BY <2>5 DEF Load, LoadBegin, LoadInstance, LoadAgain, LoadFails, LoadConfig
  <2>6. ASSUME NEW s \in Syncers, Work(s)
        PROVE  UNCHANGED <<version, config, content>>
    BY <2>6 DEF Work, TaskBegin, TaskEnd, FillCache, Prepare, PipelinesReset, TaskFails
  <2>7. ASSUME NEW s \in Syncers, Flush(s)
        PROVE  UNCHANGED <<version, config, content>>
    BY <1>2, <2>7 DEF Flush, FlushSend, FlushBegin, FlushRejected, FlushCommit,
                      FlushFails, Apply, ApplyFails
  <2>8. ASSUME NEW s \in Syncers, FlushRows(s)
        PROVE  UNCHANGED <<version, config, content>>
    BY <2>8 DEF FlushRows, RowsBegin, RowsCommit, RowsFail
  <2> QED
    BY <2>1, <2>2, <2>3, <2>4, <2>5, <2>6, <2>7, <2>8 DEF Next
<1> QED
  BY <1>1, <1>2 DEF History!historyVars

\* However the view-syncers of several tasks load, change and take over the CVR, its
\* committed versions follow one another, each made by one update from the one before,
\* provided that lock tasks leave nothing behind in the store (softError) and that the
\* CVR is not created twice (firstFlush).
THEOREM StoreImplementsHistory ==
  ASSUME Orderly
  PROVE  Spec => ImplementsHistory
<1>1. Init => HistoryInv
  BY InitHistory
<1>2. HistoryInv /\ [Next]_vars => HistoryInv'
  BY NextHistory
<1>3. Init => History!Init
  BY DEF Init, History!Init, NoRows, NoUpdate
<1>4. HistoryInv /\ [Next]_vars => [History!Next]_(History!historyVars)
  BY NextRefines
<1> QED
  BY <1>1, <1>2, <1>3, <1>4, PTL DEF Spec, ImplementsHistory, History!Spec

-----------------------------------------------------------------------------
(* Rows that are written back later *)

\* The CVR of s is at the version of the database.
At(s) == cvr[s] # NoCVR /\ cvr[s].version = version /\ phase[s] # "applying"

\* s has still to hand over, or to write, rows that it has put off, or never will.
HandsOver(s) == phase[s] = "applying" /\ deferred[s]
Owing(s) == flushing[s] \in {"due", "writing"}
Stake(s) == HandsOver(s) \/ flushing[s] # "no"

\* The rows in the database once s has written what it has.
Owed(s) == Overlay(Overlay(rows, batch[s]), pending[s])

\* Nothing is ahead of the database.
Behind ==
  /\ rowsVersion <= version
  /\ \A s \in Syncers :
       /\ cvr[s].version <= version /\ pendingVersion[s] <= version
       /\ batchVersion[s] <= pendingVersion[s]
       /\ phase[s] = "applying" => next[s].version <= version
       /\ HandsOver(s) => next[s].version = version /\ pendingVersion[s] < version

\* Only one view-syncer has a stake, as long as there is one the rows are not those of the
\* CVR, and no other has a CVR that it could commit.
OneStake ==
  \A s \in Syncers :
    /\ Stake(s) => rowsVersion # version
    /\ \A o \in Syncers : Stake(s) /\ (Stake(o) \/ At(o)) => o = s
    /\ At(s) => Stake(s) \/ rowsVersion = version
    /\ phase[s] = "applying" /\ ~deferred[s] /\ next[s].version = version =>
         rowsVersion = version

\* What the row cache keeps at each point of its #flush(), and that a flush of the CVR
\* does not pass rows that are still to be written.
CacheOrder ==
  \A s \in Syncers :
    /\ flushing[s] = "no" => pending[s] = NoRows
    /\ flushing[s] \in {"no", "due"} => batch[s] = NoRows
    /\ flushing[s] = "writing" /\ pendingVersion[s] = batchVersion[s] =>
         pending[s] = NoRows
    /\ At(s) /\ Owing(s) => pendingVersion[s] = version
    /\ phase[s] \in {"sent", "flushing"} /\ ~deferred[s] => flushing[s] = "no"

\* What is owed makes up for what the database lacks.
Solvent ==
  \A s \in Syncers :
    /\ HandsOver(s) /\ flushing[s] # "failed" => Overlay(Owed(s), puts[s]) = content
    /\ Owing(s) /\ pendingVersion[s] = version => Owed(s) = content

RowsOK == RowsMatchVersion /\ Behind /\ OneStake /\ CacheOrder /\ Solvent

RowsInv == SerialInv /\ RowsOK

LEMMA OverlayLaws ==
  /\ \A f \in Records : Overlay(f, NoRows) = f
  /\ \A f, g, h \in Records : Overlay(Overlay(f, g), h) = Overlay(f, Overlay(g, h))
  BY DEF Overlay, NoRows, Records, NoUpdate

\* What a view-syncer keeps in a step that is not about its rows.
RowsSame(o) ==
  /\ pending'[o] = pending[o] /\ pendingVersion'[o] = pendingVersion[o]
  /\ flushing'[o] = flushing[o]
  /\ batch'[o] = batch[o] /\ batchVersion'[o] = batchVersion[o]
  /\ cvr'[o] = NoCVR \/ (cvr[o] # NoCVR /\ cvr'[o].version = cvr[o].version)
  /\ (phase'[o] = "applying") = (phase[o] = "applying")
  /\ phase'[o] = "applying" => /\ deferred'[o] = deferred[o] /\ puts'[o] = puts[o]
                               /\ next'[o] = next[o]
  /\ phase'[o] \in {"sent", "flushing"} /\ ~deferred'[o] =>
       flushing[o] = "no" \/ (phase[o] \in {"sent", "flushing"} /\ ~deferred[o])

\* What is left of one that is gone.
RowsGone(o) ==
  /\ phase'[o] = "idle" /\ cvr'[o] = NoCVR /\ flushing'[o] = "no"
  /\ pending'[o] = NoRows /\ batch'[o] = NoRows
  /\ pendingVersion'[o] = 0 /\ batchVersion'[o] = 0

RowsFrame ==
  /\ UNCHANGED <<version, content, rows, rowsVersion>>
  /\ \A o \in Syncers : RowsSame(o) \/ RowsGone(o)

LEMMA RowsFrameKeeps ==
  ASSUME RowsInv, RowsFrame
  PROVE  RowsOK'
<1> USE DEF RowsInv, SerialInv, TypeInv, TypeOK, RowsOK, RowsFrame
<1> USE Constants
<1>1. RowsMatchVersion'
  BY DEF RowsMatchVersion
<1>2. ASSUME NEW o \in Syncers
      PROVE  /\ HandsOver(o)' => HandsOver(o) /\ RowsSame(o)
             /\ At(o)' => At(o) /\ RowsSame(o)
             /\ Stake(o)' => Stake(o) /\ RowsSame(o)
             /\ At(o)' /\ Stake(o) => Stake(o)'
  BY <1>2 DEF HandsOver, At, Stake, RowsSame, RowsGone
<1>3. Behind'
  <2> SUFFICES ASSUME NEW o \in Syncers
               PROVE  (Behind!2!(o))'
    BY DEF Behind
  <2>1. CASE RowsSame(o)
    <3>1. cvr'[o].version <= version'
      BY <2>1 DEF Behind, RowsSame, DbTypeOK, Version
    <3> QED
      BY <1>2, <2>1, <3>1 DEF Behind, RowsSame, HandsOver
  <2>2. CASE RowsGone(o)
    BY <1>2, <2>2 DEF RowsGone, DbTypeOK, Version, HandsOver
  <2> QED
    BY <2>1, <2>2
<1>4. OneStake'
  BY <1>2 DEF OneStake, RowsSame, RowsGone
<1>5. CacheOrder'
  BY <1>2 DEF CacheOrder, Owing, RowsSame, RowsGone
<1>6. Solvent'
  <2>1. ASSUME NEW o \in Syncers, RowsSame(o)
        PROVE  Owed(o)' = Owed(o)
    BY <2>1 DEF Owed, RowsSame, Overlay
  <2>2. ASSUME NEW o \in Syncers, HandsOver(o)', flushing'[o] # "failed"
        PROVE  Overlay(Owed(o), puts[o])' = content'
    <3>1. /\ HandsOver(o) /\ RowsSame(o) /\ Owed(o)' = Owed(o)
          /\ puts'[o] = puts[o] /\ flushing[o] # "failed"
      BY <1>2, <2>1, <2>2 DEF HandsOver, RowsSame
    <3> QED
      BY <3>1 DEF Solvent, Overlay
  <2>3. ASSUME NEW o \in Syncers, Owing(o)', pendingVersion'[o] = version'
        PROVE  Owed(o)' = content'
    BY <2>1, <2>3 DEF Solvent, Owing, RowsSame, RowsGone
  <2> QED
    BY <2>2, <2>3 DEF Solvent
<1> QED
  BY <1>1, <1>3, <1>4, <1>5, <1>6

LEMMA ShutdownRows ==
  ASSUME RowsInv, NEW s \in Syncers, Shutdown(s)
  PROVE  RowsOK'
<1>1. RowsFrame
  BY Constants DEF RowsInv, SerialInv, TypeInv, TypeOK, SyncerTypeOK, StoreTypeOK,
                   RowsFrame, RowsSame, Shutdown
<1> QED
  BY <1>1, RowsFrameKeeps

LEMMA LoadBeginRows ==
  ASSUME RowsInv, NEW s \in Syncers, LoadBegin(s)
  PROVE  RowsOK'
<1>1. RowsFrame
  BY Constants DEF RowsInv, SerialInv, TypeInv, TypeOK, SyncerTypeOK, StoreTypeOK,
                   RowsFrame, RowsSame, LoadBegin
<1> QED
  BY <1>1, RowsFrameKeeps

LEMMA LoadAgainRows ==
  ASSUME RowsInv, NEW s \in Syncers, LoadAgain(s)
  PROVE  RowsOK'
<1>1. RowsFrame
  BY Constants DEF RowsInv, SerialInv, TypeInv, TypeOK, SyncerTypeOK, StoreTypeOK,
                   RowsFrame, RowsSame, LoadAgain
<1> QED
  BY <1>1, RowsFrameKeeps

LEMMA LoadFailsRows ==
  ASSUME RowsInv, NEW s \in Syncers, LoadFails(s)
  PROVE  RowsOK'
<1>1. RowsFrame
  BY Constants DEF RowsInv, SerialInv, TypeInv, TypeOK, SyncerTypeOK, StoreTypeOK,
                   RowsFrame, RowsSame, LoadFails, Survives
<1> QED
  BY <1>1, RowsFrameKeeps

LEMMA LoadConfigRows ==
  ASSUME RowsInv, NEW s \in Syncers, LoadConfig(s)
  PROVE  RowsOK'
<1>1. RowsFrame
  BY Constants DEF RowsInv, SerialInv, TypeInv, TypeOK, SyncerTypeOK, StoreTypeOK,
                   RowsFrame, RowsSame, LoadConfig, VersionsBounded, HasCVR
<1> QED
  BY <1>1, RowsFrameKeeps

LEMMA TaskBeginRows ==
  ASSUME RowsInv, NEW s \in Syncers, TaskBegin(s)
  PROVE  RowsOK'
<1>1. RowsFrame
  BY Constants DEF RowsInv, SerialInv, TypeInv, TypeOK, SyncerTypeOK, StoreTypeOK,
                   RowsFrame, RowsSame, TaskBegin
<1> QED
  BY <1>1, RowsFrameKeeps

LEMMA TaskEndRows ==
  ASSUME RowsInv, NEW s \in Syncers, TaskEnd(s)
  PROVE  RowsOK'
<1>1. RowsFrame
  BY Constants DEF RowsInv, SerialInv, TypeInv, TypeOK, SyncerTypeOK, StoreTypeOK,
                   RowsFrame, RowsSame, TaskEnd
<1> QED
  BY <1>1, RowsFrameKeeps

LEMMA FillCacheRows ==
  ASSUME RowsInv, NEW s \in Syncers, FillCache(s)
  PROVE  RowsOK'
<1>1. RowsFrame
  BY Constants DEF RowsInv, SerialInv, TypeInv, TypeOK, SyncerTypeOK, StoreTypeOK,
                   RowsFrame, RowsSame, FillCache
<1> QED
  BY <1>1, RowsFrameKeeps

LEMMA PrepareRows ==
  ASSUME RowsInv, NEW s \in Syncers, Prepare(s)
  PROVE  RowsOK'
<1>1. RowsFrame
  BY Constants DEF RowsInv, SerialInv, TypeInv, TypeOK, SyncerTypeOK, StoreTypeOK,
                   RowsFrame, RowsSame, Prepare
<1> QED
  BY <1>1, RowsFrameKeeps

LEMMA PipelinesResetRows ==
  ASSUME RowsInv, NEW s \in Syncers, PipelinesReset(s)
  PROVE  RowsOK'
<1>1. RowsFrame
  BY Constants DEF RowsInv, SerialInv, TypeInv, TypeOK, SyncerTypeOK, StoreTypeOK,
                   RowsFrame, RowsSame, PipelinesReset
<1> QED
  BY <1>1, RowsFrameKeeps

LEMMA TaskFailsRows ==
  ASSUME RowsInv, NEW s \in Syncers, TaskFails(s)
  PROVE  RowsOK'
<1>1. RowsFrame
  BY Constants DEF RowsInv, SerialInv, TypeInv, TypeOK, SyncerTypeOK, StoreTypeOK,
                   RowsFrame, RowsSame, TaskFails, Forget, Survives
<1> QED
  BY <1>1, RowsFrameKeeps

LEMMA FlushSendRows ==
  ASSUME RowsInv, NEW s \in Syncers, FlushSend(s)
  PROVE  RowsOK'
<1>1. RowsFrame
  BY Constants DEF RowsInv, SerialInv, TypeInv, TypeOK, SyncerTypeOK, StoreTypeOK,
                   RowsFrame, RowsSame, FlushSend, Defers
<1> QED
  BY <1>1, RowsFrameKeeps

LEMMA FlushBeginRows ==
  ASSUME RowsInv, NEW s \in Syncers, FlushBegin(s)
  PROVE  RowsOK'
<1> USE DEF RowsInv, SerialInv, TypeInv, TypeOK, SyncerTypeOK, StoreTypeOK, FlushBegin
<1>1. phase[s] = "sent" /\ UNCHANGED <<version, content, rows, rowsVersion, backVars>>
  BY DEF Lockable
<1>2. RowsSame(s)
  BY <1>1 DEF RowsSame
<1>3. ASSUME NEW o \in Syncers, o # s
      PROVE  RowsSame(o)
  BY <1>1, <1>3 DEF RowsSame
<1> QED
  BY <1>1, <1>2, <1>3, RowsFrameKeeps DEF RowsFrame

LEMMA FlushRejectedRows ==
  ASSUME RowsInv, NEW s \in Syncers, FlushRejected(s)
  PROVE  RowsOK'
<1> USE DEF RowsInv, SerialInv, TypeInv, TypeOK, SyncerTypeOK, StoreTypeOK,
            FlushRejected, Discard, Forget, Survives
<1>1. phase[s] = "sent" /\ UNCHANGED <<version, content, rows, rowsVersion, backVars>>
  BY DEF Lockable
<1>2. RowsSame(s)
  BY <1>1 DEF RowsSame
<1>3. ASSUME NEW o \in Syncers, o # s
      PROVE  RowsSame(o)
  BY <1>1, <1>3 DEF RowsSame
<1> QED
  BY <1>1, <1>2, <1>3, RowsFrameKeeps DEF RowsFrame

LEMMA ConnectRows ==
  ASSUME RowsInv, NEW t \in Tasks, Connect(t)
  PROVE  RowsOK'
<1>1. RowsFrame
  BY DEF RowsInv, SerialInv, TypeInv, TypeOK, SyncerTypeOK, StoreTypeOK,
         RowsFrame, RowsSame, Connect
<1> QED
  BY <1>1, RowsFrameKeeps

LEMMA TakeOverRows ==
  ASSUME RowsInv, TakeOver
  PROVE  RowsOK'
<1>1. RowsFrame
  BY DEF RowsInv, SerialInv, TypeInv, TypeOK, SyncerTypeOK, StoreTypeOK,
         RowsFrame, RowsSame, TakeOver
<1> QED
  BY <1>1, RowsFrameKeeps

LEMMA DropRows ==
  ASSUME RowsInv, NEW S \in SUBSET Syncers, Drop(S),
         UNCHANGED <<version, content, rows, rowsVersion>>
  PROVE  RowsOK'
<1>1. \A o \in Syncers : o \in S => RowsGone(o)
  BY DEF Drop, RowsGone
<1>2. \A o \in Syncers : o \notin S => RowsSame(o)
  BY DEF Drop, RowsSame
<1> QED
  BY <1>1, <1>2, RowsFrameKeeps DEF RowsFrame

LEMMA EndedRows ==
  ASSUME RowsInv, NEW s \in Syncers, Ended(s)
  PROVE  RowsOK'
<1>1. UNCHANGED <<version, content, rows, rowsVersion>>
  BY DEF Ended
<1>2. CASE phase[s] = "idle"
  BY <1>1, <1>2, DropRows DEF Ended
<1>3. CASE phase[s] # "idle"
  <2>1. UNCHANGED memoryVars
    BY <1>3 DEF Ended
  <2>2. RowsFrame
    BY <1>1, <2>1 DEF RowsFrame, RowsSame
  <2> QED
    BY <2>2, RowsFrameKeeps
<1> QED
  BY <1>2, <1>3

LEMMA CrashRows ==
  ASSUME RowsInv, NEW t \in Tasks, Crash(t)
  PROVE  RowsOK'
<1>1. /\ Drop({s \in Syncers : TaskOf(s) = t})
      /\ UNCHANGED <<version, content, rows, rowsVersion>>
  BY DEF Crash
<1> QED
  BY <1>1, DropRows

\* What the view-syncers other than s keep when s takes a step.
OthersKeep(s) ==
  \A o \in Syncers : o # s =>
    /\ phase'[o] = phase[o] /\ deferred'[o] = deferred[o] /\ puts'[o] = puts[o]
    /\ next'[o] = next[o] /\ cvr'[o] = cvr[o]
    /\ pending'[o] = pending[o] /\ pendingVersion'[o] = pendingVersion[o]
    /\ flushing'[o] = flushing[o]
    /\ batch'[o] = batch[o] /\ batchVersion'[o] = batchVersion[o]

\* Types of what the steps below compare.
LEMMA RowTypes ==
  ASSUME TypeInv
  PROVE  /\ version \in Nat /\ rowsVersion \in Nat
         /\ rows \in Records /\ content \in Records
         /\ \A s \in Syncers :
              /\ pendingVersion[s] \in Nat /\ batchVersion[s] \in Nat
              /\ next[s].version \in Int /\ cvr[s].version \in Int
              /\ pending[s] \in Records /\ batch[s] \in Records /\ puts[s] \in Records
              /\ deferred[s] \in BOOLEAN
              /\ flushing[s] \in {"no", "due", "writing", "failed"}
  BY Constants DEF TypeInv, TypeOK, DbTypeOK, SyncerTypeOK, StoreTypeOK, Version, CVRs

LEMMA LoadInstanceRows ==
  ASSUME RowsInv, NEW s \in Syncers, LoadInstance(s)
  PROVE  RowsOK'
<1> USE DEF RowsInv, SerialInv, RowsOK
<1>1. /\ phase[s] = "loading" /\ phase'[s] = "reading" /\ rowsVersion = version
      /\ cvr'[s].version = version
      /\ UNCHANGED <<version, content, rows, rowsVersion, backVars, next, puts, deferred>>
  BY DEF LoadInstance, RowsBehind, TypeInv, TypeOK, SyncerTypeOK
<1>2. OthersKeep(s)
  BY DEF LoadInstance, OthersKeep, TypeInv, TypeOK, SyncerTypeOK
<1>3. \A o \in Syncers : ~Stake(o) /\ ~Stake(o)'
  BY <1>1, <1>2 DEF OneStake, Stake, HandsOver, OthersKeep
<1>4. RowsMatchVersion'
  BY <1>1 DEF RowsMatchVersion
<1>5. Behind'
  BY <1>1, <1>2, <1>3, RowTypes DEF Behind, OthersKeep, Stake
<1>6. OneStake'
  BY <1>1, <1>2, <1>3 DEF OneStake, OthersKeep
<1>7. CacheOrder'
  BY <1>1, <1>2, <1>3 DEF CacheOrder, OthersKeep, Stake, Owing
<1>8. Solvent'
  BY <1>3 DEF Solvent, Stake, Owing
<1> QED
  BY <1>4, <1>5, <1>6, <1>7, <1>8

\* A commit, of which s learns or not.
LEMMA CommittedRows ==
  ASSUME RowsInv, NEW s \in Syncers, Committed(s), OthersKeep(s),
         \/ /\ phase'[s] = "applying" /\ deferred'[s] = deferred[s]
            /\ next'[s] = next[s] /\ puts'[s] = puts[s] /\ cvr'[s] = cvr[s]
         \/ phase'[s] = "idle" /\ cvr'[s] = NoCVR
  PROVE  RowsOK'
<1> USE DEF RowsInv, SerialInv, RowsOK
<1> USE Constants, RowTypes
<1>1. /\ phase[s] = "flushing" /\ cvr[s].version = version
      /\ next[s].version = version + 1
  BY DEF Committed, Exclusive, Stepwise, Busy
<1>2. /\ version' = version + 1 /\ content' = Overlay(content, puts[s])
      /\ UNCHANGED backVars
  BY <1>1 DEF Committed
<1>3. At(s)
  BY <1>1, Constants DEF At
<1>4. \A o \in Syncers : ~At(o)'
  BY <1>1, <1>2 DEF At, Behind, OthersKeep
<1>5. \A o \in Syncers : o # s => ~Stake(o) /\ ~Stake(o)'
  BY <1>2, <1>3 DEF OneStake, Stake, HandsOver, OthersKeep
<1>6. ~HandsOver(s)
  BY <1>1 DEF HandsOver
<1>7. CASE deferred[s]
  <2>1. UNCHANGED <<rows, rowsVersion>>
    BY <1>7 DEF Committed
  <2>2. rowsVersion' # version'
    BY <1>2, <2>1 DEF Behind
  <2>3. Behind'
    BY <1>1, <1>2, <1>5, <2>1 DEF Behind, OthersKeep, HandsOver, Stake
  <2>4. OneStake'
    <3>1. \A o \in Syncers : phase'[o] = "applying" /\ ~deferred'[o] =>
            next'[o].version # version'
      <4>1. ASSUME NEW o \in Syncers, o # s, phase'[o] = "applying"
            PROVE  next'[o].version # version'
        <5>1. next'[o].version = next[o].version /\ next[o].version <= version
          BY <4>1 DEF OthersKeep, Behind
        <5> QED
          BY <1>2, <5>1
      <4>2. ~(phase'[s] = "applying" /\ ~deferred'[s])
        BY <1>7
      <4> QED
        BY <4>1, <4>2
    <3> QED
      BY <1>4, <1>5, <2>2, <3>1 DEF OneStake
  <2>5. CacheOrder'
    BY <1>2, <1>4 DEF CacheOrder, OthersKeep
  <2>6. Solvent'
    <3>1. \A o \in Syncers : pendingVersion'[o] # version'
      BY <1>2 DEF Behind
    <3>2. flushing[s] # "failed" => Owed(s) = content
      <4>1. CASE Owing(s)
        BY <1>3, <4>1 DEF CacheOrder, Solvent
      <4>2. CASE flushing[s] = "no"
        <5>1. rows = content
          BY <1>3, <1>6, <4>2 DEF OneStake, Stake, RowsMatchVersion
        <5> QED
          BY <4>2, <5>1, OverlayLaws DEF CacheOrder, Owed
      <4> QED
        BY <4>1, <4>2 DEF Owing
    <3>3. Owed(s)' = Owed(s)
      BY <1>2, <2>1 DEF Owed, Overlay
    <3>4. HandsOver(s)' => puts'[s] = puts[s]
      BY DEF HandsOver
    <3>5. HandsOver(s)' /\ flushing'[s] # "failed" => Overlay(Owed(s), puts[s])' = content'
      BY <1>2, <3>2, <3>3, <3>4 DEF Overlay
    <3> QED
      BY <1>5, <3>1, <3>5 DEF Solvent, Stake
  <2> QED
    BY <2>2, <2>3, <2>4, <2>5, <2>6 DEF RowsMatchVersion
<1>8. CASE ~deferred[s]
  <2>1. rows' = Overlay(rows, puts[s]) /\ rowsVersion' = version'
    BY <1>8 DEF Committed
  <2>2. ~Stake(s) /\ rowsVersion = version
    BY <1>1, <1>3, <1>6, <1>8 DEF CacheOrder, Stake, OneStake
  <2>3. RowsMatchVersion'
    BY <1>2, <2>1, <2>2 DEF RowsMatchVersion
  <2>4. \A o \in Syncers : ~Stake(o)'
    BY <1>2, <1>5, <1>8, <2>2 DEF Stake, HandsOver
  <2>5. Behind'
    BY <1>1, <1>2, <2>1, <2>4 DEF Behind, OthersKeep, Stake
  <2>6. OneStake'
    BY <1>4, <2>1, <2>4 DEF OneStake
  <2>7. CacheOrder'
    BY <1>2, <1>4 DEF CacheOrder, OthersKeep
  <2>8. Solvent'
    BY <2>4 DEF Solvent, Stake, Owing
  <2> QED
    BY <2>3, <2>5, <2>6, <2>7, <2>8
<1> QED
  BY <1>7, <1>8

LEMMA FlushCommitRows ==
  ASSUME RowsInv, NEW s \in Syncers, FlushCommit(s)
  PROVE  RowsOK'
<1> USE DEF RowsInv, SerialInv, TypeInv, TypeOK, SyncerTypeOK, FlushCommit
<1>1. OthersKeep(s)
  BY DEF OthersKeep, Committed
<1>2. /\ phase'[s] = "applying" /\ deferred'[s] = deferred[s]
      /\ next'[s] = next[s] /\ puts'[s] = puts[s] /\ cvr'[s] = cvr[s]
  OBVIOUS
<1> QED
  BY <1>1, <1>2, CommittedRows

LEMMA FlushFailsRows ==
  ASSUME RowsInv, NEW s \in Syncers, FlushFails(s)
  PROVE  RowsOK'
<1> USE DEF RowsInv, SerialInv, TypeInv, TypeOK, SyncerTypeOK, StoreTypeOK, FlushFails,
            Discard, Forget
<1>1. UNCHANGED backVars
  BY DEF Committed
<1>2. OthersKeep(s)
  BY <1>1 DEF OthersKeep
<1>3. phase'[s] = "idle" /\ cvr'[s] = NoCVR /\ phase[s] # "applying"
  OBVIOUS
<1>4. CASE Committed(s)
  BY <1>2, <1>3, <1>4, CommittedRows
<1>5. CASE UNCHANGED <<version, content, rows, rowsVersion>>
  <2>1. RowsSame(s)
    BY <1>1, <1>3 DEF RowsSame
  <2>2. \A o \in Syncers : o # s => RowsSame(o)
    BY <1>2 DEF OthersKeep, RowsSame
  <2> QED
    BY <1>5, <2>1, <2>2, RowsFrameKeeps DEF RowsFrame
<1> QED
  BY <1>4, <1>5

\* The row cache takes what the flush has put off, if anything.
LEMMA AppliedRows ==
  ASSUME RowsInv, NEW s \in Syncers, Applied(s), OthersKeep(s),
         UNCHANGED <<version, content, rows, rowsVersion>>,
         phase[s] = "applying", phase'[s] \in {"working", "idle"},
         cvr'[s] \in {NoCVR, next[s]}
  PROVE  RowsOK'
<1> USE DEF RowsInv, SerialInv, RowsOK
<1> USE Constants, RowTypes
<1>1. ~At(s) /\ ~HandsOver(s)' /\ batch'[s] = batch[s]
      /\ batchVersion'[s] = batchVersion[s]
  BY DEF At, HandsOver, Applied
<1>2. \A o \in Syncers : o # s =>
        /\ Stake(o)' = Stake(o) /\ At(o)' = At(o) /\ HandsOver(o)' = HandsOver(o)
        /\ Owed(o)' = Owed(o)
  BY DEF OthersKeep, Stake, At, HandsOver, Owed, Overlay
<1>3. At(s)' => next[s].version = version
  BY DEF At
<1>4. RowsMatchVersion'
  BY DEF RowsMatchVersion
<1>5. CASE deferred[s]
  <2>1. HandsOver(s) /\ next[s].version = version /\ pendingVersion[s] < version
    BY <1>5 DEF HandsOver, Behind
  <2>2. /\ pending'[s] = Overlay(pending[s], puts[s])
        /\ pendingVersion'[s] = version
        /\ flushing'[s] = IF flushing[s] = "no" THEN "due" ELSE flushing[s]
    BY <1>5, <2>1 DEF Applied, TypeInv, TypeOK, StoreTypeOK
  <2>3. Stake(s) /\ Stake(s)'
    BY <2>1, <2>2 DEF Stake
  <2>4. Behind'
    BY <1>1, <2>1, <2>2 DEF Behind, OthersKeep, HandsOver
  <2>5. OneStake'
    BY <1>1, <1>2, <2>3 DEF OneStake, OthersKeep
  <2>6. CacheOrder'
    <3>1. \A o \in Syncers : o # s => (CacheOrder!(o))'
      BY <1>2 DEF CacheOrder, OthersKeep, Owing
    <3>2. (CacheOrder!(s))'
      BY <1>1, <2>1, <2>2 DEF CacheOrder, Behind
    <3> QED
      BY <3>1, <3>2 DEF CacheOrder
  <2>7. Solvent'
    <3>1. flushing[s] # "failed" => Overlay(Owed(s), puts[s]) = content
      BY <2>1 DEF Solvent
    <3>2. Owed(s)' = Overlay(Owed(s), puts[s])
      <4>1. Owed(s)' = Overlay(Overlay(rows, batch[s]), Overlay(pending[s], puts[s]))
        BY <1>1, <2>2 DEF Owed, Overlay
      <4>2. Overlay(rows, batch[s]) \in Records
        BY OverlayType
      <4> QED
        BY <4>1, <4>2, OverlayLaws DEF Owed
    <3>3. Owing(s)' => Owed(s)' = content'
      BY <2>2, <3>1, <3>2 DEF Owing
    <3> QED
      BY <1>1, <1>2, <3>3 DEF Solvent, OthersKeep, Owing, HandsOver, Overlay
  <2> QED
    BY <1>4, <2>4, <2>5, <2>6, <2>7
<1>6. CASE ~deferred[s]
  <2>1. UNCHANGED <<pending, pendingVersion, flushing>>
    BY <1>6 DEF Applied
  <2>2. Stake(s)' = Stake(s) /\ ~HandsOver(s)
    BY <1>1, <1>6, <2>1 DEF Stake, HandsOver
  <2>3. At(s)' => rowsVersion = version /\ \A o \in Syncers : ~Stake(o)
    BY <1>3, <1>6 DEF OneStake
  <2>4. Behind'
    BY <1>1, <2>1 DEF Behind, OthersKeep, HandsOver
  <2>5. OneStake'
    BY <1>1, <1>2, <2>2, <2>3 DEF OneStake, OthersKeep
  <2>6. CacheOrder'
    <3>1. \A o \in Syncers : o # s => (CacheOrder!(o))'
      BY <1>2, <2>1 DEF CacheOrder, OthersKeep, Owing
    <3>2. (CacheOrder!(s))'
      BY <1>1, <2>1, <2>3 DEF CacheOrder, Stake, Owing
    <3> QED
      BY <3>1, <3>2 DEF CacheOrder
  <2>7. Solvent'
    <3>1. Owed(s)' = Owed(s)
      BY <1>1, <2>1 DEF Owed, Overlay
    <3> QED
      BY <1>1, <1>2, <2>1, <3>1 DEF Solvent, OthersKeep, Owing, HandsOver, Overlay
  <2> QED
    BY <1>4, <2>4, <2>5, <2>6, <2>7
<1> QED
  BY <1>5, <1>6

LEMMA ApplyRows ==
  ASSUME RowsInv, NEW s \in Syncers, Apply(s)
  PROVE  RowsOK'
<1> USE DEF RowsInv, SerialInv, TypeInv, TypeOK, SyncerTypeOK, StoreTypeOK, Apply
<1>1. OthersKeep(s)
  BY DEF OthersKeep, Applied
<1>2. /\ phase[s] = "applying" /\ phase'[s] = "working" /\ cvr'[s] = next[s]
      /\ UNCHANGED <<version, content, rows, rowsVersion>>
  OBVIOUS
<1> QED
  BY <1>1, <1>2, AppliedRows DEF Apply

LEMMA ApplyFailsRows ==
  ASSUME RowsInv, NEW s \in Syncers, ApplyFails(s)
  PROVE  RowsOK'
<1> USE DEF RowsInv, SerialInv, TypeInv, TypeOK, SyncerTypeOK, StoreTypeOK, ApplyFails,
            Discard, Forget
<1>1. OthersKeep(s)
  BY DEF OthersKeep, Applied
<1>2. /\ phase[s] = "applying" /\ phase'[s] = "idle" /\ cvr'[s] = NoCVR
      /\ UNCHANGED <<version, content, rows, rowsVersion>>
  OBVIOUS
<1> QED
  BY <1>1, <1>2, AppliedRows

LEMMA RowsBeginRows ==
  ASSUME RowsInv, NEW s \in Syncers, RowsBegin(s)
  PROVE  RowsOK'
<1> USE DEF RowsInv, SerialInv, RowsOK
<1> USE Constants, RowTypes
<1>1. /\ UNCHANGED <<version, content, rows, rowsVersion, cvr, phase, deferred, next, puts,
                     pendingVersion>>
      /\ flushing[s] = "due" /\ flushing'[s] = "writing"
      /\ batch'[s] = pending[s] /\ pending'[s] = NoRows
      /\ batchVersion'[s] = pendingVersion[s]
  BY DEF RowsBegin, TypeInv, TypeOK, StoreTypeOK
<1>2. OthersKeep(s)
  BY DEF RowsBegin, OthersKeep, TypeInv, TypeOK, StoreTypeOK
<1>3. \A o \in Syncers : /\ Stake(o)' = Stake(o) /\ At(o)' = At(o)
                         /\ HandsOver(o)' = HandsOver(o) /\ Owing(o)' = Owing(o)
  BY <1>1, <1>2 DEF Stake, At, HandsOver, Owing, OthersKeep
<1>4. \A o \in Syncers : Owed(o)' = Owed(o)
  <2>1. Owed(s)' = Owed(s)
    <3>1. /\ Owed(s)' = Overlay(Overlay(rows, pending[s]), NoRows)
          /\ Owed(s) = Overlay(Overlay(rows, NoRows), pending[s])
      BY <1>1 DEF Owed, CacheOrder, Overlay
    <3> QED
      BY <3>1, OverlayType, OverlayLaws
  <2> QED
    BY <1>1, <1>2, <2>1 DEF Owed, OthersKeep, Overlay
<1>5. RowsMatchVersion'
  BY <1>1 DEF RowsMatchVersion
<1>6. Behind'
  BY <1>1, <1>2, <1>3 DEF Behind, OthersKeep
<1>7. OneStake'
  BY <1>1, <1>3 DEF OneStake
<1>8. CacheOrder'
  BY <1>1, <1>2, <1>3 DEF CacheOrder, OthersKeep
<1>9. Solvent'
  BY <1>1, <1>2, <1>3, <1>4 DEF Solvent, OthersKeep, Overlay
<1> QED
  BY <1>5, <1>6, <1>7, <1>8, <1>9

LEMMA RowsFailRows ==
  ASSUME RowsInv, NEW s \in Syncers, RowsFail(s)
  PROVE  RowsOK'
<1> USE DEF RowsInv, SerialInv, RowsOK
<1>1. /\ UNCHANGED <<version, content, rows, rowsVersion, cvr, phase, deferred, next, puts,
                     pending, pendingVersion, batchVersion>>
      /\ flushing[s] = "writing" /\ flushing'[s] = "failed"
  BY DEF RowsFail, TypeInv, TypeOK, StoreTypeOK
<1>2. OthersKeep(s)
  BY DEF RowsFail, OthersKeep, TypeInv, TypeOK, StoreTypeOK
<1>3. \A o \in Syncers : /\ Stake(o)' = Stake(o) /\ At(o)' = At(o)
                         /\ HandsOver(o)' = HandsOver(o)
                         /\ o # s => Owed(o)' = Owed(o) /\ Owing(o)' = Owing(o)
  BY <1>1, <1>2 DEF Stake, At, HandsOver, Owing, Owed, Overlay, OthersKeep
<1>4. ~Owing(s)'
  BY <1>1 DEF Owing
<1>5. RowsMatchVersion'
  BY <1>1 DEF RowsMatchVersion
<1>6. Behind'
  BY <1>1, <1>3 DEF Behind
<1>7. OneStake'
  BY <1>1, <1>3 DEF OneStake
<1>8. CacheOrder'
  BY <1>1, <1>2, <1>3, <1>4 DEF CacheOrder, OthersKeep
<1>9. Solvent'
  BY <1>1, <1>2, <1>3, <1>4 DEF Solvent, OthersKeep, Overlay
<1> QED
  BY <1>5, <1>6, <1>7, <1>8, <1>9

LEMMA RowsCommitRows ==
  ASSUME RowsInv, NEW s \in Syncers, RowsCommit(s)
  PROVE  RowsOK'
<1> USE DEF RowsInv, SerialInv, RowsOK
<1> USE Constants, RowTypes
<1>1. /\ UNCHANGED <<version, content, cvr, phase, deferred, next, puts, pending>>
      /\ rows' = Overlay(rows, batch[s]) /\ rowsVersion' = batchVersion[s]
      /\ flushing[s] = "writing"
      /\ batch'[s] = NoRows /\ batchVersion'[s] = 0
  BY DEF RowsCommit, TypeInv, TypeOK, StoreTypeOK
<1>2. /\ pendingVersion[s] # batchVersion[s] =>
           flushing'[s] = "due" /\ pendingVersion'[s] = pendingVersion[s]
      /\ pendingVersion[s] = batchVersion[s] =>
           flushing'[s] = "no" /\ pendingVersion'[s] = 0
  BY DEF RowsCommit, MoreRows, TypeInv, TypeOK, StoreTypeOK
<1>3. OthersKeep(s)
  BY DEF RowsCommit, OthersKeep, TypeInv, TypeOK, StoreTypeOK
<1>4. Stake(s) /\ Owing(s)
  BY <1>1 DEF Stake, Owing
<1>5. \A o \in Syncers : /\ o # s => ~Stake(o) /\ ~Stake(o)' /\ ~At(o)
                         /\ At(o)' = At(o) /\ HandsOver(o)' = HandsOver(o)
  BY <1>1, <1>3, <1>4 DEF OneStake, OthersKeep, Stake, At, HandsOver
<1>6. Owed(s)' = Owed(s)
  <2>1. Owed(s)' = Overlay(Overlay(Overlay(rows, batch[s]), NoRows), pending[s])
    BY <1>1 DEF Owed, Overlay
  <2> QED
    BY <2>1, OverlayType, OverlayLaws DEF Owed
<1>7. ASSUME batchVersion[s] = version
      PROVE  rows' = content /\ ~Stake(s)'
  <2>1. /\ pendingVersion[s] = version /\ pending[s] = NoRows /\ ~HandsOver(s)
    BY <1>1, <1>7 DEF Behind, CacheOrder
  <2>2. Owed(s) = content /\ Owed(s) = rows'
    BY <1>1, <1>4, <2>1, OverlayType, OverlayLaws DEF Solvent, Owed
  <2> QED
    BY <1>2, <1>5, <1>7, <2>1, <2>2 DEF Stake
<1>8. RowsMatchVersion'
  BY <1>1, <1>7 DEF RowsMatchVersion
<1>9. Behind'
  BY <1>1, <1>2, <1>3, <1>5 DEF Behind, OthersKeep, HandsOver
<1>10. OneStake'
  <2>1. At(s) => Stake(s)' \/ rowsVersion' = version'
    BY <1>1, <1>2, <1>4 DEF CacheOrder, Stake
  <2>2. \A o \in Syncers : phase[o] = "applying" /\ ~deferred[o] => next[o].version # version
    BY <1>4 DEF OneStake
  <2> QED
    BY <1>1, <1>5, <1>7, <2>1, <2>2 DEF OneStake
<1>11. CacheOrder'
  <2>1. \A o \in Syncers : o # s => (CacheOrder!(o))'
    BY <1>1, <1>3, <1>5 DEF CacheOrder, OthersKeep, Owing
  <2>2. (CacheOrder!(s))'
    BY <1>1, <1>2, <1>4, <1>5 DEF CacheOrder, Owing
  <2> QED
    BY <2>1, <2>2 DEF CacheOrder
<1>12. Solvent'
  <2>1. HandsOver(s)' /\ flushing'[s] # "failed" => Overlay(Owed(s), puts[s])' = content'
    BY <1>1, <1>5, <1>6 DEF Solvent, Overlay
  <2>2. Owing(s)' /\ pendingVersion'[s] = version' => Owed(s)' = content'
    BY <1>1, <1>2, <1>4, <1>6 DEF Solvent, Owing
  <2> QED
    BY <1>5, <2>1, <2>2 DEF Solvent, Stake, Owing
<1> QED
  BY <1>8, <1>9, <1>10, <1>11, <1>12

LEMMA InitRows ==
  ASSUME Init
  PROVE  RowsInv
<1>1. SerialInv
  BY InitSerial
<1> USE Constants DEF Init
<1>2. RowsMatchVersion /\ Behind /\ CacheOrder
  BY DEF RowsMatchVersion, Behind, CacheOrder, HandsOver, At, Owing
<1>3. OneStake /\ Solvent
  BY DEF OneStake, Solvent, Stake, HandsOver, At, Owing
<1> QED
  BY <1>1, <1>2, <1>3 DEF RowsInv, RowsOK

LEMMA NextRows ==
  ASSUME OneFirstFlush, RowsInv, [Next]_vars
  PROVE  RowsInv'
<1>1. SerialInv'
  BY NextSerial DEF RowsInv
<1>2. RowsOK' => RowsInv'
  BY <1>1 DEF RowsInv
<1>3. CASE UNCHANGED vars
  <2>1. RowsFrame
    BY <1>3 DEF vars, RowsFrame, RowsSame
  <2> QED
    BY <1>2, <2>1, RowsFrameKeeps
<1>4. CASE TakeOver
  BY <1>2, <1>4, TakeOverRows
<1>5. ASSUME NEW t \in Tasks, Connect(t) \/ Crash(t)
      PROVE  RowsInv'
  BY <1>2, <1>5, ConnectRows, CrashRows
<1>6. ASSUME NEW s \in Syncers, Shutdown(s) \/ Ended(s)
      PROVE  RowsInv'
  BY <1>2, <1>6, ShutdownRows, EndedRows
<1>7. ASSUME NEW s \in Syncers, Load(s)
      PROVE  RowsInv'
  BY <1>2, <1>7, LoadBeginRows, LoadInstanceRows, LoadAgainRows, LoadFailsRows,
     LoadConfigRows DEF Load
<1>8. ASSUME NEW s \in Syncers, Work(s)
      PROVE  RowsInv'
  BY <1>2, <1>8, TaskBeginRows, TaskEndRows, FillCacheRows, PrepareRows,
     PipelinesResetRows, TaskFailsRows DEF Work
<1>9. ASSUME NEW s \in Syncers, Flush(s)
      PROVE  RowsInv'
  BY <1>2, <1>9, FlushSendRows, FlushBeginRows, FlushRejectedRows,
     FlushCommitRows, FlushFailsRows, ApplyRows, ApplyFailsRows DEF Flush
<1>10. ASSUME NEW s \in Syncers, FlushRows(s)
       PROVE  RowsInv'
  BY <1>2, <1>10, RowsBeginRows, RowsCommitRows, RowsFailRows DEF FlushRows
<1> QED
  BY <1>3, <1>4, <1>5, <1>6, <1>7, <1>8, <1>9, <1>10 DEF Next

\* What load() relies on: equal versions of the CVR and of its rows mean that the rows in
\* the database are those of the CVR, with any number of view-syncers, rows put off at any
\* time, crashes and failures of any statement, provided the CVR is not created twice.
THEOREM RowsCorrect ==
  ASSUME OneFirstFlush
  PROVE  Spec => []RowsMatchVersion
<1>1. Init => RowsInv
  BY InitRows
<1>2. RowsInv /\ [Next]_vars => RowsInv'
  BY NextRows
<1>3. RowsInv => RowsMatchVersion
  BY DEF RowsInv, RowsOK
<1> QED
  BY <1>1, <1>2, <1>3, PTL DEF Spec

-----------------------------------------------------------------------------
(* What a view-syncer has in memory *)

\* A CVR is never loaded beside rows that are left from an earlier one.
ColdStart(s) ==
  /\ phase[s] \in {"loading", "reading"} => cache[s] = "none"
  /\ phase[s] = "idle" /\ cvr[s] = NoCVR /\ status[s] \in {"new", "up"} => cache[s] = "none"

\* Whoever has the current CVR and has not needed the rows owes none and changes none.
ColdCache(s) ==
  At(s) /\ cache[s] = "none" =>
    /\ flushing[s] = "no"
    /\ phase[s] \in Busy => puts[s] = NoRows
    /\ phase[s] \in {"sent", "flushing"} => ~deferred[s]

\* The updated CVR is what the commit will make of the configuration.
Ready(s) == phase[s] \in Busy => next[s].config = cvr[s].config \cup writes[s]

\* After the commit, what is to be applied is what has been committed, unless somebody
\* else has committed meanwhile.
Arrived(s) ==
  phase[s] = "applying" /\ next[s].version = version =>
    /\ next[s].config = config
    /\ cache[s] = "loaded" => Overlay(cached[s], puts[s]) = content
    /\ cache[s] = "none" => puts[s] = NoRows /\ ~deferred[s]

\* InSync, for one view-syncer.
Synced(s) ==
  Loaded(s) /\ cvr[s].version = version =>
    cvr[s].config = config /\ (cache[s] = "loaded" => cached[s] = content)

MemoryOK(s) == ColdStart(s) /\ ColdCache(s) /\ Ready(s) /\ Arrived(s) /\ Synced(s)

MemoryInv == HistoryInv /\ RowsOK /\ \A s \in Syncers : MemoryOK(s)

\* What a view-syncer keeps in a step that is not its own.
MemorySame(o) ==
  /\ phase'[o] = phase[o] /\ cvr'[o] = cvr[o] /\ next'[o] = next[o]
  /\ writes'[o] = writes[o] /\ puts'[o] = puts[o] /\ deferred'[o] = deferred[o]
  /\ cache'[o] = cache[o] /\ cached'[o] = cached[o] /\ flushing'[o] = flushing[o]
  /\ status'[o] \in {"new", "up"} => status[o] \in {"new", "up"}

MemoryGone(o) ==
  /\ phase'[o] = "idle" /\ cvr'[o] = NoCVR
  /\ cache'[o] = "none" \/ status'[o] \notin {"new", "up"}

LEMMA MemorySameKeeps ==
  ASSUME NEW o \in Syncers, MemoryOK(o), MemorySame(o), UNCHANGED <<version, config, content>>
  PROVE  MemoryOK(o)'
<1> USE DEF MemoryOK, MemorySame
<1>1. ColdStart(o)'
  BY DEF ColdStart
<1>2. At(o)' = At(o)
  BY DEF At
<1>3. ColdCache(o)'
  BY <1>2 DEF ColdCache
<1>4. Ready(o)'
  BY DEF Ready
<1>5. Arrived(o)'
  BY DEF Arrived, Overlay
<1>6. Synced(o)'
  BY DEF Synced, Loaded
<1> QED
  BY <1>1, <1>3, <1>4, <1>5, <1>6

LEMMA MemoryGoneKeeps ==
  ASSUME NEW o \in Syncers, MemoryGone(o)
  PROVE  MemoryOK(o)'
  BY DEF MemoryGone, MemoryOK, ColdStart, ColdCache, At, Ready, Busy, Arrived, Synced, Loaded

\* Somebody else has committed.
LEMMA MemoryPassedKeeps ==
  ASSUME NEW o \in Syncers, MemoryOK(o), MemorySame(o),
         cvr[o].version # version', phase[o] = "applying" => next[o].version # version'
  PROVE  MemoryOK(o)'
  BY DEF MemoryOK, MemorySame, ColdStart, ColdCache, At, Ready, Arrived, Synced

LEMMA LoadAgainMemory ==
  ASSUME MemoryInv, NEW s \in Syncers, LoadAgain(s)
  PROVE  \A o \in Syncers : MemoryOK(o)'
<1> USE DEF MemoryInv, HistoryInv, SerialInv, TypeInv, TypeOK, SyncerTypeOK, StoreTypeOK,
            LoadAgain
<1>1. \A o \in Syncers : o # s => MemorySame(o)
  BY DEF MemorySame
<1>2. UNCHANGED <<version, config, content>>
  OBVIOUS
<1>3. MemoryOK(s)'
  BY <1>2, MemorySameKeeps DEF MemorySame
<1> QED
  BY <1>1, <1>2, <1>3, MemorySameKeeps

LEMMA ShutdownMemory ==
  ASSUME MemoryInv, NEW s \in Syncers, Shutdown(s)
  PROVE  \A o \in Syncers : MemoryOK(o)'
<1> USE DEF MemoryInv, HistoryInv, SerialInv, TypeInv, TypeOK, SyncerTypeOK, StoreTypeOK,
            Shutdown
<1>1. \A o \in Syncers : o # s => MemorySame(o)
  BY DEF MemorySame
<1>2. UNCHANGED <<version, config, content>>
  OBVIOUS
<1>3. MemoryOK(s)'
  BY <1>2, MemorySameKeeps DEF MemorySame
<1> QED
  BY <1>1, <1>2, <1>3, MemorySameKeeps

LEMMA LoadBeginMemory ==
  ASSUME MemoryInv, NEW s \in Syncers, LoadBegin(s)
  PROVE  \A o \in Syncers : MemoryOK(o)'
<1> USE DEF MemoryInv, HistoryInv, SerialInv, TypeInv, TypeOK, SyncerTypeOK, StoreTypeOK,
            LoadBegin
<1>1. \A o \in Syncers : o # s => MemorySame(o)
  BY DEF MemorySame
<1>2. UNCHANGED <<version, config, content>>
  OBVIOUS
<1>3. MemoryOK(s)'
  <2>0. MemoryOK(s)
    OBVIOUS
  <2>1. ColdStart(s)'
    BY <2>0 DEF MemoryOK, ColdStart
  <2>2. ColdCache(s)'
    BY <2>0 DEF MemoryOK, ColdCache, At, Busy
  <2>3. Ready(s)'
    BY <2>0 DEF MemoryOK, Ready, Busy
  <2>4. Arrived(s)'
    BY <2>0 DEF MemoryOK, Arrived, Overlay
  <2>5. Synced(s)'
    BY <2>0 DEF MemoryOK, Synced, Loaded
  <2> QED
    BY <2>1, <2>2, <2>3, <2>4, <2>5 DEF MemoryOK
<1> QED
  BY <1>1, <1>2, <1>3, MemorySameKeeps

LEMMA TaskBeginMemory ==
  ASSUME MemoryInv, NEW s \in Syncers, TaskBegin(s)
  PROVE  \A o \in Syncers : MemoryOK(o)'
<1> USE DEF MemoryInv, HistoryInv, SerialInv, TypeInv, TypeOK, SyncerTypeOK, StoreTypeOK,
            TaskBegin
<1>1. \A o \in Syncers : o # s => MemorySame(o)
  BY DEF MemorySame
<1>2. UNCHANGED <<version, config, content>>
  OBVIOUS
<1>3. MemoryOK(s)'
  <2>0. MemoryOK(s)
    OBVIOUS
  <2>1. ColdStart(s)'
    BY <2>0 DEF MemoryOK, ColdStart
  <2>2. ColdCache(s)'
    BY <2>0 DEF MemoryOK, ColdCache, At, Busy
  <2>3. Ready(s)'
    BY <2>0 DEF MemoryOK, Ready, Busy
  <2>4. Arrived(s)'
    BY <2>0 DEF MemoryOK, Arrived, Overlay
  <2>5. Synced(s)'
    BY <2>0 DEF MemoryOK, Synced, Loaded
  <2> QED
    BY <2>1, <2>2, <2>3, <2>4, <2>5 DEF MemoryOK
<1> QED
  BY <1>1, <1>2, <1>3, MemorySameKeeps

LEMMA TaskEndMemory ==
  ASSUME MemoryInv, NEW s \in Syncers, TaskEnd(s)
  PROVE  \A o \in Syncers : MemoryOK(o)'
<1> USE DEF MemoryInv, HistoryInv, SerialInv, TypeInv, TypeOK, SyncerTypeOK, StoreTypeOK,
            TaskEnd
<1>1. \A o \in Syncers : o # s => MemorySame(o)
  BY DEF MemorySame
<1>2. UNCHANGED <<version, config, content>>
  OBVIOUS
<1>3. MemoryOK(s)'
  <2>0. MemoryOK(s)
    OBVIOUS
  <2>1. ColdStart(s)'
    BY Constants DEF ColdStart, VersionsBounded, HasCVR
  <2>2. ColdCache(s)'
    BY <2>0 DEF MemoryOK, ColdCache, At, Busy
  <2>3. Ready(s)'
    BY <2>0 DEF MemoryOK, Ready, Busy
  <2>4. Arrived(s)'
    BY <2>0 DEF MemoryOK, Arrived, Overlay
  <2>5. Synced(s)'
    BY <2>0 DEF MemoryOK, Synced, Loaded
  <2> QED
    BY <2>1, <2>2, <2>3, <2>4, <2>5 DEF MemoryOK
<1> QED
  BY <1>1, <1>2, <1>3, MemorySameKeeps

LEMMA LoadConfigMemory ==
  ASSUME MemoryInv, NEW s \in Syncers, LoadConfig(s)
  PROVE  \A o \in Syncers : MemoryOK(o)'
<1> USE DEF MemoryInv, HistoryInv, SerialInv, TypeInv, TypeOK, SyncerTypeOK, StoreTypeOK,
            LoadConfig
<1>1. \A o \in Syncers : o # s => MemorySame(o)
  BY DEF MemorySame
<1>2. UNCHANGED <<version, config, content>>
  OBVIOUS
<1>3. MemoryOK(s)'
  <2>0. MemoryOK(s)
    OBVIOUS
  <2>1. ColdStart(s)'
    BY <2>0 DEF MemoryOK, ColdStart
  <2>2. ColdCache(s)'
    <3>1. phase'[s] = "working" /\ cvr'[s].version = cvr[s].version /\ cvr[s] # NoCVR
      BY DEF CVRs, VersionsBounded, HasCVR, NoCVR
    <3>2. At(s)' => At(s)
      BY <3>1 DEF At
    <3> QED
      BY <2>0, <3>1, <3>2 DEF MemoryOK, ColdCache, Busy
  <2>3. Ready(s)'
    BY <2>0 DEF MemoryOK, Ready, Busy
  <2>4. Arrived(s)'
    BY <2>0 DEF MemoryOK, Arrived, Overlay
  <2>5. Synced(s)'
    <3>1. cvr'[s].config = config /\ cvr'[s].version = cvr[s].version /\ cvr[s] # NoCVR
      BY DEF CVRs, VersionsBounded, HasCVR, NoCVR
    <3>2. cache[s] = "none" /\ cache' = cache
      BY <2>0 DEF MemoryOK, ColdStart
    <3> QED
      BY <3>1, <3>2 DEF Synced
  <2> QED
    BY <2>1, <2>2, <2>3, <2>4, <2>5 DEF MemoryOK
<1> QED
  BY <1>1, <1>2, <1>3, MemorySameKeeps

LEMMA FlushBeginMemory ==
  ASSUME MemoryInv, NEW s \in Syncers, FlushBegin(s)
  PROVE  \A o \in Syncers : MemoryOK(o)'
<1> USE DEF MemoryInv, HistoryInv, SerialInv, TypeInv, TypeOK, SyncerTypeOK, StoreTypeOK,
            FlushBegin
<1>1. \A o \in Syncers : o # s => MemorySame(o)
  BY DEF MemorySame
<1>2. UNCHANGED <<version, config, content>>
  OBVIOUS
<1>3. MemoryOK(s)'
  <2>0. MemoryOK(s)
    OBVIOUS
  <2>1. ColdStart(s)'
    BY <2>0 DEF MemoryOK, ColdStart
  <2>2. ColdCache(s)'
    <3>1. phase[s] = "sent" /\ phase'[s] = "flushing"
      BY DEF Lockable
    <3>2. At(s)' = At(s)
      BY <3>1 DEF At
    <3> HIDE DEF FlushBegin, TypeOK
    <3> QED
      BY <2>0, <3>1, <3>2 DEF FlushBegin, MemoryOK, ColdCache, Busy
  <2>3. Ready(s)'
    <3>1. phase[s] = "sent"
      BY DEF Lockable
    <3> QED
      BY <2>0, <3>1 DEF MemoryOK, Ready, Busy
  <2>4. Arrived(s)'
    BY <2>0 DEF MemoryOK, Arrived, Overlay
  <2>5. Synced(s)'
    <3>1. phase[s] = "sent"
      BY DEF Lockable
    <3> QED
      BY <2>0, <3>1 DEF MemoryOK, Synced, Loaded
  <2> QED
    BY <2>1, <2>2, <2>3, <2>4, <2>5 DEF MemoryOK
<1> QED
  BY <1>1, <1>2, <1>3, MemorySameKeeps

LEMMA LoadFailsMemory ==
  ASSUME MemoryInv, NEW s \in Syncers, LoadFails(s)
  PROVE  \A o \in Syncers : MemoryOK(o)'
<1> USE DEF MemoryInv, HistoryInv, SerialInv, TypeInv, TypeOK, SyncerTypeOK, StoreTypeOK,
            LoadFails, Survives
<1>1. \A o \in Syncers : o # s => MemorySame(o)
  BY DEF MemorySame
<1>2. UNCHANGED <<version, config, content>>
  OBVIOUS
<1>3. MemoryOK(s)'
  <2>0. MemoryOK(s)
    OBVIOUS
  <2>1. ColdStart(s)'
    BY <2>0 DEF MemoryOK, ColdStart
  <2>2. ColdCache(s)'
    BY <2>0 DEF MemoryOK, ColdCache, At, Busy
  <2>3. Ready(s)'
    BY <2>0 DEF MemoryOK, Ready, Busy
  <2>4. Arrived(s)'
    BY <2>0 DEF MemoryOK, Arrived, Overlay
  <2>5. Synced(s)'
    BY <2>0 DEF MemoryOK, Synced, Loaded
  <2> QED
    BY <2>1, <2>2, <2>3, <2>4, <2>5 DEF MemoryOK
<1> QED
  BY <1>1, <1>2, <1>3, MemorySameKeeps

LEMMA FlushSendMemory ==
  ASSUME MemoryInv, NEW s \in Syncers, FlushSend(s)
  PROVE  \A o \in Syncers : MemoryOK(o)'
<1> USE DEF MemoryInv, HistoryInv, SerialInv, TypeInv, TypeOK, SyncerTypeOK, StoreTypeOK,
            FlushSend
<1>1. \A o \in Syncers : o # s => MemorySame(o)
  BY DEF MemorySame
<1>2. UNCHANGED <<version, config, content>>
  OBVIOUS
<1>3. MemoryOK(s)'
  <2>0. MemoryOK(s)
    OBVIOUS
  <2>1. ColdStart(s)'
    BY <2>0 DEF MemoryOK, ColdStart
  <2>2. ColdCache(s)'
    <3>1. phase[s] = "prepared" /\ phase'[s] = "sent"
      OBVIOUS
    <3>2. At(s)' = At(s)
      BY <3>1 DEF At
    <3>3. puts[s] = NoRows => Cardinality(Changed(puts[s])) = 0
      <4>1. puts[s] = NoRows => Changed(puts[s]) = {}
        BY DEF Changed, NoRows
      <4> QED
        BY <4>1, FS_EmptySet
    <3>4. flushing[s] = "no" /\ puts[s] = NoRows => ~deferred'[s]
      <4>1. deferred'[s] = Defers(s)
        OBVIOUS
      <4>2. Threshold \in Nat
        BY CVRAssumption
      <4>3. flushing[s] = "no" /\ puts[s] = NoRows => Defers(s) = (0 > Threshold)
        BY <3>3 DEF Defers
      <4>4. (0 > Threshold) = FALSE
        BY <4>2
      <4> QED
        BY <4>1, <4>3, <4>4, Zenon
    <3> QED
      BY <2>0, <3>1, <3>2, <3>4 DEF MemoryOK, ColdCache, Busy
  <2>3. Ready(s)'
    BY <2>0 DEF MemoryOK, Ready, Busy
  <2>4. Arrived(s)'
    BY <2>0 DEF MemoryOK, Arrived, Overlay
  <2>5. Synced(s)'
    BY <2>0 DEF MemoryOK, Synced, Loaded
  <2> QED
    BY <2>1, <2>2, <2>3, <2>4, <2>5 DEF MemoryOK
<1> QED
  BY <1>1, <1>2, <1>3, MemorySameKeeps

LEMMA LoadInstanceMemory ==
  ASSUME MemoryInv, NEW s \in Syncers, LoadInstance(s)
  PROVE  \A o \in Syncers : MemoryOK(o)'
<1> USE DEF MemoryInv, HistoryInv, SerialInv, TypeInv, TypeOK, SyncerTypeOK, StoreTypeOK,
            LoadInstance
<1>1. \A o \in Syncers : o # s => MemorySame(o)
  BY DEF MemorySame
<1>2. UNCHANGED <<version, config, content>>
  OBVIOUS
<1>3. MemoryOK(s)'
  <2>0. MemoryOK(s)
    OBVIOUS
  <2>1. ColdStart(s)'
    BY <2>0 DEF MemoryOK, ColdStart
  <2>2. ColdCache(s)'
    <3>1. flushing[s] = "no"
      BY DEF RowsOK, OneStake, Stake, RowsBehind
    <3> QED
      BY <3>1 DEF ColdCache, Busy
  <2>3. Ready(s)'
    BY <2>0 DEF MemoryOK, Ready, Busy
  <2>4. Arrived(s)'
    BY <2>0 DEF MemoryOK, Arrived, Overlay
  <2>5. Synced(s)'
    BY <2>0 DEF MemoryOK, Synced, Loaded
  <2> QED
    BY <2>1, <2>2, <2>3, <2>4, <2>5 DEF MemoryOK
<1> QED
  BY <1>1, <1>2, <1>3, MemorySameKeeps

LEMMA FlushRejectedMemory ==
  ASSUME MemoryInv, NEW s \in Syncers, FlushRejected(s)
  PROVE  \A o \in Syncers : MemoryOK(o)'
<1> USE DEF MemoryInv, HistoryInv, SerialInv, TypeInv, TypeOK, SyncerTypeOK, StoreTypeOK,
            FlushRejected, Discard, Forget, Survives
<1>1. \A o \in Syncers : o # s => MemorySame(o)
  BY DEF MemorySame
<1>2. UNCHANGED <<version, config, content>>
  OBVIOUS
<1>3. MemoryOK(s)'
  BY MemoryGoneKeeps DEF MemoryGone
<1> QED
  BY <1>1, <1>2, <1>3, MemorySameKeeps

LEMMA TaskFailsMemory ==
  ASSUME Orderly, MemoryInv, NEW s \in Syncers, TaskFails(s)
  PROVE  \A o \in Syncers : MemoryOK(o)'
<1> USE DEF MemoryInv, HistoryInv, SerialInv, TypeInv, TypeOK, SyncerTypeOK, StoreTypeOK,
            TaskFails, Forget, Survives
<1>1. \A o \in Syncers : o # s => MemorySame(o)
  BY DEF MemorySame
<1>2. UNCHANGED <<version, config, content>>
  OBVIOUS
<1>0. status'[s] \notin {"new", "up"}
  BY DEF CleanAtWork, Orderly
<1>3. MemoryOK(s)'
  BY <1>0, MemoryGoneKeeps DEF MemoryGone
<1> QED
  BY <1>1, <1>2, <1>3, MemorySameKeeps

LEMMA ApplyFailsMemory ==
  ASSUME MemoryInv, NEW s \in Syncers, ApplyFails(s)
  PROVE  \A o \in Syncers : MemoryOK(o)'
<1> USE DEF MemoryInv, HistoryInv, SerialInv, TypeInv, TypeOK, SyncerTypeOK, StoreTypeOK,
            ApplyFails, Applied, Discard, Forget, Survives
<1>1. \A o \in Syncers : o # s => MemorySame(o)
  BY DEF MemorySame
<1>2. UNCHANGED <<version, config, content>>
  OBVIOUS
<1>3. MemoryOK(s)'
  BY MemoryGoneKeeps DEF MemoryGone
<1> QED
  BY <1>1, <1>2, <1>3, MemorySameKeeps

LEMMA RowsBeginMemory ==
  ASSUME MemoryInv, NEW s \in Syncers, RowsBegin(s)
  PROVE  \A o \in Syncers : MemoryOK(o)'
<1> USE DEF MemoryInv, HistoryInv, SerialInv, TypeInv, TypeOK, SyncerTypeOK, StoreTypeOK,
            RowsBegin
<1>1. \A o \in Syncers : o # s => MemorySame(o)
  BY DEF MemorySame
<1>2. UNCHANGED <<version, config, content>>
  OBVIOUS
<1>3. MemoryOK(s)'
  <2>0. MemoryOK(s)
    OBVIOUS
  <2>1. ColdStart(s)'
    BY <2>0 DEF MemoryOK, ColdStart
  <2>2. ColdCache(s)'
    BY <2>0 DEF MemoryOK, ColdCache, At, Busy
  <2>3. Ready(s)'
    BY <2>0 DEF MemoryOK, Ready, Busy
  <2>4. Arrived(s)'
    BY <2>0 DEF MemoryOK, Arrived, Overlay
  <2>5. Synced(s)'
    BY <2>0 DEF MemoryOK, Synced, Loaded
  <2> QED
    BY <2>1, <2>2, <2>3, <2>4, <2>5 DEF MemoryOK
<1> QED
  BY <1>1, <1>2, <1>3, MemorySameKeeps

LEMMA RowsCommitMemory ==
  ASSUME MemoryInv, NEW s \in Syncers, RowsCommit(s)
  PROVE  \A o \in Syncers : MemoryOK(o)'
<1> USE DEF MemoryInv, HistoryInv, SerialInv, TypeInv, TypeOK, SyncerTypeOK, StoreTypeOK,
            RowsCommit
<1>1. \A o \in Syncers : o # s => MemorySame(o)
  BY DEF MemorySame
<1>2. UNCHANGED <<version, config, content>>
  OBVIOUS
<1>3. MemoryOK(s)'
  <2>0. MemoryOK(s)
    OBVIOUS
  <2>1. ColdStart(s)'
    BY <2>0 DEF MemoryOK, ColdStart
  <2>2. ColdCache(s)'
    BY <2>0 DEF MemoryOK, ColdCache, At, Busy
  <2>3. Ready(s)'
    BY <2>0 DEF MemoryOK, Ready, Busy
  <2>4. Arrived(s)'
    BY <2>0 DEF MemoryOK, Arrived, Overlay
  <2>5. Synced(s)'
    BY <2>0 DEF MemoryOK, Synced, Loaded
  <2> QED
    BY <2>1, <2>2, <2>3, <2>4, <2>5 DEF MemoryOK
<1> QED
  BY <1>1, <1>2, <1>3, MemorySameKeeps

LEMMA RowsFailMemory ==
  ASSUME MemoryInv, NEW s \in Syncers, RowsFail(s)
  PROVE  \A o \in Syncers : MemoryOK(o)'
<1> USE DEF MemoryInv, HistoryInv, SerialInv, TypeInv, TypeOK, SyncerTypeOK, StoreTypeOK,
            RowsFail
<1>1. \A o \in Syncers : o # s => MemorySame(o)
  BY DEF MemorySame
<1>2. UNCHANGED <<version, config, content>>
  OBVIOUS
<1>3. MemoryOK(s)'
  <2>0. MemoryOK(s)
    OBVIOUS
  <2>1. ColdStart(s)'
    BY <2>0 DEF MemoryOK, ColdStart
  <2>2. ColdCache(s)'
    BY <2>0 DEF MemoryOK, ColdCache, At, Busy
  <2>3. Ready(s)'
    BY <2>0 DEF MemoryOK, Ready, Busy
  <2>4. Arrived(s)'
    BY <2>0 DEF MemoryOK, Arrived, Overlay
  <2>5. Synced(s)'
    BY <2>0 DEF MemoryOK, Synced, Loaded
  <2> QED
    BY <2>1, <2>2, <2>3, <2>4, <2>5 DEF MemoryOK
<1> QED
  BY <1>1, <1>2, <1>3, MemorySameKeeps


LEMMA FillCacheMemory ==
  ASSUME MemoryInv, NEW s \in Syncers, FillCache(s)
  PROVE  \A o \in Syncers : MemoryOK(o)'
<1> USE DEF MemoryInv, HistoryInv, SerialInv, TypeInv, TypeOK, SyncerTypeOK, StoreTypeOK,
            FillCache
<1>1. \A o \in Syncers : o # s => MemorySame(o)
  BY DEF MemorySame
<1>2. UNCHANGED <<version, config, content>>
  OBVIOUS
<1>3. /\ phase[s] = "working" /\ cache[s] = "none" /\ MemoryOK(s)
      /\ cached'[s] = rows /\ cvr' = cvr /\ phase' = phase /\ cache'[s] = "loaded"
  OBVIOUS
<1>4. At(s) => rows = content
  <2>1. At(s) => ~Stake(s)
    BY <1>3 DEF MemoryOK, ColdCache, Stake, HandsOver
  <2> QED
    BY <2>1 DEF RowsOK, OneStake, RowsMatchVersion
<1>5. Synced(s)'
  BY <1>2, <1>3, <1>4 DEF MemoryOK, Synced, Loaded, At
<1>6. Ready(s)' /\ ColdStart(s)' /\ ColdCache(s)' /\ Arrived(s)'
  <2> HIDE DEF FillCache
  <2>1. ~Loaded(s) => cvr[s] = NoCVR
    BY <1>3 DEF Loaded
  <2> QED
    BY <1>3 DEF Ready, ColdStart, ColdCache, Arrived, Busy
<1> QED
  BY <1>1, <1>2, <1>5, <1>6, MemorySameKeeps DEF MemoryOK

LEMMA PrepareMemory ==
  ASSUME MemoryInv, NEW s \in Syncers, Prepare(s)
  PROVE  \A o \in Syncers : MemoryOK(o)'
<1> USE DEF MemoryInv, HistoryInv, SerialInv, TypeInv, TypeOK, SyncerTypeOK, StoreTypeOK
<1>0. PICK configured \in BOOLEAN, changed \in SUBSET Rows :
        /\ changed # {} => cache[s] = "loaded"
        /\ next' = [next EXCEPT ![s] = [version |-> cvr[s].version + 1, config |->
             cvr[s].config \cup (IF configured THEN {updates + 1} ELSE {})]]
        /\ writes' = [writes EXCEPT ![s] =
             @ \cup (IF configured THEN {updates + 1} ELSE {})]
        /\ puts' = [puts EXCEPT ![s] =
             [r \in Rows |-> IF r \in changed THEN updates + 1 ELSE @[r]]]
  BY DEF Prepare
<1>1. \A o \in Syncers : o # s => MemorySame(o)
  BY <1>0 DEF MemorySame, Prepare
<1>2. UNCHANGED <<version, config, content, cvr, cacheVars, backVars, status>>
  BY DEF Prepare
<1>3. phase[s] = "working" /\ phase'[s] = "prepared" /\ Clean(s) /\ MemoryOK(s)
  BY DEF Prepare, CleanAtWork
<1>4. Ready(s)'
  BY <1>0, <1>2, <1>3 DEF Ready, Clean
<1>5. ColdCache(s)'
  <2>1. At(s)' = At(s)
    BY <1>2, <1>3 DEF At
  <2>2. cache[s] = "none" => puts'[s] = NoRows
    BY <1>0, <1>3 DEF Clean, NoRows
  <2> QED
    BY <1>2, <1>3, <2>1, <2>2 DEF MemoryOK, ColdCache
<1>6. ColdStart(s)' /\ Arrived(s)' /\ Synced(s)'
  BY <1>2, <1>3 DEF MemoryOK, ColdStart, Arrived, Synced, Loaded
<1> QED
  BY <1>1, <1>2, <1>4, <1>5, <1>6, MemorySameKeeps DEF MemoryOK

\* A commit: the CVRs of the others are behind it.
LEMMA CommittedMemory ==
  ASSUME MemoryInv, NEW s \in Syncers, Committed(s), NEW o \in Syncers, MemorySame(o)
  PROVE  /\ version' = version + 1 /\ cvr[o].version # version'
         /\ phase[o] = "applying" => next[o].version # version'
         /\ o # s => MemoryOK(o)'
<1> USE DEF MemoryInv, HistoryInv, SerialInv
<1>1. version' = version + 1
  BY DEF Committed, Stepwise, Exclusive, Busy
<1>2. cvr[o].version # version' /\ (phase[o] = "applying" => next[o].version # version')
  BY <1>1, RowTypes DEF RowsOK, Behind
<1> QED
  BY <1>1, <1>2, MemoryPassedKeeps

LEMMA FlushCommitMemory ==
  ASSUME MemoryInv, NEW s \in Syncers, FlushCommit(s)
  PROVE  \A o \in Syncers : MemoryOK(o)'
<1> USE DEF MemoryInv, HistoryInv, SerialInv, TypeInv, TypeOK, SyncerTypeOK, StoreTypeOK
<1>1. \A o \in Syncers : o # s => MemorySame(o)
  BY DEF FlushCommit, Committed, MemorySame
<1>2. \A o \in Syncers : o # s => MemoryOK(o)'
  BY <1>1, CommittedMemory DEF FlushCommit
<1>3. /\ phase[s] = "flushing" /\ phase'[s] = "applying" /\ MemoryOK(s)
      /\ version' = next[s].version /\ content' = Overlay(content, puts[s])
      /\ config' = config \cup writes[s]
      /\ UNCHANGED <<status, cvr, next, writes, puts, deferred, cacheVars>>
  BY DEF FlushCommit, Committed
<1>4. /\ At(s) /\ Loaded(s) /\ cvr[s].version = version /\ next[s].version = version + 1
  BY <1>3, Constants DEF Exclusive, Stepwise, Busy, At, Loaded, VersionsBounded, HasCVR
<1>5. Arrived(s)'
  <2>1. cvr[s].config = config /\ (cache[s] = "loaded" => cached[s] = content)
    BY <1>3, <1>4 DEF MemoryOK, Synced
  <2>2. next[s].config = config'
    BY <1>3, <2>1 DEF MemoryOK, Ready, Busy
  <2>3. cache[s] = "loaded" => Overlay(cached[s], puts[s])' = content'
    BY <1>3, <2>1 DEF Overlay
  <2>4. cache[s] = "none" => puts[s] = NoRows /\ ~deferred[s]
    BY <1>3, <1>4 DEF MemoryOK, ColdCache, Busy
  <2> QED
    BY <1>3, <2>2, <2>3, <2>4 DEF Arrived
<1>6. ColdStart(s)' /\ ColdCache(s)' /\ Ready(s)'
  BY <1>3 DEF ColdStart, ColdCache, At, Ready, Busy
<1>7. Synced(s)'
  BY <1>3, <1>4, RowTypes DEF Synced
<1> QED
  BY <1>2, <1>5, <1>6, <1>7 DEF MemoryOK

LEMMA FlushFailsMemory ==
  ASSUME MemoryInv, NEW s \in Syncers, FlushFails(s)
  PROVE  \A o \in Syncers : MemoryOK(o)'
<1> USE DEF MemoryInv, HistoryInv, SerialInv, TypeInv, TypeOK, SyncerTypeOK, StoreTypeOK
<1>1. UNCHANGED backVars
  BY DEF FlushFails, Committed
<1>2. \A o \in Syncers : o # s => MemorySame(o)
  BY <1>1 DEF FlushFails, Discard, Forget, Survives, MemorySame
<1>3. MemoryOK(s)'
  <2>1. MemoryGone(s)
    BY DEF FlushFails, Discard, Forget, MemoryGone
  <2> QED
    BY <2>1, MemoryGoneKeeps
<1>4. CASE Committed(s)
  BY <1>2, <1>3, <1>4, CommittedMemory
<1>5. CASE UNCHANGED <<version, config, content>>
  BY <1>2, <1>3, <1>5, MemorySameKeeps
<1> QED
  BY <1>4, <1>5 DEF FlushFails

LEMMA ApplyMemory ==
  ASSUME MemoryInv, NEW s \in Syncers, Apply(s)
  PROVE  \A o \in Syncers : MemoryOK(o)'
<1> USE DEF MemoryInv, HistoryInv, SerialInv, TypeInv, TypeOK, SyncerTypeOK, StoreTypeOK
<1>1. \A o \in Syncers : o # s => MemorySame(o)
  BY DEF Apply, Applied, MemorySame
<1>2. UNCHANGED <<version, config, content, rows, rowsVersion>>
  BY DEF Apply
<1>3. /\ phase[s] = "applying" /\ phase'[s] = "working" /\ cvr'[s] = next[s]
      /\ cache'[s] = "loaded" /\ MemoryOK(s)
      /\ cached'[s] = Overlay(IF cache[s] = "loaded" THEN cached[s] ELSE rows, puts[s])
  BY DEF Apply
<1>4. next[s].version = version =>
        next[s].config = config /\ cached'[s] = content
  <2> SUFFICES ASSUME next[s].version = version
               PROVE  next[s].config = config /\ cached'[s] = content
    OBVIOUS
  <2>1. CASE cache[s] = "loaded"
    BY <1>3, <2>1 DEF MemoryOK, Arrived
  <2>2. CASE cache[s] = "none"
    <3>1. puts[s] = NoRows /\ ~deferred[s] /\ next[s].config = config
      BY <1>3, <2>2 DEF MemoryOK, Arrived
    <3>2. rows = content
      BY <1>3, <3>1 DEF RowsOK, OneStake, RowsMatchVersion
    <3>3. cached'[s] = Overlay(rows, NoRows)
      BY <1>3, <2>2, <3>1
    <3> QED
      BY <3>1, <3>2, <3>3, OverlayLaws, RowTypes
  <2> QED
    BY <2>1, <2>2
<1>5. Synced(s)'
  BY <1>2, <1>3, <1>4 DEF Synced
<1>6. ColdStart(s)' /\ ColdCache(s)' /\ Ready(s)' /\ Arrived(s)'
  BY <1>3 DEF ColdStart, ColdCache, Ready, Busy, Arrived
<1> QED
  BY <1>1, <1>2, <1>5, <1>6, MemorySameKeeps DEF MemoryOK

LEMMA ConnectMemory ==
  ASSUME MemoryInv, NEW t \in Tasks, Connect(t)
  PROVE  \A o \in Syncers : MemoryOK(o)'
<1>1. \A o \in Syncers : MemorySame(o)
  BY DEF MemoryInv, HistoryInv, SerialInv, TypeInv, TypeOK, SyncerTypeOK, Connect, MemorySame
<1>2. UNCHANGED <<version, config, content>>
  BY DEF Connect
<1> QED
  BY <1>1, <1>2, MemorySameKeeps DEF MemoryInv

LEMMA TakeOverMemory ==
  ASSUME MemoryInv, TakeOver
  PROVE  \A o \in Syncers : MemoryOK(o)'
  BY MemorySameKeeps DEF MemoryInv, TakeOver, MemorySame

LEMMA EndedMemory ==
  ASSUME MemoryInv, NEW s \in Syncers, Ended(s)
  PROVE  \A o \in Syncers : MemoryOK(o)'
<1>1. /\ UNCHANGED <<version, config, content>>
      /\ \A o \in Syncers : status'[o] \in {"new", "up"} => status[o] \in {"new", "up"}
  BY DEF Ended, MemoryInv, HistoryInv, SerialInv, TypeInv, TypeOK, SyncerTypeOK
<1>2. CASE phase[s] = "idle"
  <2>1. Drop({s})
    BY <1>2 DEF Ended
  <2>2. MemoryGone(s)
    BY <2>1 DEF Drop, MemoryGone
  <2>3. \A o \in Syncers : o # s => MemorySame(o)
    BY <1>1, <2>1 DEF Drop, MemorySame
  <2> QED
    BY <1>1, <2>2, <2>3, MemorySameKeeps, MemoryGoneKeeps DEF MemoryInv
<1>3. CASE phase[s] # "idle"
  <2>1. UNCHANGED memoryVars
    BY <1>3 DEF Ended
  <2>2. \A o \in Syncers : MemorySame(o)
    BY <1>1, <2>1 DEF MemorySame
  <2> QED
    BY <1>1, <2>2, MemorySameKeeps DEF MemoryInv
<1> QED
  BY <1>2, <1>3

LEMMA CrashMemory ==
  ASSUME MemoryInv, NEW t \in Tasks, Crash(t)
  PROVE  \A o \in Syncers : MemoryOK(o)'
<1>1. /\ UNCHANGED <<version, config, content>>
      /\ \A o \in Syncers : status'[o] \in {"new", "up"} => status[o] \in {"new", "up"}
  BY DEF Crash
<1>2. Drop({s \in Syncers : TaskOf(s) = t})
  BY DEF Crash
<1>3. \A o \in Syncers : TaskOf(o) = t => MemoryGone(o)
  BY <1>2 DEF Drop, MemoryGone
<1>4. \A o \in Syncers : TaskOf(o) # t => MemorySame(o)
  BY <1>1, <1>2 DEF Drop, MemorySame
<1> QED
  BY <1>1, <1>3, <1>4, MemorySameKeeps, MemoryGoneKeeps DEF MemoryInv

LEMMA InitMemory ==
  ASSUME Init
  PROVE  MemoryInv
<1>1. HistoryInv
  BY InitHistory
<1>2. RowsOK
  BY InitRows DEF RowsInv
<1>3. \A o \in Syncers : MemoryOK(o)
  BY DEF Init, MemoryOK, ColdStart, ColdCache, At, Ready, Busy, Arrived, Synced, Loaded
<1> QED
  BY <1>1, <1>2, <1>3 DEF MemoryInv

LEMMA NextMemory ==
  ASSUME Orderly, MemoryInv, [Next]_vars
  PROVE  MemoryInv'
<1>1. HistoryInv'
  BY NextHistory DEF MemoryInv
<1>2. RowsOK'
  BY NextRows DEF MemoryInv, HistoryInv, RowsInv, Orderly
<1> HIDE DEF MemoryInv
<1>3. ASSUME UNCHANGED vars
      PROVE  \A o \in Syncers : MemoryOK(o)'
  BY <1>3, MemorySameKeeps DEF vars, MemoryInv, MemorySame
<1>4. ASSUME TakeOver
      PROVE  \A o \in Syncers : MemoryOK(o)'
  BY <1>4, TakeOverMemory
<1>5. ASSUME NEW t \in Tasks, Connect(t) \/ Crash(t)
      PROVE  \A o \in Syncers : MemoryOK(o)'
  BY <1>5, ConnectMemory, CrashMemory
<1>6. ASSUME NEW s \in Syncers, Shutdown(s) \/ Ended(s)
      PROVE  \A o \in Syncers : MemoryOK(o)'
  BY <1>6, ShutdownMemory, EndedMemory
<1>7. ASSUME NEW s \in Syncers, Load(s)
      PROVE  \A o \in Syncers : MemoryOK(o)'
  BY <1>7, LoadBeginMemory, LoadInstanceMemory, LoadAgainMemory, LoadFailsMemory,
     LoadConfigMemory DEF Load
<1>8. ASSUME NEW s \in Syncers, Work(s)
      PROVE  \A o \in Syncers : MemoryOK(o)'
  <2>1. ~PipelinesReset(s)
    BY DEF PipelinesReset, Orderly
  <2> QED
    BY <1>8, <2>1, TaskBeginMemory, TaskEndMemory, FillCacheMemory, PrepareMemory,
       TaskFailsMemory DEF Work
<1>9. ASSUME NEW s \in Syncers, Flush(s)
      PROVE  \A o \in Syncers : MemoryOK(o)'
  BY <1>9, FlushSendMemory, FlushBeginMemory, FlushRejectedMemory, FlushCommitMemory,
     FlushFailsMemory, ApplyMemory, ApplyFailsMemory DEF Flush
<1>10. ASSUME NEW s \in Syncers, FlushRows(s)
       PROVE  \A o \in Syncers : MemoryOK(o)'
  BY <1>10, RowsBeginMemory, RowsCommitMemory, RowsFailMemory DEF FlushRows
<1>11. \A o \in Syncers : MemoryOK(o)'
  BY <1>3, <1>4, <1>5, <1>6, <1>7, <1>8, <1>9, <1>10 DEF Next
<1> QED
  BY <1>1, <1>2, <1>11 DEF MemoryInv

\* Whoever has the CVR at the version of the database has the configuration that is there
\* and, if the rows are cached, the rows that the CVR stands for, with any number of
\* view-syncers that overlap, rows put off at any time, crashes and lost answers, provided
\* the CVR is not created twice and lock tasks leave nothing behind in the store.
THEOREM MemoryInSync ==
  ASSUME Orderly
  PROVE  Spec => []InSync
<1>1. Init => MemoryInv
  BY InitMemory
<1>2. MemoryInv /\ [Next]_vars => MemoryInv'
  BY NextMemory
<1>3. MemoryInv => InSync
  BY DEF MemoryInv, MemoryOK, Synced, InSync
<1> QED
  BY <1>1, <1>2, <1>3, PTL DEF Spec
=============================================================================
