------------------------ MODULE ChangeStreamer_proofs ------------------------
EXTENDS ChangeStreamer, TLAPS, WellFoundedInduction, SequenceTheorems

-----------------------------------------------------------------------------
(* Lemmas about the operators the specification is built from *)

\* A nonempty set of naturals has a least element, and SetMin() is it.
LEMMA SetMinIsLeast ==
  ASSUME NEW S \in SUBSET Nat, S # {}
  PROVE  SetMin(S) \in S /\ \A y \in S : SetMin(S) <= y
<1>1. PICK x \in S : \A y \in S : <<y, x>> \notin OpToRel(<, Nat)
  BY WFMin, NatLessThanWellFounded, Zenon
<1>2. \A y \in S : ~(y < x)
  BY <1>1, Zenon DEF OpToRel
<1>3. \A y \in S : x <= y
  BY <1>2
<1> QED
  BY <1>3, Zenon DEF SetMin

\* A nonempty set of naturals with an upper bound has a greatest element, and
\* SetMax() is it.
LEMMA SetMaxIsGreatest ==
  ASSUME NEW n \in Nat, NEW S \in SUBSET (0 .. n), S # {}
  PROVE  SetMax(S) \in S /\ \A y \in S : SetMax(S) >= y
<1> DEFINE Mirror == {n - x : x \in S}
<1>1. Mirror \in SUBSET Nat /\ Mirror # {}
  <2>1. \A x \in S : n - x \in Nat
    OBVIOUS
  <2> QED
    BY <2>1
<1>2. PICK m \in Mirror : \A y \in Mirror : m <= y
  BY <1>1, SetMinIsLeast
<1>3. PICK x \in S : m = n - x
  BY <1>2
<1>4. \A y \in S : x >= y
  BY <1>2, <1>3
<1> QED
  BY <1>3, <1>4, Zenon DEF SetMax

\* SetMax() of a pair.
LEMMA SetMaxOfPair ==
  ASSUME NEW a \in Nat, NEW b \in Nat
  PROVE  SetMax({a, b}) = IF a >= b THEN a ELSE b
<1>1. {a, b} \in SUBSET (0 .. a + b) /\ {a, b} # {}
  OBVIOUS
<1>2. SetMax({a, b}) \in {a, b} /\ \A y \in {a, b} : SetMax({a, b}) >= y
  BY <1>1, SetMaxIsGreatest
<1> QED
  BY <1>2

\* A suffix of a sequence is a sequence over the same set.
LEMMA SuffixType ==
  ASSUME NEW S, NEW q \in Seq(S), NEW i \in 1 .. Len(q)
  PROVE  SubSeq(q, i, Len(q)) \in Seq(S)
  BY SubSeqProperties, ElementOfSeq

-----------------------------------------------------------------------------
(* Types *)

LEMMA TxMsgType ==
  ASSUME NEW w \in TxID, NEW p \in 0 .. DataPerTx + 1
  PROVE  TxMsg(w, p) \in Message
  BY ConstantsAssumption DEF TxMsg, Msg, Message, TxID, Watermark

LEMMA TxMsgsType ==
  ASSUME NEW w \in TxID
  PROVE  TxMsgs(w) \in Seq(Message)
<1>1. \A i \in 1 .. DataPerTx + 2 : TxMsg(w, i - 1) \in Message
  BY TxMsgType, ConstantsAssumption
<1> QED
  BY <1>1, IsASeq, ConstantsAssumption DEF TxMsgs

LEMMA EntryType ==
  /\ \A m \in Message : Change(m) \in QueueEntry
  /\ \A w \in Watermark : Status(w) \in QueueEntry
  /\ \A s \in Subs : Subscriber(s) \in QueueEntry
  /\ Ready \in QueueEntry /\ Abort \in QueueEntry /\ Stop \in QueueEntry
  BY DEF QueueEntry, Change, Status, Subscriber, Ready, Abort, Stop

\* What the kinds of entry carry.
LEMMA EntryContent ==
  ASSUME NEW e \in QueueEntry
  PROVE  /\ e.type = "change" => e.msg \in Message
         /\ e.type = "status" => e.w \in Watermark
         /\ e.type = "subscriber" => e.sub \in Subs
  BY DEF QueueEntry

LEMMA MessageContent ==
  ASSUME NEW m \in Message
  PROVE  /\ m.w \in Watermark
         /\ m.tag \in {"begin", "data", "commit"} => m.w \in TxID
  BY DEF Message, Watermark, TxID

\* Forward() keeps the types of the Forwarder and of the subscribers.
LEMMA ForwardType ==
  ASSUME SubTypeOK, NEW m \in Message, Forward(m)
  PROVE  SubTypeOK'
<1>1. m.w \in Watermark
  BY MessageContent
<1>2. backlog' \in [Subs -> Seq(Message)] /\ down' \in [Subs -> Seq(Message)]
  BY AppendProperties DEF SubTypeOK, Forward
<1>3. wm' \in [Subs -> Watermark]
  BY <1>1 DEF SubTypeOK, Forward
<1>4. /\ inTransaction' \in BOOLEAN
      /\ fwd' \in [Subs -> {"none", "active", "queued"}]
  BY DEF SubTypeOK, Forward
<1>5. phase' = phase
  BY DEF Forward
<1> QED
  BY <1>2, <1>3, <1>4, <1>5 DEF SubTypeOK

LEMMA WatermarkAfterType ==
  ASSUME NEW w \in Watermark, NEW f \in Seq(Message)
  PROVE  WatermarkAfter(w, f) \in Watermark
<1> DEFINE commits == {i \in DOMAIN f : f[i].tag = "commit"}
<1>1. CASE commits = {}
  BY <1>1 DEF WatermarkAfter
<1>2. CASE commits # {}
  <2>1. Len(f) \in Nat /\ DOMAIN f = 1 .. Len(f)
    BY LenProperties
  <2>2. commits \in SUBSET (0 .. Len(f))
    BY <2>1
  <2>3. SetMax(commits) \in commits
    BY <2>1, <2>2, <1>2, SetMaxIsGreatest
  <2>4. SetMax(commits) \in 1 .. Len(f)
    BY <2>1, <2>3
  <2>5. f[SetMax(commits)] \in Message
    BY <2>4, ElementOfSeq
  <2>6. f[SetMax(commits)].w \in Watermark
    BY <2>5, MessageContent
  <2>7. WatermarkAfter(w, f) = f[SetMax(commits)].w
    BY <1>2 DEF WatermarkAfter
  <2> QED
    BY <2>6, <2>7
<1> QED
  BY <1>1, <1>2

\* What setCaughtUp() pushes.
LEMMA FlushedType ==
  ASSUME SubTypeOK, NEW s \in Subs
  PROVE  Flushed(s) \in Seq(Message)
<1> DEFINE b == backlog[s]
           newer == {i \in DOMAIN b : b[i].w > wm[s]}
<1>1. b \in Seq(Message) /\ DOMAIN b = 1 .. Len(b) /\ Len(b) \in Nat
  BY LenProperties DEF SubTypeOK
<1>2. newer \in SUBSET Nat
  BY <1>1
<1>3. CASE newer = {}
  BY <1>3 DEF Flushed
<1>4. CASE newer # {}
  <2>1. SetMin(newer) \in newer
    BY <1>2, <1>4, SetMinIsLeast
  <2>2. SetMin(newer) \in 1 .. Len(b)
    BY <2>1, <1>1
  <2>3. SubSeq(b, SetMin(newer), Len(b)) \in Seq(Message)
    BY <2>2, <1>1, SuffixType
  <2> QED
    BY <2>3, <1>4 DEF Flushed
<1> QED
  BY <1>3, <1>4

\* A subscription that ends.
LEMMA CloseType ==
  ASSUME SubTypeOK, ReadTypeOK, ReplicaTypeOK, NEW s \in Subs, Close(s),
         rep' \in [Subs -> {"up", "rejected", "broken"}], UNCHANGED <<replica, have>>
  PROVE  SubTypeOK' /\ ReadTypeOK' /\ ReplicaTypeOK'
<1>1. ReplicaVersion \in Watermark /\ NoTx \in Watermark /\ <<>> \in Seq(Message)
  BY ConstantsAssumption DEF ReplicaVersion, NoTx, Watermark
<1> QED
  BY <1>1 DEF Close, SubTypeOK, ReadTypeOK, ReplicaTypeOK

\* The start of the catchup of some subscribers.
LEMMA StartCatchupType ==
  ASSUME SubTypeOK, ReadTypeOK, DbTypeOK, NEW S \in SUBSET Subs, StartCatchup(S),
         UNCHANGED fwdVars
  PROVE  SubTypeOK' /\ ReadTypeOK'
  BY DEF StartCatchup, SubTypeOK, ReadTypeOK, DbTypeOK, Resumes, fwdVars

\* The start of the process.
LEMMA BootType ==
  ASSUME ReplicaTypeOK, Boot, UNCHANGED <<rep, replica, have>>, faults' \in 0 .. MaxFaults
  PROVE  StreamTypeOK' /\ StorerTypeOK' /\ SubTypeOK' /\ ReadTypeOK' /\ ReplicaTypeOK'
<1>1. ReplicaVersion \in Watermark /\ NoTx \in Watermark /\ <<>> \in Seq(Message)
  BY ConstantsAssumption DEF ReplicaVersion, NoTx, Watermark
<1>2. <<Ready>> \in Seq(QueueEntry)
  BY EntryType
<1>3. StreamTypeOK' /\ StorerTypeOK'
  <2>1. 0 \in 0 .. DataPerTx + 1 /\ 1 \in 1 .. MaxTx + 1
    BY ConstantsAssumption
  <2>2. StreamTypeOK'
    BY <1>1, <2>1 DEF Boot, StreamTypeOK
  <2>3. StorerTypeOK'
    BY <1>1, <1>2 DEF Boot, StorerTypeOK
  <2> QED
    BY <2>2, <2>3
<1>4. SubTypeOK' /\ ReadTypeOK'
  BY <1>1 DEF Boot, SubTypeOK, ReadTypeOK
<1>5. ReplicaTypeOK'
  BY <1>1 DEF Boot, ReplicaTypeOK
<1> QED
  BY <1>3, <1>4, <1>5

-----------------------------------------------------------------------------
(* Every step keeps the types: one lemma per part of Next *)

\* The steps of run().
LEMMA StreamStepType ==
  ASSUME TypeOK, Stream
  PROVE  TypeOK'
<1> USE DEF TypeOK, streamVars, sourceVars, storerVars, dbVars, fwdVars, readVars,
            subVars, replicaVars
<1>q. \A e \in QueueEntry : Append(queue, e) \in Seq(QueueEntry)
  BY AppendProperties DEF StorerTypeOK
<1>d. ASSUME NEW m \in Message, Dispatch(m)
      PROVE  /\ loop' \in {"streaming", "blocked"}
             /\ StorerTypeOK' /\ SubTypeOK'
  <2>1. queue' \in Seq(QueueEntry)
    BY <1>d, <1>q, EntryType DEF Dispatch
  <2>2. SubTypeOK'
    BY <1>d, ForwardType DEF Dispatch
  <2> QED
    BY <1>d, <2>1, <2>2 DEF Dispatch, BackPressured, StorerTypeOK
<1>1. CASE StreamChange
  <2>1. srcNext \in TxID /\ srcNext \in Watermark
    BY <1>1, ConstantsAssumption DEF StreamChange, StreamTypeOK, TxID, Watermark
  <2>2. TxMsg(srcNext, srcPos) \in Message
    BY <2>1, TxMsgType DEF StreamTypeOK
  <2>3. loop' \in {"streaming", "blocked"} /\ StorerTypeOK' /\ SubTypeOK'
    BY <1>1, <1>d, <2>2 DEF StreamChange
  <2>4. cur' \in Watermark /\ srcNext' \in 1 .. MaxTx + 1 /\ srcPos' \in 0 .. DataPerTx + 1
    BY <1>1, <2>1, ConstantsAssumption
    DEF StreamChange, StreamTypeOK, TxID, Watermark, NoTx
  <2>5. StreamTypeOK'
    BY <1>1, <2>3, <2>4 DEF StreamChange, StreamTypeOK
  <2> QED
    BY <1>1, <2>3, <2>5 DEF StreamChange, DbTypeOK, ReadTypeOK, ReplicaTypeOK
<1>2. CASE SourceRollback
  <2>1. Msg("rollback", cur) \in Message
    BY DEF Msg, Message, StreamTypeOK
  <2>2. loop' \in {"streaming", "blocked"} /\ StorerTypeOK' /\ SubTypeOK'
    BY <1>2, <1>d, <2>1 DEF SourceRollback
  <2>3. StreamTypeOK'
    BY <1>2, <2>2, ConstantsAssumption DEF SourceRollback, StreamTypeOK
  <2> QED
    BY <1>2, <2>2, <2>3 DEF SourceRollback, DbTypeOK, ReadTypeOK, ReplicaTypeOK
<1>3. CASE SourceStatus
  <2>1. Completed \in Watermark
    BY ConstantsAssumption DEF Completed, StreamTypeOK, Watermark
  <2>2. queue' \in Seq(QueueEntry)
    BY <1>3, <1>q, <2>1, EntryType DEF SourceStatus
  <2> QED
    BY <1>3, <2>2
    DEF SourceStatus, StreamTypeOK, StorerTypeOK, DbTypeOK, SubTypeOK, ReadTypeOK,
        ReplicaTypeOK
<1>4. CASE Resume
  BY <1>4 DEF Resume, StreamTypeOK, StorerTypeOK, DbTypeOK, SubTypeOK, ReadTypeOK,
              ReplicaTypeOK
<1>5. CASE StreamFails
  <2>1. faults' \in 0 .. MaxFaults
    BY <1>5, ConstantsAssumption DEF StreamFails, StreamTypeOK
  <2>2. StreamTypeOK'
    BY <1>5, <2>1 DEF StreamFails, StreamTypeOK
  <2> QED
    BY <1>5, <2>2
    DEF StreamFails, StorerTypeOK, DbTypeOK, SubTypeOK, ReadTypeOK, ReplicaTypeOK
<1>6. CASE StreamEnds
  <2>1. Msg("rollback", cur) \in Message
    BY DEF Msg, Message, StreamTypeOK
  <2>2. queue' \in Seq(QueueEntry)
    BY <1>6, <1>q, EntryType DEF StreamEnds, AbortPending, StorerTypeOK
  <2>3. SubTypeOK'
    BY <1>6, <2>1, ForwardType DEF StreamEnds, AbortPending, SubTypeOK
  <2>4. StreamTypeOK' /\ StorerTypeOK'
    BY <1>6, <2>2, ConstantsAssumption
    DEF StreamEnds, StreamTypeOK, StorerTypeOK, NoTx, Watermark
  <2> QED
    BY <1>6, <2>3, <2>4 DEF StreamEnds, DbTypeOK, ReadTypeOK, ReplicaTypeOK
<1>7. CASE Retry
  <2>1. queue' \in Seq(QueueEntry) /\ loop' \in {"waitReady", "done"}
    BY <1>7, <1>q, EntryType DEF Retry, AwaitReady, StorerTypeOK
  <2> QED
    BY <1>7, <2>1
    DEF Retry, StreamTypeOK, StorerTypeOK, DbTypeOK, SubTypeOK, ReadTypeOK,
        ReplicaTypeOK
<1>8. CASE Connect
  <2>1. SetMax({lastWatermark, upstreamAck}) \in 0 .. MaxTx
    BY SetMaxOfPair, ConstantsAssumption DEF DbTypeOK, Watermark
  <2>2. srcNext' \in 1 .. MaxTx + 1 /\ srcPos' \in 0 .. DataPerTx + 1
    BY <1>8, <2>1, ConstantsAssumption DEF Connect
  <2> QED
    BY <1>8, <2>2
    DEF Connect, StreamTypeOK, StorerTypeOK, DbTypeOK, SubTypeOK, ReadTypeOK,
        ReplicaTypeOK
<1>9. CASE ConnectFails
  BY <1>9, ConstantsAssumption
  DEF ConnectFails, StreamTypeOK, StorerTypeOK, DbTypeOK, SubTypeOK, ReadTypeOK,
      ReplicaTypeOK
<1> QED
  BY <1>1, <1>2, <1>3, <1>4, <1>5, <1>6, <1>7, <1>8, <1>9 DEF Stream

\* stop(), crashes and restarts.
LEMMA LifeStepType ==
  ASSUME TypeOK, StopService \/ Crash \/ Restart
  PROVE  TypeOK'
<1> USE DEF TypeOK, dbVars
<1>1. CASE StopService
  <2>1. queue' \in Seq(QueueEntry)
    BY <1>1, AppendProperties, EntryType DEF StopService, StorerTypeOK
  <2>2. faults' \in 0 .. MaxFaults
    BY <1>1, ConstantsAssumption DEF StopService, StreamTypeOK
  <2>3. StreamTypeOK'
    BY <1>1, <2>2 DEF StopService, Halt, StreamTypeOK, sourceVars
  <2> QED
    BY <1>1, <2>1, <2>3
    DEF StopService, StorerTypeOK, DbTypeOK, SubTypeOK, ReadTypeOK, ReplicaTypeOK,
        fwdVars, readVars, subVars, replicaVars
<1>2. CASE Crash
  <2>1. faults' \in 0 .. MaxFaults
    BY <1>2, ConstantsAssumption DEF Crash, StreamTypeOK
  <2> QED
    BY <1>2, <2>1, BootType DEF Crash, DbTypeOK
<1>3. CASE Restart
  <2>1. faults' \in 0 .. MaxFaults
    BY <1>3 DEF Restart, StreamTypeOK
  <2> QED
    BY <1>3, <2>1, BootType DEF Restart, DbTypeOK
<1> QED
  BY <1>1, <1>2, <1>3

\* The steps of the storer.
LEMMA StorerStepType ==
  ASSUME TypeOK, Store \/ StorerCommitFails
  PROVE  TypeOK'
<1> USE DEF TypeOK, streamVars, sourceVars, dbVars, fwdVars, replicaVars
<1>t. ASSUME queue # <<>>
      PROVE  Tail(queue) \in Seq(QueueEntry) /\ Head(queue) \in QueueEntry
  BY <1>t, HeadTailProperties DEF StorerTypeOK
<1>d. ASSUME Dequeue, queue # <<>>
      PROVE  queue' \in Seq(QueueEntry) /\ backPressure' \in BOOLEAN
  BY <1>d, <1>t DEF Dequeue
<1>n. NoTx \in Watermark
  BY ConstantsAssumption DEF NoTx, Watermark
<1>m. ASSUME queue # <<>>, Head(queue).type = "change"
      PROVE  /\ Head(queue).msg \in Message /\ Head(queue).msg.w \in Watermark
             /\ Head(queue).msg.tag = "commit" => Head(queue).msg.w \in TxID
  BY <1>m, <1>t, EntryContent, MessageContent
<1>a. ASSUME NEW w \in Watermark, Acknowledge(w)
      PROVE  upstreamAck' \in Watermark
  BY <1>a, SetMaxOfPair, ConstantsAssumption DEF Acknowledge, DbTypeOK, Watermark
<1>1. CASE StorerReady
  BY <1>1, <1>d
  DEF StorerReady, Dequeues, StreamTypeOK, StorerTypeOK, DbTypeOK, SubTypeOK,
      ReadTypeOK, ReplicaTypeOK, subVars, readVars
<1>2. CASE StorerSubscriber
  <2>1. Head(queue).sub \in Subs
    BY <1>2, <1>t, EntryContent DEF StorerSubscriber, Dequeues
  <2>2. queue' \in Seq(QueueEntry) /\ backPressure' \in BOOLEAN
    BY <1>2, <1>d DEF StorerSubscriber, Dequeues
  <2>3. catchupQueue' \in SUBSET Subs
    BY <1>2, <2>1 DEF StorerSubscriber, StorerTypeOK
  <2>4. SubTypeOK' /\ ReadTypeOK'
    <3>1. CASE tx # NoTx
      BY <1>2, <3>1 DEF StorerSubscriber, SubTypeOK, ReadTypeOK, subVars, readVars
    <3>2. CASE tx = NoTx
      BY <1>2, <3>2, <2>1, StartCatchupType DEF StorerSubscriber
    <3> QED
      BY <3>1, <3>2
  <2> QED
    BY <1>2, <2>2, <2>3, <2>4
    DEF StorerSubscriber, StreamTypeOK, StorerTypeOK, DbTypeOK, ReplicaTypeOK
<1>3. CASE StorerStatus
  <2>1. Head(queue).w \in Watermark
    BY <1>3, <1>t, EntryContent DEF StorerStatus, Dequeues
  <2>2. upstreamAck' \in Watermark
    BY <1>3, <2>1, <1>a DEF StorerStatus
  <2>3. queue' \in Seq(QueueEntry) /\ backPressure' \in BOOLEAN
    BY <1>3, <1>d DEF StorerStatus, Dequeues
  <2> QED
    BY <1>3, <2>2, <2>3
    DEF StorerStatus, StreamTypeOK, StorerTypeOK, DbTypeOK, SubTypeOK, ReadTypeOK,
        ReplicaTypeOK, subVars, readVars
<1>4. CASE StorerAbort
  BY <1>4, <1>d, <1>n
  DEF StorerAbort, Dequeues, StreamTypeOK, StorerTypeOK, DbTypeOK, SubTypeOK,
      ReadTypeOK, ReplicaTypeOK, subVars, readVars
<1>5. CASE StorerWrite
  BY <1>5, <1>d, <1>m
  DEF StorerWrite, DequeuesChange, Dequeues, StreamTypeOK, StorerTypeOK, DbTypeOK,
      SubTypeOK, ReadTypeOK, ReplicaTypeOK, subVars, readVars
<1>6. CASE StorerCommit
  <2>1. queue' \in Seq(QueueEntry) /\ backPressure' \in BOOLEAN
    BY <1>6, <1>d DEF StorerCommit, DequeuesChange, Dequeues
  <2>2. DbTypeOK'
    BY <1>6, <1>m DEF StorerCommit, DequeuesChange, Dequeues, DbTypeOK
  <2> QED
    BY <1>6, <2>1, <2>2
    DEF StorerCommit, StreamTypeOK, StorerTypeOK, SubTypeOK, ReadTypeOK,
        ReplicaTypeOK, subVars, readVars
<1>7. CASE StorerCommitted
  <2>1. upstreamAck' \in Watermark
    BY <1>7, <1>a DEF StorerCommitted, DbTypeOK
  <2>2. SubTypeOK' /\ ReadTypeOK' /\ catchupQueue' = {}
    BY <1>7, StartCatchupType DEF StorerCommitted, CatchupWaiting, StorerTypeOK
  <2> QED
    BY <1>7, <2>1, <2>2, <1>n
    DEF StorerCommitted, StreamTypeOK, StorerTypeOK, DbTypeOK, ReplicaTypeOK
<1>8. CASE StorerRollback
  <2>1. queue' \in Seq(QueueEntry) /\ backPressure' \in BOOLEAN
    BY <1>8, <1>d DEF StorerRollback, DequeuesChange, Dequeues
  <2>2. SubTypeOK' /\ ReadTypeOK' /\ catchupQueue' = {}
    BY <1>8, StartCatchupType DEF StorerRollback, CatchupWaiting, StorerTypeOK
  <2> QED
    BY <1>8, <2>1, <2>2, <1>n
    DEF StorerRollback, StreamTypeOK, StorerTypeOK, DbTypeOK, ReplicaTypeOK
<1>9. CASE StorerStop
  BY <1>9, <1>t, <1>n
  DEF StorerStop, Dequeues, StreamTypeOK, StorerTypeOK, DbTypeOK, SubTypeOK,
      ReadTypeOK, ReplicaTypeOK, subVars, readVars
<1>10. CASE StorerCommitFails
  <2>1. faults' \in 0 .. MaxFaults
    BY <1>10, ConstantsAssumption DEF StorerCommitFails, StreamTypeOK
  <2>2. StreamTypeOK'
    BY <1>10, <2>1 DEF StorerCommitFails, Halt, StreamTypeOK
  <2>3. queue' \in Seq(QueueEntry)
    BY <1>10, <1>t, AppendProperties, EntryType
    DEF StorerCommitFails, DequeuesChange, Dequeues
  <2>4. StorerTypeOK'
    BY <1>10, <2>3, <1>n DEF StorerCommitFails, StorerTypeOK
  <2> QED
    BY <1>10, <2>2, <2>4
    DEF StorerCommitFails, DbTypeOK, SubTypeOK, ReadTypeOK, ReplicaTypeOK, subVars,
        readVars
<1> QED
  BY <1>1, <1>2, <1>3, <1>4, <1>5, <1>6, <1>7, <1>8, <1>9, <1>10 DEF Store

\* The purge.
LEMMA PurgeStepType ==
  ASSUME TypeOK, PurgeCheck \/ PurgeDelete
  PROVE  TypeOK'
<1> USE DEF TypeOK, streamVars, sourceVars, storerVars, dbVars, fwdVars, readVars,
            subVars, replicaVars
<1>1. CASE PurgeCheck
  <2>1. PICK e \in Int : /\ 1 <= e
                         /\ purging' = e
                         /\ \A s \in Registered : replica[s] >= e
    BY <1>1 DEF PurgeCheck, AllPast
  <2>2. PICK s \in Subs : replica[s] >= e
    BY <1>1, <2>1 DEF PurgeCheck, Registered
  <2>3. purging' \in Watermark
    BY <2>1, <2>2, ConstantsAssumption DEF ReplicaTypeOK, Watermark
  <2> QED
    BY <1>1, <2>3
    DEF PurgeCheck, StreamTypeOK, StorerTypeOK, DbTypeOK, SubTypeOK, ReadTypeOK,
        ReplicaTypeOK
<1>2. CASE PurgeDelete
  <2>1. NoTx \in Watermark
    BY ConstantsAssumption DEF NoTx, Watermark
  <2> QED
    BY <1>2, <2>1
    DEF PurgeDelete, Kept, StreamTypeOK, StorerTypeOK, DbTypeOK, SubTypeOK,
        ReadTypeOK, ReplicaTypeOK
<1> QED
  BY <1>1, <1>2

\* The catchup of a subscriber.
LEMMA CatchupStepType ==
  ASSUME TypeOK, NEW s \in Subs, Catchup(s)
  PROVE  TypeOK'
<1> USE DEF TypeOK, sourceVars, storerVars, dbVars, fwdVars, replicaVars
<1>c. ASSUME NEW q \in Seq(Message), NEW r \in Seq(Message)
      PROVE  q \o r \in Seq(Message)
  BY <1>c, ConcatProperties
<1>1. CASE CatchupSend(s)
  <2> DEFINE w == SetMin(snap[s])
  <2>1. w \in snap[s]
    BY <1>1, SetMinIsLeast DEF CatchupSend, ReadTypeOK, TxID
  <2>2. w \in TxID /\ w \in Watermark
    BY <2>1 DEF ReadTypeOK, TxID, Watermark
  <2>3. down[s] \o TxMsgs(w) \in Seq(Message)
    BY <2>2, <1>c, TxMsgsType DEF SubTypeOK
  <2>4. SubTypeOK' /\ ReadTypeOK'
    BY <1>1, <2>2, <2>3 DEF CatchupSend, SubTypeOK, ReadTypeOK
  <2> QED
    BY <1>1, <2>4
    DEF CatchupSend, StreamTypeOK, StorerTypeOK, DbTypeOK, ReplicaTypeOK, streamVars
<1>2. CASE CatchupReject(s)
  <2>1. queue' \in Seq(QueueEntry)
    BY <1>2, AppendProperties, EntryType DEF CatchupReject, StorerTypeOK
  <2>2. Msg("error", NoTx) \in Message
    BY ConstantsAssumption DEF Msg, Message, NoTx, Watermark
  <2>3. Append(down[s], Msg("error", NoTx)) \in Seq(Message)
    BY <2>2, AppendProperties DEF SubTypeOK
  <2>4. SubTypeOK'
    BY <1>2, <2>3 DEF CatchupReject, SubTypeOK
  <2>5. StreamTypeOK'
    BY <1>2 DEF CatchupReject, Halt, StreamTypeOK
  <2> QED
    BY <1>2, <2>1, <2>4, <2>5
    DEF CatchupReject, StorerTypeOK, DbTypeOK, ReadTypeOK, ReplicaTypeOK, readVars
<1>3. CASE CatchupDone(s)
  <2>1. Flushed(s) \in Seq(Message)
    BY FlushedType
  <2>2. WatermarkAfter(wm[s], Flushed(s)) \in Watermark
    BY <2>1, WatermarkAfterType DEF SubTypeOK
  <2>3. down[s] \o Flushed(s) \in Seq(Message) /\ <<>> \in Seq(Message)
    BY <2>1, <1>c DEF SubTypeOK
  <2>4. SubTypeOK'
    BY <1>3, <2>2, <2>3 DEF CatchupDone, SubTypeOK
  <2> QED
    BY <1>3, <2>4
    DEF CatchupDone, StreamTypeOK, StorerTypeOK, DbTypeOK, ReadTypeOK, ReplicaTypeOK,
        streamVars, readVars
<1> QED
  BY <1>1, <1>2, <1>3 DEF Catchup

\* A replicator subscribes, loses its connection, or processes a message.
LEMMA ReplicatorStepType ==
  ASSUME TypeOK, NEW s \in Subs, Subscribe(s) \/ Disconnect(s) \/ Consume(s)
  PROVE  TypeOK'
<1> USE DEF TypeOK, streamVars, sourceVars, storerVars, dbVars
<1>1. CASE Subscribe(s)
  <2>1. queue' \in Seq(QueueEntry)
    BY <1>1, AppendProperties, EntryType DEF Subscribe, StorerTypeOK
  <2>2. SubTypeOK'
    BY <1>1 DEF Subscribe, SubTypeOK, ReplicaTypeOK
  <2> QED
    BY <1>1, <2>1, <2>2
    DEF Subscribe, StreamTypeOK, StorerTypeOK, DbTypeOK, ReadTypeOK, ReplicaTypeOK,
        readVars, replicaVars
<1>2. CASE Disconnect(s)
  <2>1. faults' \in 0 .. MaxFaults
    BY <1>2, ConstantsAssumption DEF Disconnect, StreamTypeOK
  <2>2. SubTypeOK' /\ ReadTypeOK' /\ ReplicaTypeOK'
    BY <1>2, CloseType DEF Disconnect, ReplicaTypeOK
  <2> QED
    BY <1>2, <2>1, <2>2 DEF Disconnect, StreamTypeOK, StorerTypeOK, DbTypeOK
<1>f. ASSUME NEW how \in {"rejected", "broken"}, Fails(s, how)
      PROVE  TypeOK'
  <2>1. rep' \in [Subs -> {"up", "rejected", "broken"}]
    BY <1>f DEF Fails, ReplicaTypeOK
  <2>2. SubTypeOK' /\ ReadTypeOK' /\ ReplicaTypeOK'
    BY <1>f, <2>1, CloseType DEF Fails
  <2> QED
    BY <1>f, <2>2 DEF Fails, StreamTypeOK, StorerTypeOK, DbTypeOK
<1>3. CASE ConsumeError(s)
  BY <1>3, <1>f DEF ConsumeError
<1>4. CASE ConsumeUnexpected(s)
  BY <1>4, <1>f DEF ConsumeUnexpected
<1>c. ASSUME Consumed(s), down[s] # <<>>, ReplicaTypeOK'
      PROVE  TypeOK'
  <2>1. Tail(down[s]) \in Seq(Message)
    BY <1>c, HeadTailProperties DEF SubTypeOK
  <2>2. SubTypeOK'
    BY <1>c, <2>1 DEF Consumed, SubTypeOK, fwdVars
  <2> QED
    BY <1>c, <2>2 DEF Consumed, StreamTypeOK, StorerTypeOK, DbTypeOK, ReadTypeOK, readVars
<1>h. ASSUME down[s] # <<>>
      PROVE  /\ Head(down[s]) \in Message /\ Head(down[s]).w \in Watermark
  BY <1>h, HeadTailProperties, MessageContent DEF SubTypeOK
<1>n. NoTx \in Watermark
  BY ConstantsAssumption DEF NoTx, Watermark
<1>5. CASE ConsumeBegin(s)
  <2>1. down[s] # <<>> /\ Consumed(s)
    BY <1>5 DEF ConsumeBegin, Receives
  <2>2. ReplicaTypeOK'
    BY <1>5, <2>1, <1>h DEF ConsumeBegin, Consumed, ReplicaTypeOK
  <2> QED
    BY <2>1, <2>2, <1>c
<1>6. CASE ConsumeData(s)
  <2>1. down[s] # <<>> /\ Consumed(s)
    BY <1>6 DEF ConsumeData, Receives
  <2>2. ReplicaTypeOK'
    BY <1>6 DEF ConsumeData, Consumed, ReplicaTypeOK
  <2> QED
    BY <2>1, <2>2, <1>c
<1>7. CASE ConsumeCommit(s)
  <2>1. down[s] # <<>> /\ Consumed(s) /\ repTx[s] # NoTx
    BY <1>7 DEF ConsumeCommit, Receives
  <2>2. repTx[s] \in TxID
    BY <2>1 DEF ReplicaTypeOK, Watermark, TxID, NoTx
  <2>3. have' \in [Subs -> Seq(TxID)] /\ replica' \in [Subs -> Watermark]
    BY <1>7, <2>1, <2>2, <1>h DEF ConsumeCommit, ReplicaTypeOK
  <2>4. ReplicaTypeOK'
    BY <1>7, <2>1, <2>3, <1>n DEF ConsumeCommit, Consumed, ReplicaTypeOK
  <2> QED
    BY <2>1, <2>4, <1>c
<1>8. CASE ConsumeRollback(s)
  <2>1. down[s] # <<>> /\ Consumed(s)
    BY <1>8 DEF ConsumeRollback, Receives
  <2>2. ReplicaTypeOK'
    BY <1>8, <1>n DEF ConsumeRollback, Consumed, ReplicaTypeOK
  <2> QED
    BY <2>1, <2>2, <1>c
<1> QED
  BY <1>1, <1>2, <1>3, <1>4, <1>5, <1>6, <1>7, <1>8 DEF Consume

LEMMA InitType ==
  ASSUME Init
  PROVE  TypeOK
<1>1. ReplicaVersion \in Watermark /\ NoTx \in Watermark /\ <<>> \in Seq(Message)
  BY ConstantsAssumption DEF ReplicaVersion, NoTx, Watermark
<1>2. <<Ready>> \in Seq(QueueEntry)
  BY EntryType
<1>3. 0 \in 0 .. MaxFaults /\ 0 \in 0 .. DataPerTx + 1 /\ 1 \in 1 .. MaxTx + 1
  BY ConstantsAssumption
<1>4. StreamTypeOK
  BY <1>1, <1>3 DEF Init, StreamTypeOK
<1>5. StorerTypeOK /\ DbTypeOK
  BY <1>1, <1>2 DEF Init, StorerTypeOK, DbTypeOK
<1>6. SubTypeOK /\ ReadTypeOK
  BY <1>1 DEF Init, SubTypeOK, ReadTypeOK
<1>7. ReplicaTypeOK
  BY <1>1 DEF Init, ReplicaTypeOK
<1> QED
  BY <1>4, <1>5, <1>6, <1>7 DEF TypeOK

LEMMA TypeStep ==
  ASSUME TypeOK, [Next]_vars
  PROVE  TypeOK'
<1>1. CASE UNCHANGED vars
  BY <1>1
  DEF vars, streamVars, sourceVars, storerVars, dbVars, fwdVars, readVars, subVars,
      replicaVars, TypeOK, StreamTypeOK, StorerTypeOK, DbTypeOK, SubTypeOK,
      ReadTypeOK, ReplicaTypeOK
<1> QED
  BY <1>1, StreamStepType, LifeStepType, StorerStepType, PurgeStepType,
     CatchupStepType, ReplicatorStepType
  DEF Next

\* In every reachable state every variable has its type, for any number of
\* subscribers, transactions and faults.
THEOREM TypeCorrect == Spec => []TypeOK
  BY InitType, TypeStep, PTL DEF Spec

-----------------------------------------------------------------------------
(* The order of the storer's queue *)

\* The inductive invariant: what is acknowledged is stored because a status or
\* a commit is acknowledged only when it leaves the queue, and the queue is in
\* order because a stream starts only when the queue of the last one is empty.
StreamInv == TypeOK /\ QueueInOrder /\ AckedIsStored

LEMMA AppendedQueue ==
  ASSUME queue \in Seq(QueueEntry), NEW e \in QueueEntry, queue' = Append(queue, e)
  PROVE  /\ Len(queue) \in Nat
         /\ DOMAIN queue = 1 .. Len(queue) /\ DOMAIN queue' = 1 .. Len(queue) + 1
         /\ \A i \in 1 .. Len(queue) : queue'[i] = queue[i]
         /\ queue'[Len(queue) + 1] = e
         /\ Commits' = IF IsCommit(e) THEN Commits \cup {Len(queue) + 1} ELSE Commits
<1>1. /\ Len(queue) \in Nat
      /\ DOMAIN queue = 1 .. Len(queue) /\ DOMAIN queue' = 1 .. Len(queue) + 1
      /\ \A i \in 1 .. Len(queue) : queue'[i] = queue[i]
      /\ queue'[Len(queue) + 1] = e
  BY AppendProperties, LenProperties
<1>2. Commits' = {i \in 1 .. Len(queue) + 1 : IsCommit(queue'[i])}
  BY <1>1 DEF Commits, IsCommit
<1> QED
  BY <1>1, <1>2 DEF Commits

LEMMA DequeuedQueue ==
  ASSUME queue \in Seq(QueueEntry), queue # <<>>, queue' = Tail(queue)
  PROVE  /\ Len(queue) \in Nat /\ Len(queue) > 0 /\ Head(queue) = queue[1]
         /\ DOMAIN queue = 1 .. Len(queue) /\ DOMAIN queue' = 1 .. Len(queue) - 1
         /\ \A i \in 1 .. Len(queue) - 1 : queue'[i] = queue[i + 1]
         /\ \A i \in Int : i \in Commits' <=> (i \in 1 .. Len(queue) - 1 /\ i + 1 \in Commits)
<1>1. /\ Len(queue) \in Nat /\ Len(queue) > 0 /\ Head(queue) = queue[1]
      /\ DOMAIN queue = 1 .. Len(queue) /\ DOMAIN queue' = 1 .. Len(queue) - 1
      /\ \A i \in 1 .. Len(queue) - 1 : queue'[i] = queue[i + 1]
  BY HeadTailProperties, LenProperties, EmptySeq
<1>2. Commits' = {i \in 1 .. Len(queue) - 1 : IsCommit(queue'[i])}
  BY <1>1 DEF Commits, IsCommit
<1>3. Commits = {i \in 1 .. Len(queue) : IsCommit(queue[i])}
  BY <1>1 DEF Commits
<1> QED
  BY <1>1, <1>2, <1>3

\* An entry that is neither a commit nor from the stream nor 'ready' may be
\* appended at any time.
LEMMA AppendInert ==
  ASSUME TypeOK, QueueInOrder, storer # "stopped",
         NEW e \in QueueEntry, e.type \in {"abort", "stop", "subscriber"},
         queue' = Append(queue, e),
         UNCHANGED <<lastWatermark, srcNext>>,
         loop' = loop \/ (loop = "streaming" /\ loop' = "backoff")
  PROVE  CommitsInOrder' /\ StatusAfterCommit' /\ SourceFollowsQueue' /\ ReadyIsLast'
<1> DEFINE n == Len(queue)
<1>1. /\ n \in Nat /\ DOMAIN queue = 1 .. n /\ DOMAIN queue' = 1 .. n + 1
      /\ \A i \in 1 .. n : queue'[i] = queue[i]
      /\ queue'[n + 1] = e
      /\ Commits' = Commits
  BY AppendedQueue DEF TypeOK, StorerTypeOK, IsCommit
<1>2. Commits \subseteq 1 .. n
  BY <1>1 DEF Commits
<1>3. CommitsInOrder' 
  BY <1>1, <1>2 DEF QueueInOrder, CommitsInOrder
<1>4. StatusAfterCommit'
  BY <1>1, <1>2 DEF QueueInOrder, StatusAfterCommit
<1>5. SourceFollowsQueue'
  BY <1>1, <1>2 DEF QueueInOrder, SourceFollowsQueue
<1>6. ReadyIsLast'
  BY <1>1, <1>2 DEF QueueInOrder, ReadyIsLast, FromStream
<1> QED
  BY <1>3, <1>4, <1>5, <1>6

\* The storer takes an entry that is not a commit.
LEMMA DequeueInert ==
  ASSUME TypeOK, QueueInOrder, storer # "stopped", queue # <<>>,
         ~IsCommit(Head(queue)), queue' = Tail(queue),
         UNCHANGED <<lastWatermark, srcNext>>,
         loop' = loop \/ (Head(queue).type = "ready" /\ loop' = "connect")
  PROVE  CommitsInOrder' /\ StatusAfterCommit' /\ SourceFollowsQueue' /\ ReadyIsLast'
<1> DEFINE n == Len(queue)
<1>1. /\ n \in Nat /\ n > 0 /\ Head(queue) = queue[1]
      /\ DOMAIN queue = 1 .. n /\ DOMAIN queue' = 1 .. n - 1
      /\ \A i \in 1 .. n - 1 : queue'[i] = queue[i + 1]
      /\ \A i \in Int : i \in Commits' <=> (i \in 1 .. n - 1 /\ i + 1 \in Commits)
  BY DequeuedQueue DEF TypeOK, StorerTypeOK
<1>2. Commits \subseteq 2 .. n
  BY <1>1 DEF Commits
<1>3. Commits' \subseteq 1 .. n - 1
  BY <1>1 DEF Commits
<1>4. \A i \in Commits : i - 1 \in Commits' /\ queue'[i - 1] = queue[i]
  BY <1>1, <1>2
<1>5. \A i \in Commits' : i + 1 \in Commits /\ queue'[i] = queue[i + 1]
  BY <1>1, <1>3
<1>6. CommitsInOrder'
  <2>1. \A i \in Commits' : queue'[i].msg.w > lastWatermark'
    BY <1>5 DEF QueueInOrder, CommitsInOrder
  <2>2. \A i, j \in Commits' : i < j => queue'[i].msg.w < queue'[j].msg.w
    BY <1>3, <1>5 DEF QueueInOrder, CommitsInOrder
  <2>3. ASSUME NEW i \in Commits', queue'[i].msg.w # lastWatermark' + 1
        PROVE  \E j \in Commits' : j < i /\ queue'[j].msg.w = queue'[i].msg.w - 1
    <3>1. PICK j \in Commits : j < i + 1 /\ queue[j].msg.w = queue[i + 1].msg.w - 1
      BY <2>3, <1>5 DEF QueueInOrder, CommitsInOrder
    <3>2. j - 1 \in Commits' /\ queue'[j - 1] = queue[j]
      BY <1>4
    <3>3. j - 1 < i
      BY <3>1, <1>2, <1>3
    <3>4. queue'[i] = queue[i + 1]
      BY <1>5
    <3>5. queue'[j - 1].msg.w = queue'[i].msg.w - 1
      BY <3>1, <3>2, <3>4
    <3> QED
      BY <3>2, <3>3, <3>5
  <2> QED
    BY <2>1, <2>2, <2>3 DEF CommitsInOrder
<1>7. StatusAfterCommit'
  <2>1. ASSUME NEW i \in 1 .. n - 1, queue'[i].type = "status",
               ~(queue'[i].w <= lastWatermark)
        PROVE  \E j \in Commits' : j < i /\ queue'[j].msg.w >= queue'[i].w
    <3>1. i + 1 \in DOMAIN queue /\ queue'[i] = queue[i + 1]
      BY <1>1
    <3>2. PICK j \in Commits : j < i + 1 /\ queue[j].msg.w >= queue[i + 1].w
      BY <2>1, <3>1 DEF QueueInOrder, StatusAfterCommit
    <3>3. j - 1 \in Commits' /\ queue'[j - 1] = queue[j] /\ j - 1 < i
      BY <3>2, <1>2, <1>4
    <3> QED
      BY <3>1, <3>2, <3>3
  <2>2. \A i \in DOMAIN queue' : i \in 1 .. n - 1
    BY <1>1
  <2> QED
    BY <2>1, <2>2 DEF StatusAfterCommit
<1>8. SourceFollowsQueue'
  <2>1. SUFFICES ASSUME loop \in {"streaming", "blocked"}
                 PROVE  /\ \A i \in Commits' : queue'[i].msg.w < srcNext
                        /\ \/ srcNext = lastWatermark + 1
                           \/ \E i \in Commits' : queue'[i].msg.w = srcNext - 1
    BY DEF SourceFollowsQueue, QueueInOrder
  <2>2. \A i \in Commits' : queue'[i].msg.w < srcNext
    BY <2>1, <1>5 DEF QueueInOrder, SourceFollowsQueue
  <2>3. ASSUME srcNext # lastWatermark + 1
        PROVE  \E i \in Commits' : queue'[i].msg.w = srcNext - 1
    BY <2>1, <2>3, <1>4 DEF QueueInOrder, SourceFollowsQueue
  <2> QED
    BY <2>2, <2>3
<1>9. ReadyIsLast'
  <2>1. CASE Head(queue).type = "ready" /\ loop' = "connect"
    BY <2>1, <1>1 DEF QueueInOrder, ReadyIsLast, FromStream
  <2>2. CASE loop' = loop
    BY <2>2, <1>1 DEF QueueInOrder, ReadyIsLast, FromStream
  <2> QED
    BY <2>1, <2>2
<1> QED
  BY <1>6, <1>7, <1>8, <1>9

\* The storer commits the transaction at the head of its queue: it is the one
\* after lastWatermark, and what is behind it stays in order.
LEMMA DequeueCommit ==
  ASSUME TypeOK, QueueInOrder, storer # "stopped", queue # <<>>,
         IsCommit(Head(queue)), queue' = Tail(queue),
         lastWatermark' = Head(queue).msg.w, UNCHANGED <<srcNext, loop>>
  PROVE  /\ lastWatermark' = lastWatermark + 1
         /\ CommitsInOrder' /\ StatusAfterCommit' /\ SourceFollowsQueue' /\ ReadyIsLast'
<1> DEFINE n == Len(queue)
<1>1. /\ n \in Nat /\ n > 0 /\ Head(queue) = queue[1]
      /\ DOMAIN queue = 1 .. n /\ DOMAIN queue' = 1 .. n - 1
      /\ \A i \in 1 .. n - 1 : queue'[i] = queue[i + 1]
      /\ \A i \in Int : i \in Commits' <=> (i \in 1 .. n - 1 /\ i + 1 \in Commits)
  BY DequeuedQueue DEF TypeOK, StorerTypeOK
<1>2. 1 \in Commits /\ Commits \subseteq 1 .. n
  BY <1>1 DEF Commits
<1>3. Commits' \subseteq 1 .. n - 1
  BY <1>1 DEF Commits
<1>4. \A i \in Commits : i # 1 => i - 1 \in Commits' /\ queue'[i - 1] = queue[i]
  BY <1>1, <1>2
<1>5. \A i \in Commits' : i + 1 \in Commits /\ queue'[i] = queue[i + 1]
  BY <1>1, <1>3
<1>6. lastWatermark' = queue[1].msg.w /\ lastWatermark' = lastWatermark + 1
  BY <1>1, <1>2 DEF QueueInOrder, CommitsInOrder
<1>w. lastWatermark \in Nat /\ \A i \in Commits : queue[i].msg.w \in Nat
  <2>1. \A i \in 1 .. n : queue[i] \in QueueEntry
    BY <1>1, ElementOfSeq DEF TypeOK, StorerTypeOK
  <2>2. \A i \in Commits : queue[i].msg \in Message
    BY <2>1, <1>2, EntryContent DEF Commits, IsCommit
  <2>3. \A i \in Commits : queue[i].msg.w \in Watermark
    BY <2>2, MessageContent
  <2> QED
    BY <2>3 DEF TypeOK, DbTypeOK, Watermark
<1>7. CommitsInOrder'
  <2>1. \A i \in Commits' : queue'[i].msg.w > lastWatermark'
    BY <1>2, <1>3, <1>5, <1>6 DEF QueueInOrder, CommitsInOrder
  <2>2. \A i, j \in Commits' : i < j => queue'[i].msg.w < queue'[j].msg.w
    BY <1>3, <1>5 DEF QueueInOrder, CommitsInOrder
  <2>3. ASSUME NEW i \in Commits', queue'[i].msg.w # lastWatermark' + 1
        PROVE  \E j \in Commits' : j < i /\ queue'[j].msg.w = queue'[i].msg.w - 1
    <3>1. queue'[i] = queue[i + 1] /\ i + 1 \in Commits /\ queue'[i].msg.w > lastWatermark'
      BY <2>1, <1>5
    <3> DEFINE v == queue[i + 1].msg.w
    <3>c. v \in Nat
      BY <3>1, <1>w
    <3>d. v > lastWatermark' /\ v # lastWatermark' + 1
      BY <3>1, <2>3
    <3>a. v \in Nat /\ v # lastWatermark + 1
      BY <3>c, <3>d, <1>6, <1>w
    <3>2. PICK j \in Commits : j < i + 1 /\ queue[j].msg.w = queue[i + 1].msg.w - 1
      BY <3>1, <3>a DEF QueueInOrder, CommitsInOrder
    <3>b. queue[j].msg.w # lastWatermark'
      BY <3>2, <3>c, <3>d, <1>6, <1>w
    <3>3. j # 1
      BY <3>b, <1>6
    <3>4. j - 1 \in Commits' /\ queue'[j - 1] = queue[j] /\ j - 1 < i
      BY <3>2, <3>3, <1>2, <1>3, <1>4
    <3> QED
      BY <3>1, <3>2, <3>4
  <2> QED
    BY <2>1, <2>2, <2>3 DEF CommitsInOrder
<1>8. StatusAfterCommit'
  <2>1. ASSUME NEW i \in 1 .. n - 1, queue'[i].type = "status",
               ~(queue'[i].w <= lastWatermark')
        PROVE  \E j \in Commits' : j < i /\ queue'[j].msg.w >= queue'[i].w
    <3>1. i + 1 \in DOMAIN queue /\ queue'[i] = queue[i + 1]
      BY <1>1
    <3>2. queue'[i].w \in Nat
      BY <3>1, <2>1, ElementOfSeq, EntryContent, <1>1
      DEF TypeOK, StorerTypeOK, Watermark
    <3>3. PICK j \in Commits : j < i + 1 /\ queue[j].msg.w >= queue[i + 1].w
      BY <2>1, <3>1, <3>2, <1>6, <1>w DEF QueueInOrder, StatusAfterCommit
    <3>4. j # 1
      BY <2>1, <3>1, <3>2, <3>3, <1>6, <1>w
    <3>5. j - 1 \in Commits' /\ queue'[j - 1] = queue[j] /\ j - 1 < i
      BY <3>3, <3>4, <1>2, <1>4
    <3> QED
      BY <3>1, <3>3, <3>5
  <2>2. \A i \in DOMAIN queue' : i \in 1 .. n - 1
    BY <1>1
  <2> QED
    BY <2>1, <2>2 DEF StatusAfterCommit
<1>9. SourceFollowsQueue'
  <2>1. SUFFICES ASSUME loop \in {"streaming", "blocked"}
                 PROVE  /\ srcNext > lastWatermark'
                        /\ \A i \in Commits' : queue'[i].msg.w < srcNext
                        /\ \/ srcNext = lastWatermark' + 1
                           \/ \E i \in Commits' : queue'[i].msg.w = srcNext - 1
    BY DEF SourceFollowsQueue
  <2>2. \A i \in Commits' : queue'[i].msg.w < srcNext
    BY <2>1, <1>5 DEF QueueInOrder, SourceFollowsQueue
  <2>3. srcNext > lastWatermark'
    BY <2>1, <1>2, <1>6 DEF QueueInOrder, SourceFollowsQueue
  <2>4. ASSUME srcNext # lastWatermark' + 1
        PROVE  \E i \in Commits' : queue'[i].msg.w = srcNext - 1
    <3>1. srcNext \in Nat
      BY DEF TypeOK, StreamTypeOK
    <3>2. srcNext # lastWatermark + 1
      BY <2>3, <3>1, <1>6, <1>w
    <3>3. PICK i \in Commits : queue[i].msg.w = srcNext - 1
      BY <2>1, <3>2 DEF QueueInOrder, SourceFollowsQueue
    <3>4. i # 1
      BY <3>1, <3>3, <2>4, <1>6, <1>w
    <3> QED
      BY <3>3, <3>4, <1>4
  <2> QED
    BY <2>2, <2>3, <2>4
<1>10. ReadyIsLast'
  BY <1>1 DEF QueueInOrder, ReadyIsLast, FromStream
<1> QED
  BY <1>6, <1>7, <1>8, <1>9, <1>10

\* run() hands over a change: if it is a commit, it is the next one.
LEMMA AppendChange ==
  ASSUME TypeOK, QueueInOrder, storer # "stopped", loop = "streaming",
         NEW m \in Message, queue' = Append(queue, Change(m)),
         lastWatermark' = lastWatermark, loop' \in {"streaming", "blocked"},
         m.tag = "commit" => m.w = srcNext /\ srcNext' = srcNext + 1,
         m.tag # "commit" => srcNext' = srcNext
  PROVE  CommitsInOrder' /\ StatusAfterCommit' /\ SourceFollowsQueue' /\ ReadyIsLast'
<1> DEFINE n == Len(queue)
<1>1. /\ n \in Nat /\ DOMAIN queue = 1 .. n /\ DOMAIN queue' = 1 .. n + 1
      /\ \A i \in 1 .. n : queue'[i] = queue[i]
      /\ queue'[n + 1] = Change(m)
      /\ Commits' = IF m.tag = "commit" THEN Commits \cup {n + 1} ELSE Commits
  BY AppendedQueue, EntryType DEF TypeOK, StorerTypeOK, IsCommit, Change
<1>2. Commits \subseteq 1 .. n
  BY <1>1 DEF Commits
<1>3. \A i \in Commits : i \in Commits' /\ queue'[i] = queue[i] /\ i < n + 1
  BY <1>1, <1>2
<1>4. queue'[n + 1].type = "change" /\ queue'[n + 1].msg = m
  BY <1>1 DEF Change
<1>5. srcNext \in Nat /\ lastWatermark \in Nat
  BY DEF TypeOK, StreamTypeOK, DbTypeOK, Watermark
<1>6. StatusAfterCommit'
  <2>1. ASSUME NEW i \in 1 .. n + 1, queue'[i].type = "status",
               ~(queue'[i].w <= lastWatermark')
        PROVE  \E j \in Commits' : j < i /\ queue'[j].msg.w >= queue'[i].w
    <3>1. i \in DOMAIN queue /\ queue'[i] = queue[i]
      BY <2>1, <1>1, <1>4
    <3>2. PICK j \in Commits : j < i /\ queue[j].msg.w >= queue[i].w
      BY <2>1, <3>1 DEF QueueInOrder, StatusAfterCommit
    <3> QED
      BY <3>1, <3>2, <1>3
  <2> QED
    BY <2>1, <1>1 DEF StatusAfterCommit
<1>7. ReadyIsLast'
  BY <1>1, <1>4 DEF QueueInOrder, ReadyIsLast, FromStream
<1>8. CASE m.tag # "commit"
  <2>1. CommitsInOrder'
    BY <1>8, <1>1, <1>2 DEF QueueInOrder, CommitsInOrder
  <2>2. SourceFollowsQueue'
    BY <1>8, <1>1, <1>2 DEF QueueInOrder, SourceFollowsQueue
  <2> QED
    BY <2>1, <2>2, <1>6, <1>7
<1>9. CASE m.tag = "commit"
  <2>1. /\ Commits' = Commits \cup {n + 1} /\ queue'[n + 1].msg.w = srcNext
        /\ srcNext' = srcNext + 1 /\ srcNext > lastWatermark
        /\ \A i \in Commits : queue[i].msg.w < srcNext
        /\ srcNext = lastWatermark + 1 \/ \E i \in Commits : queue[i].msg.w = srcNext - 1
    BY <1>9, <1>1, <1>4 DEF QueueInOrder, SourceFollowsQueue
  <2>2. \A i \in Commits' : queue'[i].msg.w > lastWatermark'
    BY <2>1, <1>3 DEF QueueInOrder, CommitsInOrder
  <2>3. \A i, j \in Commits' : i < j => queue'[i].msg.w < queue'[j].msg.w
    <3> SUFFICES ASSUME NEW i \in Commits', NEW j \in Commits', i < j
                 PROVE  queue'[i].msg.w < queue'[j].msg.w
      OBVIOUS
    <3>1. i \in Commits
      BY <2>1, <1>1, <1>2
    <3>2. CASE j = n + 1
      BY <3>1, <3>2, <2>1, <1>3
    <3>3. CASE j \in Commits
      BY <3>1, <3>3, <1>3 DEF QueueInOrder, CommitsInOrder
    <3> QED
      BY <3>2, <3>3, <2>1
  <2>4. ASSUME NEW i \in Commits'
        PROVE  \/ queue'[i].msg.w = lastWatermark' + 1
               \/ \E j \in Commits' : j < i /\ queue'[j].msg.w = queue'[i].msg.w - 1
    <3>1. CASE i = n + 1
      BY <3>1, <2>1, <1>3
    <3>2. CASE i \in Commits
      BY <3>2, <1>3 DEF QueueInOrder, CommitsInOrder
    <3> QED
      BY <3>1, <3>2, <2>1
  <2>5. CommitsInOrder'
    BY <2>2, <2>3, <2>4 DEF CommitsInOrder
  <2>6. SourceFollowsQueue'
    <3>1. srcNext' > lastWatermark'
      BY <2>1, <1>5
    <3>2. \A i \in Commits' : queue'[i].msg.w < srcNext'
      <4> SUFFICES ASSUME NEW i \in Commits' PROVE queue'[i].msg.w < srcNext'
        OBVIOUS
      <4>1. CASE i = n + 1
        BY <4>1, <2>1, <1>5
      <4>2. CASE i \in Commits
        <5>1. queue'[i].msg.w < srcNext /\ i \in 1 .. n
          BY <4>2, <2>1, <1>2, <1>3
        <5>2. queue[i] \in QueueEntry /\ IsCommit(queue[i])
          BY <4>2, <5>1, ElementOfSeq DEF TypeOK, StorerTypeOK, Commits
        <5>3. queue[i].msg.w \in Watermark
          BY <5>2, EntryContent, MessageContent DEF IsCommit
        <5> QED
          BY <5>1, <5>3, <4>2, <1>3, <1>5, <2>1 DEF Watermark
      <4> QED
        BY <4>1, <4>2, <2>1
    <3>3. n + 1 \in Commits' /\ queue'[n + 1].msg.w = srcNext' - 1
      BY <2>1, <1>5
    <3> QED
      BY <3>1, <3>2, <3>3 DEF SourceFollowsQueue
  <2> QED
    BY <2>5, <2>6, <1>6, <1>7
<1> QED
  BY <1>8, <1>9

\* run() hands over a status: the last commit it sent is in the queue or stored.
LEMMA AppendStatus ==
  ASSUME TypeOK, QueueInOrder, storer # "stopped", loop = "streaming",
         queue' = Append(queue, Status(srcNext - 1)), Status(srcNext - 1) \in QueueEntry,
         UNCHANGED <<lastWatermark, loop, srcNext>>
  PROVE  CommitsInOrder' /\ StatusAfterCommit' /\ SourceFollowsQueue' /\ ReadyIsLast'
<1> DEFINE n == Len(queue)
<1>1. /\ n \in Nat /\ DOMAIN queue = 1 .. n /\ DOMAIN queue' = 1 .. n + 1
      /\ \A i \in 1 .. n : queue'[i] = queue[i]
      /\ queue'[n + 1] = Status(srcNext - 1)
      /\ Commits' = Commits
  BY AppendedQueue DEF TypeOK, StorerTypeOK, IsCommit, Status
<1>2. Commits \subseteq 1 .. n
  BY <1>1 DEF Commits
<1>3. queue'[n + 1].type = "status" /\ queue'[n + 1].w = srcNext - 1
  BY <1>1 DEF Status
<1>4. CommitsInOrder'
  BY <1>1, <1>2 DEF QueueInOrder, CommitsInOrder
<1>5. SourceFollowsQueue'
  BY <1>1, <1>2 DEF QueueInOrder, SourceFollowsQueue
<1>6. ReadyIsLast'
  BY <1>1, <1>3 DEF QueueInOrder, ReadyIsLast, FromStream
<1>7. StatusAfterCommit'
  <2>1. ASSUME NEW i \in 1 .. n + 1, queue'[i].type = "status",
               ~(queue'[i].w <= lastWatermark')
        PROVE  \E j \in Commits' : j < i /\ queue'[j].msg.w >= queue'[i].w
    <3>1. CASE i \in 1 .. n
      <4>1. PICK j \in Commits : j < i /\ queue[j].msg.w >= queue[i].w
        BY <2>1, <3>1, <1>1 DEF QueueInOrder, StatusAfterCommit
      <4> QED
        BY <4>1, <3>1, <1>1, <1>2
    <3>2. CASE i = n + 1
      <4>1. srcNext \in Nat /\ lastWatermark \in Nat
        BY DEF TypeOK, StreamTypeOK, DbTypeOK, Watermark
      <4>2. srcNext # lastWatermark + 1
        BY <2>1, <3>2, <4>1, <1>3
      <4>3. PICK j \in Commits : queue[j].msg.w = srcNext - 1
        BY <4>2 DEF QueueInOrder, SourceFollowsQueue
      <4> QED
        BY <4>1, <4>3, <3>2, <1>1, <1>2, <1>3
    <3>3. i \in 1 .. n \/ i = n + 1
      BY <1>1
    <3> QED
      BY <3>1, <3>2, <3>3
  <2> QED
    BY <2>1, <1>1 DEF StatusAfterCommit
<1> QED
  BY <1>4, <1>5, <1>6, <1>7

\* run() asks to be told when the queue has been processed.
LEMMA AppendReady ==
  ASSUME TypeOK, QueueInOrder, storer # "stopped", loop = "backoff",
         queue' = Append(queue, Ready), loop' = "waitReady",
         UNCHANGED <<lastWatermark, srcNext>>
  PROVE  CommitsInOrder' /\ StatusAfterCommit' /\ SourceFollowsQueue' /\ ReadyIsLast'
<1> DEFINE n == Len(queue)
<1>1. /\ n \in Nat /\ DOMAIN queue = 1 .. n /\ DOMAIN queue' = 1 .. n + 1
      /\ \A i \in 1 .. n : queue'[i] = queue[i]
      /\ queue'[n + 1] = Ready
      /\ Commits' = Commits
  BY AppendedQueue, EntryType DEF TypeOK, StorerTypeOK, IsCommit, Ready
<1>2. Commits \subseteq 1 .. n
  BY <1>1 DEF Commits
<1>3. queue'[n + 1].type = "ready"
  BY <1>1 DEF Ready
<1>4. CommitsInOrder'
  BY ZenonT(60), <1>1, <1>2 DEF QueueInOrder, CommitsInOrder
<1>5. SourceFollowsQueue'
  BY DEF SourceFollowsQueue
<1>6. ReadyIsLast'
  BY <1>1, <1>3 DEF QueueInOrder, ReadyIsLast, FromStream
<1>7. StatusAfterCommit'
  BY <1>1, <1>2, <1>3 DEF QueueInOrder, StatusAfterCommit
<1> QED
  BY <1>4, <1>5, <1>6, <1>7

\* A stream starts when the queue holds nothing of the previous one.
LEMMA ConnectInOrder ==
  ASSUME TypeOK, QueueInOrder, AckedIsStored, storer # "stopped", Connect
  PROVE  CommitsInOrder' /\ StatusAfterCommit' /\ SourceFollowsQueue' /\ ReadyIsLast'
<1>1. \A i \in DOMAIN queue : ~FromStream(i) /\ queue[i].type # "ready"
  BY DEF Connect, QueueInOrder, ReadyIsLast
<1>2. queue' = queue /\ lastWatermark' = lastWatermark /\ loop' = "streaming"
  BY DEF Connect, storerVars, dbVars
<1>3. Commits = {} /\ Commits' = {}
  BY <1>1, <1>2 DEF Commits, IsCommit, FromStream
<1>4. srcNext' = lastWatermark + 1
  BY SetMaxOfPair DEF Connect, AckedIsStored, TypeOK, DbTypeOK, Watermark
<1>5. lastWatermark \in Nat
  BY DEF TypeOK, DbTypeOK, Watermark
<1>6. CommitsInOrder' /\ SourceFollowsQueue'
  BY <1>2, <1>3, <1>4, <1>5 DEF CommitsInOrder, SourceFollowsQueue
<1>7. StatusAfterCommit' /\ ReadyIsLast'
  BY <1>1, <1>2 DEF StatusAfterCommit, ReadyIsLast, FromStream
<1> QED
  BY <1>6, <1>7

LEMMA StreamInvInit ==
  ASSUME Init
  PROVE  StreamInv
<1>1. TypeOK
  BY InitType
<1>2. /\ DOMAIN queue = {1} /\ queue[1] = Ready
      /\ loop = "waitReady" /\ upstreamAck = 0 /\ lastWatermark = 0
  BY DEF Init, ReplicaVersion
<1>3. Commits = {}
  BY <1>2 DEF Commits, IsCommit, Ready
<1>4. QueueInOrder
  BY <1>2, <1>3
  DEF QueueInOrder, CommitsInOrder, StatusAfterCommit, SourceFollowsQueue,
      ReadyIsLast, FromStream, Ready
<1> QED
  BY <1>1, <1>2, <1>4 DEF StreamInv, AckedIsStored

\* The first queue of a process.
LEMMA BootInOrder ==
  ASSUME Boot
  PROVE  QueueInOrder'
<1>1. DOMAIN queue' = {1} /\ queue'[1] = Ready /\ loop' = "waitReady"
  BY DEF Boot
<1>2. Commits' = {}
  BY <1>1 DEF Commits, IsCommit, Ready
<1> QED
  BY <1>1, <1>2
  DEF QueueInOrder, CommitsInOrder, StatusAfterCommit, SourceFollowsQueue,
      ReadyIsLast, FromStream, Ready

\* A stopped storer stays so until the process starts again, and until then the
\* change DB and what is acknowledged do not move.
LEMMA StoppedStep ==
  ASSUME TypeOK, storer = "stopped", Next
  PROVE  \/ Boot /\ UNCHANGED <<upstreamAck, lastWatermark>>
         \/ storer' = "stopped" /\ UNCHANGED <<upstreamAck, lastWatermark>>
<1> USE DEF storerVars, dbVars
<1>1. CASE Stream
  BY <1>1
  DEF Stream, StreamChange, SourceRollback, SourceStatus, Resume, StreamFails,
      StreamEnds, Retry, Connect, ConnectFails, Dispatch
<1>2. CASE StopService \/ Crash \/ Restart
  BY <1>2 DEF StopService, Crash, Restart
<1>3. ~(Store \/ StorerCommitFails)
  BY DEF Store, StorerReady, StorerSubscriber, StorerStatus, StorerAbort, StorerWrite,
         StorerCommit, StorerCommitted, StorerRollback, StorerStop, StorerCommitFails,
         Dequeues, DequeuesChange
<1>4. CASE PurgeCheck \/ PurgeDelete
  BY <1>4 DEF PurgeCheck, PurgeDelete
<1>5. CASE \E s \in Subs : Subscribe(s) \/ Disconnect(s) \/ Catchup(s) \/ Consume(s)
  BY ZenonT(60), <1>5
  DEF Subscribe, Disconnect, Catchup, CatchupSend, CatchupReject, CatchupDone, Consume,
      ConsumeBegin, ConsumeData, ConsumeCommit, ConsumeRollback, ConsumeError,
      ConsumeUnexpected, Consumed, Fails
<1> QED
  BY <1>1, <1>2, <1>3, <1>4, <1>5 DEF Next

\* A step that leaves the queue and the change DB alone, and at most takes run()
\* from one await to another.
LEMMA QuietStep ==
  ASSUME QueueInOrder, storer # "stopped",
         UNCHANGED <<queue, storer, lastWatermark, srcNext>>,
         \/ loop' = loop
         \/ loop = "blocked" /\ loop' = "streaming"
         \/ loop \in {"streaming", "connect"} /\ loop' = "backoff"
         \/ loop = "backoff" /\ loop' = "done"
  PROVE  QueueInOrder'
<1>1. Commits' = Commits
  BY DEF Commits
<1>2. CommitsInOrder' /\ StatusAfterCommit'
  BY <1>1 DEF QueueInOrder, CommitsInOrder, StatusAfterCommit
<1>3. SourceFollowsQueue'
  BY <1>1 DEF QueueInOrder, SourceFollowsQueue
<1>4. ReadyIsLast'
  BY DEF QueueInOrder, ReadyIsLast, FromStream
<1> QED
  BY <1>2, <1>3, <1>4 DEF QueueInOrder

\* run(), as long as the storer runs.
LEMMA StreamInOrder ==
  ASSUME TypeOK, TypeOK', QueueInOrder, AckedIsStored, storer # "stopped", Stream
  PROVE  QueueInOrder' /\ UNCHANGED <<upstreamAck, lastWatermark>>
<1> USE DEF storerVars, dbVars, sourceVars
<1>1. CASE StreamChange
  <2> DEFINE m == TxMsg(srcNext, srcPos)
  <2>1. m \in Message
    <3>1. srcNext \in TxID
      BY <1>1, ConstantsAssumption DEF StreamChange, TypeOK, StreamTypeOK, TxID
    <3> QED
      BY <3>1, TxMsgType DEF TypeOK, StreamTypeOK
  <2>2. m.w = srcNext /\ (m.tag = "commit" <=> srcPos = DataPerTx + 1)
    BY ConstantsAssumption DEF TxMsg, Msg, TypeOK, StreamTypeOK
  <2>3. /\ loop = "streaming" /\ loop' \in {"streaming", "blocked"}
        /\ queue' = Append(queue, Change(m)) /\ lastWatermark' = lastWatermark
        /\ upstreamAck' = upstreamAck
    BY <1>1 DEF StreamChange, Dispatch
  <2>4. /\ m.tag = "commit" => srcNext' = srcNext + 1
        /\ m.tag # "commit" => srcNext' = srcNext
    BY <1>1, <2>2 DEF StreamChange
  <2>5. CommitsInOrder' /\ StatusAfterCommit' /\ SourceFollowsQueue' /\ ReadyIsLast'
    BY <2>1, <2>2, <2>3, <2>4, AppendChange
  <2> QED
    BY <2>3, <2>5 DEF QueueInOrder
<1>2. CASE SourceRollback
  <2> DEFINE m == Msg("rollback", cur)
  <2>1. m \in Message /\ m.tag # "commit"
    BY DEF Msg, Message, TypeOK, StreamTypeOK
  <2>2. /\ loop = "streaming" /\ loop' \in {"streaming", "blocked"}
        /\ queue' = Append(queue, Change(m))
        /\ UNCHANGED <<lastWatermark, upstreamAck, srcNext>>
    BY <1>2 DEF SourceRollback, Dispatch
  <2>3. CommitsInOrder' /\ StatusAfterCommit' /\ SourceFollowsQueue' /\ ReadyIsLast'
    BY <2>1, <2>2, AppendChange
  <2> QED
    BY <2>2, <2>3 DEF QueueInOrder
<1>3. CASE SourceStatus
  <2>1. /\ loop = "streaming" /\ queue' = Append(queue, Status(srcNext - 1))
        /\ UNCHANGED <<lastWatermark, upstreamAck, srcNext, loop>>
    BY <1>3 DEF SourceStatus, Completed, streamVars
  <2>2. Status(srcNext - 1) \in QueueEntry
    BY EntryType, ConstantsAssumption DEF TypeOK, StreamTypeOK, Watermark
  <2>3. CommitsInOrder' /\ StatusAfterCommit' /\ SourceFollowsQueue' /\ ReadyIsLast'
    BY <2>1, <2>2, AppendStatus
  <2> QED
    BY <2>1, <2>3 DEF QueueInOrder
<1>4. CASE Resume
  BY <1>4, QuietStep DEF Resume
<1>5. CASE StreamFails
  BY <1>5, QuietStep DEF StreamFails
<1>6. CASE StreamEnds
  <2>1. CASE cur # NoTx
    <3>1. /\ loop = "streaming" /\ loop' = "backoff" /\ queue' = Append(queue, Abort)
          /\ UNCHANGED <<lastWatermark, upstreamAck, srcNext>>
      BY <1>6, <2>1 DEF StreamEnds, AbortPending
    <3>2. CommitsInOrder' /\ StatusAfterCommit' /\ SourceFollowsQueue' /\ ReadyIsLast'
      BY <3>1, EntryType, AppendInert DEF Abort
    <3> QED
      BY <3>1, <3>2 DEF QueueInOrder
  <2>2. CASE cur = NoTx
    BY <1>6, <2>2, QuietStep DEF StreamEnds
  <2> QED
    BY <2>1, <2>2
<1>7. CASE Retry
  <2>1. CASE running
    <3>1. /\ loop = "backoff" /\ loop' = "waitReady" /\ queue' = Append(queue, Ready)
          /\ UNCHANGED <<lastWatermark, upstreamAck, srcNext>>
      BY <1>7, <2>1 DEF Retry, AwaitReady
    <3>2. CommitsInOrder' /\ StatusAfterCommit' /\ SourceFollowsQueue' /\ ReadyIsLast'
      BY <3>1, AppendReady
    <3> QED
      BY <3>1, <3>2 DEF QueueInOrder
  <2>2. CASE ~running
    BY <1>7, <2>2, QuietStep DEF Retry
  <2> QED
    BY <2>1, <2>2
<1>8. CASE Connect
  <2>1. CommitsInOrder' /\ StatusAfterCommit' /\ SourceFollowsQueue' /\ ReadyIsLast'
    BY <1>8, ConnectInOrder
  <2> QED
    BY <1>8, <2>1 DEF Connect, QueueInOrder
<1>9. CASE ConnectFails
  BY <1>9, QuietStep DEF ConnectFails
<1> QED
  BY <1>1, <1>2, <1>3, <1>4, <1>5, <1>6, <1>7, <1>8, <1>9 DEF Stream

\* The storer: it acknowledges what it has stored, and stores what comes next.
LEMMA StoreInOrder ==
  ASSUME TypeOK, QueueInOrder, AckedIsStored, storer # "stopped", Store
  PROVE  /\ QueueInOrder' /\ AckedIsStored'
         /\ \/ UNCHANGED <<lastWatermark, changeLog>>
            \/ /\ lastWatermark' = lastWatermark + 1
               /\ changeLog' = changeLog \cup {lastWatermark'}
<1> USE DEF dbVars, sourceVars, streamVars
<1>a. ASSUME NEW w \in Watermark, w <= lastWatermark, Acknowledge(w),
             lastWatermark' = lastWatermark
      PROVE  AckedIsStored'
  BY <1>a, SetMaxOfPair DEF Acknowledge, AckedIsStored, TypeOK, DbTypeOK, Watermark
<1>i. ASSUME queue # <<>>, ~IsCommit(Head(queue)), queue' = Tail(queue),
             UNCHANGED <<lastWatermark, srcNext>>,
             loop' = loop \/ (Head(queue).type = "ready" /\ loop' = "connect")
      PROVE  QueueInOrder'
  BY <1>i, DequeueInert DEF QueueInOrder
<1>1. CASE StorerReady
  BY <1>1, <1>i DEF StorerReady, Dequeues, Dequeue, IsCommit, AckedIsStored
<1>2. CASE StorerSubscriber
  BY <1>2, <1>i DEF StorerSubscriber, Dequeues, Dequeue, IsCommit, AckedIsStored
<1>3. CASE StorerStatus
  <2>1. QueueInOrder' /\ UNCHANGED <<lastWatermark, changeLog>>
    BY <1>3, <1>i DEF StorerStatus, Dequeues, Dequeue, IsCommit
  <2>2. queue # <<>> /\ Head(queue).type = "status" /\ Acknowledge(Head(queue).w)
    BY <1>3 DEF StorerStatus, Dequeues
  <2>3. Head(queue) \in QueueEntry /\ Head(queue) = queue[1] /\ 1 \in DOMAIN queue
    BY <2>2, HeadTailProperties, LenProperties, EmptySeq DEF TypeOK, StorerTypeOK
  <2>4. Head(queue).w \in Watermark
    BY <2>2, <2>3, EntryContent
  <2>5. ~ \E j \in Commits : j < 1
    BY LenProperties DEF Commits, TypeOK, StorerTypeOK
  <2>6. Head(queue).w <= lastWatermark
    BY <2>2, <2>3, <2>5 DEF QueueInOrder, StatusAfterCommit
  <2> QED
    BY <2>1, <2>2, <2>4, <2>6, <1>a
<1>4. CASE StorerAbort
  BY <1>4, <1>i DEF StorerAbort, Dequeues, Dequeue, IsCommit, AckedIsStored
<1>5. CASE StorerWrite
  BY <1>5, <1>i DEF StorerWrite, DequeuesChange, Dequeues, Dequeue, IsCommit, AckedIsStored
<1>6. CASE StorerCommit
  <2>1. /\ queue # <<>> /\ IsCommit(Head(queue)) /\ queue' = Tail(queue)
        /\ lastWatermark' = Head(queue).msg.w /\ UNCHANGED <<srcNext, loop, upstreamAck>>
        /\ changeLog' = changeLog \cup {lastWatermark'}
    BY <1>6 DEF StorerCommit, DequeuesChange, Dequeues, Dequeue, IsCommit
  <2>2. /\ lastWatermark' = lastWatermark + 1
        /\ CommitsInOrder' /\ StatusAfterCommit' /\ SourceFollowsQueue' /\ ReadyIsLast'
    BY <2>1, DequeueCommit
  <2>3. AckedIsStored'
    BY <2>1, <2>2 DEF AckedIsStored, TypeOK, DbTypeOK, Watermark
  <2> QED
    BY <2>1, <2>2, <2>3 DEF QueueInOrder
<1>7. CASE StorerCommitted
  <2>1. QueueInOrder'
    <3>1. Commits' = Commits
      BY <1>7 DEF StorerCommitted, Commits
    <3> QED
      BY <1>7, <3>1
      DEF StorerCommitted, QueueInOrder, CommitsInOrder, StatusAfterCommit,
          SourceFollowsQueue, ReadyIsLast, FromStream
  <2>2. AckedIsStored'
    BY <1>7, <1>a DEF StorerCommitted, TypeOK, DbTypeOK, Watermark
  <2> QED
    BY <1>7, <2>1, <2>2 DEF StorerCommitted
<1>8. CASE StorerRollback
  BY <1>8, <1>i DEF StorerRollback, DequeuesChange, Dequeues, Dequeue, IsCommit, AckedIsStored
<1>9. CASE StorerStop
  BY <1>9 DEF StorerStop, QueueInOrder, AckedIsStored
<1> QED
  BY <1>1, <1>2, <1>3, <1>4, <1>5, <1>6, <1>7, <1>8, <1>9 DEF Store

\* Everything else appends at most one entry the order does not depend on.
LEMMA OtherInOrder ==
  ASSUME TypeOK, QueueInOrder, storer # "stopped",
         \/ StopService \/ PurgeCheck \/ PurgeDelete
         \/ \E s \in Subs : Subscribe(s) \/ Disconnect(s) \/ Catchup(s) \/ Consume(s)
  PROVE  QueueInOrder' /\ UNCHANGED <<upstreamAck, lastWatermark>>
<1> USE DEF streamVars, storerVars, dbVars, sourceVars
<1>a. ASSUME NEW e \in QueueEntry, e.type \in {"abort", "stop", "subscriber"},
             queue' = Append(queue, e), UNCHANGED <<lastWatermark, srcNext, loop>>
      PROVE  QueueInOrder'
  BY <1>a, AppendInert DEF QueueInOrder
<1>1. CASE StopService
  BY <1>1, <1>a, EntryType DEF StopService, Stop
<1>2. CASE PurgeCheck \/ PurgeDelete
  BY <1>2, QuietStep DEF PurgeCheck, PurgeDelete
<1>3. ASSUME NEW s \in Subs, Subscribe(s) \/ Disconnect(s) \/ Catchup(s) \/ Consume(s)
      PROVE  QueueInOrder' /\ UNCHANGED <<upstreamAck, lastWatermark>>
  <2>1. CASE Subscribe(s)
    BY <2>1, <1>a, EntryType DEF Subscribe, Subscriber
  <2>2. CASE Disconnect(s)
    BY <2>2, QuietStep DEF Disconnect
  <2>3. CASE CatchupSend(s) \/ CatchupDone(s)
    BY <2>3, QuietStep DEF CatchupSend, CatchupDone
  <2>4. CASE CatchupReject(s)
    <3>1. CASE s \in Backups
      BY <2>4, <3>1, <1>a, EntryType DEF CatchupReject, Stop
    <3>2. CASE s \notin Backups
      BY <2>4, <3>2, QuietStep DEF CatchupReject
    <3> QED
      BY <3>1, <3>2
  <2>5. CASE Consume(s)
    BY <2>5, QuietStep
    DEF Consume, ConsumeBegin, ConsumeData, ConsumeCommit, ConsumeRollback, ConsumeError,
        ConsumeUnexpected, Consumed, Fails
  <2> QED
    BY <1>3, <2>1, <2>2, <2>3, <2>4, <2>5 DEF Catchup
<1> QED
  BY <1>1, <1>2, <1>3

\* Every step keeps the invariant, and moves the change DB to the next transaction
\* or not at all.
LEMMA StreamInvStep ==
  ASSUME StreamInv, [Next]_vars
  PROVE  /\ StreamInv'
         /\ \/ UNCHANGED lastWatermark
            \/ /\ lastWatermark' = lastWatermark + 1
               /\ changeLog' = changeLog \cup {lastWatermark'}
<1> USE DEF StreamInv, dbVars
<1>t. TypeOK'
  BY TypeStep
<1>1. CASE UNCHANGED vars
  <2>1. /\ UNCHANGED <<queue, storer, lastWatermark, srcNext, loop, upstreamAck>>
    BY <1>1 DEF vars, streamVars, sourceVars, storerVars
  <2>2. Commits' = Commits
    BY <2>1 DEF Commits
  <2>3. QueueInOrder'
    BY <2>1, <2>2
    DEF QueueInOrder, CommitsInOrder, StatusAfterCommit, SourceFollowsQueue, ReadyIsLast,
        FromStream
  <2> QED
    BY <1>t, <2>1, <2>3 DEF AckedIsStored
<1>2. CASE Next /\ storer = "stopped"
  BY <1>2, <1>t, StoppedStep, BootInOrder DEF QueueInOrder, AckedIsStored
<1>3. CASE Next /\ storer # "stopped"
  <2>1. CASE Stream
    BY <1>3, <2>1, <1>t, StreamInOrder DEF AckedIsStored
  <2>2. CASE Store
    BY <1>3, <2>2, <1>t, StoreInOrder
  <2>3. CASE StorerCommitFails
    BY <2>3, <1>t DEF StorerCommitFails, QueueInOrder, AckedIsStored
  <2>4. CASE Crash \/ Restart
    BY <2>4, <1>t, BootInOrder DEF Crash, Restart, AckedIsStored
  <2>5. CASE \/ StopService \/ PurgeCheck \/ PurgeDelete
             \/ \E s \in Subs : Subscribe(s) \/ Disconnect(s) \/ Catchup(s) \/ Consume(s)
    BY <1>3, <2>5, <1>t, OtherInOrder DEF AckedIsStored
  <2> QED
    BY <1>3, <2>1, <2>2, <2>3, <2>4, <2>5 DEF Next
<1> QED
  BY <1>1, <1>2, <1>3

LEMMA StreamInvariant == Spec => []StreamInv
<1>1. StreamInv /\ [Next]_vars => StreamInv'
  BY StreamInvStep
<1> QED
  BY StreamInvInit, <1>1, PTL DEF Spec

\* Upstream is never told to forget a transaction that is not in the change DB,
\* whatever fails and whenever the process restarts.
THEOREM AckSafe == Spec => []AckedIsStored
<1>1. StreamInv => AckedIsStored
  BY DEF StreamInv
<1> QED
  BY StreamInvariant, <1>1, PTL

\* The storer's queue holds the transactions after the change DB in order, and
\* the source resumes right after them.
THEOREM QueueCorrect == Spec => []QueueInOrder
<1>1. StreamInv => QueueInOrder
  BY DEF StreamInv
<1> QED
  BY StreamInvariant, <1>1, PTL

-----------------------------------------------------------------------------
(* The change log *)

\* With LogContiguous: nothing is in the log that is not stored, and a purge that
\* was checked goes no further than what is stored.
LogInv == /\ LogContiguous
          /\ changeLog \subseteq 1 .. lastWatermark
          /\ purging <= lastWatermark

\* Only the storer adds to the log, only a purge takes from it, and a purge that
\* is under way is forgotten when the process starts again.
LEMMA LogFrame ==
  ASSUME Next
  PROVE  \/ StorerCommit \/ PurgeCheck \/ PurgeDelete
         \/ UNCHANGED <<changeLog, lastWatermark>> /\ purging' \in {purging, NoTx}
<1> USE DEF dbVars
<1>1. CASE Stream
  BY <1>1
  DEF Stream, StreamChange, SourceRollback, SourceStatus, Resume, StreamFails,
      StreamEnds, Retry, Connect, ConnectFails
<1>2. CASE StopService \/ Crash \/ Restart
  BY <1>2 DEF StopService, Crash, Restart, Boot
<1>3. CASE Store \/ StorerCommitFails
  BY <1>3
  DEF Store, StorerReady, StorerSubscriber, StorerStatus, StorerAbort, StorerWrite,
      StorerCommitted, StorerRollback, StorerStop, StorerCommitFails
<1>4. CASE \E s \in Subs : Subscribe(s) \/ Disconnect(s) \/ Catchup(s) \/ Consume(s)
  BY ZenonT(60), <1>4
  DEF Subscribe, Disconnect, Catchup, CatchupSend, CatchupReject, CatchupDone, Consume,
      ConsumeBegin, ConsumeData, ConsumeCommit, ConsumeRollback, ConsumeError,
      ConsumeUnexpected, Consumed, Fails
<1> QED
  BY <1>1, <1>2, <1>3, <1>4 DEF Next

LEMMA LogInvStep ==
  ASSUME "lateStore" \notin Environment, StreamInv, LogInv, [Next]_vars
  PROVE  LogInv'
<1> USE DEF LogInv, LogContiguous, dbVars
<1>0. lastWatermark \in Nat /\ purging \in Nat
  BY DEF StreamInv, TypeOK, DbTypeOK, StreamTypeOK, Watermark
<1>1. CASE UNCHANGED vars
  BY <1>1 DEF vars
<1>2. CASE StorerCommit
  <2>1. /\ changeLog' = changeLog \cup {lastWatermark'} /\ purging' = purging
    BY <1>2 DEF StorerCommit
  <2>2. lastWatermark' = lastWatermark + 1
    <3>1. /\ storer # "stopped" /\ queue # <<>> /\ IsCommit(Head(queue))
          /\ queue' = Tail(queue) /\ lastWatermark' = Head(queue).msg.w
          /\ UNCHANGED <<srcNext, loop>>
      BY <1>2
      DEF StorerCommit, DequeuesChange, Dequeues, Dequeue, IsCommit, streamVars, sourceVars
    <3> QED
      BY <3>1, DequeueCommit DEF StreamInv
  <2>3. CASE lastWatermark = 0
    <3>1. lastWatermark' = 1
      BY <2>2, <2>3
    <3>2. 1 .. lastWatermark = {}
      BY <2>3
    <3>3. changeLog = {}
      BY <3>2
    <3>4. changeLog' = {1}
      BY <3>1, <3>3, <2>1
    <3>5. 1 .. 1 = {1}
      OBVIOUS
    <3>6. changeLog' = 1 .. lastWatermark'
      BY <3>1, <3>4, <3>5
    <3>7. 1 \in 1 .. lastWatermark'
      BY <3>1
    <3>8. LogContiguous'
      BY <3>6, <3>7
    <3>9. purging' <= lastWatermark'
      BY <3>1, <2>1, <2>3, <1>0, SMT DEF LogInv
    <3> QED
      BY <3>6, <3>8, <3>9
  <2>4. CASE lastWatermark > 0
    <3>1. PICK lo \in 1 .. lastWatermark : changeLog = lo .. lastWatermark
      BY <2>4
    <3>2. changeLog' = lo .. lastWatermark' /\ lo \in 1 .. lastWatermark'
      BY <3>1, <2>1, <2>2, <1>0
    <3> QED
      BY <3>2, <2>1, <2>2, <1>0
  <2> QED
    BY <2>3, <2>4, <1>0
<1>3. CASE PurgeCheck
  <2>1. purging' \in Int /\ purging' <= lastWatermark
    BY <1>3, <1>0 DEF PurgeCheck
  <2> QED
    BY <1>3, <2>1 DEF PurgeCheck
<1>4. CASE PurgeDelete
  <2>1. /\ changeLog' = {w \in changeLog : w >= purging}
        /\ purging' = 0 /\ lastWatermark' = lastWatermark
    BY <1>4 DEF PurgeDelete, Kept, NoTx
  <2>2. ASSUME lastWatermark > 0
        PROVE  \E lo \in 1 .. lastWatermark : changeLog' = lo .. lastWatermark
    <3>1. PICK lo \in 1 .. lastWatermark : changeLog = lo .. lastWatermark
      BY <2>2
    <3>2. CASE purging <= lo
      <4>1. changeLog' = lo .. lastWatermark
        BY <3>1, <3>2, <2>1, <1>0
      <4> QED
        BY <4>1
    <3>3. CASE purging > lo
      <4>1. changeLog' = purging .. lastWatermark /\ purging \in 1 .. lastWatermark
        BY <3>1, <3>3, <2>1, <1>0
      <4> QED
        BY <4>1
    <3> QED
      BY <3>2, <3>3, <1>0
  <2>3. changeLog' \subseteq 1 .. lastWatermark
    BY <2>1
  <2> QED
    BY <2>1, <2>2, <2>3, <1>0
<1>5. CASE UNCHANGED <<changeLog, lastWatermark>> /\ purging' \in {purging, NoTx}
  BY <1>5, <1>0 DEF NoTx
<1> QED
  BY <1>1, <1>2, <1>3, <1>4, <1>5, LogFrame

\* The change DB has no hole and always ends with the last stored transaction,
\* as long as no purge is asked for beyond what has been stored.
THEOREM LogComplete ==
  ASSUME "lateStore" \notin Environment
  PROVE  Spec => []LogContiguous
<1>1. Init => LogInv
  BY DEF Init, LogInv, LogContiguous, ReplicaVersion, NoTx
<1>2. StreamInv /\ LogInv /\ [Next]_vars => LogInv'
  BY LogInvStep
<1>3. LogInv => LogContiguous
  BY DEF LogInv
<1> QED
  BY StreamInvariant, <1>1, <1>2, <1>3, PTL DEF Spec

-----------------------------------------------------------------------------
(* What a replicator is sent is one unbroken path through upstream's transactions: what it *)
(* has yet to consume, what the change DB has for it, what has been forwarded to it       *)
(* meanwhile, and what the source sends next.  From this follow ReplicaComplete,          *)
(* ImplementsFeed, and StreamWellFormed if the source does not roll back.                 *)

-----------------------------------------------------------------------------
(* Paths *)

\* <<w, p>>: what comes next is the message p of the transaction w, with p = 0 outside
\* of a transaction.  After an error nothing comes.
Position == Nat \X Nat
Over == <<0, 0>>

\* How a message takes one position to the next.
Follows(a, m, b) ==
  /\ a[1] > 0
  /\ \/ /\ m = TxMsg(a[1], a[2]) /\ a[2] <= DataPerTx + 1
        /\ b = IF a[2] = DataPerTx + 1 THEN <<a[1] + 1, 0>> ELSE <<a[1], a[2] + 1>>
     \/ /\ m = Msg("rollback", a[1]) /\ (a[2] > 0 \/ "rollback" \in Environment)
        /\ b = <<a[1], 0>>
     \/ m = Msg("error", NoTx) /\ b = Over

\* The messages of q lead from a to b.
Path(a, q, b) ==
  \E f \in [0 .. Len(q) -> Position] :
    /\ f[0] = a /\ f[Len(q)] = b
    /\ \A i \in 1 .. Len(q) : Follows(f[i - 1], q[i], f[i])

-----------------------------------------------------------------------------
(* The invariant *)

\* Where the source stands in its transaction.
Sending == loop \in {"streaming", "blocked"}
SentPos == IF Sending THEN srcPos ELSE 0

\* v is the last transaction that has been forwarded in full or, when nothing has been
\* forwarded since the start, that is in the change DB.
Sent(v) ==
  /\ Sending => v = srcNext - 1
  /\ loop = "connect" => v = lastWatermark
  /\ loop \in {"waitReady", "backoff", "done"} /\ storer # "stopped" =>
       /\ v = lastWatermark \/ \E i \in Commits : queue[i].msg.w = v
       /\ v >= lastWatermark /\ \A i \in Commits : v >= queue[i].msg.w

\* The position e of the last message that s has taken is the source's, or is ahead of
\* it because the replica has been.
Aligned(s, e) ==
  /\ e[1] > wm[s]
  /\ \/ e[2] = SentPos /\ Sent(e[1] - 1)
     \/ e = <<wm[s] + 1, 0>> /\ \E v \in Watermark : Sent(v) /\ v < wm[s]

\* run()'s watermark and the Forwarder's #inTransaction follow the source.
LoopInv ==
  /\ SentPos > 0 => cur = srcNext
  /\ cur # NoTx => Sending /\ cur = srcNext
  /\ cur # NoTx /\ SentPos = 0 => "rollback" \in Environment
  /\ inTransaction = (SentPos > 0)

IsBegin(e) == e.type = "change" /\ e.msg.tag = "begin"
Ends(e) == e.type = "abort" \/ (e.type = "change" /\ e.msg.tag \in {"commit", "rollback"})

\* Who comes to the entry j of q, having started inside of a transaction or not, is inside of one.
OpenAt(q, inside, j) ==
  \/ \E k \in 1 .. j - 1 : IsBegin(q[k]) /\ \A l \in k + 1 .. j - 1 : ~Ends(q[l])
  \/ inside /\ \A l \in 1 .. j - 1 : ~Ends(q[l])

\* So does the storer, at every commit; and at the end, if the Forwarder is.
Inside == tx # NoTx /\ storer = "idle"
QueueBracketed ==
  /\ \A j \in Commits : OpenAt(queue, Inside, j)
  /\ inTransaction => OpenAt(queue, Inside, Len(queue) + 1)

\* Where the entry of a subscription is, 0 standing for the catchupQueue.
Entries(s) == {i \in 0 .. Len(queue) : IF i = 0 THEN s \in catchupQueue ELSE queue[i] = Subscriber(s)}

\* A commit behind the entry i that the subscriber is not sent by the Forwarder is the end of
\* the transaction the storer is in at i: it is stored before the subscriber is caught up.
Covered(s, i, b) ==
  \A j \in Commits : j > i /\ queue[j].msg.w > wm[s] /\ queue[j].msg.w <= b =>
    \A k \in i + 1 .. j : ~IsBegin(queue[k])

\* A subscriber that waits for its catchup: its backlog starts after the transaction b.
Waits(s) ==
  /\ fwd[s] = "queued" =>
       /\ inTransaction /\ backlog[s] = <<>>
       /\ \A i \in Entries(s) : \A k \in i + 1 .. Len(queue) : ~IsBegin(queue[k])
  /\ fwd[s] = "active" =>
       \E b \in Watermark, e \in Position :
         /\ Path(<<b + 1, 0>>, backlog[s], e) /\ Aligned(s, e)
         /\ b >= wm[s] /\ b < e[1]
         /\ b = wm[s] \/ b <= lastWatermark \/ \E j \in Commits : queue[j].msg.w = b
         /\ \A i \in Entries(s) : Covered(s, i, b)

\* A subscriber that is caught up to h: its backlog goes on from there, or from before.
Stitches(s) ==
  \E b, h \in Watermark, e \in Position :
    /\ snap[s] = wm[s] + 1 .. h /\ wm[s] <= h /\ b <= h /\ h < e[1]
    /\ Path(<<b + 1, 0>>, backlog[s], e) /\ Aligned(s, e)

\* Where a replicator stands.
At(s) == <<replica[s] + 1, IF repTx[s] = NoTx THEN 0 ELSE size[s] + 1>>

ReplicatorInv(s) ==
  /\ have[s] = [i \in 1 .. replica[s] |-> i]
  /\ repTx[s] \in {NoTx, replica[s] + 1}
  /\ size[s] <= DataPerTx /\ (repTx[s] = NoTx => size[s] = 0)
  /\ phase[s] \in {"none", "waiting"} => repTx[s] = NoTx /\ down[s] = <<>>

WaitingInv(s) == wm[s] = replica[s] /\ (storer # "stopped" => Waits(s))

ReadingInv(s) ==
  /\ fwd[s] = "active"
  /\ Path(At(s), down[s], <<wm[s] + 1, 0>>)
  /\ found[s] \/ snap[s] = {} => Stitches(s)

FailedInv(s) == \E e \in Position : Path(At(s), down[s], e)

LiveInv(s) ==
  /\ fwd[s] = "active"
  /\ \E e \in Position : Path(At(s), down[s], e) /\ e[1] = wm[s] + 1 /\ Aligned(s, e)

SubscriberInv(s) ==
  /\ phase[s] = "none" => fwd[s] = "none" /\ backlog[s] = <<>>
  /\ phase[s] # "none" => fwd[s] # "none"
  /\ phase[s] = "waiting" => WaitingInv(s)
  /\ phase[s] = "reading" => ReadingInv(s)
  /\ phase[s] = "failed" => FailedInv(s)
  /\ phase[s] = "live" => LiveInv(s)

\* As long as a replica has nothing, nothing has been purged.
StartKept ==
  \A s \in Subs : replica[s] = ReplicaVersion =>
    purging = NoTx /\ (lastWatermark = 0 \/ 1 \in changeLog)

Stitched ==
  /\ LoopInv
  /\ storer # "stopped" => QueueBracketed
  /\ \A s \in Subs : ReplicatorInv(s) /\ SubscriberInv(s)

StitchInv == StreamInv /\ LogInv /\ StartKept /\ Stitched

-----------------------------------------------------------------------------
(* Lemmas about paths *)

LEMMA PositionFacts ==
  ASSUME NEW a \in Position
  PROVE  a[1] \in Nat /\ a[2] \in Nat /\ a = <<a[1], a[2]>>
  BY DEF Position

\* A message leads to a position, which is no earlier and at most one transaction on.
LEMMA FollowsType ==
  ASSUME NEW a \in Position, NEW m \in Message, NEW b, Follows(a, m, b)
  PROVE  /\ b \in Position
         /\ b # Over => m.w = a[1] /\ (b[1] = a[1] \/ (b[1] = a[1] + 1 /\ b[2] = 0))
<1>0. DataPerTx \in Nat
  BY ConstantsAssumption
<1>1. CASE /\ m = TxMsg(a[1], a[2]) /\ a[2] <= DataPerTx + 1
           /\ b = IF a[2] = DataPerTx + 1 THEN <<a[1] + 1, 0>> ELSE <<a[1], a[2] + 1>>
  <2>1. m.w = a[1]
    BY <1>1 DEF TxMsg, Msg
  <2> QED
    BY <1>1, <2>1, PositionFacts, <1>0 DEF Position
<1>2. CASE m = Msg("rollback", a[1]) /\ b = <<a[1], 0>>
  BY <1>2, PositionFacts DEF Position, Msg
<1>3. CASE b = Over
  BY <1>3 DEF Over, Position
<1> QED
  BY <1>1, <1>2, <1>3 DEF Follows

LEMMA PathEmpty ==
  ASSUME NEW a \in Position
  PROVE  Path(a, <<>>, a)
<1> DEFINE f == [i \in 0 .. 0 |-> a]
<1>1. Len(<<>>) = 0
  BY EmptySeq
<1>2. f \in [0 .. 0 -> Position] /\ f[0] = a
  OBVIOUS
<1>3. \A i \in 1 .. 0 : Follows(f[i - 1], <<>>[i], f[i])
  OBVIOUS
<1> HIDE DEF f
<1> QED
  BY <1>1, <1>2, <1>3 DEF Path

LEMMA PathOfEmpty ==
  ASSUME NEW a, NEW b, Path(a, <<>>, b)
  PROVE  a = b
  BY DEF Path

LEMMA PathAppend ==
  ASSUME NEW q \in Seq(Message), NEW m \in Message,
         NEW a, NEW b \in Position, NEW c, Path(a, q, b), Follows(b, m, c)
  PROVE  Path(a, Append(q, m), c)
<1> DEFINE n == Len(q)
<1>1. PICK f \in [0 .. n -> Position] :
        f[0] = a /\ f[n] = b /\ \A i \in 1 .. n : Follows(f[i - 1], q[i], f[i])
  BY DEF Path
<1>2. /\ n \in Nat /\ Len(Append(q, m)) = n + 1
      /\ \A i \in 1 .. n : Append(q, m)[i] = q[i]
      /\ Append(q, m)[n + 1] = m
  BY AppendProperties, LenProperties
<1> DEFINE g == [i \in 0 .. n + 1 |-> IF i = n + 1 THEN c ELSE f[i]]
<1>3. c \in Position
  BY FollowsType
<1>4. g \in [0 .. n + 1 -> Position] /\ g[0] = a /\ g[n + 1] = c
  BY <1>1, <1>2, <1>3
<1>5. \A i \in 1 .. n + 1 : Follows(g[i - 1], Append(q, m)[i], g[i])
  <2> TAKE i \in 1 .. n + 1
  <2>1. CASE i = n + 1
    BY <1>1, <1>2, <2>1
  <2>2. CASE i \in 1 .. n
    <3>1. g[i - 1] = f[i - 1] /\ g[i] = f[i]
      BY <2>2, <1>2
    <3> QED
      BY <3>1, <2>2, <1>1, <1>2
  <2> QED
    BY <2>1, <2>2, <1>2
<1> HIDE DEF g
<1> QED
  BY <1>2, <1>4, <1>5 DEF Path

LEMMA PathConcat ==
  ASSUME NEW q \in Seq(Message), NEW r \in Seq(Message),
         NEW a, NEW b, NEW c, Path(a, q, b), Path(b, r, c)
  PROVE  Path(a, q \o r, c)
<1>n. PICK n \in Nat : n = Len(q)
  BY LenProperties
<1>k. PICK k \in Nat : k = Len(r)
  BY LenProperties
<1>1. PICK f \in [0 .. n -> Position] :
        f[0] = a /\ f[n] = b /\ \A i \in 1 .. n : Follows(f[i - 1], q[i], f[i])
  BY <1>n DEF Path
<1>2. PICK g \in [0 .. k -> Position] :
        g[0] = b /\ g[k] = c /\ \A i \in 1 .. k : Follows(g[i - 1], r[i], g[i])
  BY <1>k DEF Path
<1>3. /\ Len(q \o r) = n + k
      /\ \A i \in 1 .. n + k : (q \o r)[i] = IF i <= n THEN q[i] ELSE r[i - n]
  BY ConcatProperties, <1>n, <1>k
<1> DEFINE h == [i \in 0 .. n + k |-> IF i <= n THEN f[i] ELSE g[i - n]]
<1>4. h \in [0 .. n + k -> Position]
  <2>1. ASSUME NEW i \in 0 .. n + k
        PROVE  (IF i <= n THEN f[i] ELSE g[i - n]) \in Position
    <3>1. CASE i <= n
      BY <3>1
    <3>2. CASE ~(i <= n)
      <4>1. i - n \in 0 .. k
        BY <3>2
      <4> QED
        BY <3>2, <4>1
    <3> QED
      BY <3>1, <3>2
  <2> QED
    BY <2>1
<1>5. h[0] = a
  BY <1>1
<1>6. h[n + k] = c
  <2>1. CASE k = 0
    BY <2>1, <1>1, <1>2
  <2>2. CASE k > 0
    <3>1. n + k - n = k /\ ~(n + k <= n)
      BY <2>2
    <3> QED
      BY <3>1, <1>2
  <2> QED
    BY <2>1, <2>2
<1>7. \A i \in 1 .. n + k : Follows(h[i - 1], (q \o r)[i], h[i])
  <2> TAKE i \in 1 .. n + k
  <2>1. CASE i <= n
    <3>1. h[i - 1] = f[i - 1] /\ h[i] = f[i] /\ i \in 1 .. n
      BY <2>1
    <3> QED
      BY <3>1, <2>1, <1>1, <1>3
  <2>2. CASE i = n + 1
    <3>1. h[i - 1] = f[n] /\ h[i] = g[1] /\ 1 \in 1 .. k /\ i - n = 1
      BY <2>2
    <3>2. 1 - 1 = 0 /\ g[0] = f[n]
      BY <1>1, <1>2
    <3>3. Follows(f[n], r[1], g[1])
      BY <3>1, <3>2, <1>2
    <3>4. (q \o r)[i] = r[1]
      <4>1. ~(i <= n)
        BY <2>2
      <4>2. (q \o r)[i] = r[i - n]
        BY <4>1, <1>3
      <4> QED
        BY <4>2, <3>1
    <3> QED
      BY <3>1, <3>3, <3>4
  <2>3. CASE i > n + 1
    <3>0. PICK j \in Int : j = i - n
      OBVIOUS
    <3>1. j \in 1 .. k /\ h[i] = g[j] /\ h[i - 1] = g[j - 1] /\ (q \o r)[i] = r[j]
      <4>1. /\ j \in 1 .. k /\ ~(i <= n) /\ ~(i - 1 <= n) /\ (i - 1) - n = j - 1
            /\ i \in 0 .. n + k /\ i - 1 \in 0 .. n + k
        BY <2>3, <3>0
      <4>2. h[i] = g[j] /\ (q \o r)[i] = r[j]
        BY <4>1, <1>3, <3>0
      <4>3. h[i - 1] = g[(i - 1) - n]
        BY <4>1
      <4> QED
        BY <4>1, <4>2, <4>3
    <3> QED
      BY <3>1, <1>2
  <2>4. i <= n \/ i = n + 1 \/ i > n + 1
    OBVIOUS
  <2> QED
    BY <2>1, <2>2, <2>3, <2>4
<1> HIDE DEF h
<1> QED
  BY <1>n, <1>k, <1>3, <1>4, <1>5, <1>6, <1>7 DEF Path

LEMMA PathTail ==
  ASSUME NEW q \in Seq(Message), q # <<>>, NEW a, NEW c, Path(a, q, c)
  PROVE  \E b \in Position : Follows(a, Head(q), b) /\ Path(b, Tail(q), c)
<1> DEFINE n == Len(q)
<1>1. PICK f \in [0 .. n -> Position] :
        f[0] = a /\ f[n] = c /\ \A i \in 1 .. n : Follows(f[i - 1], q[i], f[i])
  BY DEF Path
<1>2. /\ n \in Nat /\ n > 0 /\ Len(Tail(q)) = n - 1 /\ Head(q) = q[1]
      /\ \A i \in 1 .. n - 1 : Tail(q)[i] = q[i + 1]
  BY HeadTailProperties, LenProperties, EmptySeq
<1> DEFINE g == [i \in 0 .. n - 1 |-> f[i + 1]]
<1>3. g \in [0 .. n - 1 -> Position] /\ g[0] = f[1] /\ g[n - 1] = c /\ f[1] \in Position
  BY SMTT(60), <1>1, <1>2
<1>4. \A i \in 1 .. n - 1 : Follows(g[i - 1], Tail(q)[i], g[i])
  <2> TAKE i \in 1 .. n - 1
  <2>1. g[i - 1] = f[(i + 1) - 1] /\ g[i] = f[i + 1] /\ i + 1 \in 1 .. n
    BY <1>2
  <2> QED
    BY <2>1, <1>1, <1>2
<1> HIDE DEF g
<1>5. Path(f[1], Tail(q), c)
  BY <1>2, <1>3, <1>4 DEF Path
<1>6. Follows(a, Head(q), f[1])
  <2>1. 1 \in 1 .. n /\ 1 - 1 = 0
    BY <1>2
  <2> QED
    BY <2>1, <1>1, <1>2
<1> QED
  BY <1>3, <1>5, <1>6

\* A transaction is a path.
LEMMA PathTx ==
  ASSUME NEW w \in TxID
  PROVE  Path(<<w, 0>>, TxMsgs(w), <<w + 1, 0>>)
<1>1. DataPerTx \in Nat /\ w \in Nat /\ w > 0
  BY ConstantsAssumption DEF TxID
<1> DEFINE n == DataPerTx + 2
           f == [i \in 0 .. n |-> IF i = n THEN <<w + 1, 0>> ELSE <<w, i>>]
<1>2. Len(TxMsgs(w)) = n /\ \A i \in 1 .. n : TxMsgs(w)[i] = TxMsg(w, i - 1)
  BY <1>1 DEF TxMsgs
<1>3. f \in [0 .. n -> Position] /\ f[0] = <<w, 0>> /\ f[n] = <<w + 1, 0>>
  BY <1>1 DEF Position
<1>4. \A i \in 1 .. n : Follows(f[i - 1], TxMsgs(w)[i], f[i])
  <2> TAKE i \in 1 .. n
  <2>1. f[i - 1] = <<w, i - 1>> /\ TxMsgs(w)[i] = TxMsg(w, i - 1) /\ i - 1 <= DataPerTx + 1
    BY <1>1, <1>2
  <2>2. f[i] = IF i - 1 = DataPerTx + 1 THEN <<w + 1, 0>> ELSE <<w, (i - 1) + 1>>
    BY <1>1
  <2> DEFINE a == <<w, i - 1>>
  <2>3. a[1] = w /\ a[2] = i - 1
    OBVIOUS
  <2>4. f[i] = IF a[2] = DataPerTx + 1 THEN <<a[1] + 1, 0>> ELSE <<a[1], a[2] + 1>>
    BY <2>2, <2>3
  <2> HIDE DEF a, f
  <2>5. Follows(a, TxMsgs(w)[i], f[i])
    BY <2>1, <2>3, <2>4, <1>1 DEF Follows
  <2> QED
    BY <2>1, <2>5 DEF a
<1> HIDE DEF f
<1> QED
  BY <1>2, <1>3, <1>4 DEF Path

\* What of a path is newer than x leads from the end of the transaction x.
LEMMA PathCut ==
  ASSUME NEW q \in Seq(Message), NEW b \in Nat, NEW x \in Nat, b <= x,
         NEW e \in Position, e[1] > x, Path(<<b + 1, 0>>, q, e),
         NEW newer, newer = {i \in DOMAIN q : q[i].w > x}
  PROVE  Path(<<x + 1, 0>>, IF newer = {} THEN <<>> ELSE SubSeq(q, SetMin(newer), Len(q)), e)
<1>n. PICK n \in Nat : n = Len(q)
  BY LenProperties
<1>q. DOMAIN q = 1 .. n /\ \A i \in 1 .. n : q[i] \in Message
  BY <1>n, LenProperties, ElementOfSeq
<1>1. PICK f \in [0 .. n -> Position] :
        f[0] = <<b + 1, 0>> /\ f[n] = e /\ \A i \in 1 .. n : Follows(f[i - 1], q[i], f[i])
  BY <1>n DEF Path
<1>2. \A i \in 0 .. n : f[i] \in Position /\ f[i][1] \in Nat /\ f[i][1] > 0
  <2> TAKE i \in 0 .. n
  <2>1. f[i] \in Position /\ f[i][1] \in Nat
    BY PositionFacts
  <2>2. CASE i = n
    BY <2>1, <2>2, <1>1
  <2>3. CASE i < n
    <3>1. i + 1 \in 1 .. n /\ (i + 1) - 1 = i
      BY <2>3
    <3> QED
      BY <3>1, <2>1, <1>1 DEF Follows
  <2> QED
    BY <2>2, <2>3
<1>3. \A i \in 1 .. n : /\ q[i].w = f[i - 1][1]
                        /\ f[i][1] = f[i - 1][1] \/ f[i] = <<f[i - 1][1] + 1, 0>>
  <2> TAKE i \in 1 .. n
  <2>1. i \in 0 .. n /\ i - 1 \in 0 .. n
    OBVIOUS
  <2>2. f[i] # Over
    BY <2>1, <1>2 DEF Over
  <2>3. f[i - 1] \in Position /\ f[i] \in Position /\ Follows(f[i - 1], q[i], f[i])
    BY <2>1, <1>1
  <2> QED
    BY SMTT(60), <2>2, <2>3, <1>q, FollowsType, PositionFacts
\* The first position after x, if the one before is not after it.
<1>4. ASSUME NEW i \in 0 .. n, f[i][1] > x, i = 0 \/ f[i - 1][1] <= x
      PROVE  f[i] = <<x + 1, 0>>
  <2>1. CASE i = 0
    <3>1. b + 1 > x
      BY <2>1, <1>1, <1>4
    <3>2. b = x
      BY <3>1
    <3> QED
      BY <3>2, <2>1, <1>1
  <2>2. CASE i # 0
    <3>1. i \in 1 .. n /\ i - 1 \in 0 .. n
      BY <2>2
    <3>2. f[i] = <<f[i - 1][1] + 1, 0>>
      <4>1. f[i - 1][1] <= x /\ f[i - 1][1] \in Nat /\ f[i][1] > x
        BY <3>1, <2>2, <1>2, <1>4
      <4>2. f[i][1] # f[i - 1][1]
        BY <4>1
      <4> QED
        BY <3>1, <4>2, <1>3
    <3>3. f[i - 1][1] + 1 > x /\ f[i - 1][1] \in Nat
      BY <3>1, <3>2, <1>4, <1>2
    <3>4. f[i - 1][1] = x
      BY <3>3, <1>4, <2>2
    <3> QED
      BY <3>2, <3>4
  <2> QED
    BY <2>1, <2>2
<1>5. CASE newer = {}
  <2>1. n = 0 \/ f[n - 1][1] <= x
    <3>1. ASSUME n > 0
          PROVE  f[n - 1][1] <= x
      <4>1. n \in 1 .. n /\ n - 1 \in 0 .. n
        BY <3>1
      <4>2. ~(q[n].w > x)
        BY <4>1, <1>5, <1>q
      <4>3. f[n - 1][1] \in Nat /\ q[n].w = f[n - 1][1]
        BY <4>1, <1>2, <1>3
      <4> QED
        BY <4>2, <4>3
    <3> QED
      BY <3>1
  <2>2. e = <<x + 1, 0>>
    <3>1. n \in 0 .. n /\ f[n][1] > x
      BY <1>1
    <3>2. f[n] = <<x + 1, 0>>
      BY <2>1, <3>1, <1>4
    <3> QED
      BY <3>2, <1>1
  <2> QED
    BY <2>2, <1>5, PathEmpty
<1>6. CASE newer # {}
  <2>1. newer \in SUBSET Nat
    BY <1>q
  <2>2. SetMin(newer) \in newer /\ \A y \in newer : SetMin(newer) <= y
    BY <2>1, <1>6, SetMinIsLeast
  <2>3. PICK m \in 1 .. n : m = SetMin(newer)
    BY <2>2, <1>q
  <2>4. q[m].w > x /\ \A y \in newer : m <= y
    BY <2>2, <2>3
  <2>5. f[m - 1] = <<x + 1, 0>>
    <3>1. m - 1 \in 0 .. n /\ f[m - 1][1] > x
      BY <2>3, <2>4, <1>3
    <3>2. ASSUME m - 1 # 0
          PROVE  f[(m - 1) - 1][1] <= x
      <4>1. m - 1 \in 1 .. n /\ m - 1 \notin newer /\ (m - 1) - 1 \in 0 .. n
        <5>1. m - 1 \in 1 .. n /\ (m - 1) - 1 \in 0 .. n
          BY <3>2
        <5>2. ~(m <= m - 1)
          OBVIOUS
        <5> QED
          BY <5>1, <5>2, <2>4
      <4>2. ~(q[m - 1].w > x)
        BY <4>1, <1>q
      <4>3. q[m - 1].w = f[(m - 1) - 1][1] /\ f[(m - 1) - 1][1] \in Nat
        BY <4>1, <1>2, <1>3
      <4> QED
        BY <4>2, <4>3
    <3> QED
      BY <3>1, <3>2, <1>4
  <2> DEFINE r == SubSeq(q, m, n)
             k == n - m + 1
             g == [i \in 0 .. k |-> f[m - 1 + i]]
  <2>6. k \in Nat /\ k > 0 /\ Len(r) = k /\ \A i \in 1 .. k : r[i] = q[m + i - 1]
    <3>1. \A i \in m .. n : q[i] \in Message
      BY <1>q
    <3>2. /\ Len(r) = IF m <= n THEN n - m + 1 ELSE 0
          /\ \A i \in 1 .. n - m + 1 : r[i] = q[m + i - 1]
      BY <3>1, SubSeqProperties
    <3> QED
      BY <3>2
  <2>7. g \in [0 .. k -> Position] /\ g[0] = <<x + 1, 0>> /\ g[k] = e
    <3>1. \A i \in 0 .. k : m - 1 + i \in 0 .. n
      OBVIOUS
    <3>2. m - 1 + 0 = m - 1 /\ m - 1 + k = n
      OBVIOUS
    <3> QED
      BY <3>1, <3>2, <2>5, <2>6, <1>1
  <2>8. \A i \in 1 .. k : Follows(g[i - 1], r[i], g[i])
    <3> TAKE i \in 1 .. k
    <3>0. PICK j \in 1 .. n : j = m + i - 1
      OBVIOUS
    <3>1. g[i] = f[j] /\ g[i - 1] = f[j - 1] /\ r[i] = q[j]
      <4>1. m - 1 + i = j /\ m - 1 + (i - 1) = j - 1 /\ i \in 0 .. k /\ i - 1 \in 0 .. k
        BY <3>0
      <4>2. g[i] = f[m - 1 + i] /\ g[i - 1] = f[m - 1 + (i - 1)]
        BY <4>1
      <4>3. r[i] = q[j]
        BY <3>0, <2>6
      <4> QED
        BY <4>1, <4>2, <4>3
    <3> QED
      BY <3>1, <1>1
  <2> HIDE DEF g, k, r
  <2>9. Path(<<x + 1, 0>>, r, e)
    BY <2>6, <2>7, <2>8 DEF Path
  <2> QED
    BY <2>9, <2>3, <1>6, <1>n DEF r
<1> QED
  BY <1>5, <1>6

\* #watermark follows the commits of what is pushed.
LEMMA PathWatermark ==
  ASSUME NEW q \in Seq(Message), NEW x \in Nat, NEW e \in Position, e[1] > 0,
         Path(<<x + 1, 0>>, q, e)
  PROVE  WatermarkAfter(x, q) = e[1] - 1
<1>n. PICK n \in Nat : n = Len(q)
  BY LenProperties
<1>q. DOMAIN q = 1 .. n /\ \A i \in 1 .. n : q[i] \in Message
  BY <1>n, LenProperties, ElementOfSeq
<1>1. PICK f \in [0 .. n -> Position] :
        f[0] = <<x + 1, 0>> /\ f[n] = e /\ \A i \in 1 .. n : Follows(f[i - 1], q[i], f[i])
  BY <1>n DEF Path
<1>2. \A i \in 0 .. n : f[i] \in Position /\ f[i][1] \in Nat /\ f[i][1] > 0
  <2> TAKE i \in 0 .. n
  <2>1. f[i] \in Position /\ f[i][1] \in Nat
    BY PositionFacts
  <2>2. CASE i = n
    BY <2>1, <2>2, <1>1
  <2>3. CASE i < n
    <3>1. i + 1 \in 1 .. n /\ (i + 1) - 1 = i
      BY <2>3
    <3> QED
      BY <3>1, <2>1, <1>1 DEF Follows
  <2> QED
    BY <2>2, <2>3
<1>3. \A i \in 1 .. n : /\ q[i].tag = "commit" => q[i].w = f[i - 1][1] /\ f[i][1] = f[i - 1][1] + 1
                        /\ q[i].tag # "commit" => f[i][1] = f[i - 1][1]
  <2> TAKE i \in 1 .. n
  <2>1. i \in 0 .. n /\ i - 1 \in 0 .. n /\ Follows(f[i - 1], q[i], f[i])
    BY <1>1
  <2>2. f[i] # Over
    BY <2>1, <1>2 DEF Over
  <2>3. f[i - 1][1] \in Nat /\ f[i - 1][2] \in Nat /\ DataPerTx \in Nat
    BY <2>1, PositionFacts, ConstantsAssumption
  <2>4. CASE /\ q[i] = TxMsg(f[i - 1][1], f[i - 1][2]) /\ f[i - 1][2] <= DataPerTx + 1
             /\ f[i] = IF f[i - 1][2] = DataPerTx + 1 THEN <<f[i - 1][1] + 1, 0>>
                       ELSE <<f[i - 1][1], f[i - 1][2] + 1>>
    <3>1. q[i].w = f[i - 1][1] /\ (q[i].tag = "commit" <=> f[i - 1][2] = DataPerTx + 1)
      BY <2>3, <2>4 DEF TxMsg, Msg
    <3> QED
      BY <3>1, <2>4
  <2>5. CASE q[i] = Msg("rollback", f[i - 1][1]) /\ f[i] = <<f[i - 1][1], 0>>
    BY <2>5 DEF Msg
  <2> QED
    BY <2>1, <2>2, <2>4, <2>5 DEF Follows
\* Without a commit the transaction stays.
<1>4. ASSUME NEW k \in 0 .. n, \A i \in 1 .. n : i > k => q[i].tag # "commit"
      PROVE  f[n][1] = f[k][1]
  <2> DEFINE Off == {i \in k .. n : f[i][1] # f[k][1]}
  <2>1. SUFFICES ASSUME Off # {} PROVE FALSE
    <3>1. n \in k .. n
      OBVIOUS
    <3> QED
      BY <3>1
  <2>2. Off \in SUBSET Nat
    OBVIOUS
  <2>3. PICK m \in Off : \A y \in Off : m <= y
    BY <2>1, <2>2, SetMinIsLeast
  <2>4. m > k /\ m \in 1 .. n
    BY <2>3
  <2>5. m - 1 \in k .. n /\ m - 1 \notin Off
    BY <2>3, <2>4
  <2>6. f[m - 1][1] = f[k][1]
    BY <2>5
  <2>7. f[m][1] = f[m - 1][1]
    BY <2>4, <1>3, <1>4
  <2> QED
    BY <2>3, <2>6, <2>7
<1> DEFINE commits == {i \in DOMAIN q : q[i].tag = "commit"}
<1>5. CASE commits = {}
  <2>1. f[n][1] = f[0][1]
    <3>1. 0 \in 0 .. n /\ \A i \in 1 .. n : i > 0 => q[i].tag # "commit"
      BY <1>5, <1>q
    <3> QED
      BY <3>1, <1>4
  <2>2. WatermarkAfter(x, q) = x
    BY <1>5 DEF WatermarkAfter
  <2> QED
    BY <2>1, <2>2, <1>1, PositionFacts
<1>6. CASE commits # {}
  <2>1. commits \in SUBSET (0 .. n)
    BY <1>q
  <2>2. SetMax(commits) \in commits /\ \A y \in commits : SetMax(commits) >= y
    BY <2>1, <1>6, SetMaxIsGreatest
  <2>3. PICK m \in 1 .. n : m = SetMax(commits)
    BY <2>2, <1>q
  <2>4. q[m].tag = "commit" /\ \A i \in 1 .. n : i > m => q[i].tag # "commit"
    <3>1. q[m].tag = "commit" /\ \A y \in commits : m >= y
      BY <2>2, <2>3
    <3>2. ASSUME NEW i \in 1 .. n, i > m
          PROVE  q[i].tag # "commit"
      <4>1. ~(m >= i)
        BY <3>2
      <4>2. i \notin commits
        BY <3>1, <4>1
      <4> QED
        BY <4>2, <1>q
    <3> QED
      BY <3>1, <3>2
  <2>5. f[n][1] = f[m][1] /\ f[m][1] = q[m].w + 1 /\ q[m].w \in Nat
    <3>1. m \in 0 .. n /\ m - 1 \in 0 .. n
      OBVIOUS
    <3> QED
      BY <3>1, <2>4, <1>3, <1>4, <1>2
  <2>6. WatermarkAfter(x, q) = q[m].w
    BY <1>6, <2>3 DEF WatermarkAfter
  <2>7. e[1] = q[m].w + 1
    BY <2>5, <1>1
  <2> HIDE DEF commits
  <2> QED
    BY <2>5, <2>6, <2>7
<1> QED
  BY <1>5, <1>6

-----------------------------------------------------------------------------
(* The queue *)

LEMMA QueueFacts ==
  ASSUME TypeOK
  PROVE  /\ Len(queue) \in Nat /\ DOMAIN queue = 1 .. Len(queue)
         /\ \A i \in 1 .. Len(queue) : queue[i] \in QueueEntry
         /\ Commits \subseteq 1 .. Len(queue)
         /\ \A i \in Commits : queue[i].msg \in Message /\ queue[i].msg.w \in TxID
<1>1. queue \in Seq(QueueEntry)
  BY DEF TypeOK, StorerTypeOK
<1>2. /\ Len(queue) \in Nat /\ DOMAIN queue = 1 .. Len(queue)
      /\ \A i \in 1 .. Len(queue) : queue[i] \in QueueEntry
  BY <1>1, LenProperties, ElementOfSeq
<1>3. ASSUME NEW i \in Commits
      PROVE  queue[i].msg \in Message /\ queue[i].msg.w \in TxID
  <2>1. i \in 1 .. Len(queue) /\ queue[i].type = "change" /\ queue[i].msg.tag = "commit"
    BY <1>2 DEF Commits, IsCommit
  <2>2. queue[i] \in QueueEntry
    BY <2>1, <1>2
  <2>3. queue[i].msg \in Message
    BY <2>1, <2>2 DEF QueueEntry
  <2> QED
    BY <2>1, <2>3 DEF Message
<1> QED
  BY <1>2, <1>3 DEF Commits

LEMMA TailFacts ==
  ASSUME TypeOK, queue # <<>>, queue' = Tail(queue)
  PROVE  \E n \in Nat :
           /\ Len(queue) = n + 1 /\ Len(queue') = n /\ Head(queue) = queue[1]
           /\ \A i \in 1 .. n : queue'[i] = queue[i + 1]
           /\ \A i \in Int : i \in Commits' <=> (i \in 1 .. n /\ i + 1 \in Commits)
           /\ Commits \subseteq 1 .. n + 1 /\ Commits' \subseteq 1 .. n
<1>1. queue \in Seq(QueueEntry)
  BY DEF TypeOK, StorerTypeOK
<1>2. PICK n \in Nat : n = Len(queue) - 1
  BY <1>1, LenProperties, EmptySeq
<1>3. Len(queue) = n + 1 /\ Len(queue) - 1 = n
  BY <1>1, <1>2, LenProperties
<1>4. /\ Head(queue) = queue[1]
      /\ \A i \in 1 .. n : queue'[i] = queue[i + 1]
      /\ \A i \in Int : i \in Commits' <=> (i \in 1 .. n /\ i + 1 \in Commits)
      /\ DOMAIN queue = 1 .. n + 1 /\ DOMAIN queue' = 1 .. n
  BY <1>1, <1>3, DequeuedQueue
<1>5. Len(queue') = n
  BY <1>1, <1>3, HeadTailProperties
<1>6. Commits \subseteq 1 .. n + 1 /\ Commits' \subseteq 1 .. n
  BY <1>4 DEF Commits
<1> QED
  BY <1>3, <1>4, <1>5, <1>6

\* An entry is appended.
LEMMA EntriesAppended ==
  ASSUME TypeOK, NEW e \in QueueEntry, queue' = Append(queue, e), UNCHANGED catchupQueue, NEW s \in Subs,
         e # Subscriber(s)
  PROVE  Entries(s)' = Entries(s)
<1>1. queue \in Seq(QueueEntry)
  BY DEF TypeOK, StorerTypeOK
<1>2. /\ Len(queue) \in Nat /\ Len(queue') = Len(queue) + 1
      /\ \A i \in 1 .. Len(queue) : queue'[i] = queue[i]
      /\ queue'[Len(queue) + 1] = e
  BY <1>1, AppendProperties, LenProperties
<1>3. ASSUME NEW i \in 0 .. Len(queue) + 1
      PROVE  i \in Entries(s)' <=> i \in Entries(s)
  <2>1. CASE i = Len(queue) + 1
    BY <2>1, <1>2 DEF Entries
  <2>2. CASE i \in 1 .. Len(queue)
    BY <2>2, <1>2 DEF Entries
  <2>3. CASE i = 0
    BY <2>3, <1>2 DEF Entries
  <2> QED
    BY <2>1, <2>2, <2>3, <1>2
<1>4. Entries(s) \subseteq 0 .. Len(queue) + 1 /\ Entries(s)' \subseteq 0 .. Len(queue) + 1
  BY <1>2 DEF Entries
<1> QED
  BY <1>3, <1>4

\* An entry is taken.
LEMMA EntriesDequeued ==
  ASSUME TypeOK, queue # <<>>, queue' = Tail(queue), NEW s \in Subs,
         s \in catchupQueue' => s \in catchupQueue \/ Head(queue) = Subscriber(s),
         NEW i \in Entries(s)'
  PROVE  i \in 0 .. Len(queue) - 1 /\ (i + 1 \in Entries(s) \/ (i = 0 /\ 0 \in Entries(s)))
<1>1. queue \in Seq(QueueEntry)
  BY DEF TypeOK, StorerTypeOK
<1>2. /\ Len(queue) \in Nat /\ Len(queue) > 0 /\ Len(queue') = Len(queue) - 1 /\ Head(queue) = queue[1]
      /\ \A j \in 1 .. Len(queue) - 1 : queue'[j] = queue[j + 1]
  BY <1>1, HeadTailProperties, LenProperties, EmptySeq
<1>3. i \in 0 .. Len(queue) - 1
  BY <1>2 DEF Entries
<1>4. CASE i = 0
  BY <1>4, <1>2 DEF Entries
<1>5. CASE i # 0
  BY <1>3, <1>5, <1>2 DEF Entries
<1> QED
  BY <1>3, <1>4, <1>5

-----------------------------------------------------------------------------
(* The bracketing of the queue *)

LEMMA OpenPrefix ==
  ASSUME NEW q, NEW r, NEW n \in Nat, \A i \in 1 .. n : r[i] = q[i],
         NEW j \in 1 .. n + 1, NEW inside, OpenAt(q, inside, j)
  PROVE  OpenAt(r, inside, j)
<1>1. \A i \in 1 .. j - 1 : r[i] = q[i]
  OBVIOUS
<1>2. ASSUME NEW k \in 1 .. j - 1, IsBegin(q[k]), \A l \in k + 1 .. j - 1 : ~Ends(q[l])
      PROVE  IsBegin(r[k]) /\ \A l \in k + 1 .. j - 1 : ~Ends(r[l])
  <2>1. \A l \in k + 1 .. j - 1 : r[l] = q[l]
    BY <1>1
  <2> QED
    BY <2>1, <1>1, <1>2
<1>3. ASSUME \A l \in 1 .. j - 1 : ~Ends(q[l])
      PROVE  \A l \in 1 .. j - 1 : ~Ends(r[l])
  BY <1>1, <1>3
<1> QED
  BY <1>2, <1>3, Zenon DEF OpenAt

\* One entry further on.
LEMMA OpenNext ==
  ASSUME NEW q, NEW n \in Nat, NEW inside,
         IsBegin(q[n + 1]) \/ (OpenAt(q, inside, n + 1) /\ ~Ends(q[n + 1]))
  PROVE  OpenAt(q, inside, n + 2)
<1>0. (n + 2) - 1 = n + 1 /\ (n + 1) - 1 = n
  OBVIOUS
<1>1. CASE IsBegin(q[n + 1])
  <2>1. n + 1 \in 1 .. n + 1 /\ (n + 1) + 1 .. n + 1 = {}
    OBVIOUS
  <2> QED
    BY <1>0, <1>1, <2>1 DEF OpenAt
<1>2. CASE OpenAt(q, inside, n + 1) /\ ~Ends(q[n + 1])
  <2>1. ASSUME NEW k \in 1 .. n, IsBegin(q[k]), \A l \in k + 1 .. n : ~Ends(q[l])
        PROVE  k \in 1 .. n + 1 /\ \A l \in k + 1 .. n + 1 : ~Ends(q[l])
    <3>1. \A l \in k + 1 .. n + 1 : l \in k + 1 .. n \/ l = n + 1
      OBVIOUS
    <3> QED
      BY <3>1, <2>1, <1>2
  <2>2. ASSUME \A l \in 1 .. n : ~Ends(q[l])
        PROVE  \A l \in 1 .. n + 1 : ~Ends(q[l])
    <3>1. \A l \in 1 .. n + 1 : l \in 1 .. n \/ l = n + 1
      OBVIOUS
    <3> QED
      BY <3>1, <2>2, <1>2
  <2> QED
    BY <1>0, <1>2, <2>1, <2>2 DEF OpenAt
<1> QED
  BY <1>1, <1>2

LEMMA BracketedAppend ==
  ASSUME TypeOK, QueueBracketed, NEW e \in QueueEntry, queue' = Append(queue, e),
         UNCHANGED <<tx, storer>>,
         IsCommit(e) => inTransaction,
         inTransaction' => IsBegin(e) \/ (inTransaction /\ ~Ends(e))
  PROVE  QueueBracketed'
<1>1. queue \in Seq(QueueEntry)
  BY DEF TypeOK, StorerTypeOK
<1>2. PICK n \in Nat : n = Len(queue)
  BY <1>1, LenProperties
<1>3. /\ Len(queue') = n + 1 /\ \A i \in 1 .. n : queue'[i] = queue[i]
      /\ queue'[n + 1] = e
      /\ Commits' = IF IsCommit(e) THEN Commits \cup {n + 1} ELSE Commits
  BY <1>1, <1>2, AppendedQueue, AppendProperties
<1>i. Inside' = Inside
  BY DEF Inside
<1>4. ASSUME NEW j \in 1 .. n + 1, OpenAt(queue, Inside, j)
      PROVE  OpenAt(queue', Inside', j)
  BY <1>3, <1>4, <1>i, OpenPrefix
<1>5. Commits \subseteq 1 .. n
  BY <1>2, QueueFacts
<1>6. \A j \in Commits' : OpenAt(queue', Inside', j)
  <2>1. ASSUME NEW j \in Commits
        PROVE  OpenAt(queue', Inside', j)
    <3>1. j \in 1 .. n + 1 /\ OpenAt(queue, Inside, j)
      BY <1>5 DEF QueueBracketed
    <3> QED
      BY <3>1, <1>4
  <2>2. ASSUME IsCommit(e)
        PROVE  OpenAt(queue', Inside', n + 1)
    <3>1. OpenAt(queue, Inside, n + 1)
      BY <2>2, <1>2 DEF QueueBracketed
    <3> QED
      BY <3>1, <1>4
  <2> QED
    BY <2>1, <2>2, <1>3
<1>7. ASSUME inTransaction'
      PROVE  OpenAt(queue', Inside', n + 2)
  <2>1. ASSUME inTransaction
        PROVE  OpenAt(queue', Inside', n + 1)
    BY <2>1, <1>2, <1>4 DEF QueueBracketed
  <2> QED
    BY <2>1, <1>3, <1>7, OpenNext
<1>8. ASSUME inTransaction'
      PROVE  OpenAt(queue', Inside', Len(queue') + 1)
  <2>1. Len(queue') + 1 = n + 2
    BY <1>3
  <2> QED
    BY <2>1, <1>7, <1>8
<1> QED
  BY <1>6, <1>8 DEF QueueBracketed

\* The entry that is taken shifts the rest.
LEMMA OpenTail ==
  ASSUME NEW q, NEW r, NEW n \in Nat, \A i \in 1 .. n : r[i] = q[i + 1],
         NEW j \in 1 .. n + 1, NEW inside, NEW inside2, OpenAt(q, inside, j + 1),
         IsBegin(q[1]) => inside2,
         inside /\ ~Ends(q[1]) => inside2
  PROVE  OpenAt(r, inside2, j)
<1>0. (j + 1) - 1 = j
  OBVIOUS
<1>1. ASSUME NEW k \in 1 .. j, IsBegin(q[k]), \A l \in k + 1 .. j : ~Ends(q[l])
      PROVE  OpenAt(r, inside2, j)
  <2>1. \A l \in 1 .. j - 1 : l >= k => ~Ends(r[l])
    <3> TAKE l \in 1 .. j - 1
    <3>1. l >= k => l + 1 \in k + 1 .. j
      OBVIOUS
    <3> QED
      BY <3>1, <1>1
  <2>2. CASE k = 1
    BY <2>1, <2>2, <1>1 DEF OpenAt
  <2>3. CASE k > 1
    <3>1. PICK m \in 1 .. j - 1 : m = k - 1
      BY <2>3
    <3>2. m \in 1 .. n /\ m + 1 = k
      BY <3>1
    <3>3. r[m] = q[k]
      BY <3>2
    <3>4. \A l \in m + 1 .. j - 1 : ~Ends(r[l])
      BY <3>1, <2>1
    <3> QED
      BY <3>3, <3>4, <1>1 DEF OpenAt
  <2> QED
    BY <2>2, <2>3
<1>2. ASSUME inside, \A l \in 1 .. j : ~Ends(q[l])
      PROVE  OpenAt(r, inside2, j)
  <2>1. \A l \in 1 .. j - 1 : ~Ends(r[l])
    <3> TAKE l \in 1 .. j - 1
    <3>1. l + 1 \in 1 .. j /\ l \in 1 .. n
      OBVIOUS
    <3> QED
      BY <3>1, <1>2
  <2>2. 1 \in 1 .. j
    OBVIOUS
  <2> QED
    BY <2>1, <2>2, <1>2 DEF OpenAt
<1> QED
  BY <1>0, <1>1, <1>2 DEF OpenAt

LEMMA BracketedTail ==
  ASSUME TypeOK, QueueBracketed, queue # <<>>, queue' = Tail(queue), UNCHANGED inTransaction,
         IsBegin(Head(queue)) => Inside',
         Inside /\ ~Ends(Head(queue)) => Inside'
  PROVE  QueueBracketed'
<1>1. queue \in Seq(QueueEntry)
  BY DEF TypeOK, StorerTypeOK
<1>2. PICK n \in Nat : n = Len(queue) - 1
  BY <1>1, LenProperties, EmptySeq
<1>3. /\ Len(queue) = n + 1 /\ Len(queue') = n /\ Head(queue) = queue[1]
      /\ \A i \in 1 .. n : queue'[i] = queue[i + 1]
      /\ \A i \in Int : i \in Commits' <=> (i \in 1 .. n /\ i + 1 \in Commits)
  BY <1>1, <1>2, DequeuedQueue, HeadTailProperties
<1>4. ASSUME NEW j \in 1 .. n + 1, OpenAt(queue, Inside, j + 1)
      PROVE  OpenAt(queue', Inside', j)
  <2>1. IsBegin(queue[1]) => Inside'
    BY <1>3
  <2>2. Inside /\ ~Ends(queue[1]) => Inside'
    BY <1>3
  <2>3. \A i \in 1 .. n : queue'[i] = queue[i + 1]
    BY <1>3
  <2> QED
    BY <2>1, <2>2, <2>3, <1>4, OpenTail
<1>5. \A j \in Commits' : OpenAt(queue', Inside', j)
  <2>1. Commits' \subseteq 1 .. n
    <3>1. DOMAIN queue' = 1 .. n
      BY <1>1, <1>3, DequeuedQueue
    <3> QED
      BY <3>1 DEF Commits
  <2> QED
    BY <2>1, <1>3, <1>4 DEF QueueBracketed
<1>6. ASSUME inTransaction'
      PROVE  OpenAt(queue', Inside', Len(queue') + 1)
  <2>1. OpenAt(queue, Inside, (n + 1) + 1)
    BY <1>6, <1>3 DEF QueueBracketed
  <2> QED
    BY <2>1, <1>3, <1>4
<1> QED
  BY <1>5, <1>6 DEF QueueBracketed

LEMMA BracketedSame ==
  ASSUME QueueBracketed, UNCHANGED <<queue, inTransaction>>, Inside' = Inside
  PROVE  QueueBracketed'
  BY DEF QueueBracketed, Commits

-----------------------------------------------------------------------------
(* What a step leaves alone *)

\* Nothing of s is touched.
Untouched(s) ==
  UNCHANGED <<phase[s], wm[s], fwd[s], backlog[s], down[s], found[s], snap[s], replica[s],
              repTx[s], size[s], have[s]>>

\* The source stands where it stood.
SentKept == SentPos' = SentPos /\ \A v \in Nat : Sent(v) => Sent(v)'

LEMMA SubFacts ==
  ASSUME TypeOK, NEW s \in Subs
  PROVE  /\ wm[s] \in Watermark /\ wm[s] \in Nat /\ backlog[s] \in Seq(Message)
         /\ down[s] \in Seq(Message) /\ replica[s] \in Watermark /\ replica[s] \in Nat
         /\ size[s] \in Nat /\ repTx[s] \in Watermark
         /\ fwd[s] \in {"none", "active", "queued"}
         /\ lastWatermark \in Watermark /\ lastWatermark \in Nat
         /\ srcNext \in Nat /\ srcNext > 0 /\ srcNext - 1 \in Watermark
         /\ MaxTx \in Nat /\ DataPerTx \in Nat
  BY ConstantsAssumption
  DEF TypeOK, SubTypeOK, ReplicaTypeOK, DbTypeOK, StreamTypeOK, Watermark

LEMMA AlignedKept ==
  ASSUME SentKept, NEW s \in Subs, wm[s] \in Nat, UNCHANGED wm[s],
         NEW e \in Position, Aligned(s, e)
  PROVE  Aligned(s, e)'
<1>1. e[1] - 1 \in Nat
  BY PositionFacts DEF Aligned
<1>2. \A v \in Watermark : v \in Nat
  BY ConstantsAssumption DEF Watermark
<1>3. CASE e[2] = SentPos /\ Sent(e[1] - 1)
  BY <1>1, <1>3 DEF Aligned, SentKept
<1>4. CASE e = <<wm[s] + 1, 0>> /\ \E v \in Watermark : Sent(v) /\ v < wm[s]
  <2>1. PICK v \in Watermark : Sent(v) /\ v < wm[s]
    BY <1>4
  <2>2. Sent(v)'
    BY <2>1, <1>2 DEF SentKept
  <2> QED
    BY <1>4, <2>1, <2>2 DEF Aligned
<1> QED
  BY <1>3, <1>4 DEF Aligned

\* A subscriber that is not waiting has nothing to do with the queue.
LEMMA SubFrame ==
  ASSUME TypeOK, SentKept, NEW s \in Subs, Untouched(s), ReplicatorInv(s), SubscriberInv(s),
         phase[s] = "waiting" /\ storer' # "stopped" => Waits(s)'
  PROVE  ReplicatorInv(s)' /\ SubscriberInv(s)'
<1>0. wm[s] \in Nat /\ At(s)' = At(s)
  BY SubFacts DEF At, Untouched
<1>1. ReplicatorInv(s)'
  BY DEF ReplicatorInv, Untouched
<1>2. ASSUME NEW e \in Position, Aligned(s, e)
      PROVE  Aligned(s, e)'
  BY <1>0, <1>2, AlignedKept DEF Untouched
<1>3. Stitches(s) => Stitches(s)'
  BY <1>2 DEF Stitches, Untouched
<1>4. phase[s]' = phase[s] /\ fwd[s]' = fwd[s] /\ backlog[s]' = backlog[s]
  BY DEF Untouched
<1>5. phase[s] = "waiting" => WaitingInv(s)'
  BY DEF SubscriberInv, WaitingInv, Untouched
<1>6. phase[s] = "reading" => ReadingInv(s)'
  BY <1>0, <1>3 DEF SubscriberInv, ReadingInv, Untouched
<1>7. phase[s] = "failed" => FailedInv(s)'
  BY <1>0 DEF SubscriberInv, FailedInv, Untouched
<1>8. phase[s] = "live" => LiveInv(s)'
  BY <1>0, <1>2 DEF SubscriberInv, LiveInv, Untouched
<1>9. SubscriberInv(s)'
  BY <1>4, <1>5, <1>6, <1>7, <1>8 DEF SubscriberInv
<1> QED
  BY <1>1, <1>9

\* An entry is appended that neither begins nor ends a transaction.
LEMMA WaitsAppend ==
  ASSUME TypeOK, SentKept, NEW s \in Subs, Untouched(s), Waits(s),
         NEW e \in QueueEntry, queue' = Append(queue, e), ~IsBegin(e), ~IsCommit(e),
         e # Subscriber(s),
         UNCHANGED <<catchupQueue, inTransaction, lastWatermark>>
  PROVE  Waits(s)'
<1>1. queue \in Seq(QueueEntry) /\ wm[s] \in Nat
  BY SubFacts DEF TypeOK, StorerTypeOK
<1>2. PICK n \in Nat : n = Len(queue)
  BY <1>1, LenProperties
<1>3. /\ Len(queue') = n + 1 /\ \A i \in 1 .. n : queue'[i] = queue[i]
      /\ queue'[n + 1] = e /\ Commits' = Commits
  BY <1>1, <1>2, AppendedQueue, AppendProperties
<1>4. Entries(s)' = Entries(s) /\ Entries(s) \subseteq 0 .. n /\ Commits \subseteq 1 .. n
  BY <1>2, EntriesAppended, QueueFacts DEF Entries
<1>5. ASSUME fwd[s]' = "queued"
      PROVE  (/\ inTransaction /\ backlog[s] = <<>>
              /\ \A i \in Entries(s) : \A k \in i + 1 .. Len(queue) : ~IsBegin(queue[k]))'
  <2>1. inTransaction' /\ backlog[s]' = <<>>
    BY <1>5 DEF Waits, Untouched
  <2>2. ASSUME NEW i \in Entries(s), NEW k \in i + 1 .. n + 1
        PROVE  ~IsBegin(queue'[k])
    <3>1. CASE k = n + 1
      BY <3>1, <1>3
    <3>2. CASE k \in i + 1 .. n
      <4>1. k \in 1 .. n
        BY <3>2, <1>4
      <4> QED
        BY <3>2, <4>1, <1>2, <1>3, <1>5 DEF Waits, Untouched
    <3>3. i \in 0 .. n
      BY <1>4
    <3>4. k = n + 1 \/ k \in i + 1 .. n
      BY <3>3
    <3> QED
      BY <3>1, <3>2, <3>4
  <2> QED
    BY <2>1, <2>2, <1>3, <1>4
<1>6. ASSUME fwd[s]' = "active"
      PROVE  (\E b \in Watermark, a \in Position :
                /\ Path(<<b + 1, 0>>, backlog[s], a) /\ Aligned(s, a)
                /\ b >= wm[s] /\ b < a[1]
                /\ b = wm[s] \/ b <= lastWatermark \/ \E j \in Commits : queue[j].msg.w = b
                /\ \A i \in Entries(s) : Covered(s, i, b))'
  <2>1. PICK b \in Watermark, a \in Position :
          /\ Path(<<b + 1, 0>>, backlog[s], a) /\ Aligned(s, a)
          /\ b >= wm[s] /\ b < a[1]
          /\ b = wm[s] \/ b <= lastWatermark \/ \E j \in Commits : queue[j].msg.w = b
          /\ \A i \in Entries(s) : Covered(s, i, b)
    BY <1>6 DEF Waits, Untouched
  <2>2. Aligned(s, a)'
    BY <2>1, <1>1, AlignedKept DEF Untouched
  <2>3. \A j \in Commits : queue'[j] = queue[j]
    BY <1>3, <1>4
  <2>4. ASSUME NEW i \in Entries(s)
        PROVE  Covered(s, i, b)'
    <3>1. SUFFICES ASSUME NEW j \in Commits, j > i, queue[j].msg.w > wm[s], queue[j].msg.w <= b,
                          NEW k \in i + 1 .. j
                   PROVE  ~IsBegin(queue'[k])
      BY <1>3, <2>3 DEF Covered, Untouched
    <3>2. ~IsBegin(queue[k])
      BY <2>1, <3>1 DEF Covered
    <3>3. k \in 1 .. n
      BY <1>4
    <3> QED
      BY <3>2, <3>3, <1>3
  <2> QED
    BY <2>1, <2>2, <2>3, <2>4, <1>3, <1>4 DEF Untouched
<1> QED
  BY <1>5, <1>6 DEF Waits

\* An entry is taken.
LEMMA WaitsTail ==
  ASSUME TypeOK, SentKept, NEW s \in Subs, Untouched(s), Waits(s),
         queue # <<>>, queue' = Tail(queue),
         s \in catchupQueue' => s \in catchupQueue \/ Head(queue) = Subscriber(s),
         UNCHANGED inTransaction,
         lastWatermark' \in Nat, lastWatermark' >= lastWatermark,
         IsCommit(Head(queue)) => lastWatermark' >= Head(queue).msg.w
  PROVE  Waits(s)'
<1>1. wm[s] \in Nat /\ lastWatermark \in Nat
  BY SubFacts
<1>3. PICK n \in Nat :
        /\ Len(queue) = n + 1 /\ Len(queue') = n /\ Head(queue) = queue[1]
        /\ \A i \in 1 .. n : queue'[i] = queue[i + 1]
        /\ \A i \in Int : i \in Commits' <=> (i \in 1 .. n /\ i + 1 \in Commits)
        /\ Commits \subseteq 1 .. n + 1 /\ Commits' \subseteq 1 .. n
  BY TailFacts
<1>4. Commits \subseteq 1 .. n + 1 /\ Commits' \subseteq 1 .. n
  BY <1>3
<1>5. ASSUME NEW i \in Entries(s)'
      PROVE  /\ i \in 0 .. n
             /\ \E m \in Entries(s) : m \in 0 .. i + 1
  <2>1. i \in 0 .. n /\ (i + 1 \in Entries(s) \/ (i = 0 /\ 0 \in Entries(s)))
    BY <1>3, EntriesDequeued
  <2>2. i + 1 \in 0 .. i + 1 /\ 0 \in 0 .. i + 1
    BY <2>1
  <2> QED
    BY <2>1, <2>2
<1>6. ASSUME fwd[s]' = "queued"
      PROVE  (/\ inTransaction /\ backlog[s] = <<>>
              /\ \A i \in Entries(s) : \A k \in i + 1 .. Len(queue) : ~IsBegin(queue[k]))'
  <2>1. inTransaction' /\ backlog[s]' = <<>>
    BY <1>6 DEF Waits, Untouched
  <2>2. ASSUME NEW i \in Entries(s)', NEW k \in i + 1 .. n
        PROVE  ~IsBegin(queue'[k])
    <3>1. PICK m \in Entries(s) : m \in 0 .. i + 1
      BY <1>5
    <3>2. k + 1 \in m + 1 .. n + 1 /\ k \in 1 .. n
      BY <1>5, <3>1
    <3> QED
      BY <3>1, <3>2, <1>3, <1>6 DEF Waits, Untouched
  <2> QED
    BY <2>1, <2>2, <1>3
<1>7. ASSUME fwd[s]' = "active"
      PROVE  (\E b \in Watermark, a \in Position :
                /\ Path(<<b + 1, 0>>, backlog[s], a) /\ Aligned(s, a)
                /\ b >= wm[s] /\ b < a[1]
                /\ b = wm[s] \/ b <= lastWatermark \/ \E j \in Commits : queue[j].msg.w = b
                /\ \A i \in Entries(s) : Covered(s, i, b))'
  <2>1. PICK b \in Watermark, a \in Position :
          /\ Path(<<b + 1, 0>>, backlog[s], a) /\ Aligned(s, a)
          /\ b >= wm[s] /\ b < a[1]
          /\ b = wm[s] \/ b <= lastWatermark \/ \E j \in Commits : queue[j].msg.w = b
          /\ \A i \in Entries(s) : Covered(s, i, b)
    BY <1>7 DEF Waits, Untouched
  <2>2. Aligned(s, a)'
    BY <2>1, <1>1, AlignedKept DEF Untouched
  <2>n. b \in Nat
    BY ConstantsAssumption DEF Watermark
  <2>3. b = wm[s]' \/ b <= lastWatermark' \/ \E j \in Commits' : queue'[j].msg.w = b
    <3>1. CASE b = wm[s] \/ b <= lastWatermark
      BY <3>1, <2>n, <1>1 DEF Untouched
    <3>2. ASSUME NEW j \in Commits, queue[j].msg.w = b
          PROVE  b <= lastWatermark' \/ \E l \in Commits' : queue'[l].msg.w = b
      <4>1. CASE j = 1
        <5>1. IsCommit(Head(queue))
          BY <4>1, <1>3 DEF Commits
        <5> QED
          BY <5>1, <4>1, <3>2, <1>3, <2>n
      <4>2. CASE j # 1
        <5>1. j - 1 \in 1 .. n /\ (j - 1) + 1 = j
          BY <4>2, <1>4
        <5>2. j - 1 \in Commits' /\ queue'[j - 1] = queue[j]
          BY <5>1, <1>3
        <5> QED
          BY <5>2, <3>2
      <4> QED
        BY <4>1, <4>2
    <3> QED
      BY <2>1, <3>1, <3>2
  <2>4. ASSUME NEW i \in Entries(s)'
        PROVE  Covered(s, i, b)'
    <3>1. SUFFICES ASSUME NEW j \in Commits', j > i, queue'[j].msg.w > wm[s], queue'[j].msg.w <= b,
                          NEW k \in i + 1 .. j
                   PROVE  ~IsBegin(queue'[k])
      BY DEF Covered, Untouched
    <3>2. PICK m \in Entries(s) : m \in 0 .. i + 1
      BY <1>5
    <3>3. j \in 1 .. n /\ k \in 1 .. n /\ k + 1 \in m + 1 .. j + 1 /\ j + 1 > m /\ j + 1 \in Int
      BY <1>4, <1>5, <3>1, <3>2
    <3>4. j + 1 \in Commits /\ queue'[j] = queue[j + 1]
      BY <3>3, <1>3
    <3>5. ~IsBegin(queue[k + 1])
      BY <2>1, <3>1, <3>2, <3>3, <3>4 DEF Covered
    <3> QED
      BY <3>3, <3>5, <1>3
  <2> QED
    BY <2>1, <2>2, <2>3, <2>4 DEF Untouched
<1> QED
  BY <1>6, <1>7 DEF Waits

-----------------------------------------------------------------------------
(* What the source sends is forwarded *)

\* The source sends m, which takes it to the position p.
Sends(m, p) ==
  /\ Sending /\ m.w = srcNext /\ Forward(m)
  /\ Follows(<<srcNext, SentPos>>, m, p)
  /\ p = IF m.tag = "commit" THEN <<srcNext + 1, 0>> ELSE <<srcNext, SentPos'>>
  /\ m.tag = "begin" => SentPos = 0
  /\ m.tag \in {"commit", "rollback"} => SentPos' = 0
  /\ Sent(p[1] - 1)'
  /\ \/ queue' = Append(queue, Change(m))
     \/ queue' = Append(queue, Abort) /\ m.tag = "rollback"
  /\ UNCHANGED <<storer, catchupQueue, lastWatermark, readVars, replicaVars>>

\* The source's position is also that of who takes its next message.
LEMMA AlignedAt ==
  ASSUME TypeOK, Sending, NEW s \in Subs, NEW e \in Position, Aligned(s, e)
  PROVE  /\ srcNext > wm[s] => e = <<srcNext, SentPos>>
         /\ srcNext <= wm[s] => e = <<wm[s] + 1, 0>>
<1>1. wm[s] \in Nat /\ srcNext \in Nat
  BY SubFacts
<1>2. e[1] \in Nat /\ e = <<e[1], e[2]>>
  BY PositionFacts
<1>3. CASE e[2] = SentPos /\ Sent(e[1] - 1)
  <2>1. e[1] = srcNext
    BY <1>1, <1>2, <1>3 DEF Sent
  <2> QED
    BY <1>1, <1>2, <1>3, <2>1 DEF Aligned
<1>4. CASE e = <<wm[s] + 1, 0>> /\ \E v \in Watermark : Sent(v) /\ v < wm[s]
  BY <1>1, <1>4 DEF Sent
<1> QED
  BY <1>3, <1>4 DEF Aligned

\* Who has passed the transaction refuses the message, and stays aligned.
LEMMA AlignedRefused ==
  ASSUME TypeOK, NEW m, NEW p, Sends(m, p), NEW s \in Subs, wm[s]' = wm[s], srcNext <= wm[s],
         NEW e \in Position, Aligned(s, e)
  PROVE  Aligned(s, e)'
<1>1. wm[s] \in Nat /\ srcNext \in Nat /\ srcNext > 0 /\ srcNext - 1 \in Watermark /\ wm[s] \in Watermark
  BY SubFacts
<1>2. e = <<wm[s] + 1, 0>>
  BY AlignedAt DEF Sends
<1>w. e[1] = wm[s] + 1 /\ e[2] = 0
  BY <1>2
<1>3. CASE m.tag # "commit"
  <2>1. PICK v \in Watermark : v = srcNext - 1
    BY <1>1
  <2>2. p[1] - 1 = v /\ v < wm[s]
    BY <1>3, <1>1, <2>1 DEF Sends
  <2>3. Sent(v)'
    BY <2>2 DEF Sends
  <2> QED
    BY <1>1, <1>2, <2>2, <2>3, <1>w DEF Aligned
<1>4. CASE m.tag = "commit"
  <2>0. PICK v \in Nat : v = srcNext
    BY <1>1
  <2>1. p[1] - 1 = v /\ SentPos' = 0
    BY <1>4, <1>1, <2>0 DEF Sends
  <2>2. Sent(v)'
    BY <2>1 DEF Sends
  <2>3. CASE v = wm[s]
    <3>1. e[1] - 1 = v /\ e[1] > wm[s]'
      BY <2>3, <1>1, <1>w
    <3>2. e[2] = SentPos' /\ Sent(e[1] - 1)'
      BY <3>1, <2>1, <2>2, <1>w
    <3> QED
      BY <3>1, <3>2 DEF Aligned
  <2>4. CASE v < wm[s]
    <3>1. v \in Watermark
      BY <2>4, <1>1, ConstantsAssumption DEF Watermark
    <3> QED
      BY <1>1, <1>2, <2>2, <2>4, <3>1, <1>w DEF Aligned
  <2> QED
    BY <2>0, <2>3, <2>4, <1>1
<1> QED
  BY <1>3, <1>4

\* Who takes the message is where the source then is.
LEMMA AlignedAccepted ==
  ASSUME TypeOK, NEW m, NEW p, Sends(m, p), NEW s \in Subs, wm[s]' < p[1]
  PROVE  Aligned(s, p)'
<1>1. p[2] = SentPos'
  BY DEF Sends
<1>2. p[1] > wm[s]'
  OBVIOUS
<1> QED
  BY <1>1, <1>2 DEF Aligned, Sends

LEMMA SendsFacts ==
  ASSUME TypeOK, NEW m \in Message, NEW p, Sends(m, p), NEW s \in Subs
  PROVE  /\ p \in Position /\ p[1] \in Nat /\ p[1] >= srcNext
         /\ phase[s]' = phase[s]
         /\ Accepts(s, m) <=> fwd[s] = "active" /\ srcNext > wm[s]
         /\ backlog[s]' = IF Accepts(s, m) /\ ~Live(s) THEN Append(backlog[s], m) ELSE backlog[s]
         /\ down[s]' = IF Accepts(s, m) /\ Live(s) THEN Append(down[s], m) ELSE down[s]
         /\ wm[s]' = IF Accepts(s, m) /\ Live(s) /\ m.tag = "commit" THEN srcNext ELSE wm[s]
         /\ fwd[s]' = IF m.tag \in {"commit", "rollback"} /\ fwd[s] = "queued" THEN "active"
                      ELSE fwd[s]
<1>1. TypeOK /\ srcNext \in Nat /\ srcNext > 0
  BY SubFacts
<1>2. <<srcNext, SentPos>> \in Position
  BY <1>1, ConstantsAssumption DEF Position, SentPos, TypeOK, StreamTypeOK
<1>3. p \in Position
  BY <1>2, FollowsType DEF Sends
<1>4. p[1] \in Nat /\ p[1] >= srcNext
  BY <1>1 DEF Sends
<1>5. /\ phase[s]' = phase[s]
      /\ Accepts(s, m) <=> fwd[s] = "active" /\ srcNext > wm[s]
      /\ backlog[s]' = IF Accepts(s, m) /\ ~Live(s) THEN Append(backlog[s], m) ELSE backlog[s]
      /\ down[s]' = IF Accepts(s, m) /\ Live(s) THEN Append(down[s], m) ELSE down[s]
      /\ wm[s]' = IF Accepts(s, m) /\ Live(s) /\ m.tag = "commit" THEN srcNext ELSE wm[s]
  BY DEF Sends, Forward, Accepts
<1>6. fwd[s]' = IF m.tag \in {"commit", "rollback"} /\ fwd[s] = "queued" THEN "active"
                ELSE fwd[s]
  BY DEF Sends, Forward, TypeOK, SubTypeOK
<1> QED
  BY <1>3, <1>4, <1>5, <1>6

\* Who waits for its catchup.
LEMMA ForwardWaits ==
  ASSUME StreamInv, LoopInv, storer # "stopped", NEW m \in Message, NEW p, Sends(m, p),
         NEW s \in Subs, phase[s] = "waiting", Waits(s)
  PROVE  Waits(s)'
<1>0. /\ TypeOK /\ wm[s] \in Nat /\ wm[s] \in Watermark /\ srcNext \in Nat /\ srcNext > 0
      /\ srcNext - 1 \in Watermark /\ backlog[s] \in Seq(Message) /\ queue \in Seq(QueueEntry)
      /\ m.w \in Watermark /\ \A b \in Watermark : b \in Nat
  BY SubFacts, MessageContent, ConstantsAssumption
  DEF StreamInv, TypeOK, StorerTypeOK, Watermark
<1>1. /\ p \in Position /\ p[1] \in Nat /\ p[1] >= srcNext
      /\ Accepts(s, m) <=> fwd[s] = "active" /\ srcNext > wm[s]
      /\ wm[s]' = wm[s] /\ ~Live(s) /\ lastWatermark' = lastWatermark
  BY <1>0, SendsFacts DEF Live, Sends
<1>f. /\ backlog[s]' = IF Accepts(s, m) THEN Append(backlog[s], m) ELSE backlog[s]
      /\ fwd[s]' = IF m.tag \in {"commit", "rollback"} /\ fwd[s] = "queued" THEN "active"
                   ELSE fwd[s]
  BY <1>0, <1>1, SendsFacts
<1>2. PICK x \in QueueEntry :
        /\ queue' = Append(queue, x) /\ x # Subscriber(s)
        /\ IsCommit(x) <=> m.tag = "commit"
        /\ IsCommit(x) => x.msg.w = srcNext
        /\ IsBegin(x) => m.tag = "begin"
  BY EntryType DEF Sends, Change, Abort, Subscriber, IsCommit, IsBegin
<1>3. PICK n \in Nat : n = Len(queue)
  BY <1>0, LenProperties
<1>4. /\ Len(queue') = n + 1 /\ \A i \in 1 .. n : queue'[i] = queue[i]
      /\ queue'[n + 1] = x
      /\ Commits' = IF IsCommit(x) THEN Commits \cup {n + 1} ELSE Commits
  BY <1>0, <1>2, <1>3, AppendedQueue, AppendProperties
<1>5. Entries(s)' = Entries(s) /\ Entries(s) \subseteq 0 .. n /\ Commits \subseteq 1 .. n
  <2>1. UNCHANGED catchupQueue
    BY DEF Sends
  <2> QED
    BY <1>0, <1>2, <1>3, <2>1, EntriesAppended, QueueFacts DEF Entries
<1>6. \A j \in Commits : j \in Commits' /\ queue'[j] = queue[j]
  BY <1>4, <1>5
\* The commit that is appended is of the transaction srcNext.
<1>7. ASSUME NEW b \in Watermark, b < srcNext, NEW i \in Entries(s), Covered(s, i, b)
      PROVE  Covered(s, i, b)'
  <2>1. SUFFICES ASSUME NEW j \in Commits', j > i, queue'[j].msg.w > wm[s], queue'[j].msg.w <= b,
                        NEW k \in i + 1 .. j
                 PROVE  ~IsBegin(queue'[k])
    BY <1>1 DEF Covered
  <2>2. j \in Commits /\ queue'[j] = queue[j]
    <3>1. ASSUME j = n + 1, IsCommit(x)
          PROVE  FALSE
      <4>1. queue'[j].msg.w = srcNext
        BY <3>1, <1>2, <1>4
      <4> QED
        BY <4>1, <2>1, <1>7, <1>0
    <3> QED
      BY <3>1, <1>4, <1>6
  <2>3. k \in 1 .. n
    BY <2>2, <1>5
  <2>4. ~IsBegin(queue[k])
    BY <2>1, <2>2, <1>7 DEF Covered
  <2> QED
    BY <2>3, <2>4, <1>4
<1>8. ASSUME fwd[s] = "active"
      PROVE  Waits(s)'
  <2>1. PICK b \in Watermark, e \in Position :
          /\ Path(<<b + 1, 0>>, backlog[s], e) /\ Aligned(s, e)
          /\ b >= wm[s] /\ b < e[1]
          /\ b = wm[s] \/ b <= lastWatermark \/ \E j \in Commits : queue[j].msg.w = b
          /\ \A i \in Entries(s) : Covered(s, i, b)
    BY <1>8 DEF Waits
  <2>2. b = wm[s]' \/ b <= lastWatermark' \/ \E j \in Commits' : queue'[j].msg.w = b
    BY <2>1, <1>1, <1>6
  <2>3. CASE srcNext > wm[s]
    <3>1. e = <<srcNext, SentPos>>
      BY <2>1, <2>3, <1>0, AlignedAt DEF Sends
    <3>2. Follows(e, m, p) /\ b < srcNext /\ b < p[1]
      <4>1. Follows(e, m, p)
        BY <3>1 DEF Sends
      <4>2. e[1] = srcNext
        BY <3>1
      <4> QED
        BY <4>1, <4>2, <2>1, <1>0, <1>1
    <3>3. Path(<<b + 1, 0>>, backlog[s]', p)
      <4>1. backlog[s]' = Append(backlog[s], m)
        BY <1>1, <1>f, <1>8, <2>3
      <4>2. Path(<<b + 1, 0>>, Append(backlog[s], m), p)
        BY <3>2, <2>1, <1>0, PathAppend
      <4> QED
        BY <4>1, <4>2
    <3>4. Aligned(s, p)'
      <4>1. wm[s]' < p[1]
        BY <2>3, <1>0, <1>1
      <4> QED
        BY <4>1, <1>0, AlignedAccepted
    <3>5. \A i \in Entries(s)' : Covered(s, i, b)'
      BY <3>2, <2>1, <1>5, <1>7
    <3>6. b >= wm[s]' /\ fwd[s]' = "active"
      BY <2>1, <1>1, <1>f, <1>8
    <3> QED
      BY <2>2, <3>2, <3>3, <3>4, <3>5, <3>6, <1>1 DEF Waits
  <2>4. CASE ~(srcNext > wm[s])
    <3>0. srcNext <= wm[s]
      BY <2>4, <1>0
    <3>1. e = <<wm[s] + 1, 0>>
      BY <2>1, <3>0, <1>0, AlignedAt DEF Sends
    <3>2. b = wm[s]
      <4>1. e[1] = wm[s] + 1
        BY <3>1
      <4> QED
        BY <4>1, <2>1, <1>0
    <3>3. Aligned(s, e)'
      BY <2>1, <3>0, <1>0, <1>1, AlignedRefused
    <3>4. backlog[s]' = backlog[s] /\ fwd[s]' = "active"
      BY <2>4, <1>1, <1>f, <1>8
    <3>5. \A i \in Entries(s)' : Covered(s, i, b)'
      <4>1. \A j \in Commits' : queue'[j].msg.w \in Nat
        <5>1. ASSUME NEW j \in Commits
              PROVE  queue'[j].msg.w \in Nat
          <6>1. queue[j].msg.w \in TxID
            BY <1>0, QueueFacts
          <6> QED
            BY <6>1, <1>6 DEF TxID
        <5>2. IsCommit(x) => queue'[n + 1].msg.w \in Nat
          BY <1>2, <1>4, <1>0
        <5> QED
          BY <5>1, <5>2, <1>4
      <4>2. \A j \in Commits' : ~(queue'[j].msg.w > wm[s]' /\ queue'[j].msg.w <= b)
        BY <4>1, <3>2, <1>0, <1>1
      <4> QED
        BY <4>2 DEF Covered
    <3>6. b >= wm[s]' /\ b < e[1]
      BY <2>1, <1>1
    <3> QED
      BY <2>1, <2>2, <3>3, <3>4, <3>5, <3>6 DEF Waits
  <2> QED
    BY <2>3, <2>4
<1>9. ASSUME fwd[s] = "queued"
      PROVE  Waits(s)'
  <2>1. /\ inTransaction /\ backlog[s] = <<>>
        /\ \A i \in Entries(s) : \A k \in i + 1 .. n : ~IsBegin(queue[k])
    BY <1>3, <1>9 DEF Waits
  <2>2. m.tag # "begin" /\ backlog[s]' = <<>>
    <3>1. ~Accepts(s, m)
      BY <1>1, <1>9
    <3>2. SentPos > 0
      BY <2>1 DEF LoopInv
    <3>3. SentPos # 0
      BY <3>2
    <3> QED
      BY <2>1, <3>1, <3>3, <1>f DEF Sends
  <2>3. ASSUME NEW i \in Entries(s), NEW k \in i + 1 .. n + 1
        PROVE  ~IsBegin(queue'[k])
    <3>0. i \in 0 .. n
      BY <1>5
    <3>1. CASE k = n + 1
      BY <3>1, <2>2, <1>2, <1>4
    <3>2. CASE k \in i + 1 .. n
      <4>1. k \in 1 .. n
        BY <3>2, <3>0
      <4> QED
        BY <3>2, <4>1, <2>1, <1>4
    <3> QED
      BY <3>0, <3>1, <3>2
  <2>4. CASE m.tag \notin {"commit", "rollback"}
    <3>1. fwd[s]' = "queued" /\ inTransaction'
      BY <2>1, <2>2, <2>4, <1>9, <1>f DEF Sends, Forward
    <3> QED
      BY <3>1, <2>2, <2>3, <1>4, <1>5 DEF Waits
  <2>5. CASE m.tag \in {"commit", "rollback"}
    <3>1. fwd[s]' = "active" /\ SentPos' = 0
      BY <2>5, <1>9, <1>f DEF Sends
    <3>v. PICK v \in Nat : v = p[1] - 1
      BY <1>0, <1>1
    <3>2. Sent(v)' /\ v \in Watermark
      <4>1. v = srcNext \/ v = srcNext - 1
        BY <3>v, <1>0 DEF Sends
      <4>2. v = srcNext => v = m.w
        BY DEF Sends
      <4> QED
        BY <4>1, <4>2, <3>v, <1>0 DEF Sends
    <3>3. \/ v <= lastWatermark' \/ \E j \in Commits' : queue'[j].msg.w = v
      <4>1. CASE m.tag = "commit"
        <5>1. v = srcNext
          BY <4>1, <3>v, <1>0 DEF Sends
        <5>2. n + 1 \in Commits' /\ queue'[n + 1].msg.w = v
          BY <4>1, <5>1, <1>2, <1>4
        <5> QED
          BY <5>2
      <4>2. CASE m.tag # "commit"
        <5>1. v = srcNext - 1
          BY <4>2, <3>v, <1>0 DEF Sends
        <5>2. srcNext = lastWatermark + 1 \/ \E i \in Commits : queue[i].msg.w = srcNext - 1
          BY DEF StreamInv, QueueInOrder, SourceFollowsQueue, Sends, Sending
        <5>3. lastWatermark \in Nat
          BY <1>0, SubFacts
        <5> QED
          BY <5>1, <5>2, <5>3, <1>1, <1>6
      <4> QED
        BY <4>1, <4>2
    <3>4. PICK b \in Watermark : b = IF v >= wm[s] THEN v ELSE wm[s]
      BY <3>2, <1>0
    <3>5. /\ b \in Nat /\ b >= wm[s]' /\ b < b + 1
          /\ b = wm[s]' \/ b <= lastWatermark' \/ \E j \in Commits' : queue'[j].msg.w = b
      BY <3>3, <3>4, <1>0, <1>1
    <3> DEFINE e == <<b + 1, 0>>
    <3>6. e \in Position /\ e[1] = b + 1 /\ e[2] = 0 /\ e[1] - 1 = b
      BY <3>5 DEF Position
    <3>7. Aligned(s, e)'
      <4>1. CASE v >= wm[s]
        <5>1. e[1] - 1 = v /\ e[1] > wm[s]'
          BY <4>1, <3>4, <3>6, <1>0, <1>1
        <5> QED
          BY <5>1, <3>1, <3>2, <3>6 DEF Aligned
      <4>2. CASE v < wm[s]
        <5>1. e = <<wm[s]' + 1, 0>> /\ e[1] > wm[s]' /\ v < wm[s]'
          BY <4>2, <3>4, <3>6, <1>0, <1>1
        <5> HIDE DEF e
        <5> QED
          BY <5>1, <3>2 DEF Aligned
      <4> QED
        BY <4>1, <4>2, <1>0
    <3>8. Path(<<b + 1, 0>>, backlog[s]', e)
      BY <2>2, <3>6, PathEmpty
    <3>9. \A i \in Entries(s)' : Covered(s, i, b)'
      <4>1. SUFFICES ASSUME NEW i \in Entries(s), NEW j \in Commits', NEW k \in i + 1 .. j
                     PROVE  ~IsBegin(queue'[k])
        BY <1>5 DEF Covered
      <4>2. j \in 1 .. n + 1
        BY <1>4, <1>5
      <4>3. k \in i + 1 .. n + 1
        BY <4>2, <1>5
      <4> QED
        BY <4>3, <2>3
    <3> HIDE DEF e
    <3> QED
      BY <3>1, <3>5, <3>6, <3>7, <3>8, <3>9 DEF Waits
  <2> QED
    BY <2>4, <2>5
<1>10. CASE fwd[s] = "none"
  <2>1. fwd[s]' = "none"
    BY <1>10, <1>f
  <2> QED
    BY <2>1 DEF Waits
<1> QED
  BY <1>8, <1>9, <1>10, <1>0, SubFacts

\* Every subscriber takes or refuses what the source sends.
LEMMA ForwardSub ==
  ASSUME StreamInv, LoopInv, NEW m \in Message, NEW p, Sends(m, p),
         NEW s \in Subs, ReplicatorInv(s), SubscriberInv(s)
  PROVE  ReplicatorInv(s)' /\ SubscriberInv(s)'
<1>0. /\ TypeOK /\ wm[s] \in Nat /\ srcNext \in Nat /\ srcNext > 0
      /\ backlog[s] \in Seq(Message) /\ down[s] \in Seq(Message)
      /\ \A b \in Watermark : b \in Nat
  BY SubFacts, ConstantsAssumption DEF StreamInv, Watermark
<1>1. /\ p \in Position /\ p[1] \in Nat /\ p[1] >= srcNext
      /\ phase[s]' = phase[s]
      /\ Accepts(s, m) <=> fwd[s] = "active" /\ srcNext > wm[s]
      /\ backlog[s]' = IF Accepts(s, m) /\ ~Live(s) THEN Append(backlog[s], m) ELSE backlog[s]
      /\ down[s]' = IF Accepts(s, m) /\ Live(s) THEN Append(down[s], m) ELSE down[s]
      /\ wm[s]' = IF Accepts(s, m) /\ Live(s) /\ m.tag = "commit" THEN srcNext ELSE wm[s]
      /\ fwd[s]' = IF m.tag \in {"commit", "rollback"} /\ fwd[s] = "queued" THEN "active"
                   ELSE fwd[s]
  BY <1>0, SendsFacts
<1>2. /\ UNCHANGED <<replica[s], repTx[s], size[s], have[s], found[s], snap[s]>>
      /\ At(s)' = At(s)
  BY DEF Sends, replicaVars, readVars, At
<1>p. ASSUME NEW e \in Position, Aligned(s, e), srcNext > wm[s]
      PROVE  e[1] = srcNext /\ Follows(e, m, p)
  <2>1. e = <<srcNext, SentPos>>
    BY <1>0, <1>p, AlignedAt DEF Sends
  <2> QED
    BY <2>1 DEF Sends
<1>3. ReplicatorInv(s)'
  <2>1. phase[s] \in {"none", "waiting"} => down[s]' = down[s]
    BY <1>1 DEF Live
  <2> QED
    BY <2>1, <1>1, <1>2 DEF ReplicatorInv
<1>4. CASE phase[s] = "none"
  <2>1. fwd[s] = "none"
    BY <1>4 DEF SubscriberInv
  <2>2. ~Accepts(s, m) /\ fwd[s]' = "none" /\ phase[s]' = "none"
    BY <2>1, <1>1, <1>4
  <2>3. backlog[s]' = <<>>
    BY <2>2, <1>1, <1>4 DEF SubscriberInv
  <2> QED
    BY <2>2, <2>3, <1>3 DEF SubscriberInv
<1>5. CASE phase[s] = "waiting"
  <2>1. fwd[s] # "none" /\ wm[s] = replica[s] /\ (storer # "stopped" => Waits(s))
    BY <1>5 DEF SubscriberInv, WaitingInv
  <2>2. fwd[s]' # "none" /\ wm[s]' = replica[s]'
    BY <2>1, <1>1, <1>2, <1>5 DEF Live
  <2>3. storer' # "stopped" => Waits(s)'
    <3>1. storer' = storer
      BY DEF Sends
    <3> QED
      BY <2>1, <3>1, <1>5, ForwardWaits
  <2>4. WaitingInv(s)' /\ phase[s]' = "waiting"
    BY <2>2, <2>3, <1>1, <1>5 DEF WaitingInv
  <2> QED
    BY <2>2, <2>4, <1>3 DEF SubscriberInv
<1>6. CASE phase[s] = "reading"
  <2>1. /\ fwd[s] = "active"
        /\ Path(At(s), down[s], <<wm[s] + 1, 0>>)
        /\ found[s] \/ snap[s] = {} => Stitches(s)
    BY <1>6 DEF SubscriberInv, ReadingInv
  <2>2. /\ fwd[s]' = "active" /\ down[s]' = down[s] /\ wm[s]' = wm[s]
        /\ backlog[s]' = IF Accepts(s, m) THEN Append(backlog[s], m) ELSE backlog[s]
    BY <2>1, <1>1, <1>6 DEF Live
  <2>3. ASSUME Stitches(s)
        PROVE  Stitches(s)'
    <3>1. PICK b \in Watermark, h \in Watermark, e \in Position :
            /\ snap[s] = wm[s] + 1 .. h /\ wm[s] <= h /\ b <= h /\ h < e[1]
            /\ Path(<<b + 1, 0>>, backlog[s], e) /\ Aligned(s, e)
      BY <2>3 DEF Stitches
    <3>2. CASE srcNext > wm[s]
      <4>1. e[1] = srcNext /\ Follows(e, m, p)
        BY <3>1, <3>2, <1>p
      <4>2. Path(<<b + 1, 0>>, Append(backlog[s], m), p)
        BY <4>1, <3>1, <1>0, PathAppend
      <4>3. Path(<<b + 1, 0>>, backlog[s]', p)
        BY <4>2, <2>1, <2>2, <3>2, <1>1
      <4>4. wm[s]' < p[1] /\ h < p[1]
        BY <4>1, <3>1, <3>2, <2>2, <1>0, <1>1
      <4>5. Aligned(s, p)'
        BY <4>4, <1>0, AlignedAccepted
      <4> QED
        BY <4>3, <4>4, <4>5, <3>1, <2>2, <1>1, <1>2 DEF Stitches
    <3>3. CASE ~(srcNext > wm[s])
      <4>1. srcNext <= wm[s]
        BY <3>3, <1>0
      <4>2. Aligned(s, e)' /\ backlog[s]' = backlog[s]
        BY <4>1, <3>1, <3>3, <2>2, <1>0, <1>1, AlignedRefused
      <4> QED
        BY <4>2, <3>1, <2>2, <1>2 DEF Stitches
    <3> QED
      BY <3>2, <3>3
  <2>4. ReadingInv(s)' /\ phase[s]' = "reading" /\ fwd[s]' # "none"
    BY <2>1, <2>2, <2>3, <1>1, <1>2, <1>6 DEF ReadingInv
  <2> QED
    BY <2>4, <1>3 DEF SubscriberInv
<1>7. CASE phase[s] = "failed"
  <2>1. down[s]' = down[s] /\ \E e \in Position : Path(At(s), down[s], e)
    BY <1>1, <1>7 DEF SubscriberInv, FailedInv, Live
  <2>2. phase[s]' = "failed" /\ fwd[s] # "none" /\ fwd[s]' # "none"
    BY <1>1, <1>7 DEF SubscriberInv
  <2>3. FailedInv(s)'
    BY <2>1, <1>2 DEF FailedInv
  <2> QED
    BY <2>2, <2>3, <1>3 DEF SubscriberInv
<1>8. CASE phase[s] = "live"
  <2>1. PICK e \in Position : Path(At(s), down[s], e) /\ e[1] = wm[s] + 1 /\ Aligned(s, e)
    BY <1>8 DEF SubscriberInv, LiveInv
  <2>2. fwd[s] = "active" /\ fwd[s]' = "active" /\ phase[s]' = "live" /\ Live(s)
    BY <1>1, <1>8 DEF SubscriberInv, LiveInv, Live
  <2>3. ASSUME srcNext > wm[s]
        PROVE  LiveInv(s)'
    <3>1. e[1] = srcNext /\ Follows(e, m, p)
      BY <2>1, <2>3, <1>p
    <3>2. Path(At(s), Append(down[s], m), p)
      BY <3>1, <2>1, <1>0, PathAppend
    <3>3. Path(At(s)', down[s]', p)
      BY <3>2, <2>2, <2>3, <1>1, <1>2
    <3>4. p[1] = wm[s]' + 1
      <4>1. CASE m.tag = "commit"
        <5>1. p[1] = srcNext + 1
          BY <4>1 DEF Sends
        <5> QED
          BY <5>1, <4>1, <2>2, <2>3, <1>1
      <4>2. CASE m.tag # "commit"
        <5>1. p[1] = srcNext
          BY <4>2 DEF Sends
        <5> QED
          BY <5>1, <4>2, <3>1, <2>1, <1>1
      <4> QED
        BY <4>1, <4>2
    <3>5. Aligned(s, p)'
      <4>1. wm[s]' \in Nat
        BY <1>0, <1>1
      <4>2. wm[s]' < p[1]
        BY <4>1, <3>4
      <4> QED
        BY <4>2, <1>0, AlignedAccepted
    <3> QED
      BY <3>3, <3>4, <3>5, <2>2, <1>1 DEF LiveInv
  <2>4. ASSUME ~(srcNext > wm[s])
        PROVE  LiveInv(s)'
    <3>1. srcNext <= wm[s] /\ ~Accepts(s, m)
      BY <2>4, <1>0, <1>1
    <3>2. down[s]' = down[s] /\ wm[s]' = wm[s]
      BY <3>1, <1>1
    <3>3. Aligned(s, e)'
      BY <3>1, <3>2, <2>1, <1>0, AlignedRefused
    <3> QED
      BY <3>2, <3>3, <2>1, <2>2, <1>2 DEF LiveInv
  <2>5. LiveInv(s)'
    BY <2>3, <2>4
  <2> QED
    BY <2>2, <2>5, <1>3 DEF SubscriberInv
<1>9. phase[s] \in {"none", "waiting", "reading", "failed", "live"}
  BY <1>0 DEF TypeOK, SubTypeOK
<1> QED
  BY <1>3, <1>4, <1>5, <1>6, <1>7, <1>8, <1>9

-----------------------------------------------------------------------------
(* Steps that touch no subscriber *)

LEMMA WaitsQuiet ==
  ASSUME TypeOK, SentKept, NEW s \in Subs, Untouched(s), Waits(s),
         UNCHANGED <<queue, inTransaction, lastWatermark>>, s \in catchupQueue' => s \in catchupQueue
  PROVE  Waits(s)'
<1>0. wm[s] \in Nat
  BY SubFacts
<1>1. Commits' = Commits /\ Entries(s)' \subseteq Entries(s)
  BY DEF Commits, Entries
<1>2. ASSUME fwd[s] = "queued"
      PROVE  Waits(s)'
  BY <1>1, <1>2 DEF Waits, Untouched
<1>3. ASSUME fwd[s] = "active"
      PROVE  Waits(s)'
  <2>1. PICK b \in Watermark, e \in Position :
          /\ Path(<<b + 1, 0>>, backlog[s], e) /\ Aligned(s, e)
          /\ b >= wm[s] /\ b < e[1]
          /\ b = wm[s] \/ b <= lastWatermark \/ \E j \in Commits : queue[j].msg.w = b
          /\ \A i \in Entries(s) : Covered(s, i, b)
    BY <1>3 DEF Waits
  <2>2. Aligned(s, e)'
    BY <2>1, <1>0, AlignedKept DEF Untouched
  <2>3. \A i \in Entries(s)' : Covered(s, i, b)'
    BY <2>1, <1>1 DEF Covered, Untouched
  <2> QED
    BY <2>1, <2>2, <2>3, <1>1, <1>3 DEF Waits, Untouched
<1>4. CASE fwd[s] \notin {"queued", "active"}
  BY <1>4 DEF Waits, Untouched
<1> QED
  BY <1>2, <1>3, <1>4

\* Nobody is touched.
LEMMA AllUntouched ==
  ASSUME UNCHANGED <<fwd, readVars, subVars, replicaVars>>, NEW s \in Subs
  PROVE  Untouched(s)
  BY DEF Untouched, readVars, subVars, replicaVars

LEMMA QuietStitched ==
  ASSUME StitchInv, SentKept, LoopInv',
         UNCHANGED <<queue, storer, tx, catchupQueue, lastWatermark, fwdVars, readVars, subVars,
                     replicaVars>>
  PROVE  Stitched'
<1>1. TypeOK
  BY DEF StitchInv, StreamInv
<1>2. storer' # "stopped" => QueueBracketed'
  BY BracketedSame DEF StitchInv, Stitched, fwdVars, Inside
<1>3. ASSUME NEW s \in Subs
      PROVE  ReplicatorInv(s)' /\ SubscriberInv(s)'
  <2>1. Untouched(s)
    BY AllUntouched DEF fwdVars
  <2>2. phase[s] = "waiting" /\ storer' # "stopped" => Waits(s)'
    BY <1>1, <2>1, WaitsQuiet DEF StitchInv, Stitched, SubscriberInv, WaitingInv, fwdVars
  <2> QED
    BY <1>1, <2>1, <2>2, SubFrame DEF StitchInv, Stitched
<1> QED
  BY <1>2, <1>3 DEF Stitched

\* An entry is appended that neither begins nor ends a transaction.
LEMMA AppendStitched ==
  ASSUME StitchInv, SentKept, LoopInv',
         NEW e \in QueueEntry, e.type \in {"ready", "status", "stop"}, queue' = Append(queue, e),
         UNCHANGED <<storer, tx, catchupQueue, lastWatermark, inTransaction>>,
         NEW S, \A s \in Subs \ S : Untouched(s),
         \A s \in S \cap Subs : phase[s]' # "waiting" /\ ReplicatorInv(s)' /\ SubscriberInv(s)'
  PROVE  Stitched'
<1>1. TypeOK /\ ~IsBegin(e) /\ ~Ends(e) /\ ~IsCommit(e) /\ \A s \in Subs : e # Subscriber(s)
  BY DEF StitchInv, StreamInv, IsBegin, Ends, IsCommit, Subscriber
<1>2. storer' # "stopped" => QueueBracketed'
  BY <1>1, BracketedAppend DEF StitchInv, Stitched
<1>3. ASSUME NEW s \in Subs \ S
      PROVE  ReplicatorInv(s)' /\ SubscriberInv(s)'
  <2>1. phase[s] = "waiting" /\ storer' # "stopped" => Waits(s)'
    BY <1>1, WaitsAppend DEF StitchInv, Stitched, SubscriberInv, WaitingInv
  <2> QED
    BY <1>1, <2>1, SubFrame DEF StitchInv, Stitched
<1> QED
  BY <1>2, <1>3 DEF Stitched

LEMMA AppendQuiet ==
  ASSUME StitchInv, SentKept, LoopInv',
         NEW e \in QueueEntry, e.type \in {"ready", "status", "stop"}, queue' = Append(queue, e),
         UNCHANGED <<storer, tx, catchupQueue, lastWatermark, fwdVars, readVars, subVars,
                     replicaVars>>
  PROVE  Stitched'
<1> DEFINE S == {}
<1>1. \A s \in Subs \ S : Untouched(s)
  BY AllUntouched DEF fwdVars
<1>2. \A s \in S \cap Subs : phase[s]' # "waiting" /\ ReplicatorInv(s)' /\ SubscriberInv(s)'
  OBVIOUS
<1>3. UNCHANGED <<storer, tx, catchupQueue, lastWatermark, inTransaction>>
  BY DEF fwdVars
<1> HIDE DEF S
<1> QED
  BY <1>1, <1>2, <1>3, AppendStitched

\* The storer takes an entry.
LEMMA TailStitched ==
  ASSUME StitchInv, SentKept, LoopInv', storer # "stopped", queue # <<>>, queue' = Tail(queue),
         IsBegin(Head(queue)) => Inside',
         Inside /\ ~Ends(Head(queue)) => Inside',
         UNCHANGED inTransaction,
         lastWatermark' \in Nat, lastWatermark' >= lastWatermark,
         IsCommit(Head(queue)) => lastWatermark' >= Head(queue).msg.w,
         \A s \in catchupQueue' : s \in catchupQueue \/ Head(queue) = Subscriber(s),
         NEW S, \A s \in Subs \ S : Untouched(s),
         \A s \in S \cap Subs : ReplicatorInv(s)' /\ SubscriberInv(s)'
  PROVE  Stitched'
<1>1. TypeOK
  BY DEF StitchInv, StreamInv
<1>2. QueueBracketed'
  BY <1>1, BracketedTail DEF StitchInv, Stitched
<1>3. ASSUME NEW s \in Subs \ S
      PROVE  ReplicatorInv(s)' /\ SubscriberInv(s)'
  <2>1. phase[s] = "waiting" /\ storer' # "stopped" => Waits(s)'
    BY <1>1, WaitsTail DEF StitchInv, Stitched, SubscriberInv, WaitingInv
  <2> QED
    BY <1>1, <2>1, SubFrame DEF StitchInv, Stitched
<1> QED
  BY <1>2, <1>3 DEF Stitched

-----------------------------------------------------------------------------
(* The source *)

\* The commits that are queued, and run()'s place, are the same.
LEMMA SentQuiet ==
  ASSUME UNCHANGED <<srcNext, srcPos, lastWatermark>>, Commits' = Commits,
         \A i \in Commits : queue'[i] = queue[i],
         storer' # "stopped" => storer # "stopped",
         \/ loop' = loop
         \/ Sending /\ Sending'
         \/ {loop, loop'} \subseteq {"waitReady", "backoff", "done"}
  PROVE  SentKept
<1>1. Sending' = Sending /\ SentPos' = SentPos
  BY DEF Sending, SentPos
<1>2. ASSUME NEW v \in Nat, Sent(v)
      PROVE  Sent(v)'
  <2>1. Sending' => v = srcNext' - 1
    BY <1>1, <1>2 DEF Sent
  <2>2. loop' = "connect" => v = lastWatermark'
    BY <1>2 DEF Sent, Sending
  <2>3. ASSUME loop' \in {"waitReady", "backoff", "done"}, storer' # "stopped"
        PROVE  /\ v = lastWatermark' \/ \E i \in Commits' : queue'[i].msg.w = v
               /\ v >= lastWatermark' /\ \A i \in Commits' : v >= queue'[i].msg.w
    <3>1. loop \in {"waitReady", "backoff", "done"} /\ storer # "stopped"
      BY <2>3 DEF Sending
    <3> QED
      BY <3>1, <1>2 DEF Sent
  <2> QED
    BY <2>1, <2>2, <2>3 DEF Sent
<1> QED
  BY <1>1, <1>2 DEF SentKept

\* An entry is appended that is not a commit.
LEMMA SentAppend ==
  ASSUME TypeOK, NEW e \in QueueEntry, ~IsCommit(e), queue' = Append(queue, e),
         UNCHANGED <<srcNext, srcPos, lastWatermark, storer>>,
         \/ loop' = loop
         \/ Sending /\ Sending'
         \/ {loop, loop'} \subseteq {"waitReady", "backoff", "done"}
  PROVE  SentKept
<1>1. queue \in Seq(QueueEntry)
  BY DEF TypeOK, StorerTypeOK
<1>2. Commits' = Commits /\ \A i \in 1 .. Len(queue) : queue'[i] = queue[i]
  BY <1>1, AppendedQueue
<1>3. Commits \subseteq 1 .. Len(queue)
  BY QueueFacts
<1> QED
  BY <1>2, <1>3, SentQuiet

\* The stream has ended: what has been sent in full is stored or queued.
LEMMA SentEnds ==
  ASSUME StreamInv, Sending, loop' = "backoff", UNCHANGED <<lastWatermark, storer>>,
         Commits' = Commits, \A i \in Commits : queue'[i] = queue[i],
         NEW v \in Nat, v = srcNext - 1
  PROVE  Sent(v)'
<1>0. srcNext \in Nat /\ lastWatermark \in Nat
  BY DEF StreamInv, TypeOK, StreamTypeOK, DbTypeOK, Watermark
<1>1. ~Sending'
  BY DEF Sending
<1>2. ASSUME storer # "stopped"
      PROVE  /\ v = lastWatermark \/ \E i \in Commits : queue[i].msg.w = v
             /\ v >= lastWatermark /\ \A i \in Commits : v >= queue[i].msg.w
  <2>1. SourceFollowsQueue
    BY <1>2 DEF StreamInv, QueueInOrder
  <2>2. \A i \in Commits : queue[i].msg.w \in TxID
    BY QueueFacts DEF StreamInv
  <2>3. \A i \in Commits : queue[i].msg.w \in Nat
    BY <2>2 DEF TxID
  <2> QED
    BY <2>1, <2>3, <1>0 DEF SourceFollowsQueue, Sending
<1> QED
  BY <1>1, <1>2 DEF Sent

\* The stream ends between two transactions.
LEMMA SentEndsQuietly ==
  ASSUME StreamInv, LoopInv, Sending, cur = NoTx, loop' = "backoff",
         UNCHANGED <<lastWatermark, storer, queue>>
  PROVE  SentKept
<1>0. srcNext \in Nat /\ srcNext > 0 /\ SentPos \in Nat
  BY DEF StreamInv, TypeOK, StreamTypeOK, SentPos
<1>1. SentPos = 0 /\ SentPos' = 0
  BY <1>0 DEF LoopInv, NoTx, SentPos, Sending
<1>2. Commits' = Commits
  BY DEF Commits
<1>3. ASSUME NEW v \in Nat, Sent(v)
      PROVE  Sent(v)'
  <2>1. v = srcNext - 1
    BY <1>3 DEF Sent
  <2> QED
    BY <2>1, <1>2, SentEnds
<1> QED
  BY <1>1, <1>3 DEF SentKept

\* A message of the transaction the source is sending.
LEMMA ForwardStitched ==
  ASSUME StitchInv, LoopInv', NEW m \in Message, NEW p, Sends(m, p), UNCHANGED tx,
         m.tag \in {"commit", "rollback"} <=> ~inTransaction',
         m.tag \in {"commit"} => inTransaction
  PROVE  Stitched'
<1>0. StreamInv /\ LoopInv /\ TypeOK
  BY DEF StitchInv, Stitched, StreamInv
<1>1. \A s \in Subs : ReplicatorInv(s)' /\ SubscriberInv(s)'
  BY <1>0, ForwardSub DEF StitchInv, Stitched
<1>2. ASSUME storer' # "stopped"
      PROVE  QueueBracketed'
  <2>0. PICK e \in QueueEntry :
          /\ queue' = Append(queue, e)
          /\ IsCommit(e) => m.tag = "commit"
          /\ IsBegin(e) <=> m.tag = "begin"
          /\ Ends(e) => m.tag \in {"commit", "rollback"}
    BY EntryType DEF Sends, Change, Abort, IsCommit, IsBegin, Ends
  <2>1. QueueBracketed /\ UNCHANGED <<tx, storer>>
    BY <1>2 DEF StitchInv, Stitched, Sends
  <2>2. inTransaction' => IsBegin(e) \/ (inTransaction /\ ~Ends(e))
    <3>1. inTransaction' => m.tag = "begin" \/ inTransaction
      BY DEF Sends, Forward
    <3> QED
      BY <3>1, <2>0
  <2> QED
    BY <1>0, <2>0, <2>1, <2>2, BracketedAppend
<1> QED
  BY <1>1, <1>2 DEF Stitched

LEMMA StreamChangeStitched ==
  ASSUME StitchInv, StreamChange
  PROVE  Stitched'
<1>0. /\ StreamInv /\ LoopInv /\ TypeOK /\ DataPerTx \in Nat /\ MaxTx \in Nat
      /\ srcPos \in 0 .. DataPerTx + 1 /\ srcNext \in TxID /\ srcNext \in Nat /\ srcNext > 0
  <2>1. srcNext \in 1 .. MaxTx + 1 /\ srcNext <= MaxTx /\ MaxTx \in Nat
    BY ConstantsAssumption DEF StitchInv, StreamInv, TypeOK, StreamTypeOK, StreamChange
  <2> QED
    BY <2>1, ConstantsAssumption DEF StitchInv, Stitched, StreamInv, TypeOK, StreamTypeOK, TxID
<1> DEFINE m0 == TxMsg(srcNext, srcPos)
           p0 == IF srcPos = DataPerTx + 1 THEN <<srcNext + 1, 0>> ELSE <<srcNext, srcPos + 1>>
<1>1. /\ m0 \in Message /\ m0.w = srcNext
      /\ m0.tag = "commit" <=> srcPos = DataPerTx + 1
      /\ m0.tag = "begin" <=> srcPos = 0
      /\ m0.tag # "rollback"
  BY <1>0, TxMsgType DEF TxMsg, Msg
<1>2. /\ Sending /\ Sending' /\ SentPos = srcPos /\ SentPos' = srcPos'
      /\ queue' = Append(queue, Change(m0)) /\ Forward(m0)
      /\ UNCHANGED <<storer, catchupQueue, tx, lastWatermark, readVars, replicaVars>>
  BY DEF StreamChange, Dispatch, Sending, SentPos, dbVars
<1>3. /\ p0 = IF m0.tag = "commit" THEN <<srcNext + 1, 0>> ELSE <<srcNext, SentPos'>>
      /\ p0[1] = srcNext' /\ srcNext' \in Nat /\ srcNext' > 0
      /\ m0.tag = "commit" => SentPos' = 0
      /\ SentPos' = IF m0.tag = "commit" THEN 0 ELSE srcPos + 1
      /\ cur' = IF m0.tag = "commit" THEN NoTx ELSE srcNext
      /\ m0.tag # "commit" => srcNext' = srcNext
  BY <1>0, <1>1, <1>2 DEF StreamChange
<1>4. Follows(<<srcNext, SentPos>>, m0, p0)
  <2> DEFINE a == <<srcNext, SentPos>>
  <2>1. a[1] = srcNext /\ a[2] = srcPos
    BY <1>2
  <2>2. m0 = TxMsg(a[1], a[2]) /\ a[1] > 0 /\ a[2] <= DataPerTx + 1
    BY <2>1, <1>0
  <2>3. p0 = IF a[2] = DataPerTx + 1 THEN <<a[1] + 1, 0>> ELSE <<a[1], a[2] + 1>>
    BY <2>1
  <2> HIDE DEF a, m0, p0
  <2>4. Follows(a, m0, p0)
    BY <2>2, <2>3 DEF Follows
  <2> QED
    BY <2>4 DEF a
<1> HIDE DEF m0, p0
<1>5. PICK m \in Message : m = m0
  BY <1>1
<1>6. PICK p \in Position : p = p0
  BY <1>0, <1>3, ConstantsAssumption DEF Position, p0
<1>7. Sent(p[1] - 1)'
  <2>1. PICK v \in Nat : v = p[1] - 1
    BY <1>3, <1>6
  <2>2. v = srcNext' - 1
    BY <2>1, <1>3, <1>6
  <2>3. loop' \in {"streaming", "blocked"}
    BY <1>2 DEF Sending
  <2>4. Sent(v)'
    BY <2>2, <2>3 DEF Sent
  <2> QED
    BY <2>1, <2>4
<1>8. Sends(m, p)
  <2>1. m.tag = "begin" => SentPos = 0
    BY <1>1, <1>2, <1>5
  <2> QED
    BY <2>1, <1>1, <1>2, <1>3, <1>4, <1>5, <1>6, <1>7 DEF Sends
<1>t. inTransaction = (srcPos > 0)
  BY <1>0, <1>2 DEF LoopInv
<1>9. inTransaction' = (SentPos' > 0)
  <2>0. inTransaction' = CASE m0.tag = "begin" -> TRUE
                             [] m0.tag \in {"commit", "rollback"} -> FALSE
                             [] OTHER -> inTransaction
    BY <1>2 DEF Forward
  <2>1. CASE m0.tag = "commit"
    <3>1. inTransaction' = FALSE
      BY <2>0, <2>1
    <3>2. (SentPos' > 0) = FALSE
      BY <2>1, <1>3
    <3> QED
      BY <3>1, <3>2, Zenon
  <2>2. CASE m0.tag = "begin"
    <3>1. inTransaction' = TRUE
      BY <2>0, <2>2
    <3>2. (SentPos' > 0) = TRUE
      BY <2>2, <1>0, <1>3
    <3> QED
      BY <3>1, <3>2, Zenon
  <2>3. CASE m0.tag \notin {"begin", "commit"}
    <3>1. inTransaction' = inTransaction
      BY <2>0, <2>3, <1>1
    <3>2. srcPos > 0 /\ SentPos' > 0
      BY <2>3, <1>0, <1>1, <1>3
    <3> QED
      BY <3>1, <3>2, <1>t
  <2> QED
    BY <2>1, <2>2, <2>3
<1>10. LoopInv'
  <2>1. SentPos' > 0 => cur' = srcNext'
    BY <1>3
  <2>2. cur' # NoTx => Sending' /\ cur' = srcNext' /\ SentPos' > 0
    BY <1>0, <1>2, <1>3
  <2>3. cur' # NoTx => SentPos' # 0
    BY <2>2
  <2> QED
    BY <2>1, <2>2, <2>3, <1>9 DEF LoopInv
<1>11. /\ m.tag \in {"commit", "rollback"} <=> ~inTransaction'
       /\ m.tag \in {"commit"} => inTransaction
  <2>1. inTransaction' <=> m0.tag # "commit"
    <3>1. SentPos' > 0 <=> m0.tag # "commit"
      BY <1>0, <1>3
    <3> QED
      BY <3>1, <1>9
  <2>2. m0.tag = "commit" => srcPos > 0
    BY <1>0, <1>1
  <2> QED
    BY <2>1, <2>2, <1>1, <1>5, <1>t
<1> QED
  BY <1>2, <1>8, <1>10, <1>11, ForwardStitched

LEMMA SourceRollbackStitched ==
  ASSUME StitchInv, SourceRollback
  PROVE  Stitched'
<1>0. /\ StreamInv /\ LoopInv /\ TypeOK /\ srcPos > 0 /\ srcPos \in Nat
      /\ srcNext \in Nat /\ srcNext > 0
  BY ConstantsAssumption
  DEF StitchInv, Stitched, StreamInv, TypeOK, StreamTypeOK, SourceRollback
<1>1. /\ Sending /\ Sending' /\ SentPos = srcPos /\ SentPos' = 0 /\ cur' = cur /\ srcNext' = srcNext
      /\ queue' = Append(queue, Change(Msg("rollback", cur))) /\ Forward(Msg("rollback", cur))
      /\ UNCHANGED <<storer, catchupQueue, tx, lastWatermark, readVars, replicaVars>>
  BY DEF SourceRollback, Dispatch, Sending, SentPos, dbVars
<1>2. cur = srcNext /\ "rollback" \in Environment
  BY <1>0, <1>1 DEF LoopInv, SourceRollback
<1>3. Msg("rollback", cur) \in Message
  BY <1>0 DEF Msg, Message, TypeOK, StreamTypeOK
<1>5. PICK m \in Message : m = Msg("rollback", cur)
  BY <1>3
<1>6. PICK p \in Position : p = <<srcNext, 0>>
  BY <1>0 DEF Position
<1>4. Follows(<<srcNext, SentPos>>, m, p)
  BY <1>0, <1>2, <1>5, <1>6 DEF Follows
<1>7. Sent(p[1] - 1)'
  <2>1. PICK v \in Nat : v = p[1] - 1
    BY <1>0, <1>6
  <2>2. v = srcNext' - 1
    BY <2>1, <1>1, <1>6
  <2>3. loop' \in {"streaming", "blocked"}
    BY <1>1 DEF Sending
  <2>4. Sent(v)'
    BY <2>2, <2>3 DEF Sent
  <2> QED
    BY <2>1, <2>4
<1>8. Sends(m, p)
  <2>1. m.tag = "rollback" /\ m.w = srcNext
    BY <1>2, <1>5 DEF Msg
  <2> QED
    BY <2>1, <1>1, <1>4, <1>5, <1>6, <1>7 DEF Sends
<1>9. ~inTransaction' /\ inTransaction' \in BOOLEAN
  BY <1>1, <1>5 DEF Forward, Msg
<1>10. LoopInv'
  <2>1. inTransaction' = (SentPos' > 0)
    BY <1>1, <1>9
  <2>2. ~(SentPos' > 0)
    BY <1>1
  <2> QED
    BY <2>1, <2>2, <1>1, <1>2 DEF LoopInv
<1> QED
  BY <1>1, <1>5, <1>8, <1>9, <1>10, ForwardStitched DEF Msg

LEMMA StreamEndsStitched ==
  ASSUME StitchInv, StreamEnds
  PROVE  Stitched'
<1>0. /\ StreamInv /\ LoopInv /\ TypeOK /\ srcNext \in Nat /\ srcNext > 0
  BY DEF StitchInv, Stitched, StreamInv, TypeOK, StreamTypeOK
<1>1. /\ Sending /\ ~Sending' /\ SentPos' = 0 /\ cur' = NoTx /\ loop' = "backoff"
      /\ UNCHANGED <<srcNext, storer, tx, catchupQueue, lastWatermark, readVars, replicaVars>>
  BY DEF StreamEnds, Sending, SentPos, sourceVars, dbVars
<1>2. CASE cur = NoTx
  <2>1. UNCHANGED <<queue, fwdVars, subVars>>
    BY <1>2 DEF StreamEnds
  <2>2. SentKept
    BY <2>1, <1>0, <1>1, <1>2, SentEndsQuietly
  <2>3. SentPos = 0
    BY <2>2, <1>1 DEF SentKept
  <2>4. LoopInv'
    <3>1. inTransaction' = (SentPos' > 0)
      BY <2>1, <2>3, <1>0, <1>1 DEF LoopInv, fwdVars
    <3> QED
      BY <3>1, <1>1 DEF LoopInv
  <2> QED
    BY <2>1, <2>2, <2>4, <1>1, QuietStitched
<1>3. CASE cur # NoTx
  <2>1. queue' = Append(queue, Abort) /\ Forward(Msg("rollback", cur))
    BY <1>3 DEF StreamEnds, AbortPending
  <2>2. cur = srcNext
    BY <1>0, <1>3 DEF LoopInv
  <2>3. PICK m \in Message : m = Msg("rollback", cur)
    BY <1>0 DEF Msg, Message, TypeOK, StreamTypeOK
  <2>4. PICK p \in Position : p = <<srcNext, 0>>
    BY <1>0 DEF Position
  <2>5. Follows(<<srcNext, SentPos>>, m, p)
    <3>1. SentPos > 0 \/ "rollback" \in Environment
      <4>1. SentPos \in Nat
        BY <1>0, ConstantsAssumption DEF TypeOK, StreamTypeOK, SentPos
      <4> QED
        BY <4>1, <1>0, <1>3 DEF LoopInv
    <3> QED
      BY <3>1, <2>2, <2>3, <2>4, <1>0 DEF Follows
  <2>6. Sent(p[1] - 1)'
    <3>1. PICK v \in Nat : v = srcNext - 1
      BY <1>0
    <3>2. queue \in Seq(QueueEntry) /\ Abort \in QueueEntry /\ ~IsCommit(Abort)
      BY <1>0, EntryType DEF TypeOK, StorerTypeOK, IsCommit, Abort
    <3>3. Commits' = Commits /\ \A i \in Commits : queue'[i] = queue[i]
      BY <3>2, <2>1, <1>0, AppendedQueue, QueueFacts
    <3>4. Sent(v)'
      BY <3>1, <3>3, <1>0, <1>1, SentEnds
    <3>5. p[1] - 1 = v
      BY <3>1, <2>4
    <3> QED
      BY <3>4, <3>5
  <2>7. Sends(m, p)
    <3>1. m.tag = "rollback" /\ m.w = srcNext
      BY <2>2, <2>3 DEF Msg
    <3> QED
      BY <3>1, <2>1, <2>3, <2>4, <2>5, <2>6, <1>1 DEF Sends
  <2>8. inTransaction' = FALSE /\ m.tag = "rollback"
    BY <2>1, <2>3 DEF Forward, Msg
  <2>9. LoopInv'
    <3>1. (SentPos' > 0) = FALSE
      BY <1>1
    <3>2. inTransaction' = (SentPos' > 0)
      BY <3>1, <2>8, Zenon
    <3> QED
      BY <3>1, <3>2, <1>1 DEF LoopInv
  <2> QED
    BY <2>7, <2>8, <2>9, <1>1, ForwardStitched
<1> QED
  BY <1>2, <1>3

\* The source and the Forwarder stay where they are.
LEMMA LoopFrame ==
  ASSUME LoopInv, UNCHANGED <<cur, srcNext, srcPos, inTransaction>>, Sending' = Sending
  PROVE  LoopInv'
  BY DEF LoopInv, SentPos

\* A stream is opened.
LEMMA SentConnect ==
  ASSUME StreamInv, Connect
  PROVE  SentKept
<1>0. lastWatermark \in Nat /\ upstreamAck \in Nat /\ upstreamAck <= lastWatermark
  BY DEF StreamInv, AckedIsStored, TypeOK, DbTypeOK, Watermark
<1>1. SetMax({lastWatermark, upstreamAck}) = lastWatermark
  BY <1>0, SetMaxOfPair
<1>2. /\ loop = "connect" /\ loop' = "streaming" /\ srcNext' = lastWatermark + 1 /\ srcPos' = 0
  BY <1>1 DEF Connect
<1>3. SentPos = 0 /\ SentPos' = 0 /\ Sending' /\ ~Sending
  BY <1>2 DEF SentPos, Sending
<1>4. ASSUME NEW v \in Nat, Sent(v)
      PROVE  Sent(v)'
  <2>1. v = lastWatermark
    BY <1>2, <1>4 DEF Sent
  <2> QED
    BY <2>1, <1>0, <1>2 DEF Sent
<1> QED
  BY <1>3, <1>4 DEF SentKept

\* No stream is opened.
LEMMA SentConnectFails ==
  ASSUME StreamInv, loop = "connect", loop' = "backoff", UNCHANGED <<queue, storer, lastWatermark>>
  PROVE  SentKept
<1>0. lastWatermark \in Nat /\ TypeOK
  BY DEF StreamInv, TypeOK, DbTypeOK, Watermark
<1>1. SentPos = 0 /\ SentPos' = 0 /\ Commits' = Commits
  BY DEF SentPos, Sending, Commits
<1>2. storer # "stopped" => Commits = {}
  BY DEF StreamInv, QueueInOrder, ReadyIsLast, FromStream, Commits, IsCommit
<1>3. ASSUME NEW v \in Nat, Sent(v)
      PROVE  Sent(v)'
  <2>1. v = lastWatermark
    BY <1>3 DEF Sent
  <2> QED
    BY <2>1, <1>0, <1>1, <1>2 DEF Sent, Sending
<1> QED
  BY <1>1, <1>3 DEF SentKept

\* run()
LEMMA StreamStitched ==
  ASSUME StitchInv, Stream
  PROVE  Stitched'
<1>0. /\ StreamInv /\ LoopInv /\ TypeOK
  BY DEF StitchInv, Stitched, StreamInv
<1>1. CASE SourceStatus
  <2>1. Status(Completed) \in QueueEntry
    BY <1>0, EntryType, ConstantsAssumption DEF Completed, TypeOK, StreamTypeOK, Watermark
  <2>2. /\ queue' = Append(queue, Status(Completed)) /\ Status(Completed).type = "status"
        /\ UNCHANGED <<loop, cur, srcNext, srcPos, storer, tx, catchupQueue, lastWatermark,
                       inTransaction, fwdVars, readVars, subVars, replicaVars>>
    BY <1>1 DEF SourceStatus, streamVars, sourceVars, dbVars, fwdVars, Status
  <2>3. SentKept
    BY <2>1, <2>2, <1>0, SentAppend DEF IsCommit
  <2>4. LoopInv'
    BY <2>2, <1>0, LoopFrame DEF Sending
  <2>6. PICK e \in QueueEntry : e = Status(Completed)
    BY <2>1
  <2> QED
    BY <2>2, <2>3, <2>4, <2>6, AppendQuiet
<1>2. CASE Resume \/ StreamFails
  <2>1. /\ UNCHANGED <<cur, srcNext, srcPos, queue, storer, tx, catchupQueue, lastWatermark,
                       inTransaction, fwdVars, readVars, subVars, replicaVars>>
        /\ loop' = loop \/ (Sending /\ Sending')
    BY <1>2 DEF Resume, StreamFails, streamVars, sourceVars, storerVars, dbVars, fwdVars, Sending
  <2>2. SentKept
    BY <2>1, SentQuiet DEF Commits
  <2>3. LoopInv'
    BY <2>1, <1>0, LoopFrame DEF Sending
  <2> QED
    BY <2>1, <2>2, <2>3, QuietStitched
<1>3. CASE Retry
  <2>1. /\ UNCHANGED <<cur, srcNext, srcPos, storer, tx, catchupQueue, lastWatermark,
                       inTransaction, fwdVars, readVars, subVars, replicaVars>>
        /\ loop = "backoff" /\ loop' \in {"waitReady", "done"}
        /\ queue' = Append(queue, Ready) \/ UNCHANGED queue
    BY <1>3 DEF Retry, AwaitReady, sourceVars, dbVars, fwdVars
  <2>2. Ready \in QueueEntry /\ ~IsCommit(Ready) /\ Ready.type = "ready"
    BY EntryType DEF Ready, IsCommit
  <2>3. LoopInv'
    BY <2>1, <1>0, LoopFrame DEF Sending
  <2>5. CASE queue' = Append(queue, Ready)
    <3>1. SentKept
      BY <2>1, <2>2, <2>5, <1>0, SentAppend
    <3>2. PICK e \in QueueEntry : e = Ready
      BY <2>2
    <3> QED
      BY <3>1, <3>2, <2>1, <2>2, <2>3, <2>5, AppendQuiet
  <2>6. CASE UNCHANGED queue
    <3>1. SentKept
      BY <2>1, <2>6, SentQuiet DEF Commits
    <3> QED
      BY <3>1, <2>1, <2>3, <2>6, QuietStitched
  <2> QED
    BY <2>1, <2>5, <2>6
<1>4. CASE Connect
  <2>1. /\ UNCHANGED <<cur, queue, storer, tx, catchupQueue, lastWatermark,
                       inTransaction, fwdVars, readVars, subVars, replicaVars>>
        /\ loop = "connect" /\ loop' = "streaming" /\ srcPos' = 0
    BY <1>4 DEF Connect, storerVars, dbVars, fwdVars
  <2>2. SentKept
    BY <1>0, <1>4, SentConnect
  <2>3. LoopInv'
    <3>1. cur = NoTx /\ SentPos = 0 /\ SentPos' = 0
      BY <2>1, <1>0 DEF LoopInv, Sending, SentPos
    <3>2. inTransaction' = (SentPos' > 0)
      BY <3>1, <2>1, <1>0 DEF LoopInv
    <3> QED
      BY <3>1, <3>2, <2>1 DEF LoopInv
  <2> QED
    BY <2>1, <2>2, <2>3, QuietStitched
<1>5. CASE ConnectFails
  <2>1. /\ UNCHANGED <<cur, srcNext, srcPos, queue, storer, tx, catchupQueue, lastWatermark,
                       inTransaction, fwdVars, readVars, subVars, replicaVars>>
        /\ loop = "connect" /\ loop' = "backoff"
    BY <1>5 DEF ConnectFails, sourceVars, storerVars, dbVars, fwdVars
  <2>2. SentKept
    BY <2>1, <1>0, SentConnectFails
  <2>3. LoopInv'
    BY <2>1, <1>0, LoopFrame DEF Sending
  <2> QED
    BY <2>1, <2>2, <2>3, QuietStitched
<1> QED
  BY <1>1, <1>2, <1>3, <1>4, <1>5, StreamChangeStitched, SourceRollbackStitched,
     StreamEndsStitched DEF Stream

-----------------------------------------------------------------------------
(* The start of a catchup *)

\* Nothing is stored that has not been sent.
LEMMA SentIsStored ==
  ASSUME StreamInv, storer # "stopped", NEW v \in Nat, Sent(v)
  PROVE  v >= lastWatermark
<1>1. srcNext \in Nat /\ lastWatermark \in Nat
  BY DEF StreamInv, TypeOK, StreamTypeOK, DbTypeOK, Watermark
<1>2. loop \in {"waitReady", "connect", "streaming", "blocked", "backoff", "done"}
  BY DEF StreamInv, TypeOK, StreamTypeOK
<1>3. CASE Sending
  BY <1>1, <1>3 DEF Sent, Sending, StreamInv, QueueInOrder, SourceFollowsQueue
<1>4. CASE ~Sending
  BY <1>1, <1>2, <1>4 DEF Sent, Sending
<1> QED
  BY <1>3, <1>4

\* What a catchup that resumes, or finds nothing, will read: all that is stored.
LEMMA SnapIsComplete ==
  ASSUME TypeOK, LogInv, StartKept, NEW s \in Subs, wm[s] = replica[s],
         NEW later, later = {w \in changeLog : w > wm[s]},
         Resumes(s) \/ later = {}
  PROVE  later = wm[s] + 1 .. (IF lastWatermark >= wm[s] THEN lastWatermark ELSE wm[s])
<1>0. wm[s] \in Nat /\ lastWatermark \in Nat
  BY SubFacts
<1>1. CASE lastWatermark <= wm[s]
  <2>0. changeLog \subseteq 1 .. lastWatermark
    BY DEF LogInv
  <2>1. later = {}
    <3>1. \A w \in 1 .. lastWatermark : ~(w > wm[s])
      BY <1>0, <1>1
    <3> QED
      BY <2>0, <3>1
  <2>2. (IF lastWatermark >= wm[s] THEN lastWatermark ELSE wm[s]) = wm[s]
    BY <1>0, <1>1
  <2>3. wm[s] + 1 .. wm[s] = {}
    BY <1>0
  <2> QED
    BY <2>1, <2>2, <2>3
<1>2. CASE lastWatermark > wm[s]
  <2>1. PICK lo \in 1 .. lastWatermark : changeLog = lo .. lastWatermark
    BY <1>0, <1>2 DEF LogInv, LogContiguous
  <2>2. lo <= wm[s] + 1
    <3>1. lastWatermark \in later
      BY <2>1, <1>0, <1>2
    <3>2. CASE wm[s] = ReplicaVersion
      <4>0. lastWatermark # 0 /\ replica[s] = ReplicaVersion
        BY <3>2, <1>0, <1>2
      <4>1. 1 \in changeLog
        BY <4>0, Zenon DEF StartKept
      <4> QED
        BY <4>1, <2>1, <1>0
    <3>3. CASE wm[s] \in changeLog
      BY <3>3, <2>1, <1>0
    <3> QED
      BY <3>1, <3>2, <3>3 DEF Resumes
  <2>3. later = wm[s] + 1 .. lastWatermark
    BY <2>1, <2>2, <1>0
  <2> QED
    BY <2>3, <1>0, <1>2
<1> QED
  BY <1>0, <1>1, <1>2

\* The storer comes to the entry i of a subscription outside of a transaction.
ComesTo(i) ==
  \A j \in Nat : j > i /\ (j \in Commits \/ j = Len(queue) + 1) /\ OpenAt(queue, Inside, j) =>
    \E k \in i + 1 .. j - 1 : IsBegin(queue[k])

\* Then all that the subscriber's backlog relies on is stored.
LEMMA WaitsEnds ==
  ASSUME StitchInv, storer # "stopped", NEW s \in Subs, phase[s] = "waiting",
         NEW i \in Entries(s), i \in {0, 1}, ComesTo(i)
  PROVE  /\ fwd[s] = "active"
         /\ \E b \in Watermark, e \in Position :
              /\ Path(<<b + 1, 0>>, backlog[s], e) /\ Aligned(s, e)
              /\ b >= wm[s] /\ (b = wm[s] \/ b <= lastWatermark)
              /\ lastWatermark < e[1]
<1>0. /\ StreamInv /\ TypeOK /\ wm[s] \in Nat /\ lastWatermark \in Nat
      /\ \A b \in Watermark : b \in Nat
  BY SubFacts, ConstantsAssumption DEF StitchInv, StreamInv, Watermark
<1>1. Waits(s) /\ fwd[s] # "none" /\ QueueBracketed
  BY DEF StitchInv, Stitched, SubscriberInv, WaitingInv
<1>2. PICK n \in Nat : n = Len(queue)
  BY <1>0, QueueFacts
<1>3. i \in 0 .. n /\ Commits \subseteq 1 .. n
  BY <1>0, <1>2, QueueFacts DEF Entries
<1>4. fwd[s] # "queued"
  <2>1. SUFFICES ASSUME fwd[s] = "queued" PROVE FALSE
    OBVIOUS
  <2>2. inTransaction /\ \A k \in i + 1 .. n : ~IsBegin(queue[k])
    BY <2>1, <1>1, <1>2 DEF Waits
  <2>3. OpenAt(queue, Inside, n + 1)
    BY <2>2, <1>1, <1>2 DEF QueueBracketed
  <2>4. n + 1 \in Nat /\ n + 1 > i /\ n + 1 = Len(queue) + 1 /\ (n + 1) - 1 = n
    BY <1>2, <1>3
  <2>5. \E k \in i + 1 .. (n + 1) - 1 : IsBegin(queue[k])
    BY <2>3, <2>4 DEF ComesTo
  <2> QED
    BY <2>2, <2>4, <2>5
<1>5. fwd[s] = "active"
  BY <1>0, <1>1, <1>4, SubFacts
<1>6. PICK b \in Watermark, e \in Position :
        /\ Path(<<b + 1, 0>>, backlog[s], e) /\ Aligned(s, e)
        /\ b >= wm[s] /\ b < e[1]
        /\ b = wm[s] \/ b <= lastWatermark \/ \E j \in Commits : queue[j].msg.w = b
        /\ \A l \in Entries(s) : Covered(s, l, b)
  BY <1>1, <1>5 DEF Waits
<1>7. ASSUME NEW j \in Commits, queue[j].msg.w = b
      PROVE  b = wm[s]
  <2>1. SUFFICES ASSUME b > wm[s] PROVE FALSE
    BY <1>0, <1>6
  <2>2. j \in 1 .. n /\ j > i
    <3>1. i = 0 \/ queue[i] = Subscriber(s)
      BY DEF Entries
    <3>2. j \in 1 .. n /\ i # j
      BY <3>1, <1>3 DEF Commits, IsCommit, Subscriber
    <3> QED
      BY <3>2
  <2>3. \A k \in i + 1 .. j : ~IsBegin(queue[k])
    <3>1. queue[j].msg.w > wm[s] /\ queue[j].msg.w <= b
      BY <2>1, <1>7, <1>0
    <3> QED
      BY <3>1, <2>2, <1>6 DEF Covered
  <2>4. OpenAt(queue, Inside, j)
    BY <1>1 DEF QueueBracketed
  <2>5. \E k \in i + 1 .. j - 1 : IsBegin(queue[k])
    BY <2>2, <2>4 DEF ComesTo
  <2> QED
    BY <2>2, <2>3, <2>5, <1>3
<1>8. b = wm[s] \/ b <= lastWatermark
  BY <1>6, <1>7
<1>9. lastWatermark < e[1]
  <2>1. e[1] \in Nat /\ e[1] > wm[s]
    BY <1>6, PositionFacts DEF Aligned
  <2>2. CASE Sent(e[1] - 1)
    <3>1. e[1] - 1 \in Nat
      BY <2>1, <1>0
    <3> QED
      BY <3>1, <2>1, <2>2, <1>0, SentIsStored
  <2>3. CASE \E v \in Watermark : Sent(v) /\ v < wm[s]
    BY <2>1, <2>3, <1>0, SentIsStored
  <2> QED
    BY <2>2, <2>3, <1>6 DEF Aligned
<1> QED
  BY <1>5, <1>6, <1>8, <1>9

LEMMA StartStitches ==
  ASSUME StitchInv, SentKept, storer # "stopped", NEW s \in Subs, phase[s] = "waiting",
         NEW i \in Entries(s), i \in {0, 1}, ComesTo(i),
         phase[s]' = "reading", found[s]' = Resumes(s), snap[s]' = {w \in changeLog : w > wm[s]},
         UNCHANGED <<wm[s], fwd[s], backlog[s], down[s], replica[s], repTx[s], size[s], have[s]>>
  PROVE  ReplicatorInv(s)' /\ SubscriberInv(s)'
<1>0. /\ StreamInv /\ TypeOK /\ wm[s] \in Nat /\ wm[s] \in Watermark /\ lastWatermark \in Nat
      /\ lastWatermark \in Watermark /\ replica[s] \in Nat
      /\ \A b \in Watermark : b \in Nat
  BY SubFacts, ConstantsAssumption DEF StitchInv, StreamInv, Watermark
<1>1. /\ wm[s] = replica[s] /\ repTx[s] = NoTx /\ down[s] = <<>>
      /\ ReplicatorInv(s)
  BY DEF StitchInv, Stitched, SubscriberInv, WaitingInv, ReplicatorInv
<1>2. ReplicatorInv(s)'
  BY <1>1 DEF ReplicatorInv
<1>3. PICK b \in Watermark, e \in Position :
        /\ fwd[s] = "active"
        /\ Path(<<b + 1, 0>>, backlog[s], e) /\ Aligned(s, e)
        /\ b >= wm[s] /\ (b = wm[s] \/ b <= lastWatermark)
        /\ lastWatermark < e[1]
  BY WaitsEnds
<1>4. fwd[s]' = "active" /\ Aligned(s, e)'
  BY <1>0, <1>3, AlignedKept
<1>5. Path(At(s)', down[s]', <<wm[s]' + 1, 0>>)
  <2>1. At(s)' = <<wm[s] + 1, 0>> /\ At(s)' \in Position
    BY <1>0, <1>1 DEF At, Position
  <2> QED
    BY <2>1, <1>1, PathEmpty
<1>6. ASSUME found[s]' \/ snap[s]' = {}
      PROVE  Stitches(s)'
  <2>1. PICK h \in Watermark : h = IF lastWatermark >= wm[s] THEN lastWatermark ELSE wm[s]
    BY <1>0
  <2>2. snap[s]' = wm[s] + 1 .. h
    BY <2>1, <1>0, <1>1, <1>6, SnapIsComplete DEF StitchInv
  <2>3. h < e[1] /\ wm[s] <= h /\ b <= h
    <3>1. e[1] > wm[s] /\ e[1] \in Nat
      BY <1>3, PositionFacts DEF Aligned
    <3> QED
      BY <3>1, <2>1, <1>0, <1>3
  <2> QED
    BY <2>2, <2>3, <1>3, <1>4 DEF Stitches
<1>7. ReadingInv(s)'
  BY <1>4, <1>5, <1>6 DEF ReadingInv
<1> QED
  BY <1>2, <1>4, <1>7 DEF SubscriberInv

-----------------------------------------------------------------------------
(* The storer *)

\* What the storer takes from the queue it stores.
LEMMA SentTail ==
  ASSUME StreamInv, storer # "stopped", queue # <<>>, queue' = Tail(queue),
         UNCHANGED <<loop, srcNext, srcPos>>,
         lastWatermark' = IF IsCommit(Head(queue)) THEN Head(queue).msg.w ELSE lastWatermark
  PROVE  SentKept
<1>0. TypeOK /\ lastWatermark \in Nat
  BY DEF StreamInv, TypeOK, DbTypeOK, Watermark
<1>1. PICK n \in Nat :
        /\ Len(queue) = n + 1 /\ Len(queue') = n /\ Head(queue) = queue[1]
        /\ \A i \in 1 .. n : queue'[i] = queue[i + 1]
        /\ \A i \in Int : i \in Commits' <=> (i \in 1 .. n /\ i + 1 \in Commits)
        /\ Commits \subseteq 1 .. n + 1 /\ Commits' \subseteq 1 .. n
  BY <1>0, TailFacts
<1>2. SentPos' = SentPos /\ Sending' = Sending
  BY DEF SentPos, Sending
<1>3. \A j \in Commits : queue[j].msg.w \in Nat /\ queue[j].msg.w > lastWatermark
  <2>1. \A j \in Commits : queue[j].msg.w \in TxID
    BY <1>0, QueueFacts
  <2> QED
    BY <2>1 DEF TxID, StreamInv, QueueInOrder, CommitsInOrder
<1>4. IsCommit(Head(queue)) <=> 1 \in Commits
  <2>1. queue \in Seq(QueueEntry)
    BY <1>0 DEF TypeOK, StorerTypeOK
  <2>2. 1 \in DOMAIN queue
    BY <2>1, <1>1, LenProperties
  <2> QED
    BY <2>2, <1>1 DEF Commits
<1>5. ASSUME NEW v \in Nat, Sent(v)
      PROVE  Sent(v)'
  <2>1. Sending' => v = srcNext' - 1
    BY <1>2, <1>5 DEF Sent
  <2>2. ASSUME loop = "connect"
        PROVE  v = lastWatermark'
    <3>1. Commits = {}
      BY <2>2 DEF StreamInv, QueueInOrder, ReadyIsLast, FromStream, Commits, IsCommit
    <3> QED
      BY <3>1, <2>2, <1>4, <1>5 DEF Sent
  <2>3. ASSUME loop \in {"waitReady", "backoff", "done"}
        PROVE  /\ v = lastWatermark' \/ \E i \in Commits' : queue'[i].msg.w = v
               /\ v >= lastWatermark' /\ \A i \in Commits' : v >= queue'[i].msg.w
    <3>1. /\ v = lastWatermark \/ \E i \in Commits : queue[i].msg.w = v
          /\ v >= lastWatermark /\ \A i \in Commits : v >= queue[i].msg.w
      BY <2>3, <1>5 DEF Sent
    <3>2. ASSUME NEW i \in Commits, queue[i].msg.w = v
          PROVE  v = lastWatermark' \/ \E l \in Commits' : queue'[l].msg.w = v
      <4>1. CASE i = 1
        BY <4>1, <3>2, <1>1, <1>4
      <4>2. CASE i # 1
        <5>1. i - 1 \in 1 .. n /\ (i - 1) + 1 = i
          BY <4>2, <1>1
        <5>2. i - 1 \in Commits' /\ queue'[i - 1] = queue[i]
          BY <5>1, <1>1
        <5> QED
          BY <5>2, <3>2
      <4> QED
        BY <4>1, <4>2
    <3>3. \A i \in Commits' : v >= queue'[i].msg.w
      <4> TAKE i \in Commits'
      <4>1. i \in 1 .. n /\ i + 1 \in Commits
        BY <1>1
      <4> QED
        BY <4>1, <3>1, <1>1
    <3>4. CASE 1 \in Commits
      <4>1. lastWatermark' = queue[1].msg.w /\ v >= queue[1].msg.w
        BY <3>1, <3>4, <1>1, <1>4
      <4>2. v # lastWatermark
        BY <4>1, <3>4, <1>0, <1>3
      <4> QED
        BY <4>1, <4>2, <3>1, <3>2, <3>3
    <3>5. CASE 1 \notin Commits
      <4>1. lastWatermark' = lastWatermark
        BY <3>5, <1>4
      <4> QED
        BY <4>1, <3>1, <3>2, <3>3
    <3> QED
      BY <3>4, <3>5
  <2> QED
    BY <2>1, <2>2, <2>3 DEF Sent
<1> QED
  BY <1>2, <1>5 DEF SentKept

\* The queue has been stored: run() may go on.
LEMMA SentReady ==
  ASSUME StreamInv, StorerReady
  PROVE  SentKept
<1>0. TypeOK /\ storer # "stopped" /\ queue # <<>> /\ Head(queue).type = "ready"
  BY DEF StreamInv, StorerReady, Dequeues
<1>1. /\ queue \in Seq(QueueEntry) /\ Len(queue) \in Nat /\ Len(queue) > 0 /\ Head(queue) = queue[1]
      /\ DOMAIN queue = 1 .. Len(queue)
  BY <1>0, HeadTailProperties, LenProperties, EmptySeq DEF TypeOK, StorerTypeOK
<1>2. /\ loop = "waitReady"
      /\ \A j \in DOMAIN queue : j > 1 => ~FromStream(j)
  BY <1>0, <1>1 DEF StreamInv, QueueInOrder, ReadyIsLast
<1>3. Commits = {}
  <2>1. ASSUME NEW j \in Commits
        PROVE  FALSE
    <3>1. j \in 1 .. Len(queue) /\ queue[j].type = "change"
      BY <1>1 DEF Commits, IsCommit
    <3>2. j # 1
      BY <3>1, <1>0, <1>1
    <3> QED
      BY <3>1, <3>2, <1>1, <1>2 DEF FromStream
  <2> QED
    BY <2>1
<1>4. loop' = "connect" /\ UNCHANGED lastWatermark
  BY DEF StorerReady, dbVars
<1>5. \A v \in Nat : Sent(v) => Sent(v)'
  BY <1>0, <1>2, <1>3, <1>4 DEF Sent, Sending
<1> QED
  BY <1>2, <1>4, <1>5 DEF SentKept, SentPos, Sending

\* The storer takes an entry that is not a subscription, or keeps it for later.
LEMMA TailQuiet ==
  ASSUME StitchInv, storer # "stopped", queue # <<>>, queue' = Tail(queue),
         SentKept, Sending' = Sending,
         IsBegin(Head(queue)) => Inside',
         Inside /\ ~Ends(Head(queue)) => Inside',
         lastWatermark' = IF IsCommit(Head(queue)) THEN Head(queue).msg.w ELSE lastWatermark,
         \A s \in catchupQueue' : s \in catchupQueue \/ Head(queue) = Subscriber(s),
         UNCHANGED <<cur, srcNext, srcPos, fwdVars, readVars, subVars, replicaVars>>
  PROVE  Stitched'
<1>0. TypeOK /\ StreamInv /\ LoopInv
  BY DEF StitchInv, Stitched, StreamInv
<1>1. LoopInv'
  BY <1>0, LoopFrame DEF fwdVars
<1>2. /\ lastWatermark' \in Nat /\ lastWatermark' >= lastWatermark
      /\ IsCommit(Head(queue)) => lastWatermark' >= Head(queue).msg.w
  <2>1. lastWatermark \in Nat
    BY <1>0 DEF TypeOK, DbTypeOK, Watermark
  <2>2. ASSUME IsCommit(Head(queue))
        PROVE  Head(queue).msg.w \in Nat /\ Head(queue).msg.w > lastWatermark
    <3>1. /\ queue \in Seq(QueueEntry) /\ 1 \in DOMAIN queue /\ Head(queue) = queue[1]
      BY <1>0, HeadTailProperties, LenProperties, EmptySeq DEF TypeOK, StorerTypeOK
    <3>2. 1 \in Commits
      BY <3>1, <2>2 DEF Commits
    <3>3. queue[1].msg.w \in TxID
      BY <3>2, <1>0, QueueFacts
    <3> QED
      BY <3>1, <3>2, <3>3, <1>0 DEF StreamInv, QueueInOrder, CommitsInOrder, TxID
  <2> QED
    BY <2>1, <2>2
<1> DEFINE S == {}
<1>3. \A s \in Subs \ S : Untouched(s)
  BY AllUntouched DEF fwdVars
<1>4. \A s \in S \cap Subs : ReplicatorInv(s)' /\ SubscriberInv(s)'
  OBVIOUS
<1>5. UNCHANGED inTransaction
  BY DEF fwdVars
<1> HIDE DEF S
<1> QED
  BY <1>1, <1>2, <1>3, <1>4, <1>5, TailStitched

\* A catchup is started for those of S that still wait for it.
LEMMA StartCatchupSub ==
  ASSUME StitchInv, SentKept, storer # "stopped", NEW S, StartCatchup(S),
         UNCHANGED <<fwdVars, replicaVars>>,
         NEW s \in Subs, s \in S,
         phase[s] = "waiting" => \E i \in Entries(s) : i \in {0, 1} /\ ComesTo(i)
  PROVE  ReplicatorInv(s)' /\ SubscriberInv(s)'
<1>1. UNCHANGED <<wm[s], fwd[s], backlog[s], down[s], replica[s], repTx[s], size[s], have[s]>>
  BY DEF StartCatchup, fwdVars, replicaVars
<1>2. CASE phase[s] = "waiting"
  <2>1. /\ phase[s]' = "reading" /\ found[s]' = Resumes(s)
        /\ snap[s]' = {w \in changeLog : w > wm[s]}
    BY <1>2 DEF StartCatchup
  <2> QED
    BY <2>1, <1>1, <1>2, StartStitches
<1>3. CASE phase[s] # "waiting"
  <2>1. Untouched(s)
    BY <1>1, <1>3 DEF StartCatchup, Untouched
  <2> QED
    BY <2>1, <1>3, SubFrame DEF StitchInv, Stitched, StreamInv
<1> QED
  BY <1>2, <1>3

LEMMA StartCatchupRest ==
  ASSUME NEW S, StartCatchup(S), UNCHANGED <<fwdVars, replicaVars>>
  PROVE  \A s \in Subs \ S : Untouched(s)
  BY DEF StartCatchup, Untouched, fwdVars, replicaVars

LEMMA StorerSubscriberStitched ==
  ASSUME StitchInv, StorerSubscriber
  PROVE  Stitched'
<1>0. /\ StreamInv /\ LoopInv /\ TypeOK /\ storer # "stopped" /\ storer = "idle" /\ queue # <<>>
      /\ queue' = Tail(queue) /\ Head(queue).type = "subscriber"
      /\ UNCHANGED <<loop, cur, srcNext, srcPos, storer, tx, lastWatermark, fwdVars, replicaVars>>
  BY DEF StitchInv, Stitched, StreamInv, StorerSubscriber, Dequeues, Dequeue, streamVars,
         sourceVars, dbVars
<1>1. ~IsBegin(Head(queue)) /\ ~Ends(Head(queue)) /\ ~IsCommit(Head(queue)) /\ Inside' = Inside
  BY <1>0 DEF IsBegin, Ends, IsCommit, Inside
<1>2. SentKept /\ Sending' = Sending
  BY <1>0, <1>1, SentTail DEF Sending
<1>3. PICK s \in Subs : s = Head(queue).sub /\ Head(queue) = Subscriber(s)
  <2>1. Head(queue) \in QueueEntry
    BY <1>0, HeadTailProperties DEF TypeOK, StorerTypeOK
  <2>2. Head(queue) \in [type : {"subscriber"}, sub : Subs]
    BY <2>1, <1>0 DEF QueueEntry
  <2> QED
    BY <2>2 DEF Subscriber
<1>4. CASE tx # NoTx
  <2>1. catchupQueue' = catchupQueue \cup {s} /\ UNCHANGED <<subVars, readVars>>
    BY <1>3, <1>4 DEF StorerSubscriber
  <2> QED
    BY <2>1, <1>0, <1>1, <1>2, <1>3, TailQuiet
<1>5. CASE tx = NoTx
  <2>1. StartCatchup({s}) /\ UNCHANGED catchupQueue
    BY <1>3, <1>5 DEF StorerSubscriber
  <2>2. \A t \in Subs \ {s} : Untouched(t)
    BY <2>1, <1>0, StartCatchupRest
  <2>3. 1 \in Entries(s) /\ ComesTo(1)
    <3>1. /\ Len(queue) \in Nat /\ Len(queue) > 0 /\ Head(queue) = queue[1]
      BY <1>0, HeadTailProperties, LenProperties, EmptySeq DEF TypeOK, StorerTypeOK
    <3>2. 1 \in Entries(s)
      BY <3>1, <1>3 DEF Entries
    <3>3. ~Inside
      BY <1>5 DEF Inside
    <3>4. ASSUME NEW j \in Nat, j > 1, OpenAt(queue, Inside, j)
          PROVE  \E k \in 2 .. j - 1 : IsBegin(queue[k])
      <4>1. PICK k \in 1 .. j - 1 : IsBegin(queue[k])
        BY <3>3, <3>4 DEF OpenAt
      <4>2. k # 1
        BY <4>1, <3>1, <1>1
      <4>3. k \in 2 .. j - 1
        BY <4>2
      <4> QED
        BY <4>1, <4>3
    <3>5. ComesTo(1)
      BY <3>4 DEF ComesTo
    <3> QED
      BY <3>2, <3>5
  <2>4. ReplicatorInv(s)' /\ SubscriberInv(s)'
    <3>1. s \in {s}
      OBVIOUS
    <3> QED
      BY <3>1, <2>1, <2>3, <1>0, <1>2, StartCatchupSub
  <2>5. LoopInv' /\ UNCHANGED inTransaction
    BY <1>0, <1>2, LoopFrame DEF fwdVars
  <2>6. lastWatermark' \in Nat /\ lastWatermark' >= lastWatermark
    BY <1>0 DEF TypeOK, DbTypeOK, Watermark
  <2>7. \A t \in {s} \cap Subs : ReplicatorInv(t)' /\ SubscriberInv(t)'
    BY <2>4
  <2> DEFINE S == {s}
  <2>8. (\A t \in Subs \ S : Untouched(t)) /\ \A t \in S \cap Subs : ReplicatorInv(t)' /\ SubscriberInv(t)'
    BY <2>2, <2>7
  <2> HIDE DEF S
  <2> QED
    BY <2>1, <2>5, <2>6, <2>8, <1>0, <1>1, <1>2, TailStitched
<1> QED
  BY <1>4, <1>5

LEMMA StorerRollbackStitched ==
  ASSUME StitchInv, StorerRollback
  PROVE  Stitched'
<1>0. /\ StreamInv /\ LoopInv /\ TypeOK /\ storer # "stopped" /\ storer = "idle" /\ queue # <<>>
      /\ queue' = Tail(queue) /\ Head(queue).type = "change" /\ Head(queue).msg.tag = "rollback"
      /\ catchupQueue' = {} /\ StartCatchup(catchupQueue)
      /\ UNCHANGED <<loop, cur, srcNext, srcPos, storer, lastWatermark, fwdVars, replicaVars>>
  BY DEF StitchInv, Stitched, StreamInv, StorerRollback, DequeuesChange, Dequeues, Dequeue,
         CatchupWaiting, streamVars, sourceVars, dbVars
<1>1. ~IsBegin(Head(queue)) /\ Ends(Head(queue)) /\ ~IsCommit(Head(queue))
  BY <1>0 DEF IsBegin, Ends, IsCommit
<1>2. SentKept /\ Sending' = Sending
  BY <1>0, <1>1, SentTail DEF Sending
<1> DEFINE S == catchupQueue
<1>3. \A s \in Subs \ S : Untouched(s)
  BY <1>0, StartCatchupRest
<1>4. ComesTo(0)
  <2>1. /\ Len(queue) \in Nat /\ Len(queue) > 0 /\ Head(queue) = queue[1]
    BY <1>0, HeadTailProperties, LenProperties, EmptySeq DEF TypeOK, StorerTypeOK
  <2>2. ASSUME NEW j \in Nat, j > 0, j \in Commits \/ j = Len(queue) + 1, OpenAt(queue, Inside, j)
        PROVE  \E k \in 0 + 1 .. j - 1 : IsBegin(queue[k])
    <3>1. j # 1
      BY <2>1, <2>2, <1>1 DEF Commits
    <3>2. 1 \in 1 .. j - 1 /\ 0 + 1 = 1
      BY <3>1, <2>2
    <3>3. \E k \in 1 .. j - 1 : IsBegin(queue[k])
      BY <3>2, <2>1, <2>2, <1>1 DEF OpenAt
    <3> QED
      BY <3>2, <3>3
  <2> QED
    BY <2>2 DEF ComesTo
<1>5. \A s \in S \cap Subs : ReplicatorInv(s)' /\ SubscriberInv(s)'
  <2>1. ASSUME NEW s \in Subs, s \in S
        PROVE  ReplicatorInv(s)' /\ SubscriberInv(s)'
    <3>1. 0 \in Entries(s)
      BY <2>1, <1>0, LenProperties DEF Entries, TypeOK, StorerTypeOK
    <3> QED
      BY <3>1, <2>1, <1>0, <1>2, <1>4, StartCatchupSub
  <2> QED
    BY <2>1
<1>6. LoopInv' /\ UNCHANGED inTransaction
  BY <1>0, <1>2, LoopFrame DEF fwdVars
<1>7. lastWatermark' \in Nat /\ lastWatermark' >= lastWatermark
  BY <1>0 DEF TypeOK, DbTypeOK, Watermark
<1> HIDE DEF S
<1> QED
  BY <1>0, <1>1, <1>2, <1>3, <1>5, <1>6, <1>7, TailStitched

LEMMA StorerCommittedStitched ==
  ASSUME StitchInv, StorerCommitted
  PROVE  Stitched'
<1>0. /\ StreamInv /\ LoopInv /\ TypeOK /\ storer # "stopped" /\ storer = "stored"
      /\ storer' = "idle" /\ tx' = NoTx /\ catchupQueue' = {} /\ StartCatchup(catchupQueue)
      /\ UNCHANGED <<loop, cur, srcNext, srcPos, queue, lastWatermark, fwdVars, replicaVars>>
  BY DEF StitchInv, Stitched, StreamInv, StorerCommitted, CatchupWaiting, streamVars, sourceVars,
         dbVars
<1>1. ~Inside /\ ~Inside'
  BY <1>0 DEF Inside
<1>2. SentKept /\ Sending' = Sending
  BY <1>0, SentQuiet DEF Sending, Commits
<1>3. \A s \in Subs \ catchupQueue : Untouched(s)
  BY <1>0, StartCatchupRest
<1>4. ComesTo(0)
  BY <1>1 DEF ComesTo, OpenAt
<1>5. ASSUME NEW s \in Subs, s \in catchupQueue
      PROVE  ReplicatorInv(s)' /\ SubscriberInv(s)'
  <2>1. 0 \in Entries(s)
    BY <1>5, <1>0, LenProperties DEF Entries, TypeOK, StorerTypeOK
  <2> QED
    BY <2>1, <1>5, <1>0, <1>2, <1>4, StartCatchupSub
<1>6. ASSUME NEW s \in Subs, s \notin catchupQueue
      PROVE  ReplicatorInv(s)' /\ SubscriberInv(s)'
  <2>1. Untouched(s)
    BY <1>3, <1>6
  <2>2. phase[s] = "waiting" => Waits(s)'
    BY <2>1, <1>0, <1>2, WaitsQuiet DEF StitchInv, Stitched, SubscriberInv, WaitingInv, fwdVars
  <2> QED
    BY <2>1, <2>2, <1>0, <1>2, SubFrame DEF StitchInv, Stitched
<1>7. LoopInv'
  BY <1>0, <1>2, LoopFrame DEF fwdVars
<1>8. QueueBracketed'
  <2>1. QueueBracketed /\ UNCHANGED <<queue, inTransaction>>
    BY <1>0 DEF StitchInv, Stitched, fwdVars
  <2>2. Inside' = Inside
    BY <1>1 DEF Inside
  <2> QED
    BY <2>1, <2>2, BracketedSame
<1> QED
  BY <1>5, <1>6, <1>7, <1>8 DEF Stitched

\* An entry that starts no catchup.
LEMMA StorerQuietStitched ==
  ASSUME StitchInv, StorerReady \/ StorerStatus \/ StorerAbort \/ StorerWrite \/ StorerCommit
  PROVE  Stitched'
<1>0. /\ StreamInv /\ TypeOK /\ storer # "stopped" /\ queue # <<>> /\ queue' = Tail(queue)
      /\ UNCHANGED <<cur, srcNext, srcPos, catchupQueue, fwdVars, readVars, subVars, replicaVars>>
  BY DEF StitchInv, StreamInv, StorerReady, StorerStatus, StorerAbort, StorerWrite, StorerCommit,
         DequeuesChange, Dequeues, Dequeue, streamVars, sourceVars
<1>e. Head(queue) \in QueueEntry
  BY <1>0, HeadTailProperties DEF TypeOK, StorerTypeOK
<1>1. CASE StorerReady
  <2>1. /\ Head(queue).type = "ready" /\ loop' = "connect"
        /\ UNCHANGED <<storer, tx, lastWatermark>>
    BY <1>1 DEF StorerReady, Dequeues, dbVars
  <2>2. ~IsBegin(Head(queue)) /\ ~IsCommit(Head(queue)) /\ Inside' = Inside
    BY <2>1 DEF IsBegin, IsCommit, Inside
  <2>3. loop = "waitReady"
    <3>1. 1 \in DOMAIN queue /\ Head(queue) = queue[1]
      BY <1>0, HeadTailProperties, LenProperties, EmptySeq DEF TypeOK, StorerTypeOK
    <3> QED
      BY <3>1, <2>1, <1>0 DEF StreamInv, QueueInOrder, ReadyIsLast
  <2>4. SentKept /\ Sending' = Sending
    BY <2>1, <2>3, <1>0, <1>1, SentReady DEF Sending
  <2> QED
    BY <2>1, <2>2, <2>4, <1>0, TailQuiet
<1>2. CASE StorerStatus
  <2>1. Head(queue).type = "status" /\ UNCHANGED <<loop, storer, tx, lastWatermark>>
    BY <1>2 DEF StorerStatus, Dequeues, dbVars, streamVars
  <2>2. ~IsBegin(Head(queue)) /\ ~IsCommit(Head(queue)) /\ Inside' = Inside
    BY <2>1 DEF IsBegin, IsCommit, Inside
  <2>3. SentKept /\ Sending' = Sending
    BY <2>1, <2>2, <1>0, SentTail DEF Sending
  <2> QED
    BY <2>1, <2>2, <2>3, <1>0, TailQuiet
<1>3. CASE StorerAbort
  <2>1. Head(queue).type = "abort" /\ UNCHANGED <<loop, storer, lastWatermark>>
    BY <1>3 DEF StorerAbort, Dequeues, dbVars, streamVars
  <2>2. ~IsBegin(Head(queue)) /\ ~IsCommit(Head(queue)) /\ Ends(Head(queue))
    BY <2>1 DEF IsBegin, IsCommit, Ends
  <2>3. SentKept /\ Sending' = Sending
    BY <2>1, <2>2, <1>0, SentTail DEF Sending
  <2> QED
    BY <2>1, <2>2, <2>3, <1>0, TailQuiet
<1>4. CASE StorerWrite
  <2>1. /\ Head(queue).type = "change" /\ Head(queue).msg.tag \in {"begin", "data"}
        /\ tx' = Head(queue).msg.w /\ storer = "idle" /\ UNCHANGED <<loop, storer, lastWatermark>>
    BY <1>4 DEF StorerWrite, DequeuesChange, Dequeues, dbVars, streamVars
  <2>2. ~IsCommit(Head(queue))
    BY <2>1 DEF IsCommit
  <2>3. Head(queue).msg.w \in TxID
    BY <2>1, <1>e, EntryContent, MessageContent DEF QueueEntry, Message
  <2>4. Inside'
    BY <2>1, <2>3 DEF Inside, TxID, NoTx
  <2>5. SentKept /\ Sending' = Sending
    BY <2>1, <2>2, <1>0, SentTail DEF Sending
  <2> QED
    BY <2>1, <2>2, <2>4, <2>5, <1>0, TailQuiet
<1>5. CASE StorerCommit
  <2>1. /\ Head(queue).type = "change" /\ Head(queue).msg.tag = "commit"
        /\ lastWatermark' = Head(queue).msg.w /\ UNCHANGED loop
    BY <1>5 DEF StorerCommit, DequeuesChange, Dequeues, streamVars
  <2>2. ~IsBegin(Head(queue)) /\ IsCommit(Head(queue)) /\ Ends(Head(queue))
    BY <2>1 DEF IsBegin, IsCommit, Ends
  <2>3. SentKept /\ Sending' = Sending
    BY <2>1, <2>2, <1>0, SentTail DEF Sending
  <2> QED
    BY <2>1, <2>2, <2>3, <1>0, TailQuiet
<1> QED
  BY <1>1, <1>2, <1>3, <1>4, <1>5

\* The storer dies: nothing is said of the queue any more.
LEMMA StorerDiesStitched ==
  ASSUME StitchInv, StorerStop \/ StorerCommitFails
  PROVE  Stitched'
<1>0. /\ StreamInv /\ TypeOK /\ LoopInv /\ storer' = "stopped"
      /\ UNCHANGED <<loop, cur, srcNext, srcPos, lastWatermark, fwdVars, readVars, subVars,
                     replicaVars>>
  BY DEF StitchInv, Stitched, StreamInv, StorerStop, StorerCommitFails, streamVars, sourceVars,
         dbVars
<1>1. SentKept
  BY <1>0 DEF SentKept, Sent, SentPos, Sending
<1>2. LoopInv'
  BY <1>0, LoopFrame DEF Sending, fwdVars
<1>3. ASSUME NEW s \in Subs
      PROVE  ReplicatorInv(s)' /\ SubscriberInv(s)'
  <2>1. Untouched(s)
    BY <1>0, AllUntouched DEF fwdVars
  <2> QED
    BY <2>1, <1>0, <1>1, SubFrame DEF StitchInv, Stitched
<1> QED
  BY <1>0, <1>2, <1>3 DEF Stitched

LEMMA StoreStitched ==
  ASSUME StitchInv, Store \/ StorerCommitFails
  PROVE  Stitched'
  BY StorerQuietStitched, StorerDiesStitched, StorerSubscriberStitched, StorerCommittedStitched,
     StorerRollbackStitched DEF Store

-----------------------------------------------------------------------------
(* The process, and the purge *)

\* Nothing is left of what has been sent and not applied.
LEMMA BootStitched ==
  ASSUME StitchInv, Boot, UNCHANGED <<lastWatermark, replica, have>>, TypeOK'
  PROVE  Stitched'
<1>1. /\ loop' = "waitReady" /\ cur' = NoTx /\ queue' = <<Ready>> /\ inTransaction' = FALSE
      /\ \A s \in Subs : /\ phase'[s] = "none" /\ fwd'[s] = "none" /\ repTx'[s] = NoTx
                         /\ size'[s] = 0 /\ down'[s] = <<>> /\ backlog'[s] = <<>>
  BY DEF Boot
<1>2. Commits' = {}
  <2>1. DOMAIN queue' = {1} /\ queue'[1] = Ready
    BY <1>1
  <2> QED
    BY <2>1 DEF Commits, IsCommit, Ready
<1>3. LoopInv'
  <2>1. SentPos' = 0 /\ Sending' = FALSE /\ cur' = NoTx
    BY <1>1 DEF SentPos, Sending
  <2>2. (SentPos' > 0) = FALSE
    BY <2>1
  <2>3. inTransaction' = (SentPos' > 0)
    BY <2>2, <1>1, Zenon
  <2> QED
    BY <2>1, <2>2, <2>3 DEF LoopInv
<1>4. QueueBracketed'
  BY <1>1, <1>2 DEF QueueBracketed
<1>5. ASSUME NEW s \in Subs
      PROVE  ReplicatorInv(s)' /\ SubscriberInv(s)'
  <2>1. have'[s] = [i \in 1 .. replica'[s] |-> i]
    BY DEF StitchInv, Stitched, ReplicatorInv
  <2>2. ReplicatorInv(s)'
    BY <2>1, <1>1, ConstantsAssumption DEF ReplicatorInv
  <2>3. SubscriberInv(s)'
    BY <1>1 DEF SubscriberInv
  <2> QED
    BY <2>2, <2>3
<1> QED
  BY <1>3, <1>4, <1>5 DEF Stitched

LEMMA LifeStitched ==
  ASSUME StitchInv, StopService \/ Crash \/ Restart \/ PurgeCheck \/ PurgeDelete
  PROVE  Stitched'
<1>0. TypeOK /\ LoopInv
  BY DEF StitchInv, Stitched, StreamInv
<1>1. CASE StopService
  <2>1. /\ queue' = Append(queue, Stop)
        /\ UNCHANGED <<loop, cur, srcNext, srcPos, storer, tx, catchupQueue, lastWatermark,
                       inTransaction, fwdVars, readVars, subVars, replicaVars>>
    BY <1>1 DEF StopService, sourceVars, dbVars, fwdVars
  <2>2. Stop \in QueueEntry /\ ~IsCommit(Stop) /\ Stop.type = "stop"
    BY EntryType DEF Stop, IsCommit
  <2>3. SentKept
    BY <2>1, <2>2, <1>0, SentAppend
  <2>4. LoopInv'
    BY <2>1, <1>0, LoopFrame DEF Sending
  <2>5. PICK e \in QueueEntry : e = Stop
    BY <2>2
  <2> QED
    BY <2>1, <2>2, <2>3, <2>4, <2>5, AppendQuiet
<1>2. CASE Crash \/ Restart
  <2>1. Boot /\ UNCHANGED <<lastWatermark, replica, have>>
    BY <1>2 DEF Crash, Restart, dbVars
  <2>2. TypeOK'
    BY <1>0, <1>2, TypeStep DEF Next
  <2> QED
    BY <2>1, <2>2, BootStitched
<1>3. CASE PurgeCheck \/ PurgeDelete
  <2>1. UNCHANGED <<loop, cur, srcNext, srcPos, queue, storer, tx, catchupQueue, lastWatermark,
                    inTransaction, fwdVars, readVars, subVars, replicaVars>>
    BY <1>3 DEF PurgeCheck, PurgeDelete, streamVars, sourceVars, storerVars, dbVars, fwdVars
  <2>2. SentKept
    BY <2>1, SentQuiet DEF Commits
  <2>3. LoopInv'
    BY <2>1, <1>0, LoopFrame DEF Sending
  <2> QED
    BY <2>1, <2>2, <2>3, QuietStitched
<1> QED
  BY <1>1, <1>2, <1>3

-----------------------------------------------------------------------------
(* The subscriptions and the replicators *)

\* A step of one subscriber that leaves the rest of the system alone.
LEMMA OneStitched ==
  ASSUME StitchInv, NEW s \in Subs, \A t \in Subs \ {s} : Untouched(t),
         UNCHANGED <<streamVars, sourceVars, storerVars, dbVars, inTransaction>>,
         ReplicatorInv(s)' /\ SubscriberInv(s)'
  PROVE  Stitched'
<1>0. /\ TypeOK /\ LoopInv
      /\ UNCHANGED <<loop, cur, srcNext, srcPos, queue, storer, tx, catchupQueue, lastWatermark>>
  BY DEF StitchInv, Stitched, StreamInv, streamVars, sourceVars, storerVars, dbVars
<1>1. SentKept
  BY <1>0, SentQuiet DEF Commits
<1>2. LoopInv'
  BY <1>0, LoopFrame DEF Sending
<1>3. storer' # "stopped" => QueueBracketed'
  BY <1>0, BracketedSame DEF StitchInv, Stitched, Inside
<1>4. ASSUME NEW t \in Subs, t # s
      PROVE  ReplicatorInv(t)' /\ SubscriberInv(t)'
  <2>1. Untouched(t)
    BY <1>4
  <2>2. phase[t] = "waiting" /\ storer' # "stopped" => Waits(t)'
    BY <1>0, <1>1, <2>1, WaitsQuiet DEF StitchInv, Stitched, SubscriberInv, WaitingInv
  <2> QED
    BY <1>0, <1>1, <2>1, <2>2, SubFrame DEF StitchInv, Stitched
<1> QED
  BY <1>2, <1>3, <1>4 DEF Stitched

\* A subscription has ended.
LEMMA CloseStitched ==
  ASSUME StitchInv, NEW s \in Subs, Close(s),
         UNCHANGED <<streamVars, sourceVars, storerVars, dbVars, replica, have>>
  PROVE  Stitched'
<1>0. TypeOK
  BY DEF StitchInv, StreamInv
<1>1. \A t \in Subs \ {s} : Untouched(t)
  BY <1>0 DEF Close, Untouched, TypeOK, SubTypeOK, ReadTypeOK, ReplicaTypeOK
<1>2. /\ phase'[s] = "none" /\ fwd'[s] = "none" /\ repTx'[s] = NoTx
      /\ size'[s] = 0 /\ down'[s] = <<>> /\ backlog'[s] = <<>>
  BY <1>0 DEF Close, TypeOK, SubTypeOK, ReadTypeOK, ReplicaTypeOK
<1>3. ReplicatorInv(s)'
  BY <1>2, ConstantsAssumption DEF ReplicatorInv, StitchInv, Stitched
<1>4. SubscriberInv(s)'
  BY <1>2 DEF SubscriberInv
<1>5. UNCHANGED inTransaction
  BY DEF Close
<1> QED
  BY <1>1, <1>3, <1>4, <1>5, OneStitched

LEMMA CatchupSendStitched ==
  ASSUME StitchInv, NEW s \in Subs, CatchupSend(s)
  PROVE  Stitched'
<1>0. /\ TypeOK /\ wm[s] \in Nat /\ down[s] \in Seq(Message)
      /\ phase[s] = "reading" /\ found[s] /\ snap[s] # {} /\ snap[s] \subseteq TxID
      /\ ReplicatorInv(s) /\ ReadingInv(s) /\ Stitches(s)
  <2>1. TypeOK /\ phase[s] = "reading" /\ found[s] /\ snap[s] # {} /\ ReplicatorInv(s) /\ SubscriberInv(s)
    BY DEF StitchInv, Stitched, StreamInv, CatchupSend
  <2>2. ReadingInv(s) /\ Stitches(s)
    BY <2>1 DEF SubscriberInv, ReadingInv
  <2>3. snap[s] \subseteq TxID
    BY <2>1 DEF TypeOK, ReadTypeOK
  <2> QED
    BY <2>1, <2>2, <2>3, SubFacts
<1>1. PICK b \in Watermark, h \in Watermark, e \in Position :
        /\ snap[s] = wm[s] + 1 .. h /\ wm[s] <= h /\ b <= h /\ h < e[1]
        /\ Path(<<b + 1, 0>>, backlog[s], e) /\ Aligned(s, e)
  BY <1>0 DEF Stitches
<1>2. PICK w \in Nat : w = wm[s] + 1
  BY <1>0
<1>3. h \in Nat /\ b \in Nat /\ e[1] \in Nat /\ w <= h /\ w \in snap[s] /\ w \in TxID
  <2>1. h \in Nat /\ b \in Nat /\ e[1] \in Nat
    BY ConstantsAssumption, PositionFacts DEF Watermark
  <2>2. w <= h
    BY <1>0, <1>1, <1>2, <2>1
  <2> QED
    BY <1>0, <1>1, <1>2, <2>1, <2>2
<1>4. SetMin(snap[s]) = w
  <2>1. snap[s] \in SUBSET Nat
    BY <1>0 DEF TxID
  <2>2. SetMin(snap[s]) \in snap[s] /\ SetMin(snap[s]) <= w
    BY <2>1, <1>0, <1>3, SetMinIsLeast
  <2>3. SetMin(snap[s]) >= w
    BY <2>2, <1>0, <1>1, <1>2, <1>3
  <2> QED
    BY <2>1, <2>2, <2>3
<1>5. /\ down'[s] = down[s] \o TxMsgs(w) /\ wm'[s] = w /\ snap'[s] = snap[s] \ {w}
      /\ UNCHANGED <<streamVars, sourceVars, storerVars, dbVars, fwdVars, phase, backlog, found, replicaVars>>
  BY <1>0, <1>4 DEF CatchupSend, TypeOK, SubTypeOK, ReadTypeOK
<1>6. \A t \in Subs \ {s} : Untouched(t)
  BY <1>0 DEF CatchupSend, Untouched, TypeOK, SubTypeOK, ReadTypeOK, fwdVars, replicaVars
<1>7. SentKept
  BY <1>5, SentQuiet DEF Commits, streamVars, sourceVars, storerVars, dbVars
<1>8. Path(At(s), down'[s], <<w + 1, 0>>)
  <2>1. Path(At(s), down[s], <<w, 0>>)
    BY <1>0, <1>2 DEF ReadingInv
  <2>2. Path(<<w, 0>>, TxMsgs(w), <<w + 1, 0>>) /\ TxMsgs(w) \in Seq(Message)
    BY <1>3, PathTx, TxMsgsType
  <2>3. Path(At(s), down[s] \o TxMsgs(w), <<w + 1, 0>>)
    BY <2>1, <2>2, <1>0, PathConcat
  <2> QED
    BY <2>3, <1>5
<1>9. Aligned(s, e)'
  <2>1. e[2] = SentPos /\ Sent(e[1] - 1)
    <3>1. e # <<wm[s] + 1, 0>>
      BY <1>1, <1>2, <1>3
    <3> QED
      BY <3>1, <1>1 DEF Aligned
  <2>2. PICK v \in Nat : v = e[1] - 1
    BY <1>1, <1>3
  <2>3. Sent(v)' /\ SentPos' = SentPos
    BY <2>1, <2>2, <1>7 DEF SentKept
  <2>4. e[1] > wm'[s]
    BY <1>1, <1>3, <1>5
  <2> QED
    BY <2>1, <2>2, <2>3, <2>4 DEF Aligned
<1>10. Stitches(s)'
  <2>1. snap'[s] = w + 1 .. h
    BY <1>0, <1>1, <1>2, <1>3, <1>5
  <2>2. w <= h /\ UNCHANGED backlog[s]
    BY <1>3, <1>5
  <2>3. Path(<<b + 1, 0>>, backlog'[s], e)
    BY <2>2, <1>1
  <2> QED
    BY <2>1, <2>2, <2>3, <1>1, <1>5, <1>9 DEF Stitches
<1>11. ReplicatorInv(s)' /\ SubscriberInv(s)'
  <2>1. UNCHANGED <<phase[s], fwd[s], backlog[s], replica[s], repTx[s], size[s], have[s], At(s)>>
    BY <1>5 DEF fwdVars, replicaVars, At
  <2>2. ReplicatorInv(s)'
    BY <2>1, <1>0 DEF ReplicatorInv
  <2>3. Path(At(s), down[s], <<wm[s] + 1, 0>>)'
    BY <2>1, <1>5, <1>8
  <2>4. ReadingInv(s)'
    BY <2>1, <2>3, <1>0, <1>10 DEF ReadingInv
  <2> QED
    BY <2>1, <2>2, <2>4, <1>0 DEF SubscriberInv, ReadingInv
<1> QED
  BY <1>5, <1>6, <1>11, OneStitched DEF fwdVars

LEMMA CatchupDoneStitched ==
  ASSUME StitchInv, NEW s \in Subs, CatchupDone(s)
  PROVE  Stitched'
<1>0. /\ TypeOK /\ wm[s] \in Nat /\ down[s] \in Seq(Message) /\ backlog[s] \in Seq(Message)
      /\ phase[s] = "reading" /\ snap[s] = {}
      /\ ReplicatorInv(s) /\ ReadingInv(s) /\ Stitches(s)
  <2>1. TypeOK /\ phase[s] = "reading" /\ snap[s] = {} /\ ReplicatorInv(s) /\ SubscriberInv(s)
    BY DEF StitchInv, Stitched, StreamInv, CatchupDone
  <2>2. ReadingInv(s) /\ Stitches(s)
    BY <2>1 DEF SubscriberInv, ReadingInv
  <2> QED
    BY <2>1, <2>2, SubFacts
<1>1. PICK b \in Watermark, h \in Watermark, e \in Position :
        /\ snap[s] = wm[s] + 1 .. h /\ wm[s] <= h /\ b <= h /\ h < e[1]
        /\ Path(<<b + 1, 0>>, backlog[s], e) /\ Aligned(s, e)
  BY <1>0 DEF Stitches
<1>2. PICK x \in Nat : x = wm[s]
  BY <1>0
<1>3. h = x /\ b \in Nat /\ e[1] \in Nat /\ b <= x /\ e[1] > x
  <2>1. h \in Nat /\ b \in Nat /\ e[1] \in Nat
    BY ConstantsAssumption, PositionFacts DEF Watermark
  <2>2. ~(x + 1 <= h)
    <3>1. x + 1 .. h = {}
      BY <1>0, <1>1, <1>2
    <3>2. ASSUME x + 1 <= h
          PROVE  x + 1 \in x + 1 .. h
      BY <3>2, <2>1
    <3> QED
      BY <3>1, <3>2
  <2> QED
    BY <1>1, <1>2, <2>1, <2>2
<1>4. PICK flushed \in Seq(Message) : flushed = Flushed(s)
  BY <1>0, FlushedType DEF TypeOK
<1>5. Path(<<x + 1, 0>>, flushed, e)
  <2>1. PICK newer : newer = {i \in DOMAIN backlog[s] : backlog[s][i].w > x}
    OBVIOUS
  <2>2. flushed = IF newer = {} THEN <<>> ELSE SubSeq(backlog[s], SetMin(newer), Len(backlog[s]))
    BY <1>2, <1>4, <2>1 DEF Flushed
  <2>3. Path(<<b + 1, 0>>, backlog[s], e)
    BY <1>1
  <2>4. Path(<<x + 1, 0>>, IF newer = {} THEN <<>> ELSE SubSeq(backlog[s], SetMin(newer), Len(backlog[s])), e)
    BY <2>1, <2>3, <1>0, <1>3, PathCut
  <2> QED
    BY <2>2, <2>4
<1>6. WatermarkAfter(x, flushed) = e[1] - 1
  BY <1>3, <1>5, PathWatermark
<1>7. /\ down'[s] = down[s] \o flushed /\ wm'[s] = e[1] - 1 /\ backlog'[s] = <<>> /\ phase'[s] = "live"
      /\ UNCHANGED <<streamVars, sourceVars, storerVars, dbVars, fwdVars, readVars, replicaVars>>
  BY <1>0, <1>2, <1>4, <1>6 DEF CatchupDone, TypeOK, SubTypeOK
<1>8. \A t \in Subs \ {s} : Untouched(t)
  BY <1>0 DEF CatchupDone, Untouched, TypeOK, SubTypeOK, fwdVars, readVars, replicaVars
<1>9. SentKept
  BY <1>7, SentQuiet DEF Commits, streamVars, sourceVars, storerVars, dbVars
<1>10. Path(At(s), down'[s], e)
  <2>1. Path(At(s), down[s], <<x + 1, 0>>)
    BY <1>0, <1>2 DEF ReadingInv
  <2>2. Path(At(s), down[s] \o flushed, e)
    BY <2>1, <1>0, <1>4, <1>5, PathConcat
  <2> QED
    BY <2>2, <1>7
<1>11. Aligned(s, e)'
  <2>1. e[1] > wm'[s] /\ wm'[s] >= x
    BY <1>3, <1>7
  <2>2. CASE e[2] = SentPos /\ Sent(e[1] - 1)
    <3>1. PICK v \in Nat : v = e[1] - 1
      BY <1>3
    <3>2. Sent(v)' /\ SentPos' = SentPos
      BY <3>1, <2>2, <1>9 DEF SentKept
    <3> QED
      BY <3>1, <3>2, <2>1, <2>2 DEF Aligned
  <2>3. CASE e = <<wm[s] + 1, 0>> /\ \E v \in Watermark : Sent(v) /\ v < wm[s]
    <3>1. wm'[s] = wm[s]
      BY <2>3, <1>0, <1>7
    <3> QED
      BY <3>1, <1>0, <1>1, <1>9, AlignedKept
  <2> QED
    BY <2>2, <2>3, <1>1 DEF Aligned
<1>12. ReplicatorInv(s)' /\ SubscriberInv(s)'
  <2>1. UNCHANGED <<fwd[s], replica[s], repTx[s], size[s], have[s], At(s)>>
    BY <1>7 DEF fwdVars, replicaVars, At
  <2>2. ReplicatorInv(s)'
    BY <2>1, <1>0, <1>7 DEF ReplicatorInv
  <2>3. Path(At(s), down[s], e)'
    BY <2>1, <1>10
  <2>4. e[1] = wm'[s] + 1
    BY <1>3, <1>7
  <2>5. LiveInv(s)'
    BY <2>1, <2>3, <2>4, <1>0, <1>11 DEF LiveInv, ReadingInv
  <2> QED
    BY <2>1, <2>2, <2>5, <1>0, <1>7 DEF SubscriberInv, ReadingInv
<1> QED
  BY <1>7, <1>8, <1>12, OneStitched DEF fwdVars

LEMMA CatchupRejectStitched ==
  ASSUME StitchInv, NEW s \in Subs, CatchupReject(s)
  PROVE  Stitched'
<1>0. /\ TypeOK /\ LoopInv /\ wm[s] \in Nat /\ down[s] \in Seq(Message)
      /\ phase[s] = "reading" /\ ReplicatorInv(s) /\ ReadingInv(s)
  <2>1. TypeOK /\ LoopInv /\ phase[s] = "reading" /\ ReplicatorInv(s) /\ SubscriberInv(s)
    BY DEF StitchInv, Stitched, StreamInv, CatchupReject
  <2>2. ReadingInv(s)
    BY <2>1 DEF SubscriberInv
  <2> QED
    BY <2>1, <2>2, SubFacts
<1>1. /\ phase'[s] = "failed" /\ down'[s] = Append(down[s], Msg("error", NoTx))
      /\ UNCHANGED <<loop, cur, sourceVars, storer, tx, catchupQueue, backPressure, dbVars, fwdVars, wm, backlog, readVars, replicaVars>>
      /\ \/ queue' = Append(queue, Stop)
         \/ UNCHANGED <<running, streamOpen, queue>>
  BY <1>0 DEF CatchupReject, TypeOK, SubTypeOK
<1>2. \A t \in Subs \ {s} : Untouched(t)
  BY <1>0 DEF CatchupReject, Untouched, TypeOK, SubTypeOK, fwdVars, readVars, replicaVars
<1>3. ReplicatorInv(s)' /\ SubscriberInv(s)'
  <2>1. Msg("error", NoTx) \in Message
    BY ConstantsAssumption DEF Message, Msg, NoTx, Watermark
  <2>2. <<wm[s] + 1, 0>> \in Position /\ Over \in Position
    BY <1>0 DEF Position, Over
  <2>3. Follows(<<wm[s] + 1, 0>>, Msg("error", NoTx), Over)
    BY <1>0 DEF Follows
  <2>4. Path(At(s), down'[s], Over)
    BY <2>1, <2>2, <2>3, <1>0, <1>1, PathAppend DEF ReadingInv
  <2>5. UNCHANGED <<fwd[s], backlog[s], replica[s], repTx[s], size[s], have[s], At(s)>>
    BY <1>1 DEF fwdVars, replicaVars, At
  <2>6. ReplicatorInv(s)'
    BY <2>5, <1>0, <1>1 DEF ReplicatorInv
  <2>7. FailedInv(s)'
    BY <2>2, <2>4, <2>5 DEF FailedInv
  <2> QED
    BY <2>5, <2>6, <2>7, <1>0, <1>1 DEF SubscriberInv, ReadingInv
<1>4. CASE UNCHANGED <<running, streamOpen, queue>>
  BY <1>1, <1>2, <1>3, <1>4, OneStitched DEF streamVars, storerVars, fwdVars
<1>5. CASE queue' = Append(queue, Stop)
  <2>1. UNCHANGED <<loop, cur, srcNext, srcPos, storer, tx, catchupQueue, lastWatermark, inTransaction>>
    BY <1>1 DEF sourceVars, dbVars, fwdVars
  <2>2. PICK e \in QueueEntry : e = Stop
    BY EntryType
  <2>3. e.type = "stop" /\ ~IsCommit(e)
    BY <2>2 DEF Stop, IsCommit
  <2>4. SentKept
    BY <2>1, <2>2, <2>3, <1>0, <1>5, SentAppend
  <2>5. LoopInv'
    BY <2>1, <1>0, LoopFrame DEF Sending
  <2> DEFINE S == {s}
  <2>6. /\ \A t \in Subs \ S : Untouched(t)
        /\ \A t \in S \cap Subs : phase[t]' # "waiting" /\ ReplicatorInv(t)' /\ SubscriberInv(t)'
    BY <1>1, <1>2, <1>3
  <2> HIDE DEF S
  <2> QED
    BY <2>1, <2>2, <2>3, <2>4, <2>5, <2>6, <1>5, AppendStitched
<1> QED
  BY <1>1, <1>4, <1>5

\* A replicator takes the next message.
LEMMA ConsumeSub ==
  ASSUME TypeOK, SentKept, NEW s \in Subs, SubscriberInv(s),
         ReplicatorInv(s), down[s] # <<>>, down[s]' = Tail(down[s]),
         UNCHANGED <<phase[s], wm[s], fwd[s], backlog[s], found[s], snap[s]>>,
         \A b \in Position : Follows(At(s), Head(down[s]), b) => At(s)' = b
  PROVE  SubscriberInv(s)'
<1>0. /\ wm[s] \in Nat /\ down[s] \in Seq(Message) /\ phase[s] \notin {"none", "waiting"}
  BY SubFacts DEF ReplicatorInv
<1>1. ASSUME NEW e, Path(At(s), down[s], e)
      PROVE  Path(At(s), down[s], e)'
  <2>1. PICK b \in Position : Follows(At(s), Head(down[s]), b) /\ Path(b, Tail(down[s]), e)
    BY <1>0, <1>1, PathTail
  <2>2. At(s)' = b
    BY <2>1
  <2> QED
    BY <2>1, <2>2
<1>2. ASSUME NEW e \in Position, Aligned(s, e)
      PROVE  Aligned(s, e)'
  BY <1>0, <1>2, AlignedKept
<1>3. Stitches(s) => Stitches(s)'
  BY <1>2 DEF Stitches
<1>4. phase[s] = "reading" => ReadingInv(s)'
  <2>1. SUFFICES ASSUME phase[s] = "reading"
                 PROVE  ReadingInv(s)'
    OBVIOUS
  <2>2. ReadingInv(s)
    BY <2>1 DEF SubscriberInv
  <2>3. PICK e : e = <<wm[s] + 1, 0>>
    OBVIOUS
  <2>4. Path(At(s), down[s], e)'
    BY <2>2, <2>3, <1>1 DEF ReadingInv
  <2>5. Path(At(s), down[s], <<wm[s] + 1, 0>>)'
    BY <2>3, <2>4
  <2> QED
    BY <2>2, <2>5, <1>3 DEF ReadingInv
<1>5. phase[s] = "failed" => FailedInv(s)'
  BY <1>1 DEF SubscriberInv, FailedInv
<1>6. phase[s] = "live" => LiveInv(s)'
  <2>1. SUFFICES ASSUME phase[s] = "live"
                 PROVE  LiveInv(s)'
    OBVIOUS
  <2>2. fwd[s] = "active"
    BY <2>1 DEF SubscriberInv, LiveInv
  <2>3. PICK e \in Position : Path(At(s), down[s], e) /\ e[1] = wm[s] + 1 /\ Aligned(s, e)
    BY <2>1 DEF SubscriberInv, LiveInv
  <2>4. Path(At(s), down[s], e)' /\ Aligned(s, e)'
    BY <2>3, <1>1, <1>2
  <2> QED
    BY <2>2, <2>3, <2>4 DEF LiveInv
<1> QED
  BY <1>0, <1>4, <1>5, <1>6 DEF SubscriberInv

\* The four messages a replicator expects take it where they lead.
LEMMA ConsumeReplicator ==
  ASSUME StitchInv, NEW s \in Subs,
         ConsumeBegin(s) \/ ConsumeData(s) \/ ConsumeCommit(s) \/ ConsumeRollback(s),
         NEW b \in Position, Follows(At(s), Head(down[s]), b)
  PROVE  /\ ReplicatorInv(s)' /\ At(s)' = b
         /\ \/ UNCHANGED replica /\ UNCHANGED have
            \/ /\ ConsumeCommit(s) /\ replica[s] \in Nat
               /\ replica' = [replica EXCEPT ![s] = replica[s] + 1]
<1>0. /\ TypeOK /\ ReplicatorInv(s) /\ down[s] # <<>> /\ UNCHANGED phase
      /\ phase[s] \notin {"none", "waiting"}
      /\ replica[s] \in Nat /\ size[s] \in Nat /\ DataPerTx \in Nat
  <2>1. TypeOK /\ ReplicatorInv(s) /\ down[s] # <<>> /\ UNCHANGED phase
    BY DEF StitchInv, Stitched, StreamInv, ConsumeBegin, ConsumeData, ConsumeCommit,
           ConsumeRollback, Receives, Consumed
  <2> QED
    BY <2>1, SubFacts DEF ReplicatorInv
<1>1. PICK m : m = Head(down[s])
  OBVIOUS
<1>2. PICK x \in Nat, p \in Nat : x = replica[s] + 1 /\ p = IF repTx[s] = NoTx THEN 0 ELSE size[s] + 1
  BY <1>0
<1>3. /\ At(s) = <<x, p>>
      /\ \/ /\ m = TxMsg(x, p) /\ p <= DataPerTx + 1
            /\ b = IF p = DataPerTx + 1 THEN <<x + 1, 0>> ELSE <<x, p + 1>>
         \/ m = Msg("rollback", x) /\ b = <<x, 0>>
         \/ m = Msg("error", NoTx)
  <2>1. At(s) = <<x, p>>
    BY <1>2 DEF At
  <2>2. Follows(<<x, p>>, m, b)
    BY <1>1, <2>1
  <2> QED
    BY <2>1, <2>2 DEF Follows
<1>4. repTx[s] \in {NoTx, x} /\ x > 0
  BY <1>0, <1>2 DEF ReplicatorInv
<1>5. CASE ConsumeBegin(s)
  <2>1. /\ m.tag = "begin" /\ repTx[s] = NoTx /\ repTx'[s] = m.w
        /\ UNCHANGED <<size, replica, have>>
    BY <1>0, <1>1, <1>5 DEF ConsumeBegin, Receives, TypeOK, ReplicaTypeOK
  <2>2. p = 0 /\ size[s] = 0
    BY <2>1, <1>0, <1>2 DEF ReplicatorInv
  <2>3. m = TxMsg(x, 0) /\ m.w = x /\ b = <<x, 1>>
    BY <2>1, <2>2, <1>0, <1>3 DEF TxMsg, Msg
  <2>4. At(s)' = b
    BY <2>1, <2>2, <2>3, <1>2, <1>4 DEF At, NoTx
  <2>5. ReplicatorInv(s)'
    BY <2>1, <2>2, <2>3, <1>0, <1>2, <1>4 DEF ReplicatorInv, NoTx
  <2> QED
    BY <2>1, <2>4, <2>5
<1>6. CASE ConsumeData(s)
  <2>1. /\ m.tag = "data" /\ repTx[s] # NoTx /\ size'[s] = size[s] + 1
        /\ UNCHANGED <<repTx, replica, have>>
    BY <1>0, <1>1, <1>6 DEF ConsumeData, Receives, TypeOK, ReplicaTypeOK
  <2>2. p = size[s] + 1
    BY <2>1, <1>2
  <2>3. p <= DataPerTx /\ b = <<x, p + 1>>
    BY <2>1, <2>2, <1>0, <1>3 DEF TxMsg, Msg
  <2>4. At(s)' = b
    BY <2>1, <2>2, <2>3, <1>2 DEF At
  <2>5. ReplicatorInv(s)'
    BY <2>1, <2>2, <2>3, <1>0 DEF ReplicatorInv
  <2> QED
    BY <2>1, <2>4, <2>5
<1>7. CASE ConsumeCommit(s)
  <2>1. /\ m.tag = "commit" /\ repTx[s] # NoTx /\ repTx'[s] = NoTx /\ size'[s] = 0
        /\ replica' = [replica EXCEPT ![s] = m.w]
        /\ have'[s] = IF size[s] = DataPerTx THEN Append(have[s], repTx[s]) ELSE have[s]
    BY <1>0, <1>1, <1>7 DEF ConsumeCommit, Receives, TypeOK, ReplicaTypeOK
  <2>2. p = size[s] + 1 /\ repTx[s] = x
    BY <2>1, <1>2, <1>4
  <2>3. m = TxMsg(x, p) /\ p <= DataPerTx + 1 /\ b = IF p = DataPerTx + 1 THEN <<x + 1, 0>> ELSE <<x, p + 1>>
    BY <2>1, <1>3 DEF Msg
  <2>4. p = DataPerTx + 1 /\ m.w = x
    BY <2>1, <2>3, <1>0 DEF TxMsg, Msg
  <2>5. b = <<x + 1, 0>> /\ size[s] = DataPerTx
    BY <2>2, <2>3, <2>4, <1>0
  <2>6. replica'[s] = x /\ replica' = [replica EXCEPT ![s] = replica[s] + 1]
    BY <2>1, <2>4, <1>0, <1>2 DEF TypeOK, ReplicaTypeOK
  <2>7. At(s)' = b
    BY <2>1, <2>5, <2>6 DEF At
  <2>8. have'[s] = [i \in 1 .. x |-> i]
    <3>1. have'[s] = Append(have[s], x)
      BY <2>1, <2>2, <2>5
    <3>2. have[s] = [i \in 1 .. replica[s] |-> i]
      BY <1>0 DEF ReplicatorInv
    <3>3. have[s] \in Seq(Nat) /\ Len(have[s]) = replica[s]
      <4>1. have[s] \in [1 .. replica[s] -> Nat]
        BY <3>2, <1>0
      <4> QED
        BY <4>1, <1>0, LenProperties, IsASeq, SMT
    <3>4. /\ Append(have[s], x) \in Seq(Nat) /\ Len(Append(have[s], x)) = x
          /\ \A i \in 1 .. replica[s] : Append(have[s], x)[i] = have[s][i]
          /\ Append(have[s], x)[x] = x
      BY <3>3, <1>2, AppendProperties
    <3>5. DOMAIN Append(have[s], x) = 1 .. x
      BY <3>4, LenProperties
    <3>6. \A i \in 1 .. x : Append(have[s], x)[i] = i
      BY <3>2, <3>4, <1>0, <1>2
    <3>7. Append(have[s], x) = [i \in DOMAIN Append(have[s], x) |-> Append(have[s], x)[i]]
      BY <3>4, LenProperties
    <3> QED
      BY <3>1, <3>5, <3>6, <3>7
  <2>9. ReplicatorInv(s)'
    <3>1. have'[s] = [i \in 1 .. replica'[s] |-> i]
      BY <2>6, <2>8
    <3> QED
      BY <3>1, <2>1, <1>0 DEF ReplicatorInv
  <2> QED
    BY <2>6, <2>7, <2>9, <1>0, <1>7
<1>8. CASE ConsumeRollback(s)
  <2>1. /\ m.tag = "rollback" /\ repTx'[s] = NoTx /\ size'[s] = 0 /\ UNCHANGED <<replica, have>>
    BY <1>0, <1>1, <1>8 DEF ConsumeRollback, Receives, TypeOK, ReplicaTypeOK
  <2>2. b = <<x, 0>>
    BY <2>1, <1>3 DEF TxMsg, Msg
  <2>3. At(s)' = b
    BY <2>1, <2>2, <1>2 DEF At
  <2>4. ReplicatorInv(s)'
    BY <2>1, <1>0 DEF ReplicatorInv
  <2> QED
    BY <2>1, <2>3, <2>4
<1> QED
  BY <1>5, <1>6, <1>7, <1>8

\* There is somewhere the next message leads.
LEMMA NextFollows ==
  ASSUME TypeOK, NEW s \in Subs, ReplicatorInv(s), SubscriberInv(s), down[s] # <<>>
  PROVE  \E b \in Position : Follows(At(s), Head(down[s]), b)
<1>1. down[s] \in Seq(Message)
  BY SubFacts
<1>2. phase[s] \in {"reading", "failed", "live"}
  BY DEF ReplicatorInv, TypeOK, SubTypeOK
<1>3. \E e : Path(At(s), down[s], e)
  BY <1>2 DEF SubscriberInv, ReadingInv, FailedInv, LiveInv
<1> QED
  BY <1>1, <1>3, PathTail

LEMMA ConsumeStitched ==
  ASSUME StitchInv, NEW s \in Subs, Consume(s)
  PROVE  Stitched'
<1>0. TypeOK /\ ReplicatorInv(s) /\ SubscriberInv(s)
  BY DEF StitchInv, Stitched, StreamInv
<1>1. CASE ConsumeError(s) \/ ConsumeUnexpected(s)
  BY <1>1, CloseStitched DEF ConsumeError, ConsumeUnexpected, Fails
<1>2. CASE ConsumeBegin(s) \/ ConsumeData(s) \/ ConsumeCommit(s) \/ ConsumeRollback(s)
  <2>1. /\ down[s] # <<>> /\ down'[s] = Tail(down[s])
        /\ UNCHANGED <<streamVars, sourceVars, storerVars, dbVars, fwdVars, readVars, phase, wm, backlog>>
    BY <1>0, <1>2 DEF ConsumeBegin, ConsumeData, ConsumeCommit, ConsumeRollback, Receives,
                      Consumed, TypeOK, SubTypeOK
  <2>2. \A t \in Subs \ {s} : Untouched(t)
    BY ZenonT(60), <1>0, <1>2
    DEF ConsumeBegin, ConsumeData, ConsumeCommit, ConsumeRollback, Consumed, Untouched,
        TypeOK, SubTypeOK, ReplicaTypeOK, fwdVars, readVars
  <2>3. SentKept
    BY <2>1, SentQuiet DEF Commits, streamVars, sourceVars, storerVars, dbVars
  <2>4. PICK b \in Position : Follows(At(s), Head(down[s]), b)
    BY <1>0, <2>1, NextFollows
  <2>5. ReplicatorInv(s)' /\ \A c \in Position : Follows(At(s), Head(down[s]), c) => At(s)' = c
    BY <2>4, <1>2, ConsumeReplicator
  <2>6. SubscriberInv(s)'
    BY <2>1, <2>3, <2>5, <1>0, ConsumeSub DEF fwdVars, readVars
  <2>7. UNCHANGED inTransaction
    BY <2>1 DEF fwdVars
  <2> QED
    BY <2>1, <2>2, <2>5, <2>6, <2>7, OneStitched
<1> QED
  BY <1>1, <1>2 DEF Consume

\* As long as the storer runs, something has been sent last.
LEMMA SentExists ==
  ASSUME StreamInv, storer # "stopped"
  PROVE  \E v \in Watermark :
           /\ Sent(v)
           /\ v <= lastWatermark \/ \E j \in Commits : queue[j].msg.w = v
<1>0. /\ TypeOK /\ lastWatermark \in Watermark /\ lastWatermark \in Nat /\ srcNext \in Nat
      /\ srcNext > 0 /\ srcNext - 1 \in Watermark /\ MaxTx \in Nat
      /\ CommitsInOrder /\ SourceFollowsQueue
  BY ConstantsAssumption
  DEF StreamInv, TypeOK, DbTypeOK, StreamTypeOK, Watermark, QueueInOrder
<1>q. \A i \in Commits : queue[i].msg.w \in Watermark /\ queue[i].msg.w \in Nat
  BY <1>0, QueueFacts DEF TxID, Watermark
<1>1. CASE Sending
  <2>1. PICK v \in Watermark : v = srcNext - 1
    BY <1>0
  <2>2. Sent(v)
    BY <1>1, <2>1 DEF Sent, Sending
  <2>3. v <= lastWatermark \/ \E j \in Commits : queue[j].msg.w = v
    BY <1>0, <1>1, <2>1 DEF SourceFollowsQueue, Sending
  <2> QED
    BY <2>2, <2>3
<1>2. CASE loop = "connect"
  <2>1. Sent(lastWatermark)
    BY <1>2 DEF Sent, Sending
  <2> QED
    BY <1>0, <2>1
<1>3. CASE loop \in {"waitReady", "backoff", "done"}
  <2>1. CASE Commits = {}
    <3>1. Sent(lastWatermark)
      BY <1>0, <1>3, <2>1 DEF Sent, Sending
    <3> QED
      BY <1>0, <3>1
  <2>2. CASE Commits # {}
    <3> DEFINE W == {queue[i].msg.w : i \in Commits}
    <3>1. W \in SUBSET (0 .. MaxTx) /\ W # {}
      BY <1>q, <2>2 DEF Watermark
    <3>2. PICK v \in W : \A y \in W : v >= y
      BY <3>1, <1>0, SetMaxIsGreatest
    <3>3. PICK i \in Commits : queue[i].msg.w = v
      BY <3>2
    <3>4. v \in Watermark /\ v \in Nat /\ v > lastWatermark
      BY <3>3, <1>q, <1>0 DEF CommitsInOrder
    <3>5. \A j \in Commits : v >= queue[j].msg.w
      BY <3>2
    <3>6. v >= lastWatermark
      BY <3>4, <1>0
    <3> HIDE DEF W
    <3>7. Sent(v)
      BY <3>3, <3>5, <3>6, <1>3 DEF Sent, Sending
    <3> QED
      BY <3>3, <3>4, <3>7
  <2> QED
    BY <2>1, <2>2
<1> QED
  BY <1>0, <1>1, <1>2, <1>3 DEF TypeOK, StreamTypeOK, Sending

LEMMA SubscribeStitched ==
  ASSUME StitchInv, NEW s \in Subs, Subscribe(s)
  PROVE  Stitched'
<1>0. /\ StreamInv /\ TypeOK /\ LoopInv /\ replica[s] \in Nat /\ replica[s] \in Watermark
      /\ lastWatermark \in Nat
      /\ phase[s] = "none" /\ fwd[s] = "none" /\ backlog[s] = <<>>
      /\ ReplicatorInv(s)
  <2>1. StreamInv /\ TypeOK /\ LoopInv /\ phase[s] = "none" /\ ReplicatorInv(s) /\ SubscriberInv(s)
    BY DEF StitchInv, Stitched, StreamInv, Subscribe
  <2>2. fwd[s] = "none" /\ backlog[s] = <<>>
    BY <2>1 DEF SubscriberInv
  <2> QED
    BY <2>1, <2>2, SubFacts
<1>1. /\ phase'[s] = "waiting" /\ wm'[s] = replica[s]
      /\ fwd'[s] = IF inTransaction THEN "queued" ELSE "active"
      /\ queue' = Append(queue, Subscriber(s)) /\ ~Stale(s)
      /\ UNCHANGED <<loop, cur, srcNext, srcPos, storer, tx, catchupQueue, lastWatermark, inTransaction,
                     readVars, backlog, down, replicaVars>>
  BY <1>0 DEF Subscribe, TypeOK, SubTypeOK, streamVars, sourceVars, dbVars
<1>2. \A t \in Subs \ {s} : Untouched(t)
  BY <1>0 DEF Subscribe, Untouched, TypeOK, SubTypeOK, readVars, replicaVars
<1>3. PICK e \in QueueEntry : e = Subscriber(s)
  BY EntryType
<1>4. ~IsBegin(e) /\ ~Ends(e) /\ ~IsCommit(e) /\ \A t \in Subs \ {s} : e # Subscriber(t)
  BY <1>3 DEF IsBegin, Ends, IsCommit, Subscriber
<1>5. SentKept
  BY <1>0, <1>1, <1>3, <1>4, SentAppend
<1>6. LoopInv'
  BY <1>0, <1>1, LoopFrame DEF Sending
<1>7. storer' # "stopped" => QueueBracketed'
  BY <1>0, <1>1, <1>3, <1>4, BracketedAppend DEF StitchInv, Stitched
<1>8. ASSUME NEW t \in Subs \ {s}
      PROVE  ReplicatorInv(t)' /\ SubscriberInv(t)'
  <2>1. Untouched(t)
    BY <1>2
  <2>2. phase[t] = "waiting" /\ storer' # "stopped" => Waits(t)'
    BY <1>0, <1>1, <1>3, <1>4, <1>5, <2>1, WaitsAppend
    DEF StitchInv, Stitched, SubscriberInv, WaitingInv
  <2> QED
    BY <1>0, <1>5, <2>1, <2>2, SubFrame DEF StitchInv, Stitched
<1>9. ReplicatorInv(s)'
  BY <1>0, <1>1 DEF ReplicatorInv, replicaVars
<1>10. PICK n \in Nat : n = Len(queue) /\ Len(queue') = n + 1 /\ Entries(s)' \subseteq {n + 1}
  <2>1. PICK n \in Nat : n = Len(queue)
    BY <1>0, QueueFacts
  <2>2. /\ DOMAIN queue = 1 .. n /\ DOMAIN queue' = 1 .. n + 1 /\ \A i \in 1 .. n : queue'[i] = queue[i]
    BY <2>1, <1>0, <1>1, <1>3, AppendedQueue DEF TypeOK, StorerTypeOK
  <2>3. Len(queue') = n + 1
    BY <2>1, <1>0, <1>1, <1>3, AppendProperties DEF TypeOK, StorerTypeOK
  <2>4. ASSUME NEW i \in Entries(s)'
        PROVE  i = n + 1
    <3>1. i \in 0 .. n + 1 /\ IF i = 0 THEN s \in catchupQueue' ELSE queue'[i] = Subscriber(s)
      BY <2>4, <2>3 DEF Entries
    <3>2. i # 0
      BY <3>1, <1>1 DEF Stale
    <3>3. i \notin 1 .. n
      BY <3>1, <3>2, <2>2, <1>1 DEF Stale
    <3> QED
      BY <3>1, <3>2, <3>3
  <2> QED
    BY SMTT(60), <2>1, <2>3, <2>4
<1>11. ASSUME storer' # "stopped"
       PROVE  Waits(s)'
  <2>1. CASE inTransaction
    <3>1. fwd'[s] = "queued" /\ inTransaction' /\ backlog'[s] = <<>>
      BY <1>0, <1>1, <2>1
    <3>2. \A i \in Entries(s)' : \A k \in i + 1 .. Len(queue') : ~IsBegin(queue'[k])
      BY <1>10
    <3> QED
      BY <3>1, <3>2 DEF Waits
  <2>2. CASE ~inTransaction
    <3>1. SentPos = 0 /\ SentPos' = 0 /\ fwd'[s] = "active" /\ backlog'[s] = <<>>
      <4>1. ~(SentPos > 0)
        BY <1>0, <2>2, Zenon DEF LoopInv
      <4>2. SentPos \in Nat
        BY <1>0, ConstantsAssumption DEF SentPos, TypeOK, StreamTypeOK
      <4> QED
        BY <4>1, <4>2, <1>0, <1>1, <1>5, <2>2 DEF SentKept
    <3>2. PICK v \in Watermark :
            /\ Sent(v)
            /\ v <= lastWatermark \/ \E j \in Commits : queue[j].msg.w = v
      BY <1>0, <1>1, <1>11, SentExists
    <3>3. v \in Nat /\ Sent(v)'
      BY <3>2, <1>5, ConstantsAssumption DEF Watermark, SentKept
    <3>4. v <= lastWatermark' \/ \E j \in Commits' : queue'[j].msg.w = v
      <4>1. Commits' = Commits /\ Commits \subseteq 1 .. n /\ \A i \in 1 .. n : queue'[i] = queue[i]
        BY <1>0, <1>1, <1>3, <1>4, <1>10, AppendedQueue, QueueFacts DEF TypeOK, StorerTypeOK
      <4> QED
        BY <4>1, <3>2, <1>1
    <3>5. PICK b \in Watermark : /\ b = IF v >= wm'[s] THEN v ELSE wm'[s]
      BY <1>0, <1>1
    <3>6. PICK x \in Nat : x = wm'[s]
      BY <1>0, <1>1
    <3>7. b \in Nat /\ b >= x /\ (b = x \/ (b = v /\ v >= x))
      BY <3>3, <3>5, <3>6
    <3>8. PICK p \in Position : p = <<b + 1, 0>>
      <4>1. b \in Nat
        BY <3>7
      <4>2. b + 1 \in Nat /\ 0 \in Nat
        BY <4>1
      <4>3. <<b + 1, 0>> \in Nat \X Nat
        BY <4>2
      <4> QED
        BY <4>3 DEF Position
    <3>9. Path(<<b + 1, 0>>, backlog'[s], p)
      BY <3>1, <3>8, PathEmpty
    <3>10. Aligned(s, p)'
      <4>1. p[1] > wm'[s] /\ p[2] = 0
        BY <3>6, <3>7, <3>8
      <4>2. CASE v >= x
        <5>1. p[1] - 1 = v
          BY <4>2, <3>5, <3>6, <3>7, <3>8
        <5> QED
          BY <5>1, <4>1, <3>1, <3>3 DEF Aligned
      <4>3. CASE ~(v >= x)
        <5>1. p = <<wm'[s] + 1, 0>> /\ v < wm'[s]
          BY <4>3, <3>3, <3>5, <3>6, <3>8
        <5> QED
          BY <5>1, <4>1, <3>3 DEF Aligned
      <4> QED
        BY <4>2, <4>3
    <3>11. \A i \in Entries(s)' : Covered(s, i, b)'
      <4>1. Commits' \subseteq 1 .. n + 1
        BY <1>10, <1>0, <1>1, <1>3, AppendedQueue, QueueFacts DEF TypeOK, StorerTypeOK
      <4>2. ASSUME NEW j \in Commits', j > n + 1
            PROVE  FALSE
        BY <4>1, <4>2
      <4> QED
        BY <4>2, <1>10 DEF Covered
    <3>12. b >= wm'[s] /\ b < p[1]
      BY <3>6, <3>7, <3>8
    <3>13. b = wm'[s] \/ b <= lastWatermark' \/ \E j \in Commits' : queue'[j].msg.w = b
      BY <3>4, <3>6, <3>7
    <3> QED
      BY <3>1, <3>9, <3>10, <3>11, <3>12, <3>13 DEF Waits
  <2> QED
    BY <2>1, <2>2
<1>12. SubscriberInv(s)'
  <2>1. wm'[s] = replica'[s]
    BY <1>1 DEF replicaVars
  <2>2. WaitingInv(s)'
    BY <2>1, <1>11 DEF WaitingInv
  <2>3. fwd'[s] # "none"
    BY <1>1
  <2> QED
    BY <2>2, <2>3, <1>1 DEF SubscriberInv
<1> QED
  BY <1>6, <1>7, <1>8, <1>9, <1>12 DEF Stitched

-----------------------------------------------------------------------------
(* Every step *)

LEMMA StitchedStep ==
  ASSUME StitchInv, [Next]_vars
  PROVE  Stitched'
<1>1. CASE UNCHANGED vars
  <2>1. /\ UNCHANGED <<loop, cur, srcNext, srcPos, queue, storer, tx, catchupQueue, lastWatermark,
                       inTransaction, fwdVars, readVars, subVars, replicaVars>>
    BY <1>1 DEF vars, streamVars, sourceVars, storerVars, dbVars, fwdVars
  <2>2. SentKept
    BY <2>1, SentQuiet DEF Commits
  <2>3. LoopInv'
    BY <2>1, LoopFrame DEF Sending, StitchInv, Stitched
  <2> QED
    BY <2>1, <2>2, <2>3, QuietStitched
<1>2. CASE \E s \in Subs : Subscribe(s) \/ Disconnect(s) \/ Catchup(s) \/ Consume(s)
  <2>1. PICK s \in Subs : Subscribe(s) \/ Disconnect(s) \/ Catchup(s) \/ Consume(s)
    BY <1>2
  <2>2. CASE Disconnect(s)
    BY <2>2, CloseStitched DEF Disconnect, streamVars
  <2>3. CASE Catchup(s)
    BY <2>3, CatchupSendStitched, CatchupRejectStitched, CatchupDoneStitched DEF Catchup
  <2> QED
    BY <2>1, <2>2, <2>3, SubscribeStitched, ConsumeStitched
<1> QED
  BY <1>1, <1>2, StreamStitched, LifeStitched, StoreStitched DEF Next

\* A replica moves by the commit of its next transaction, or not at all.
LEMMA ReplicaStep ==
  ASSUME StitchInv, [Next]_vars
  PROVE  \/ UNCHANGED replica
         \/ \E s \in Subs : /\ ConsumeCommit(s) /\ replica[s] \in Nat
                            /\ replica' = [replica EXCEPT ![s] = replica[s] + 1]
<1>1. CASE \E s \in Subs : ConsumeCommit(s)
  <2>1. PICK s \in Subs : ConsumeCommit(s)
    BY <1>1
  <2>2. down[s] # <<>>
    BY <2>1 DEF ConsumeCommit, Receives
  <2>3. \E b \in Position : Follows(At(s), Head(down[s]), b)
    BY <2>2, NextFollows DEF StitchInv, Stitched, StreamInv
  <2> QED
    BY <2>1, <2>3, ConsumeReplicator
<1>2. CASE ~\E s \in Subs : ConsumeCommit(s)
  <2> USE DEF replicaVars
  <2>1. CASE Stream
    BY <2>1
    DEF Stream, StreamChange, SourceRollback, SourceStatus, Resume, StreamFails,
        StreamEnds, Retry, Connect, ConnectFails
  <2>2. CASE StopService \/ Crash \/ Restart \/ PurgeCheck \/ PurgeDelete
    BY <2>2 DEF StopService, Crash, Restart, PurgeCheck, PurgeDelete
  <2>3. CASE Store \/ StorerCommitFails
    BY <2>3
    DEF Store, StorerReady, StorerSubscriber, StorerStatus, StorerAbort, StorerWrite, StorerCommit,
        StorerCommitted, StorerRollback, StorerStop, StorerCommitFails
  <2>4. CASE \E s \in Subs : Subscribe(s) \/ Disconnect(s) \/ Catchup(s) \/ Consume(s)
    BY <2>4, <1>2
    DEF Subscribe, Disconnect, Catchup, CatchupSend, CatchupReject, CatchupDone, Consume,
        ConsumeBegin, ConsumeData, ConsumeRollback, ConsumeError, ConsumeUnexpected, Fails
  <2>5. CASE UNCHANGED vars
    BY <2>5 DEF vars
  <2> QED
    BY <2>1, <2>2, <2>3, <2>4, <2>5 DEF Next
<1> QED
  BY <1>1, <1>2

LEMMA StartKeptStep ==
  ASSUME "straggler" \notin Environment, StitchInv, [Next]_vars
  PROVE  StartKept'
<1>0. StreamInv /\ StartKept /\ lastWatermark \in Nat /\ TypeOK
  BY DEF StitchInv, StreamInv, TypeOK, DbTypeOK, Watermark
<1>1. CASE StorerCommit
  <2>1. UNCHANGED <<purging, replica>>
    BY <1>1 DEF StorerCommit, replicaVars
  <2>2. changeLog' = changeLog \cup {lastWatermark'}
    BY <1>1 DEF StorerCommit
  <2>3. lastWatermark' = lastWatermark \/ lastWatermark' = lastWatermark + 1
    BY <1>0, StreamInvStep
  <2> QED
    BY <2>1, <2>2, <2>3, <1>0 DEF StartKept
<1>2. CASE PurgeCheck
  <2>1. \A s \in Subs : replica'[s] # ReplicaVersion
    BY <1>2 DEF PurgeCheck, replicaVars
  <2> QED
    BY <2>1 DEF StartKept
<1>3. CASE PurgeDelete
  <2>1. \A s \in Subs : replica'[s] # ReplicaVersion
    BY <1>0, <1>3 DEF PurgeDelete, replicaVars, StartKept
  <2> QED
    BY <2>1 DEF StartKept
<1>4. CASE UNCHANGED <<changeLog, lastWatermark>> /\ purging' \in {purging, NoTx}
  <2>1. \A s \in Subs : replica'[s] = ReplicaVersion => replica[s] = ReplicaVersion
    <3>1. CASE UNCHANGED replica
      BY <3>1
    <3>2. CASE ~UNCHANGED replica
      <4>1. PICK s \in Subs : replica[s] \in Nat /\ replica' = [replica EXCEPT ![s] = replica[s] + 1]
        BY <3>2, ReplicaStep
      <4>2. replica \in [Subs -> Watermark]
        BY <1>0 DEF TypeOK, ReplicaTypeOK
      <4> QED
        BY <4>1, <4>2 DEF ReplicaVersion
    <3> QED
      BY <3>1, <3>2
  <2> QED
    BY <1>0, <1>4, <2>1 DEF StartKept
<1>5. CASE UNCHANGED vars
  BY <1>0, <1>5 DEF vars, dbVars, replicaVars, StartKept
<1> QED
  BY <1>1, <1>2, <1>3, <1>4, <1>5, LogFrame

LEMMA StitchInit ==
  ASSUME Init
  PROVE  StitchInv
<1>0. TypeOK /\ StreamInv
  BY StreamInvInit DEF StreamInv
<1>1. LogInv /\ StartKept
  BY DEF Init, LogInv, LogContiguous, ReplicaVersion, NoTx, StartKept
<1>2. LoopInv
  <2>1. SentPos = 0 /\ Sending = FALSE /\ cur = NoTx
    BY DEF Init, SentPos, Sending
  <2>2. (SentPos > 0) = FALSE
    BY <2>1
  <2>3. inTransaction = (SentPos > 0)
    BY <2>2, Zenon DEF Init
  <2> QED
    BY <2>1, <2>2, <2>3 DEF LoopInv
<1>3. QueueBracketed
  <2>1. DOMAIN queue = {1} /\ queue[1] = Ready /\ inTransaction = FALSE
    BY DEF Init
  <2>2. Commits = {}
    BY <2>1 DEF Commits, IsCommit, Ready
  <2> QED
    BY <2>1, <2>2 DEF QueueBracketed
<1>4. ASSUME NEW s \in Subs
      PROVE  ReplicatorInv(s) /\ SubscriberInv(s)
  <2>1. /\ phase[s] = "none" /\ fwd[s] = "none" /\ repTx[s] = NoTx /\ size[s] = 0
        /\ down[s] = <<>> /\ backlog[s] = <<>> /\ replica[s] = 0 /\ have[s] = <<>>
    BY DEF Init, ReplicaVersion
  <2>2. have[s] = [i \in 1 .. replica[s] |-> i]
    BY <2>1
  <2>3. ReplicatorInv(s)
    BY <2>1, <2>2, ConstantsAssumption DEF ReplicatorInv
  <2>4. SubscriberInv(s)
    BY <2>1 DEF SubscriberInv
  <2> QED
    BY <2>3, <2>4
<1> QED
  BY <1>0, <1>1, <1>2, <1>3, <1>4 DEF StitchInv, Stitched

LEMMA StitchStep ==
  ASSUME "straggler" \notin Environment, "lateStore" \notin Environment, StitchInv, [Next]_vars
  PROVE  StitchInv'
  BY StreamInvStep, LogInvStep, StartKeptStep, StitchedStep DEF StitchInv

LEMMA StitchInvariant ==
  ASSUME "straggler" \notin Environment, "lateStore" \notin Environment
  PROVE  Spec => []StitchInv
<1>1. StitchInv /\ [Next]_vars => StitchInv'
  BY StitchStep
<1> QED
  BY <1>1, StitchInit, PTL DEF Spec

-----------------------------------------------------------------------------
(* What follows *)

\* A replica has applied every transaction up to its version, whole, in order and once: what
\* catchup() reads from the change DB and what forward() sends live are stitched without a
\* gap or an overlap, however streams, storers, connections and the process fail, as long as
\* no purge runs ahead of the storer or of a replica that has nothing yet.
THEOREM CompleteReplicas ==
  ASSUME "straggler" \notin Environment, "lateStore" \notin Environment
  PROVE  Spec => []ReplicaComplete
<1>1. StitchInv => ReplicaComplete
  BY DEF StitchInv, Stitched, ReplicatorInv, ReplicaComplete
<1> QED
  BY <1>1, StitchInvariant, PTL

\* Each kind of step moves one of the three watermarks of the feed at most.
LEMMA FeedFrame ==
  ASSUME Next
  PROVE  \/ StorerCommit \/ StorerStatus \/ StorerCommitted \/ \E s \in Subs : ConsumeCommit(s)
         \/ UNCHANGED <<lastWatermark, upstreamAck, replica>>
<1> USE DEF replicaVars, dbVars
<1>1. CASE Stream
  BY <1>1
  DEF Stream, StreamChange, SourceRollback, SourceStatus, Resume, StreamFails,
      StreamEnds, Retry, Connect, ConnectFails
<1>2. CASE StopService \/ Crash \/ Restart \/ PurgeCheck \/ PurgeDelete
  BY <1>2 DEF StopService, Crash, Restart, PurgeCheck, PurgeDelete
<1>3. CASE Store \/ StorerCommitFails
  BY <1>3
  DEF Store, StorerReady, StorerSubscriber, StorerAbort, StorerWrite, StorerRollback,
      StorerStop, StorerCommitFails
<1>4. CASE \E s \in Subs : Subscribe(s) \/ Disconnect(s) \/ Catchup(s) \/ Consume(s)
  BY ZenonT(60), <1>4
  DEF Subscribe, Disconnect, Catchup, CatchupSend, CatchupReject, CatchupDone, Consume,
      ConsumeBegin, ConsumeData, ConsumeRollback, Consumed, ConsumeError, ConsumeUnexpected, Fails
<1> QED
  BY <1>1, <1>2, <1>3, <1>4 DEF Next

LEMMA FeedStep ==
  ASSUME StitchInv, StreamInv', [Next]_vars
  PROVE  [Feed!Next]_<<lastWatermark, upstreamAck, replica>>
<1>0. /\ lastWatermark \in Nat /\ upstreamAck \in Nat /\ MaxTx \in Nat
      /\ lastWatermark' \in Watermark /\ upstreamAck' \in Watermark
      /\ replica \in [Subs -> Watermark] /\ replica' \in [Subs -> Watermark]
      /\ upstreamAck' <= lastWatermark' /\ StreamInv
  BY ConstantsAssumption
  DEF StitchInv, StreamInv, TypeOK, DbTypeOK, ReplicaTypeOK, AckedIsStored, Watermark
<1>1. CASE StorerCommit
  <2>1. UNCHANGED <<upstreamAck, replica>>
    BY <1>1 DEF StorerCommit, replicaVars
  <2>2. lastWatermark' = lastWatermark \/ lastWatermark' = lastWatermark + 1
    BY <1>0, StreamInvStep
  <2>3. lastWatermark' = lastWatermark + 1 => lastWatermark < MaxTx
    BY <1>0 DEF Watermark
  <2> QED
    BY <2>1, <2>2, <2>3 DEF Feed!Next, Feed!Store
<1>2. CASE StorerStatus \/ StorerCommitted
  <2>1. /\ UNCHANGED <<lastWatermark, replica>>
        /\ \E w \in Watermark : Acknowledge(w)
    <3>1. CASE StorerCommitted
      BY <1>0, <3>1 DEF StorerCommitted, dbVars, replicaVars, StreamInv, TypeOK, DbTypeOK
    <3>2. CASE StorerStatus
      <4>1. Head(queue).w \in Watermark
        <5>1. Head(queue) \in QueueEntry /\ Head(queue).type = "status"
          BY <3>2, <1>0, HeadTailProperties DEF StorerStatus, Dequeues, StreamInv, TypeOK, StorerTypeOK
        <5> QED
          BY <5>1, EntryContent
      <4> QED
        BY <3>2, <4>1 DEF StorerStatus, dbVars, replicaVars
    <3> QED
      BY <1>2, <3>1, <3>2
  <2>2. PICK w \in Watermark : Acknowledge(w)
    BY <2>1
  <2>3. upstreamAck' = upstreamAck \/ upstreamAck' > upstreamAck
    <3>1. w \in Nat
      BY <1>0 DEF Watermark
    <3>2. SetMax({upstreamAck, w}) = IF upstreamAck >= w THEN upstreamAck ELSE w
      BY <3>1, <1>0, SetMaxOfPair
    <3> QED
      BY <3>1, <3>2, <2>2, <1>0 DEF Acknowledge
  <2>4. upstreamAck' > upstreamAck => upstreamAck' \in upstreamAck + 1 .. lastWatermark
    BY <2>1, <1>0 DEF Watermark
  <2> QED
    BY <2>1, <2>3, <2>4 DEF Feed!Next, Feed!Acknowledge
<1>3. CASE \E s \in Subs : ConsumeCommit(s)
  <2>1. UNCHANGED <<lastWatermark, upstreamAck>>
    BY <1>3 DEF ConsumeCommit, Consumed, dbVars
  <2>2. CASE UNCHANGED replica
    BY <2>1, <2>2
  <2>3. CASE ~UNCHANGED replica
    <3>1. PICK s \in Subs : replica[s] \in Nat /\ replica' = [replica EXCEPT ![s] = replica[s] + 1]
      BY <2>3, ReplicaStep
    <3>2. replica[s] < MaxTx
      <4>1. replica'[s] = replica[s] + 1 /\ replica'[s] \in Watermark
        BY <3>1, <1>0
      <4> QED
        BY <4>1, <3>1, <1>0 DEF Watermark
    <3> QED
      BY <2>1, <3>1, <3>2 DEF Feed!Next, Feed!Apply
  <2> QED
    BY <2>2, <2>3
<1>4. CASE UNCHANGED <<lastWatermark, upstreamAck, replica>>
  BY <1>4
<1>5. CASE UNCHANGED vars
  BY <1>5 DEF vars, dbVars, replicaVars
<1> QED
  BY <1>1, <1>2, <1>3, <1>4, <1>5, FeedFrame

\* The change-streamer implements the abstract feed: the change DB and every replica move by
\* one transaction at a time, and upstream is acknowledged behind the change DB.
THEOREM FeedImplemented ==
  ASSUME "straggler" \notin Environment, "lateStore" \notin Environment
  PROVE  Spec => ImplementsFeed
<1>1. Init => Feed!Init
  BY DEF Init, Feed!Init, ReplicaVersion
<1>2. StitchInv /\ StitchInv' /\ [Next]_vars => [Feed!Next]_Feed!feedVars
  BY FeedStep DEF StitchInv, Feed!feedVars
<1> QED
  BY <1>1, <1>2, StitchInvariant, PTL DEF Spec, ImplementsFeed, Feed!Spec

\* A replicator never meets a message it cannot process, if the source does not roll back:
\* begin, data and commit arrive in the order of ChangeProcessor's states also where catchup
\* ends, and where a transaction is aborted because the stream failed.
THEOREM WellFormedStreams ==
  ASSUME "straggler" \notin Environment, "lateStore" \notin Environment, "rollback" \notin Environment
  PROVE  Spec => []StreamWellFormed
<1>1. Init => StreamWellFormed
  BY DEF Init, StreamWellFormed
<1>2. ASSUME StitchInv, NEW s \in Subs, ConsumeUnexpected(s)
      PROVE  FALSE
  <2>1. /\ TypeOK /\ down[s] # <<>> /\ Head(down[s]).tag # "error"
        /\ (Head(down[s]).tag = "begin") = (repTx[s] # NoTx)
    BY <1>2 DEF ConsumeUnexpected, StitchInv, StreamInv
  <2>2. PICK b \in Position : Follows(At(s), Head(down[s]), b)
    BY <2>1, <1>2, NextFollows DEF StitchInv, Stitched
  <2>3. PICK p \in Nat : p = IF repTx[s] = NoTx THEN 0 ELSE size[s] + 1
    BY <2>1, SubFacts
  <2>4. p > 0 <=> repTx[s] # NoTx
    BY <2>1, <2>3, SubFacts
  <2>5. \/ Head(down[s]).tag = IF p = 0 THEN "begin" ELSE IF p <= DataPerTx THEN "data" ELSE "commit"
        \/ Head(down[s]).tag = "rollback" /\ p > 0
    <3>1. Follows(<<replica[s] + 1, p>>, Head(down[s]), b)
      BY <2>2, <2>3 DEF At
    <3> QED
      BY <3>1, <2>1 DEF Follows, TxMsg, Msg
  <2> QED
    BY <2>1, <2>4, <2>5
<1>3. ASSUME StitchInv, StreamWellFormed, [Next]_vars
      PROVE  StreamWellFormed'
  <2> USE DEF replicaVars
  <2>1. CASE \E s \in Subs : ConsumeError(s)
    BY <1>3, <2>1 DEF ConsumeError, Fails, StreamWellFormed, StitchInv, StreamInv, TypeOK, ReplicaTypeOK
  <2>2. CASE Stream
    BY <1>3, <2>2
    DEF Stream, StreamChange, SourceRollback, SourceStatus, Resume, StreamFails,
        StreamEnds, Retry, Connect, ConnectFails, StreamWellFormed
  <2>3. CASE StopService \/ Crash \/ Restart \/ PurgeCheck \/ PurgeDelete
    BY <1>3, <2>3 DEF StopService, Crash, Restart, PurgeCheck, PurgeDelete, StreamWellFormed
  <2>4. CASE Store \/ StorerCommitFails
    BY <1>3, <2>4
    DEF Store, StorerReady, StorerSubscriber, StorerStatus, StorerAbort, StorerWrite, StorerCommit,
        StorerCommitted, StorerRollback, StorerStop, StorerCommitFails, StreamWellFormed
  <2>5. CASE \E s \in Subs : \/ Subscribe(s) \/ Disconnect(s) \/ Catchup(s) \/ ConsumeBegin(s)
                             \/ ConsumeData(s) \/ ConsumeCommit(s) \/ ConsumeRollback(s)
    BY <1>3, <2>5
    DEF Subscribe, Disconnect, Catchup, CatchupSend, CatchupReject, CatchupDone, ConsumeBegin,
        ConsumeData, ConsumeCommit, ConsumeRollback, Consumed, StreamWellFormed
  <2>6. CASE UNCHANGED vars
    BY <1>3, <2>6 DEF vars, StreamWellFormed
  <2> QED
    BY <1>2, <1>3, <2>1, <2>2, <2>3, <2>4, <2>5, <2>6 DEF Next, Consume
<1> QED
  BY <1>1, <1>3, StitchInvariant, PTL DEF Spec

-----------------------------------------------------------------------------
(* The purge *)

\* What a purge that has been checked goes up to, every registered subscriber has passed.
PurgeSafe == purging # NoTx => \A s \in Registered : replica[s] >= purging

\* Only a purge under way, a registration and a commit bear on it.
LEMMA PurgeFrame ==
  ASSUME TypeOK, Next
  PROVE  \/ PurgeCheck
         \/ purging' = NoTx
         \/ /\ purging' = purging
            /\ \A s \in Subs : fwd'[s] # "none" =>
                 fwd[s] # "none" \/ (Subscribe(s) /\ UNCHANGED replica)
<1>1. CASE Stream
  <2>1. purging' = purging
    BY <1>1
    DEF Stream, StreamChange, SourceRollback, SourceStatus, Resume, StreamFails,
        StreamEnds, Retry, Connect, ConnectFails
  <2>2. (\E m : Forward(m)) \/ UNCHANGED fwd
    BY <1>1
    DEF Stream, StreamChange, SourceRollback, SourceStatus, Resume, StreamFails,
        StreamEnds, Retry, Connect, ConnectFails, Dispatch, AbortPending, fwdVars
  <2>3. \A s \in Subs : fwd'[s] # "none" => fwd[s] # "none"
    BY <2>2 DEF Forward
  <2> QED
    BY <2>1, <2>3
<1>2. CASE Crash \/ Restart \/ PurgeCheck \/ PurgeDelete
  BY <1>2 DEF Crash, Restart, Boot, PurgeDelete
<1>3. CASE StopService
  BY <1>3 DEF StopService, fwdVars
<1>4. CASE Store \/ StorerCommitFails
  <2>1. UNCHANGED <<purging, fwd>>
    BY <1>4
    DEF Store, StorerReady, StorerSubscriber, StorerStatus, StorerAbort, StorerWrite, StorerCommit,
        StorerCommitted, StorerRollback, StorerStop, StorerCommitFails, fwdVars
  <2> QED
    BY <2>1
<1>5. ASSUME NEW s \in Subs, Catchup(s)
      PROVE  UNCHANGED <<purging, fwd>>
  BY <1>5 DEF Catchup, CatchupSend, CatchupReject, CatchupDone, fwdVars
<1>6. ASSUME NEW s \in Subs, Consume(s) \/ Disconnect(s)
      PROVE  /\ purging' = purging
             /\ \A t \in Subs : fwd'[t] # "none" => fwd[t] # "none"
  <2>1. purging' = purging
    BY <1>6
    DEF Consume, ConsumeBegin, ConsumeData, ConsumeCommit, ConsumeRollback, ConsumeError,
        ConsumeUnexpected, Consumed, Fails, Disconnect
  <2>2. Close(s) \/ UNCHANGED fwd
    BY <1>6
    DEF Consume, ConsumeBegin, ConsumeData, ConsumeCommit, ConsumeRollback, ConsumeError,
        ConsumeUnexpected, Consumed, Fails, Disconnect, fwdVars
  <2> QED
    BY <2>1, <2>2 DEF Close, TypeOK, SubTypeOK
<1>7. ASSUME NEW s \in Subs, Subscribe(s)
      PROVE  /\ UNCHANGED <<purging, replica>>
             /\ \A t \in Subs : fwd'[t] # "none" => fwd[t] # "none" \/ t = s
  BY <1>7 DEF Subscribe, replicaVars
<1>8. CASE \E s \in Subs : Subscribe(s) \/ Disconnect(s) \/ Catchup(s) \/ Consume(s)
  BY <1>8, <1>5, <1>6, <1>7
<1> QED
  BY <1>1, <1>2, <1>3, <1>4, <1>8 DEF Next

LEMMA PurgeSafeStep ==
  ASSUME "latePurge" \notin Environment, StitchInv, PurgeSafe, [Next]_vars
  PROVE  PurgeSafe'
<1>0. /\ purging \in Nat /\ replica \in [Subs -> Watermark] /\ \A s \in Subs : replica[s] \in Nat
  BY SubFacts DEF StitchInv, StreamInv, TypeOK, StreamTypeOK, ReplicaTypeOK, Watermark
<1>1. \A s \in Subs : replica'[s] \in Nat /\ replica'[s] >= replica[s]
  BY <1>0, ReplicaStep
<1>2. CASE PurgeCheck
  <2>1. purging' \in Nat /\ AllPast(purging') /\ UNCHANGED <<replica, fwd>>
    BY <1>2 DEF PurgeCheck, replicaVars, fwdVars
  <2> QED
    BY <2>1 DEF AllPast, PurgeSafe, Registered
<1>3. CASE purging' = NoTx
  BY <1>3 DEF PurgeSafe
<1>4. CASE /\ purging' = purging
           /\ \A s \in Subs : fwd'[s] # "none" => fwd[s] # "none" \/ (Subscribe(s) /\ UNCHANGED replica)
  <2>1. ASSUME NEW s \in Subs, purging # NoTx, fwd'[s] # "none"
        PROVE  replica'[s] >= purging
    <3>1. CASE fwd[s] # "none"
      BY <3>1, <2>1, <1>0, <1>1 DEF PurgeSafe, Registered
    <3>2. CASE Subscribe(s) /\ UNCHANGED replica
      BY <3>2 DEF Subscribe
    <3> QED
      BY <3>1, <3>2, <2>1, <1>4
  <2> QED
    BY <2>1, <1>4 DEF PurgeSafe, Registered
<1>5. CASE UNCHANGED vars
  BY <1>5 DEF vars, fwdVars, replicaVars, PurgeSafe, Registered
<1> QED
  BY <1>2, <1>3, <1>4, <1>5, PurgeFrame DEF StitchInv, StreamInv

\* What a registered subscriber would resume from is kept.
LEMMA ResumeKept ==
  ASSUME "lateStore" \notin Environment, StitchInv, PurgeSafe, [Next]_vars,
         NEW s \in Registered, CanResume(replica[s])
  PROVE  CanResume(replica[s])'
<1>0. /\ StreamInv /\ LogInv /\ lastWatermark \in Nat /\ s \in Subs /\ replica[s] \in Nat
      /\ replica \in [Subs -> Watermark] /\ purging \in Nat
  BY SMTT(60), SubFacts
  DEF StitchInv, StreamInv, TypeOK, StreamTypeOK, DbTypeOK, ReplicaTypeOK, Watermark, Registered
<1>1. PICK w \in Nat : w = replica[s]
  BY <1>0
<1>2. /\ w \in changeLog \/ w >= lastWatermark \/ (w = 0 /\ 1 \in changeLog)
      /\ lastWatermark > 0 => \E lo \in 1 .. lastWatermark : changeLog = lo .. lastWatermark
  BY <1>0, <1>1 DEF CanResume, LogInv, LogContiguous, ReplicaVersion
<1>3. CASE StorerCommit
  <2>1. UNCHANGED replica /\ changeLog' = changeLog \cup {lastWatermark'}
    BY <1>3 DEF StorerCommit, replicaVars
  <2>2. lastWatermark' = lastWatermark \/ lastWatermark' = lastWatermark + 1
    BY <1>0, StreamInvStep
  <2>3. w \in changeLog' \/ w >= lastWatermark' \/ (w = 0 /\ 1 \in changeLog')
    <3>1. CASE w \in changeLog \/ (w = 0 /\ 1 \in changeLog)
      BY <3>1, <2>1
    <3>2. CASE w > lastWatermark
      BY <3>2, <2>2, <1>0
    <3>3. CASE w = lastWatermark /\ w > 0
      <4>1. w \in changeLog
        BY <3>3, <1>2
      <4> QED
        BY <4>1, <2>1
    <3>4. CASE w = lastWatermark /\ w = 0
      BY <3>4, <2>1, <2>2
    <3> QED
      BY <3>1, <3>2, <3>3, <3>4, <1>0, <1>2
  <2> QED
    BY <2>1, <2>3, <1>1 DEF CanResume, ReplicaVersion
<1>4. CASE PurgeDelete
  <2>1. /\ UNCHANGED <<replica, lastWatermark>> /\ changeLog' = {x \in changeLog : x >= purging}
        /\ purging > 0
    BY <1>0, <1>4 DEF PurgeDelete, Kept, replicaVars, NoTx
  <2>2. w >= purging
    BY <2>1, <1>0, <1>1 DEF PurgeSafe, NoTx
  <2>3. w \in changeLog' \/ w >= lastWatermark'
    BY <2>1, <2>2, <1>0, <1>2
  <2> QED
    BY <2>1, <2>3, <1>1 DEF CanResume
<1>5. CASE UNCHANGED <<changeLog, lastWatermark>>
  <2>1. CASE replica'[s] = w
    BY <1>2, <1>5, <2>1, <1>0 DEF CanResume, ReplicaVersion
  <2>2. CASE replica'[s] = w + 1
    <3>1. w + 1 \in changeLog \/ w + 1 >= lastWatermark
      <4>1. CASE w >= lastWatermark \/ (w = 0 /\ 1 \in changeLog)
        BY <4>1, <1>0
      <4>2. CASE w \in changeLog /\ lastWatermark > 0
        BY <4>2, <1>0, <1>2
      <4> QED
        BY <4>1, <4>2, <1>0, <1>2
    <3> QED
      BY <3>1, <2>2, <1>5 DEF CanResume
  <2>3. replica'[s] = w \/ replica'[s] = w + 1
    BY <1>0, <1>1, ReplicaStep
  <2> QED
    BY <2>1, <2>2, <2>3
<1>6. PurgeCheck => UNCHANGED <<changeLog, lastWatermark>>
  BY DEF PurgeCheck, dbVars
<1>7. UNCHANGED vars => UNCHANGED <<changeLog, lastWatermark>>
  BY DEF vars, dbVars
<1> QED
  BY <1>3, <1>4, <1>5, <1>6, <1>7, LogFrame

\* A purge never takes from a registered subscriber the change it would resume from: what is
\* deleted lies before every acknowledgement that was checked, also when subscriptions, commits and
\* acknowledgements come between the check and the DELETE. A subscription that arrives then behind the
\* purge is excluded (latePurge).
THEOREM NeverStrands ==
  ASSUME "straggler" \notin Environment, "lateStore" \notin Environment, "latePurge" \notin Environment
  PROVE  Spec => NeverStranded
<1>1. Init => PurgeSafe
  BY DEF Init, PurgeSafe
<1>2. StitchInv /\ PurgeSafe /\ [Next]_vars => PurgeSafe'
  BY PurgeSafeStep
<1>3. StitchInv /\ PurgeSafe /\ [Next]_vars =>
        [\A s \in Registered : CanResume(replica[s]) => CanResume(replica[s])']_vars
  BY ResumeKept
<1> QED
  BY <1>1, <1>2, <1>3, StitchInvariant, PTL DEF Spec, NeverStranded
===============================================================================
