---------------------------- MODULE ChangeStreamer ----------------------------
(***************************************************************************)
(* The change-streamer of zero-cache: the loop that pulls transactions     *)
(* from the upstream change source, the Storer that persists them in the   *)
(* change DB, the Forwarder that fans them out, and the Subscriber that    *)
(* stitches what is read from the change DB (catchup) to what is forwarded *)
(* live.  At the other end of each subscription stands a replicator        *)
(* (IncrementalSyncer + ChangeProcessor) that applies the messages to its  *)
(* replica and acknowledges them.                                          *)
(*                                                                         *)
(* Watermarks are naturals: 0 is the replica version (the initial sync),   *)
(* and w > 0 is the commit watermark of the w-th upstream transaction.     *)
(* Every message of a transaction carries the commit watermark, as the     *)
(* streamer's loop assigns it.  JavaScript runs to completion between two  *)
(* awaits, so an action is what happens between two awaits.                *)
(***************************************************************************)
EXTENDS Integers, Sequences, FiniteSets

CONSTANTS
  Subs,         \* the replicators, each with at most one subscription
  Backups,      \* those of them that run in 'backup' mode
  MaxTx,        \* bound: number of upstream transactions
  DataPerTx,    \* number of 'data' messages in every transaction
  Threshold,    \* QUEUE_SIZE_BACK_PRESSURE_THRESHOLD
  MaxFaults,    \* bound: failures, disconnections, stops and crashes
  Environment   \* what the surroundings may do, a subset of Behaviours

\* "rollback"   the change source may send 'rollback'
\* "straggler"  a purge may run while some replica is still at version 0
\* "lateStore"  a purge may be asked for beyond what the storer has stored
\* "latePurge"  a subscription may arrive while a checked purge is under way
\* "lateStop"   stop() may be called while run() is inside an await
\* "lateDeath"  the storer may die while run() is inside an await
Behaviours == {"rollback", "straggler", "lateStore", "latePurge", "lateStop",
               "lateDeath"}

ASSUME ConstantsAssumption ==
  /\ Backups \subseteq Subs
  /\ MaxTx \in Nat /\ DataPerTx \in Nat /\ Threshold \in Nat /\ MaxFaults \in Nat
  /\ Environment \subseteq Behaviours

Watermark == 0 .. MaxTx
TxID == 1 .. MaxTx
ReplicaVersion == 0
NoTx == 0                  \* `null` for a transaction or a watermark

VARIABLES
  \* ChangeStreamerImpl
  loop,          \* where run() stands
  running,       \* #state.shouldRun()
  streamOpen,    \* #stream.changes has neither failed nor been canceled
  cur,           \* run()'s local `watermark`
  purging,       \* `earliestInitial` of a purge that passed the check of acks
  faults,        \* counts the faults
  \* the change source
  srcNext,       \* the transaction the stream is at
  srcPos,        \* how many of its messages have been sent
  upstreamAck,   \* highest watermark acknowledged to upstream
  \* Storer
  queue,         \* #queue
  storer,        \* where #processQueue() stands
  tx,            \* its local `tx`
  catchupQueue,  \* its local `catchupQueue`
  backPressure,  \* #readyForMore is not null
  \* change DB
  changeLog,     \* the transactions in the changeLog table
  lastWatermark, \* replicationState.lastWatermark
  \* Forwarder
  inTransaction, \* #inTransaction
  fwd,           \* which of #active and #queued a subscriber is in
  \* Subscriber
  phase,         \* where the subscription stands
  wm,            \* #watermark
  backlog,       \* #backlog
  found,         \* #catchup()'s local `watermarkFound`
  snap,          \* the transactions its reader has still to send
  down,          \* #downstream: pushed and not yet consumed
  \* the replicators
  rep,           \* whether the replicator runs
  repTx,         \* ChangeProcessor.#currentTx: its watermark
  replica,       \* the replica's watermark
  size,          \* how many data messages of it have been processed
  have           \* the transactions applied in full to the replica, in order

streamVars  == <<loop, running, streamOpen, cur>>
sourceVars  == <<srcNext, srcPos>>
storerVars  == <<queue, storer, tx, catchupQueue, backPressure>>
dbVars      == <<changeLog, lastWatermark>>
fwdVars     == <<inTransaction, fwd>>
readVars    == <<found, snap>>
subVars     == <<phase, wm, backlog, down>>
replicaVars == <<rep, repTx, size, replica, have>>
vars == <<streamVars, purging, faults, sourceVars, upstreamAck, storerVars,
          dbVars, fwdVars, readVars, subVars, replicaVars>>

-----------------------------------------------------------------------------
(* Messages and queue entries *)

Msg(t, w) == [tag |-> t, w |-> w]

\* The message at position p of transaction w: the `pos` column of changeLog.
TxMsg(w, p) ==
  Msg(IF p = 0 THEN "begin" ELSE IF p <= DataPerTx THEN "data" ELSE "commit", w)

TxMsgs(w) == [i \in 1 .. DataPerTx + 2 |-> TxMsg(w, i - 1)]

Message == [tag : {"begin", "data", "commit"}, w : TxID]
           \cup [tag : {"rollback", "error"}, w : Watermark]

\* A QueueEntry; `w` is the watermark of a status, and sub the subscriber.
Change(m)     == [type |-> "change", msg |-> m]
Ready         == [type |-> "ready"]
Abort         == [type |-> "abort"]
Stop          == [type |-> "stop"]
Status(w)     == [type |-> "status", w |-> w]
Subscriber(s) == [type |-> "subscriber", sub |-> s]

QueueEntry == [type : {"change"}, msg : Message]
              \cup [type : {"ready", "abort", "stop"}]
              \cup [type : {"status"}, w : Watermark]
              \cup [type : {"subscriber"}, sub : Subs]

SetMin(S) == CHOOSE x \in S : \A y \in S : x <= y
SetMax(S) == CHOOSE x \in S : \A y \in S : x >= y

-----------------------------------------------------------------------------
(* Subscriber and Forwarder *)

\* Subscriber.send() takes the message: it is newer than #watermark.
Accepts(s, m) == fwd[s] = "active" /\ m.w > wm[s]
Live(s) == phase[s] = "live"

\* Forwarder.forward(): send to the active set, then follow the transaction.
Forward(m) ==
  /\ backlog' = [s \in Subs |-> IF Accepts(s, m) /\ ~Live(s)
                                THEN Append(backlog[s], m) ELSE backlog[s]]
  /\ down' = [s \in Subs |-> IF Accepts(s, m) /\ Live(s)
                             THEN Append(down[s], m) ELSE down[s]]
  /\ wm' = [s \in Subs |-> IF Accepts(s, m) /\ Live(s) /\ m.tag = "commit"
                           THEN m.w ELSE wm[s]]
  /\ inTransaction' = CASE m.tag = "begin" -> TRUE
                        [] m.tag \in {"commit", "rollback"} -> FALSE
                        [] OTHER -> inTransaction
  /\ fwd' = IF m.tag \in {"commit", "rollback"}
            THEN [s \in Subs |-> IF fwd[s] = "queued" THEN "active" ELSE fwd[s]]
            ELSE fwd
  /\ UNCHANGED phase

\* Mutant: the whole of the backlog is pushed.
Flushed_All(s) == backlog[s]
\* What setCaughtUp() pushes: #send() drops what #watermark has passed, a
\* prefix of the backlog, whose watermarks never go down.
Flushed(s) ==
  LET newer == {i \in DOMAIN backlog[s] : backlog[s][i].w > wm[s]}
  IN  IF newer = {} THEN <<>>
      ELSE SubSeq(backlog[s], SetMin(newer), Len(backlog[s]))

\* #watermark once the messages have been pushed.
WatermarkAfter(w, msgs) ==
  LET commits == {i \in DOMAIN msgs : msgs[i].tag = "commit"}
  IN  IF commits = {} THEN w ELSE msgs[SetMax(commits)].w

\* A subscription ends: its cleanup takes it out of the Forwarder, what was not
\* consumed is dropped, and the replicator's ChangeProcessor is aborted.
Close(s) ==
  /\ phase' = [phase EXCEPT ![s] = "none"]
  /\ fwd' = [fwd EXCEPT ![s] = "none"]
  /\ wm' = [wm EXCEPT ![s] = ReplicaVersion]
  /\ backlog' = [backlog EXCEPT ![s] = <<>>]
  /\ down' = [down EXCEPT ![s] = <<>>]
  /\ found' = [found EXCEPT ![s] = FALSE]
  /\ snap' = [snap EXCEPT ![s] = {}]
  /\ repTx' = [repTx EXCEPT ![s] = NoTx]
  /\ size' = [size EXCEPT ![s] = 0]
  /\ UNCHANGED inTransaction

-----------------------------------------------------------------------------
(* ChangeStreamerImpl.run() *)

\* What run() does about a pending transaction when the stream is interrupted.
\* Mutant: the subscribers are not told.
AbortPending_NoForward == queue' = Append(queue, Abort) /\ UNCHANGED <<fwdVars, subVars>>
AbortPending == queue' = Append(queue, Abort) /\ Forward(Msg("rollback", cur))

\* The first half of getLastWatermarkToStartStream().
AwaitReady == loop' = "waitReady" /\ queue' = Append(queue, Ready)

\* The last transaction the source has sent in full: what a status says.
\* Mutant: the one it is sending.
Completed_OffByOne == srcNext
Completed == srcNext - 1

\* #state.stop() and the cancellation of #stream.changes.
\* Mutant: the stream is not canceled.
Halt_StreamGoesOn == running' = FALSE /\ UNCHANGED streamOpen
Halt == running' = FALSE /\ streamOpen' = FALSE

\* readyForMore(), called with the queue as it then is.
BackPressured(q) == storer # "stopped" /\ (backPressure \/ Len(q) > Threshold)

\* Storer.store() and Forwarder.forward() in lockstep, then readyForMore().
Dispatch(m) ==
  LET q == Append(queue, Change(m))
  IN  /\ queue' = q
      /\ Forward(m)
      /\ backPressure' = (BackPressured(q) \/ backPressure)
      /\ loop' = IF BackPressured(q) THEN "blocked" ELSE "streaming"
      /\ UNCHANGED <<storer, tx, catchupQueue>>

\* The next message of the transaction the source is sending.
StreamChange ==
  /\ loop = "streaming" /\ streamOpen
  /\ srcNext <= MaxTx
  /\ Dispatch(TxMsg(srcNext, srcPos))
  /\ IF srcPos = DataPerTx + 1
     THEN cur' = NoTx /\ srcPos' = 0 /\ srcNext' = srcNext + 1
     ELSE cur' = srcNext /\ srcPos' = srcPos + 1 /\ UNCHANGED srcNext
  /\ UNCHANGED <<running, streamOpen, purging, faults, upstreamAck, dbVars,
                 readVars, replicaVars>>

\* A 'rollback' sent by the source: run() resets `watermark` on commits only.
SourceRollback ==
  /\ "rollback" \in Environment
  /\ loop = "streaming" /\ streamOpen
  /\ srcPos > 0
  /\ faults < MaxFaults
  /\ faults' = faults + 1
  /\ Dispatch(Msg("rollback", cur))
  /\ srcPos' = 0
  /\ UNCHANGED <<running, streamOpen, cur, purging, srcNext, upstreamAck, dbVars,
                 readVars, replicaVars>>

\* A status message goes through the queue, so that it is acknowledged only
\* after what precedes it.  Bound: one at a time.
SourceStatus ==
  /\ loop = "streaming" /\ streamOpen
  /\ Completed > upstreamAck
  /\ \A i \in DOMAIN queue : queue[i].type # "status"
  /\ queue' = Append(queue, Status(Completed))
  /\ UNCHANGED <<streamVars, purging, faults, sourceVars, upstreamAck, storer, tx,
                 catchupQueue, backPressure, dbVars, fwdVars, readVars, subVars,
                 replicaVars>>

\* await readyForMore
Resume ==
  /\ loop = "blocked" /\ ~backPressure
  /\ loop' = "streaming"
  /\ UNCHANGED <<running, streamOpen, cur, purging, faults, sourceVars,
                 upstreamAck, storerVars, dbVars, fwdVars, readVars, subVars,
                 replicaVars>>

\* The connection to the change source fails.
StreamFails ==
  /\ streamOpen
  /\ faults < MaxFaults
  /\ streamOpen' = FALSE
  /\ faults' = faults + 1
  /\ UNCHANGED <<loop, running, cur, purging, sourceVars, upstreamAck, storerVars,
                 dbVars, fwdVars, readVars, subVars, replicaVars>>

\* The `for await` over a failed or canceled stream ends.  A pending
\* transaction is aborted in the storer and rolled back in the subscribers.
StreamEnds ==
  /\ loop = "streaming" /\ ~streamOpen
  /\ loop' = "backoff"
  /\ cur' = NoTx
  /\ IF cur # NoTx
     THEN AbortPending
     ELSE UNCHANGED <<queue, fwdVars, subVars>>
  /\ UNCHANGED <<running, streamOpen, purging, faults, sourceVars, upstreamAck,
                 storer, tx, catchupQueue, backPressure, dbVars, readVars,
                 replicaVars>>

\* The backoff is over: leave, or wait for the storer to drain its queue.
Retry ==
  /\ loop = "backoff"
  /\ IF running THEN AwaitReady ELSE loop' = "done" /\ UNCHANGED queue
  /\ UNCHANGED <<running, streamOpen, cur, purging, faults, sourceVars,
                 upstreamAck, storer, tx, catchupQueue, backPressure, dbVars,
                 fwdVars, readVars, subVars, replicaVars>>

\* getLastWatermarkToStartStream() has read lastWatermark and startStream()
\* returns; #state is not consulted, nor was there a stream for stop() to cancel.
\* The source does not send again what has been acknowledged.
Connect ==
  /\ loop = "connect"
  /\ loop' = "streaming"
  /\ streamOpen' = TRUE
  /\ srcNext' = SetMax({lastWatermark, upstreamAck}) + 1
  /\ srcPos' = 0
  /\ UNCHANGED <<running, cur, purging, faults, upstreamAck, storerVars, dbVars,
                 fwdVars, readVars, subVars, replicaVars>>

\* startStream() throws: back off and try again.
ConnectFails ==
  /\ loop = "connect"
  /\ faults < MaxFaults
  /\ loop' = "backoff"
  /\ faults' = faults + 1
  /\ UNCHANGED <<running, streamOpen, cur, purging, sourceVars, upstreamAck,
                 storerVars, dbVars, fwdVars, readVars, subVars, replicaVars>>

\* run() is not inside an await of the storer or of startStream(), or the
\* environment may choose such a moment.
Timely(how) == how \in Environment \/ loop \in {"streaming", "backoff"}

\* stop(): on a signal or for an auto-reset.
StopService ==
  /\ running /\ Timely("lateStop") /\ loop # "done"
  /\ faults < MaxFaults
  /\ faults' = faults + 1
  /\ Halt
  /\ queue' = Append(queue, Stop)
  /\ UNCHANGED <<loop, cur, purging, sourceVars, upstreamAck, storer, tx,
                 catchupQueue, backPressure, dbVars, fwdVars, readVars, subVars,
                 replicaVars>>

\* The process starts with what is in the change DB; every connection is gone.
Boot ==
  /\ loop' = "waitReady" /\ running' = TRUE /\ streamOpen' = FALSE
  /\ cur' = NoTx /\ purging' = NoTx /\ srcNext' = 1 /\ srcPos' = 0
  /\ queue' = <<Ready>> /\ storer' = "idle" /\ tx' = NoTx
  /\ catchupQueue' = {} /\ backPressure' = FALSE /\ inTransaction' = FALSE
  /\ fwd' = [s \in Subs |-> "none"] /\ phase' = [s \in Subs |-> "none"]
  /\ wm' = [s \in Subs |-> ReplicaVersion] /\ backlog' = [s \in Subs |-> <<>>]
  /\ down' = [s \in Subs |-> <<>>] /\ found' = [s \in Subs |-> FALSE]
  /\ snap' = [s \in Subs |-> {}] /\ repTx' = [s \in Subs |-> NoTx]
  /\ size' = [s \in Subs |-> 0]

\* After markResetRequired() the next start is a new initial sync: not modelled.
ResetRequired == \E b \in Backups : rep[b] = "rejected"

Crash ==
  /\ ~ResetRequired
  /\ faults < MaxFaults
  /\ faults' = faults + 1
  /\ Boot
  /\ UNCHANGED <<upstreamAck, dbVars, rep, replica, have>>

\* run() returned, so the process exits and is started again.
Restart ==
  /\ ~ResetRequired
  /\ loop = "done"
  /\ Boot
  /\ UNCHANGED <<faults, upstreamAck, dbVars, rep, replica, have>>

-----------------------------------------------------------------------------
(* Storer.#processQueue(): one action per kind of entry *)

Dequeues(type) == storer = "idle" /\ queue # <<>> /\ Head(queue).type = type
DequeuesChange(tags) == Dequeues("change") /\ Head(queue).msg.tag \in tags

\* dequeue(), then #maybeReleaseBackPressure().
Dequeue ==
  /\ queue' = Tail(queue)
  /\ backPressure' = (backPressure /\ 10 * Len(Tail(queue)) >= 9 * Threshold)

\* `watermarkFound` when the reader comes to the first change after #watermark.
\* Mutant: the check is left out.
Resumes_Unchecked(s) == TRUE
Resumes(s) == wm[s] = ReplicaVersion \/ wm[s] \in changeLog

\* #startCatchup(): the reader's snapshot is taken before the storer goes on.
\* It does nothing for a subscription that has ended meanwhile.
StartCatchup(S) ==
  LET started == {s \in S : phase[s] = "waiting"}
  IN  /\ phase' = [s \in Subs |-> IF s \in started THEN "reading" ELSE phase[s]]
      /\ found' = [s \in Subs |-> IF s \in started THEN Resumes(s) ELSE found[s]]
      /\ snap' = [s \in Subs |-> IF s \in started
                                 THEN {w \in changeLog : w > wm[s]} ELSE snap[s]]
      /\ UNCHANGED <<wm, backlog, down>>

\* `catchupQueue.splice(0)`, when a transaction has ended.
\* Mutant: the queue is emptied and nobody is caught up.
CatchupWaiting_Lost == catchupQueue' = {} /\ UNCHANGED <<subVars, readVars>>
CatchupWaiting == catchupQueue' = {} /\ StartCatchup(catchupQueue)

StorerReady ==
  /\ Dequeues("ready")
  /\ Dequeue
  /\ loop' = "connect"
  /\ UNCHANGED <<running, streamOpen, cur, purging, faults, sourceVars,
                 upstreamAck, storer, tx, catchupQueue, dbVars, fwdVars, readVars,
                 subVars, replicaVars>>

StorerSubscriber ==
  /\ Dequeues("subscriber")
  /\ Dequeue
  /\ LET s == Head(queue).sub
     IN  IF tx # NoTx
         THEN /\ catchupQueue' = catchupQueue \cup {s}
              /\ UNCHANGED <<subVars, readVars>>
         ELSE StartCatchup({s}) /\ UNCHANGED catchupQueue
  /\ UNCHANGED <<streamVars, purging, faults, sourceVars, upstreamAck, storer, tx,
                 dbVars, fwdVars, replicaVars>>

\* #onConsumed: `this.#stream?.acks`; nothing is sent once the stream failed.
Acknowledge(w) ==
  upstreamAck' = IF streamOpen THEN SetMax({upstreamAck, w}) ELSE upstreamAck

StorerStatus ==
  /\ Dequeues("status")
  /\ Dequeue
  /\ Acknowledge(Head(queue).w)
  /\ UNCHANGED <<streamVars, purging, faults, sourceVars, storer, tx, catchupQueue,
                 dbVars, fwdVars, readVars, subVars, replicaVars>>

\* Unlike 'rollback', 'abort' starts no catchup.
StorerAbort ==
  /\ Dequeues("abort")
  /\ Dequeue
  /\ tx' = NoTx
  /\ UNCHANGED <<streamVars, purging, faults, sourceVars, upstreamAck, storer,
                 catchupQueue, dbVars, fwdVars, readVars, subVars, replicaVars>>

\* 'begin' opens a database transaction, and it and 'data' are written to it.
StorerWrite ==
  /\ DequeuesChange({"begin", "data"})
  /\ Dequeue
  /\ tx' = Head(queue).msg.w
  /\ UNCHANGED <<streamVars, purging, faults, sourceVars, upstreamAck, storer,
                 catchupQueue, dbVars, fwdVars, readVars, subVars, replicaVars>>

\* 'commit': the change log and lastWatermark change in one transaction.
StorerCommit ==
  /\ DequeuesChange({"commit"})
  /\ Dequeue
  /\ storer' = "stored"
  /\ changeLog' = changeLog \cup {Head(queue).msg.w}
  /\ lastWatermark' = Head(queue).msg.w
  /\ UNCHANGED <<streamVars, purging, faults, sourceVars, upstreamAck, tx,
                 catchupQueue, fwdVars, readVars, subVars, replicaVars>>

\* The commit fails, or another task owns the change DB: the storer throws,
\* and the handler of its run() stops the service.
StorerCommitFails ==
  /\ DequeuesChange({"commit"})
  /\ Timely("lateDeath")
  /\ faults < MaxFaults
  /\ faults' = faults + 1
  /\ queue' = Append(Tail(queue), Stop)
  /\ backPressure' = (backPressure /\ 10 * Len(Tail(queue)) >= 9 * Threshold)
  /\ storer' = "stopped"
  /\ tx' = NoTx
  /\ catchupQueue' = {}
  /\ Halt
  /\ UNCHANGED <<loop, cur, purging, sourceVars, upstreamAck, dbVars, fwdVars,
                 readVars, subVars, replicaVars>>

\* Once the commit is durable: acknowledge it, then catch up who waited for it.
StorerCommitted ==
  /\ storer = "stored"
  /\ storer' = "idle"
  /\ tx' = NoTx
  /\ Acknowledge(lastWatermark)
  /\ CatchupWaiting
  /\ UNCHANGED <<streamVars, purging, faults, sourceVars, queue, backPressure,
                 dbVars, fwdVars, replicaVars>>

StorerRollback ==
  /\ DequeuesChange({"rollback"})
  /\ Dequeue
  /\ tx' = NoTx
  /\ CatchupWaiting
  /\ UNCHANGED <<streamVars, purging, faults, sourceVars, upstreamAck, storer,
                 dbVars, fwdVars, replicaVars>>

StorerStop ==
  /\ Dequeues("stop")
  /\ queue' = Tail(queue)
  /\ storer' = "stopped"
  /\ tx' = NoTx
  /\ catchupQueue' = {}
  /\ UNCHANGED <<streamVars, purging, faults, sourceVars, upstreamAck,
                 backPressure, dbVars, fwdVars, readVars, subVars, replicaVars>>

-----------------------------------------------------------------------------
(* #purgeOldChanges() *)

Registered == {s \in Subs : fwd[s] # "none"}

\* All of the connected subscribers have passed e.  Mutant: one of them has.
AllPast_One(e) == \E s \in Registered : replica[s] >= e
AllPast(e) == \A s \in Registered : replica[s] >= e

\* What a purge leaves.  Mutant: the earliest change is lost as well.
Kept_Later == {w \in changeLog : w > purging}
Kept == {w \in changeLog : w >= purging}

\* The check of the acknowledgements, against the version some replica had when
\* it started.  A commit is acknowledged as it is applied: #acked is `replica`.
PurgeCheck ==
  /\ running /\ purging = NoTx
  /\ Registered # {}
  /\ \E e \in 1 .. SetMax({replica[s] : s \in Subs}) :
       /\ AllPast(e)
       /\ \E w \in changeLog : w < e
       /\ "straggler" \in Environment \/ \A s \in Subs : replica[s] # ReplicaVersion
       /\ "lateStore" \in Environment \/ e <= lastWatermark
       /\ purging' = e
  /\ UNCHANGED <<streamVars, faults, sourceVars, upstreamAck, storerVars, dbVars,
                 fwdVars, readVars, subVars, replicaVars>>

\* purgeRecordsBefore(): the DELETE commits.
PurgeDelete ==
  /\ purging # NoTx
  /\ changeLog' = Kept
  /\ purging' = NoTx
  /\ UNCHANGED <<streamVars, faults, sourceVars, upstreamAck, storerVars,
                 lastWatermark, fwdVars, readVars, subVars, replicaVars>>

-----------------------------------------------------------------------------
(* Storer.#catchup(), in the background, one per subscription *)

\* A transaction of the snapshot is pushed; Subscriber.catchup() sends it.
CatchupSend(s) ==
  /\ phase[s] = "reading" /\ found[s] /\ snap[s] # {}
  /\ LET w == SetMin(snap[s])
     IN  /\ down' = [down EXCEPT ![s] = @ \o TxMsgs(w)]
         /\ wm' = [wm EXCEPT ![s] = w]
         /\ snap' = [snap EXCEPT ![s] = @ \ {w}]
  /\ UNCHANGED <<streamVars, purging, faults, sourceVars, upstreamAck, storerVars,
                 dbVars, fwdVars, phase, backlog, found, replicaVars>>

\* The changes after #watermark have been purged: WatermarkTooOld.  For the
\* backup replicator it is an AutoResetSignal, which also stops the service.
CatchupReject(s) ==
  /\ phase[s] = "reading" /\ ~found[s] /\ snap[s] # {}
  /\ phase' = [phase EXCEPT ![s] = "failed"]
  /\ down' = [down EXCEPT ![s] = Append(@, Msg("error", NoTx))]
  /\ IF s \in Backups
     THEN Halt /\ queue' = Append(queue, Stop)
     ELSE UNCHANGED <<running, streamOpen, queue>>
  /\ UNCHANGED <<loop, cur, purging, faults, sourceVars, upstreamAck, storer, tx,
                 catchupQueue, backPressure, dbVars, fwdVars, wm, backlog,
                 readVars, replicaVars>>

\* Nothing is left to read, also when the subscriber is ahead of the change DB.
CatchupDone(s) ==
  /\ phase[s] = "reading" /\ snap[s] = {}
  /\ phase' = [phase EXCEPT ![s] = "live"]
  /\ down' = [down EXCEPT ![s] = @ \o Flushed(s)]
  /\ wm' = [wm EXCEPT ![s] = WatermarkAfter(@, Flushed(s))]
  /\ backlog' = [backlog EXCEPT ![s] = <<>>]
  /\ UNCHANGED <<streamVars, purging, faults, sourceVars, upstreamAck, storerVars,
                 dbVars, fwdVars, readVars, replicaVars>>

-----------------------------------------------------------------------------
(* The replicators: IncrementalSyncer and ChangeProcessor *)

\* The entry of an earlier subscription of s that has ended is ignored by the
\* storer; s is made to wait for that, so that an entry names one subscription.
Stale(s) == \/ s \in catchupQueue
            \/ \E i \in DOMAIN queue : queue[i] = Subscriber(s)

\* subscribe(): Forwarder.add() in lockstep with Storer.catchup().
Subscribe(s) ==
  /\ rep[s] = "up" /\ phase[s] = "none" /\ loop # "done"
  /\ ~Stale(s)
  /\ "latePurge" \in Environment \/ replica[s] >= purging
  /\ phase' = [phase EXCEPT ![s] = "waiting"]
  /\ wm' = [wm EXCEPT ![s] = replica[s]]
  /\ fwd' = [fwd EXCEPT ![s] = IF inTransaction THEN "queued" ELSE "active"]
  /\ queue' = Append(queue, Subscriber(s))
  /\ UNCHANGED <<streamVars, purging, faults, sourceVars, upstreamAck, storer, tx,
                 catchupQueue, backPressure, dbVars, inTransaction, readVars,
                 backlog, down, replicaVars>>

\* The connection of a subscription fails.
Disconnect(s) ==
  /\ phase[s] # "none"
  /\ faults < MaxFaults
  /\ faults' = faults + 1
  /\ Close(s)
  /\ UNCHANGED <<streamVars, purging, sourceVars, upstreamAck, storerVars, dbVars,
                 rep, replica, have>>

\* The next message to process has one of the tags, inside a transaction or not.
Receives(s, tags, inside) ==
  /\ down[s] # <<>>
  /\ Head(down[s]).tag \in tags
  /\ (repTx[s] # NoTx) = inside

Consumed(s) ==
  /\ down' = [down EXCEPT ![s] = Tail(@)]
  /\ UNCHANGED <<streamVars, purging, faults, sourceVars, upstreamAck, storerVars,
                 dbVars, fwdVars, readVars, phase, wm, backlog, rep>>

ConsumeBegin(s) ==
  /\ Receives(s, {"begin"}, FALSE)
  /\ Consumed(s)
  /\ repTx' = [repTx EXCEPT ![s] = Head(down[s]).w]
  /\ UNCHANGED <<size, replica, have>>

ConsumeData(s) ==
  /\ Receives(s, {"data"}, TRUE)
  /\ Consumed(s)
  /\ size' = [size EXCEPT ![s] = @ + 1]
  /\ UNCHANGED <<repTx, replica, have>>

\* processCommit(): the replica's version becomes the commit's watermark.
ConsumeCommit(s) ==
  /\ Receives(s, {"commit"}, TRUE)
  /\ Consumed(s)
  /\ replica' = [replica EXCEPT ![s] = Head(down[s]).w]
  /\ have' = [have EXCEPT ![s] = IF size[s] = DataPerTx THEN Append(@, repTx[s])
                                 ELSE @]
  /\ repTx' = [repTx EXCEPT ![s] = NoTx]
  /\ size' = [size EXCEPT ![s] = 0]

ConsumeRollback(s) ==
  /\ Receives(s, {"rollback"}, TRUE)
  /\ Consumed(s)
  /\ repTx' = [repTx EXCEPT ![s] = NoTx]
  /\ size' = [size EXCEPT ![s] = 0]
  /\ UNCHANGED <<replica, have>>

Fails(s, how) ==
  /\ rep' = [rep EXCEPT ![s] = how]
  /\ Close(s)
  /\ UNCHANGED <<streamVars, purging, faults, sourceVars, upstreamAck, storerVars,
                 dbVars, replica, have>>

\* "Unrecoverable error. Stop the service."
ConsumeError(s) ==
  /\ \E inside \in BOOLEAN : Receives(s, {"error"}, inside)
  /\ Fails(s, "rejected")

\* "Already in a transaction" and "Received message outside of transaction".
ConsumeUnexpected(s) ==
  /\ down[s] # <<>>
  /\ Head(down[s]).tag # "error"
  /\ (Head(down[s]).tag = "begin") = (repTx[s] # NoTx)
  /\ Fails(s, "broken")

-----------------------------------------------------------------------------
Init ==
  /\ loop = "waitReady" /\ running = TRUE /\ streamOpen = FALSE /\ cur = NoTx
  /\ purging = NoTx /\ faults = 0
  /\ srcNext = 1 /\ srcPos = 0 /\ upstreamAck = ReplicaVersion
  /\ queue = <<Ready>> /\ storer = "idle" /\ tx = NoTx
  /\ catchupQueue = {} /\ backPressure = FALSE
  /\ changeLog = {} /\ lastWatermark = ReplicaVersion
  /\ inTransaction = FALSE /\ fwd = [s \in Subs |-> "none"]
  /\ phase = [s \in Subs |-> "none"] /\ wm = [s \in Subs |-> ReplicaVersion]
  /\ backlog = [s \in Subs |-> <<>>] /\ found = [s \in Subs |-> FALSE]
  /\ snap = [s \in Subs |-> {}] /\ down = [s \in Subs |-> <<>>]
  /\ rep = [s \in Subs |-> "up"] /\ repTx = [s \in Subs |-> NoTx]
  /\ size = [s \in Subs |-> 0] /\ replica = [s \in Subs |-> ReplicaVersion]
  /\ have = [s \in Subs |-> <<>>]

Stream == \/ StreamChange \/ SourceRollback \/ SourceStatus \/ Resume
          \/ StreamFails \/ StreamEnds \/ Retry \/ Connect \/ ConnectFails

Store == \/ StorerReady \/ StorerSubscriber \/ StorerStatus \/ StorerAbort
         \/ StorerWrite \/ StorerCommit \/ StorerCommitted \/ StorerRollback
         \/ StorerStop

Catchup(s) == CatchupSend(s) \/ CatchupReject(s) \/ CatchupDone(s)

Consume(s) == \/ ConsumeBegin(s) \/ ConsumeData(s) \/ ConsumeCommit(s)
              \/ ConsumeRollback(s) \/ ConsumeError(s) \/ ConsumeUnexpected(s)

Next ==
  \/ Stream \/ StopService \/ Crash \/ Restart
  \/ Store \/ StorerCommitFails
  \/ PurgeCheck \/ PurgeDelete
  \/ \E s \in Subs : Subscribe(s) \/ Disconnect(s) \/ Catchup(s) \/ Consume(s)

Spec == Init /\ [][Next]_vars

\* The event loop runs every handler that is ready, upstream goes on sending,
\* and the supervisor starts a process that has exited.  No fault is fair.
Fairness ==
  /\ WF_vars(StreamChange) /\ WF_vars(Resume) /\ WF_vars(StreamEnds)
  /\ WF_vars(Retry) /\ WF_vars(Connect) /\ WF_vars(Restart)
  /\ WF_vars(Store) /\ WF_vars(PurgeDelete)
  /\ \A s \in Subs : /\ WF_vars(Subscribe(s)) /\ WF_vars(Catchup(s))
                     /\ WF_vars(Consume(s))

FairSpec == Spec /\ Fairness

-----------------------------------------------------------------------------
(* Properties *)

StreamTypeOK ==
  /\ loop \in {"waitReady", "connect", "streaming", "blocked", "backoff", "done"}
  /\ running \in BOOLEAN /\ streamOpen \in BOOLEAN /\ cur \in Watermark
  /\ purging \in Watermark /\ faults \in 0 .. MaxFaults
  /\ srcNext \in 1 .. MaxTx + 1 /\ srcPos \in 0 .. DataPerTx + 1

StorerTypeOK ==
  /\ queue \in Seq(QueueEntry) /\ storer \in {"idle", "stored", "stopped"}
  /\ tx \in Watermark /\ catchupQueue \in SUBSET Subs /\ backPressure \in BOOLEAN

DbTypeOK ==
  /\ upstreamAck \in Watermark /\ lastWatermark \in Watermark
  /\ changeLog \in SUBSET TxID

SubTypeOK ==
  /\ inTransaction \in BOOLEAN /\ fwd \in [Subs -> {"none", "active", "queued"}]
  /\ phase \in [Subs -> {"none", "waiting", "reading", "failed", "live"}]
  /\ wm \in [Subs -> Watermark] /\ backlog \in [Subs -> Seq(Message)]
  /\ down \in [Subs -> Seq(Message)]

ReadTypeOK == found \in [Subs -> BOOLEAN] /\ snap \in [Subs -> SUBSET TxID]

ReplicaTypeOK ==
  /\ rep \in [Subs -> {"up", "rejected", "broken"}]
  /\ repTx \in [Subs -> Watermark] /\ size \in [Subs -> Nat]
  /\ replica \in [Subs -> Watermark] /\ have \in [Subs -> Seq(TxID)]

\* Every variable has its type: the parts above.
TypeOK == /\ StreamTypeOK /\ StorerTypeOK /\ DbTypeOK
          /\ SubTypeOK /\ ReadTypeOK /\ ReplicaTypeOK

\* A replica has applied every transaction up to its version, whole, in order and
\* once: what is read from the change DB and what is forwarded live are stitched
\* without a gap or an overlap, across catchup, rollbacks, purges and crashes.
ReplicaComplete ==
  \A s \in Subs : have[s] = [i \in 1 .. replica[s] |-> i]

\* A replicator never meets a message it cannot process: transactions arrive
\* properly bracketed whatever the stream, the storer and the catchup do.
StreamWellFormed == \A s \in Subs : rep[s] # "broken"

\* Upstream is told to forget a transaction only when it is in the change DB:
\* otherwise a restart of the stream would skip it.
AckedIsStored == upstreamAck <= lastWatermark

\* A replica at w can be caught up from the change DB, or is not behind it.
CanResume(w) ==
  w \in changeLog \/ w >= lastWatermark \/ (w = ReplicaVersion /\ 1 \in changeLog)

\* A purge never takes from a registered subscriber the change it would resume
\* from if its connection failed now.
NeverStranded ==
  [][\A s \in Registered : CanResume(replica[s]) => CanResume(replica[s])']_vars

\* The change DB holds, without a hole, everything from some transaction on: a
\* catchup that starts from a watermark it finds therefore misses nothing.
LogContiguous ==
  lastWatermark > 0 => \E lo \in 1 .. lastWatermark : changeLog = lo .. lastWatermark

\* The change DB and every replica move one transaction at a time, and upstream
\* is acknowledged behind the change DB: the abstract feed is implemented.
Feed == INSTANCE ChangeFeed WITH stored <- lastWatermark, acked <- upstreamAck,
                                 applied <- replica
ImplementsFeed == Feed!Spec

\* A service that has been told to stop does stop, by itself or by a crash: run()
\* returns, which is what the process waits for to exit.
StopsWhenTold == ~running ~> (loop = "done" \/ running)

\* However the faults fall, every replica that is not told to start over ends up
\* with all of the transactions.
CatchesUp ==
  \A s \in Subs : <>(rep[s] # "up" \/ ResetRequired \/ replica[s] = MaxTx)

-----------------------------------------------------------------------------
(* The queue between run() and the storer, as long as the storer runs *)

IsCommit(e) == e.type = "change" /\ e.msg.tag = "commit"
Commits == {i \in DOMAIN queue : IsCommit(queue[i])}
\* Entries that run() appends only while it is streaming.
FromStream(i) == queue[i].type \in {"change", "status"}

\* The queued commits are, in order, the transactions after lastWatermark.
CommitsInOrder ==
  /\ \A i \in Commits : queue[i].msg.w > lastWatermark
  /\ \A i, j \in Commits : i < j => queue[i].msg.w < queue[j].msg.w
  /\ \A i \in Commits : \/ queue[i].msg.w = lastWatermark + 1
                        \/ \E j \in Commits : j < i /\ queue[j].msg.w = queue[i].msg.w - 1

\* A status is behind the commit it tells upstream about.
StatusAfterCommit ==
  \A i \in DOMAIN queue : queue[i].type = "status" =>
    \/ queue[i].w <= lastWatermark
    \/ \E j \in Commits : j < i /\ queue[j].msg.w >= queue[i].w

\* What the source sends next comes after all that is stored or queued.
SourceFollowsQueue ==
  loop \in {"streaming", "blocked"} =>
    /\ srcNext > lastWatermark
    /\ \A i \in Commits : queue[i].msg.w < srcNext
    /\ srcNext = lastWatermark + 1 \/ \E i \in Commits : queue[i].msg.w = srcNext - 1

\* 'ready' is signaled when nothing of the interrupted stream is left to process.
ReadyIsLast ==
  /\ \A i \in DOMAIN queue : queue[i].type = "ready" =>
       /\ loop = "waitReady"
       /\ \A j \in DOMAIN queue : j > i => ~FromStream(j) /\ queue[j].type # "ready"
  /\ loop = "connect" => \A i \in DOMAIN queue : ~FromStream(i)

\* The stream resumes right after the change DB although run() and the storer
\* go at their own pace: a new stream starts only once the queue of the previous
\* one has been stored, and nothing is stored out of order or acknowledged early.
QueueInOrder ==
  storer # "stopped" =>
    CommitsInOrder /\ StatusAfterCommit /\ SourceFollowsQueue /\ ReadyIsLast
=============================================================================
