------------------------------ MODULE ViewSyncer ------------------------------
(***************************************************************************)
(* The view syncer of one client group: it keeps a client view record      *)
(* (CVR) of what the group's clients have been sent, runs pipelines for    *)
(* their queries over snapshots of the replica, and pokes each client from *)
(* the version it has to the newest one.                                   *)
(*                                                                         *)
(* What a client is shown is a function from keys to values: a row's       *)
(* version, whether a query is got, whether a client desires a query; 0    *)
(* stands for nothing.  A patch is a key, a value and the CVR version at   *)
(* which the value came to be.                                             *)
(*                                                                         *)
(* Work is done in tasks that hold #lock; a task is a sequence of steps,   *)
(* between which connections come and go.  The CVR that a task loads is    *)
(* the one in the database, which the module CVRStore is about.            *)
(***************************************************************************)
EXTENDS Naturals, Sequences

CONSTANTS
  Clients, Queries, Rows,
  Replica,      \* Replica[s][r]: the version of r and the queries it is a result of
  InitialWants, \* the queries a client wants at first
  MaxRequests,  \* bound: changes of what the clients want
  MaxFaults,    \* bound: lost connections, restarts, resets
  Environment,  \* what may happen, a subset of Behaviours
  None

\* "deaf"     a connection is lost, which either side notices later
\* "restart"  the view syncer ends, and is run again by a task whose replica is elsewhere
\* "reset"    an advancement is abandoned, and the pipelines are built anew
\* "earlyExpiry"  the timer goes off while the replica is still behind the CVR
Behaviours == {"deaf", "restart", "reset", "earlyExpiry"}

\* A row that is a result of a query has a version.
ASSUME ViewSyncerAssumption ==
  /\ Replica \in Seq([Rows -> [version : Nat, in : SUBSET Queries]]) /\ Replica # <<>>
  /\ \A s \in 1..Len(Replica), r \in Rows : Replica[s][r].in # {} => Replica[s][r].version # 0
  /\ InitialWants \in [Clients -> SUBSET Queries]
  /\ MaxRequests \in Nat /\ MaxFaults \in Nat /\ Environment \subseteq Behaviours

\* A version of the CVR: a state version and a minor one, for changes of the configuration.
Version == Nat \X Nat

\* The records of the CVR, what is remembered of a row's last patch, and an updater.
RowRecord == [ver : Nat, at : Version, refs : SUBSET Queries]
QueryRecord == [st : {"unknown", "desired", "got", "deleted"}, at : Version]
RowPatchInfo == [ver : Nat, to : Version]
UpdateTask ==
  [at : {"execute", "advance", "catchup"}, orig : Version, version : Version,
   executed : SUBSET Queries, tracked : SUBSET Queries,
   changes : SUBSET (Queries \X Rows \X {"add", "edit", "remove"}),
   queries : [Queries -> QueryRecord],
   received : [Rows -> (SUBSET Queries) \cup {None}],
   last : [Rows -> RowPatchInfo \cup {None}],
   rows : [Rows -> RowRecord \cup {None}]]

VARIABLES
  db,        \* the replica's state version
  notified,  \* #stateChanges holds a version-ready
  pipes,     \* PipelineDriver: its snapshot (0: none), its queries, #pipelinesSynced
  cvr,       \* the CVR
  task,      \* the task that holds #lock, and its updater
  handlers,  \* #clients: base version, the poke under way, the messages that wait for the lock
  tabs,      \* the clients themselves
  requests, faults

serverVars == <<notified, pipes, cvr, task>>
vars == <<db, serverVars, handlers, tabs, requests, faults>>

Fault(kind) == kind \in Environment /\ faults < MaxFaults /\ faults' = faults + 1

-----------------------------------------------------------------------------
(* Versions *)

ZeroVersion == <<0, 0>>
Less(v, w) == v[1] < w[1] \/ (v[1] = w[1] /\ v[2] < w[2])
LaterOf(v, w) == IF Less(v, w) THEN w ELSE v
OneAfter(v) == <<v[1], v[2] + 1>>

RowKey(r) == <<"row", r>>
GotKey(q) == <<"got", q>>
DesiredKey(c, q) == <<"desired", c, q>>
Keys == {RowKey(r) : r \in Rows} \cup {GotKey(q) : q \in Queries}
          \cup {DesiredKey(c, q) : c \in Clients, q \in Queries}

\* What a client asks for, and what is kept of a client that is connected.
Message == [put : SUBSET Queries, del : SUBSET Queries]
Poke == [started : BOOLEAN, draft : [Keys -> Nat]]
Handler == [base : Version, poke : Poke \cup {None}, queue : Seq(Message)]

ASSUME NoneAssumption ==
  /\ None \notin RowRecord /\ None \notin RowPatchInfo /\ None \notin UpdateTask
  /\ None \notin Poke /\ None \notin Handler
  /\ (\A qs \in SUBSET Queries : qs # None) /\ [at |-> "sync"] # None

Patch(key, value, at) == [key |-> key, value |-> value, at |-> at]

\* The patches of a set have different keys.
Apply(view, patches) ==
  [k \in Keys |-> IF \E p \in patches : p.key = k
                  THEN (CHOOSE p \in patches : p.key = k).value ELSE view[k]]

-----------------------------------------------------------------------------
(* ClientHandler *)

Connected(c) == handlers[c] # None
NoHandlers == [c \in Clients |-> None]

\* #getClients(): all of them, or those at a version.
AllClients == {c \in Clients : Connected(c)}
ClientsAt(v) == {c \in AllClients : handlers[c].base = v}

\* startPoke(): a client that has the version already gets nothing.
StartPoke(cs, to) ==
  [c \in Clients |->
     IF c \in cs /\ Less(handlers[c].base, to)
     THEN [handlers[c] EXCEPT !.poke = [started |-> FALSE, draft |-> tabs[c].view]]
     ELSE handlers[c]]

Poked(hs, c) == hs[c] # None /\ hs[c].poke # None

\* A patch is for a client whose base is older than it.
News(h, patches) == {p \in patches : Less(h.base, p.at)}

\* addPatch(): 'pokeStart' is sent with the first patch.
AddPatches(hs, patches) ==
  [c \in Clients |->
     IF Poked(hs, c) /\ News(hs[c], patches) # {}
     THEN [hs[c] EXCEPT !.poke = [started |-> TRUE, draft |-> Apply(@.draft, News(hs[c], patches))]]
     ELSE hs[c]]

\* end(): a poke that was not started may have to be, for the new cookie.
Ends(hs, c, final) == Poked(hs, c) /\ (hs[c].poke.started \/ hs[c].base # final)

PokesEnded(hs, final) ==
  /\ handlers' = [c \in Clients |->
       IF Ends(hs, c, final) THEN [hs[c] EXCEPT !.poke = None, !.base = final]
       ELSE IF Poked(hs, c) THEN [hs[c] EXCEPT !.poke = None] ELSE hs[c]]
  /\ tabs' = [c \in Clients |->
       IF Ends(hs, c, final) /\ ~tabs[c].deaf
       THEN [tabs[c] EXCEPT !.view = hs[c].poke.draft, !.cookie = final] ELSE tabs[c]]
\* The bound is there for its value to be computed once.
EndPokes(poked, final) == \E hs \in {poked} : PokesEnded(hs, final)

-----------------------------------------------------------------------------
(* The CVR *)

NoRow == [ver |-> 0, at |-> ZeroVersion, refs |-> {}]
\* The row cache has the rows that are referred to; others are tombstones.
Live(r) == cvr.rows[r].refs # {}

Known == {q \in Queries : cvr.queries[q].st \in {"desired", "got"}}
Got == {q \in Queries : cvr.queries[q].st = "got"}

\* Every client that ever desired the query has inactivated it.
Inactive(q) == \A c \in Clients : cvr.desires[c][q].st # "active"

-----------------------------------------------------------------------------
Init ==
  /\ db = 1 /\ notified = TRUE
  /\ pipes = [snap |-> 0, hydrated |-> {}, synced |-> FALSE]
  /\ cvr = [version |-> ZeroVersion, clients |-> {},
            rows |-> [r \in Rows |-> NoRow],
            queries |-> [q \in Queries |-> [st |-> "unknown", at |-> ZeroVersion]],
            desires |-> [c \in Clients |-> [q \in Queries |-> [st |-> "none", at |-> ZeroVersion]]]]
  /\ task = None
  /\ handlers = NoHandlers
  /\ tabs = [c \in Clients |-> [wants |-> InitialWants[c], cookie |-> ZeroVersion,
                                view |-> [k \in Keys |-> 0], deaf |-> FALSE]]
  /\ requests = 0 /\ faults = 0

-----------------------------------------------------------------------------
(* The clients and their connections *)

\* What a client has asked for, as far as it knows.
Asked(c) == {q \in Queries : tabs[c].view[DesiredKey(c, q)] = 1}

\* initConnection(): the handler replaces one that is left over, and the message waits for
\* the lock.
Connect(c) ==
  /\ ~Connected(c) \/ tabs[c].deaf
  /\ handlers' = [handlers EXCEPT ![c] =
       [base |-> tabs[c].cookie, poke |-> None,
        queue |-> <<[put |-> tabs[c].wants \ Asked(c), del |-> Asked(c) \ tabs[c].wants]>>]]
  /\ tabs' = [tabs EXCEPT ![c].deaf = FALSE]
  /\ UNCHANGED <<db, serverVars, requests, faults>>

\* The client hears nothing any more.
LoseConnection(c) ==
  /\ Connected(c) /\ ~tabs[c].deaf /\ Fault("deaf")
  /\ tabs' = [tabs EXCEPT ![c].deaf = TRUE]
  /\ UNCHANGED <<db, serverVars, handlers, requests>>

\* #deleteClientDueToDisconnect(), outside of the lock.
Disconnect(c) ==
  /\ Connected(c) /\ tabs[c].deaf
  /\ handlers' = [handlers EXCEPT ![c] = None]
  /\ tabs' = [tabs EXCEPT ![c].deaf = FALSE]
  /\ UNCHANGED <<db, serverVars, requests, faults>>

\* The application wants a query, or no longer.
ChangeDesiredQueries(c, q) ==
  /\ requests < MaxRequests /\ requests' = requests + 1
  /\ LET wanted == q \in tabs[c].wants
     IN  /\ tabs' = [tabs EXCEPT ![c].wants = IF wanted THEN @ \ {q} ELSE @ \cup {q}]
         /\ handlers' = IF Connected(c) /\ ~tabs[c].deaf
              THEN [handlers EXCEPT ![c].queue = Append(@,
                      [put |-> IF wanted THEN {} ELSE {q}, del |-> IF wanted THEN {q} ELSE {}])]
              ELSE handlers
  /\ UNCHANGED <<db, serverVars, faults>>

\* The replicator commits a transaction, and notifies.
ReplicaAdvances ==
  /\ db < Len(Replica)
  /\ db' = db + 1 /\ notified' = TRUE
  /\ UNCHANGED <<pipes, cvr, task, handlers, tabs, requests, faults>>

-----------------------------------------------------------------------------
(* Changes of the configuration: CVRConfigDrivenUpdater *)

\* putDesiredQueries(): those that the client does not desire actively.
Needed(c, m) == {q \in m.put : cvr.desires[c][q].st # "active"}
\* markDesiredQueriesAsInactive(): those that it does.
Unwanted(c, m) == {q \in m.del : cvr.desires[c][q].st = "active"}

ConfigChanges(c, m) == c \notin cvr.clients \/ Needed(c, m) # {} \/ Unwanted(c, m) # {}

\* putQuery(): a query that is not known, or no longer, gets a record without a version.
Revived(q) == cvr.queries[q].st \in {"unknown", "deleted"}

Configured(c, m) ==
  LET v == IF ConfigChanges(c, m) THEN OneAfter(cvr.version) ELSE cvr.version
  IN  [cvr EXCEPT
         !.version = v,
         !.clients = @ \cup {c},
         !.desires[c] = [q \in Queries |->
            IF q \in Needed(c, m) THEN [st |-> "active", at |-> v]
            ELSE IF q \in Unwanted(c, m) THEN [st |-> "inactive", at |-> v] ELSE @[q]],
         !.queries = [q \in Queries |->
            IF q \in Needed(c, m) /\ Revived(q) THEN [st |-> "desired", at |-> ZeroVersion] ELSE @[q]]]

ConfigPatches(c, m, v) ==
  {Patch(DesiredKey(c, q), 1, v) : q \in Needed(c, m)}
    \cup {Patch(DesiredKey(c, q), 0, v) : q \in Unwanted(c, m)}

\* The first message of a client; those of a connection that is gone are not responded to.
\* #updateCVRConfig() flushes, and pokes the clients that were at the old version.  Then
\* the queries are brought in line, if the pipelines are.
HandleMessage(c) ==
  /\ task = None /\ Connected(c) /\ handlers[c].queue # <<>>
  /\ LET m == Head(handlers[c].queue)
         new == Configured(c, m)
         poked == AddPatches(StartPoke(ClientsAt(cvr.version), new.version),
                             ConfigPatches(c, m, new.version))
     IN  /\ cvr' = new
         /\ EndPokes([poked EXCEPT ![c].queue = Tail(@)], new.version)
  /\ task' = IF pipes.synced THEN [at |-> "sync"] ELSE None
  /\ UNCHANGED <<db, notified, pipes, requests, faults>>

-----------------------------------------------------------------------------
(* CVRQueryDrivenUpdater *)

\* Mutant: the removal of a query does not take a new version.
UpdatedVersion_Executed(snap, executed, removed) ==
  IF snap > cvr.version[1] THEN <<snap, 0>>
  ELSE IF executed \ Got # {} THEN OneAfter(cvr.version) ELSE cvr.version

\* A new version if the snapshot is newer than the CVR's state, or a query is new or removed.
UpdatedVersion(snap, executed, removed) ==
  IF snap > cvr.version[1] THEN <<snap, 0>>
  ELSE IF removed # {} \/ executed \ Got # {} THEN OneAfter(cvr.version) ELSE cvr.version

\* The updater of a task, with what trackQueries() does to the executed and removed queries.
Updater(at, snap, executed, removed, changes) ==
  LET v == UpdatedVersion(snap, executed, removed)
  IN  [at |-> at, orig |-> cvr.version, version |-> v, executed |-> executed,
       tracked |-> executed \cup removed, changes |-> changes,
       queries |-> [q \in Queries |->
          IF q \in removed THEN [st |-> "deleted", at |-> v]
          ELSE IF q \in executed \ Got THEN [st |-> "got", at |-> v]
          ELSE cvr.queries[q]],
       received |-> [r \in Rows |-> None],   \* #receivedRows; {} for null
       last |-> [r \in Rows |-> None],       \* #lastPatches
       rows |-> [r \in Rows |-> None]]       \* the CVR store's #pendingRowRecordUpdates

QueryPatches(executed, removed, v) ==
  {Patch(GotKey(q), 1, v) : q \in executed \ Got} \cup {Patch(GotKey(q), 0, v) : q \in removed}

\* A batch of changes <<q, r, type>>: what it says of a row.
RowsOf(batch) == {x[2] : x \in batch}
Having(batch, r, types) == {q \in Queries : \E type \in types : <<q, r, type>> \in batch}
RowVersion(batch, r) ==
  IF Having(batch, r, {"add", "edit"}) # {} THEN Replica[pipes.snap][r].version ELSE 0

\* Mutant: the references of the queries that are executed again are kept.
Retained_All(r) == cvr.rows[r].refs

\* mergeRefCounts(): executed and removed queries do not count for an existing row.
Retained(r) == cvr.rows[r].refs \ task.tracked

Merged(batch, r) ==
  ((IF task.received[r] # None THEN task.received[r] ELSE Retained(r))
     \ Having(batch, r, {"remove"})) \cup Having(batch, r, {"add"})

\* An existing row that is unchanged keeps its patch version.
Unchanged(batch, r) ==
  Live(r) /\ Merged(batch, r) # {} /\ cvr.rows[r].ver = RowVersion(batch, r)

PatchVersion(batch, r) == IF Unchanged(batch, r) THEN cvr.rows[r].at ELSE task.version

\* The record to be put; none for a row that was not in the CVR, came and went.
Record(batch, r) ==
  LET ver == IF RowVersion(batch, r) # 0 THEN RowVersion(batch, r) ELSE cvr.rows[r].ver
  IN  IF ~Live(r) /\ RowVersion(batch, r) = 0 THEN None
      ELSE [ver |-> ver, at |-> PatchVersion(batch, r), refs |-> Merged(batch, r)]

\* The version of a patch never backtracks.
ToVersion(batch, r) ==
  IF task.last[r] = None THEN PatchVersion(batch, r)
  ELSE LaterOf(PatchVersion(batch, r), task.last[r].to)

\* Patches are deduped against the last one sent for the row.
Deleted(batch) ==
  {r \in RowsOf(batch) : /\ Merged(batch, r) = {}
                         /\ Live(r) \/ task.received[r] \notin {None, {}}
                         /\ task.last[r] = None \/ task.last[r].ver # 0}
Put(batch) ==
  {r \in RowsOf(batch) : /\ Merged(batch, r) # {} /\ RowVersion(batch, r) # 0
                         /\ task.last[r] = None \/ task.last[r].ver < RowVersion(batch, r)}

RowPatches(batch) ==
  {Patch(RowKey(r), 0, ToVersion(batch, r)) : r \in Deleted(batch)}
    \cup {Patch(RowKey(r), RowVersion(batch, r), ToVersion(batch, r)) : r \in Put(batch)}

\* received(): the task after a batch.
Received(batch) ==
  LET rs == RowsOf(batch)
      put == Put(batch)
  IN  [task EXCEPT
         !.changes = @ \ batch,
         !.received = [r \in Rows |-> IF r \in rs THEN Merged(batch, r) ELSE @[r]],
         !.last = [r \in Rows |->
            IF r \in Deleted(batch) \cup put
            THEN [ver |-> IF r \in put THEN RowVersion(batch, r) ELSE 0, to |-> ToVersion(batch, r)]
            ELSE @[r]],
         !.rows = [r \in Rows |-> IF r \in rs THEN Record(batch, r) ELSE @[r]]]

\* deleteUnreferencedRows(): existing rows of executed and removed queries that were not received.
Unreceived == {r \in Rows : cvr.rows[r].refs \cap task.tracked # {} /\ task.received[r] \in {None, {}}}
Unreferenced == {r \in Unreceived : Retained(r) = {}}
Pruned ==
  [task EXCEPT !.rows = [r \in Rows |->
     IF r \notin Unreceived THEN @[r]
     ELSE [cvr.rows[r] EXCEPT !.refs = Retained(r),
                              !.at = IF r \in Unreferenced THEN task.version ELSE @]]]

\* flush(): row records that are not news to the CVR are skipped, and without anything to
\* write the CVR stays as it is, at its version.
Written(t) ==
  {r \in Rows : t.rows[r] # None /\ (Live(r) \/ t.rows[r].refs # {}) /\ t.rows[r] # cvr.rows[r]}
FlushedCVR(t) ==
  IF Written(t) = {} /\ t.queries = cvr.queries THEN cvr
  ELSE [cvr EXCEPT !.version = t.version, !.queries = t.queries,
                   !.rows = [r \in Rows |-> IF r \in Written(t) THEN t.rows[r] ELSE @[r]]]

-----------------------------------------------------------------------------
(* #catchupClients() *)

\* From the version of the client that is furthest behind.
CatchupFrom(upTo) ==
  CHOOSE v \in {upTo} \cup {handlers[c].base : c \in AllClients} :
    \A w \in {upTo} \cup {handlers[c].base : c \in AllClients} : ~Less(w, v)

Between(at, from, to) == Less(from, at) /\ ~Less(to, at)

CaughtUpRows(from, to, excluded) ==
  {r \in Rows : Between(cvr.rows[r].at, from, to) /\ cvr.rows[r].refs \cap excluded = {}}

\* What the database has of the versions up to one.  A row is read from the pipelines' tables.
CatchupPatches(to, excluded) ==
  LET from == CatchupFrom(to)
  IN  {Patch(RowKey(r), IF Live(r) THEN Replica[pipes.snap][r].version ELSE 0, cvr.rows[r].at) :
         r \in CaughtUpRows(from, to, excluded)}
      \cup {Patch(GotKey(q), IF cvr.queries[q].st = "got" THEN 1 ELSE 0, cvr.queries[q].at) :
         q \in {q \in Queries : Between(cvr.queries[q].at, from, to)}}
      \cup {Patch(DesiredKey(x[1], x[2]), IF cvr.desires[x[1]][x[2]].st = "active" THEN 1 ELSE 0,
                  cvr.desires[x[1]][x[2]].at) :
         x \in {x \in Clients \X Queries : Between(cvr.desires[x[1]][x[2]].at, from, to)}}

-----------------------------------------------------------------------------
(* #syncQueryPipelineSet() *)

\* Mutant: the queries that are got are not executed again.
Unhydrated_NotGot(wanted) == wanted \ Got

\* The queries that the pipelines do not have are executed.
Unhydrated(wanted) == wanted \ pipes.hydrated

\* The rest of the known queries, when some have expired, are the pipelines'.
SyncWith(expiredOnes) ==
  LET wanted == Known \ expiredOnes
      executed == Unhydrated(wanted)
      rows == {x \in executed \X Rows : x[1] \in Replica[pipes.snap][x[2]].in}
  IN  IF executed = {} /\ expiredOnes = {} /\ pipes.hydrated \subseteq wanted
      THEN /\ task' = None
           /\ EndPokes(AddPatches(StartPoke(AllClients, cvr.version), CatchupPatches(cvr.version, {})),
                       cvr.version)
           /\ UNCHANGED pipes
      ELSE /\ task' = Updater("execute", pipes.snap, executed, expiredOnes,
                               {<<x[1], x[2], "add">> : x \in rows})
           /\ pipes' = [pipes EXCEPT !.hydrated = wanted, !.synced = TRUE]
           /\ handlers' = AddPatches(StartPoke(AllClients, task'.version),
                                     QueryPatches(executed, expiredOnes, task'.version))
           /\ UNCHANGED tabs

Expirable == {q \in Known : Inactive(q)}

Sync ==
  /\ task # None /\ task.at = "sync"
  /\ \E expiredOnes \in SUBSET Expirable : SyncWith(expiredOnes)
  /\ UNCHANGED <<db, notified, cvr, requests, faults>>

\* The timer of #scheduleExpireEviction(), which is set when a message has been handled and
\* stopped with the last client, for pipelines that have been initialized; whether they have
\* caught up with the CVR is not looked at, and taken for granted from then on.
ExpireQueries ==
  /\ task = None /\ pipes.snap # 0
  /\ \E c \in AllClients : handlers[c].queue = <<>>
  /\ pipes.synced \/ "earlyExpiry" \in Environment
  /\ \E expiredOnes \in (SUBSET Expirable) \ {{}} : SyncWith(expiredOnes)
  /\ UNCHANGED <<db, notified, cvr, requests, faults>>

\* #processChanges(): the rows of a query, or all there are.
Execute ==
  /\ task # None /\ task.at = "execute" /\ task.changes # {}
  /\ \E batch \in {task.changes} \cup {{x \in task.changes : x[1] = q} : q \in Queries} :
       /\ batch # {}
       /\ task' = Received(batch)
       /\ handlers' = AddPatches(handlers, RowPatches(batch))
  /\ UNCHANGED <<db, notified, pipes, cvr, tabs, requests, faults>>

Flush ==
  /\ task # None /\ task.at = "execute" /\ task.changes = {}
  /\ cvr' = FlushedCVR(Pruned)
  /\ task' = [Pruned EXCEPT !.at = "catchup"]
  /\ handlers' = AddPatches(handlers, {Patch(RowKey(r), 0, task.version) : r \in Unreferenced})
  /\ UNCHANGED <<db, notified, pipes, tabs, requests, faults>>

\* Clients that were behind the old CVR are caught up with it before the poke ends.
CatchUp ==
  /\ task # None /\ task.at = "catchup"
  /\ EndPokes(AddPatches(handlers, CatchupPatches(task.orig, task.executed)), cvr.version)
  /\ task' = None
  /\ UNCHANGED <<db, notified, pipes, cvr, requests, faults>>

-----------------------------------------------------------------------------
(* run() *)

\* #hydrateUnchangedQueries(), for a CVR that is at the version of the database.
UnchangedQueries ==
  IF cvr.version[1] = db THEN {q \in Got : ~Inactive(q)} ELSE {}

\* The first version that is not behind the CVR.
StartPipelines ==
  /\ task = None /\ notified /\ ~pipes.synced
  /\ notified' = FALSE
  /\ IF db < cvr.version[1]
     THEN pipes' = [pipes EXCEPT !.snap = db] /\ UNCHANGED task
     ELSE /\ pipes' = [snap |-> db, hydrated |-> UnchangedQueries, synced |-> TRUE]
          /\ task' = [at |-> "sync"]
  /\ UNCHANGED <<db, cvr, handlers, tabs, requests, faults>>

\* What the pipelines make of the replica's changes.
Diff(old, new) ==
  {<<x[1], x[2], "add">> : x \in {x \in pipes.hydrated \X Rows :
      x[1] \in Replica[new][x[2]].in \ Replica[old][x[2]].in}}
  \cup {<<x[1], x[2], "remove">> : x \in {x \in pipes.hydrated \X Rows :
      x[1] \in Replica[old][x[2]].in \ Replica[new][x[2]].in}}
  \cup {<<x[1], x[2], "edit">> : x \in {x \in pipes.hydrated \X Rows :
      /\ x[1] \in Replica[old][x[2]].in \cap Replica[new][x[2]].in
      /\ Replica[old][x[2]].version # Replica[new][x[2]].version}}

\* Mutant: every client is poked.
UpToDate_All == AllClients

\* Clients that are behind the CVR have to be caught up first.
UpToDate == ClientsAt(cvr.version)

\* #advancePipelines()
Advance ==
  /\ task = None /\ notified /\ pipes.synced
  /\ notified' = FALSE
  /\ LET t == Updater("advance", db, {}, {}, Diff(pipes.snap, db))
     IN  task' = t /\ handlers' = StartPoke(UpToDate, t.version)
  /\ pipes' = [pipes EXCEPT !.snap = db]
  /\ UNCHANGED <<db, cvr, tabs, requests, faults>>

\* The changes are received in one batch.
FinishAdvance ==
  /\ task # None /\ task.at = "advance"
  /\ cvr' = FlushedCVR(Received(task.changes))
  /\ EndPokes(AddPatches(handlers, RowPatches(task.changes)), cvr'.version)
  /\ task' = None
  /\ UNCHANGED <<db, notified, pipes, requests, faults>>

\* A ResetPipelinesSignal: the poke is canceled, and the pipelines start again.
ResetPipelines ==
  /\ task # None /\ task.at = "advance" /\ Fault("reset")
  /\ handlers' = [c \in Clients |-> IF Poked(handlers, c) THEN [handlers[c] EXCEPT !.poke = None]
                                    ELSE handlers[c]]
  /\ pipes' = [snap |-> db, hydrated |-> UnchangedQueries, synced |-> TRUE]
  /\ task' = [at |-> "sync"]
  /\ UNCHANGED <<db, notified, cvr, tabs, requests>>

\* The view syncer ends at any step, and another is run by a task whose replica may be older.
Restart ==
  /\ Fault("restart")
  /\ db' \in 1..Len(Replica) /\ notified' = TRUE
  /\ pipes' = [snap |-> 0, hydrated |-> {}, synced |-> FALSE]
  /\ task' = None /\ handlers' = NoHandlers
  /\ tabs' = [c \in Clients |-> [tabs[c] EXCEPT !.deaf = FALSE]]
  /\ UNCHANGED <<cvr, requests>>

Next ==
  \/ \E c \in Clients : Connect(c) \/ LoseConnection(c) \/ Disconnect(c) \/ HandleMessage(c)
  \/ \E c \in Clients, q \in Queries : ChangeDesiredQueries(c, q)
  \/ ReplicaAdvances
  \/ Sync \/ ExpireQueries \/ Execute \/ Flush \/ CatchUp
  \/ StartPipelines \/ Advance \/ FinishAdvance \/ ResetPipelines
  \/ Restart

Spec == Init /\ [][Next]_vars

\* What goes on without anybody's doing: the replicator applies what is committed, clients
\* reconnect, and the event loop and the lock serve every task.
Goes ==
  \/ ReplicaAdvances
  \/ \E c \in Clients : Connect(c) \/ Disconnect(c) \/ HandleMessage(c)
  \/ StartPipelines \/ Advance
  \/ Sync \/ Execute \/ Flush \/ CatchUp \/ FinishAdvance

\* One of them is taken as long as there is one; that is enough, since none can be taken
\* forever.  Nobody has to change queries, and no time has to pass.
FairSpec == Spec /\ WF_vars(Goes)

-----------------------------------------------------------------------------
(* Properties *)

\* What the CVR says a client is shown, and since when.
Shown(k) ==
  CASE k[1] = "row" -> [value |-> IF Live(k[2]) THEN cvr.rows[k[2]].ver ELSE 0, at |-> cvr.rows[k[2]].at]
    [] k[1] = "got" -> [value |-> IF cvr.queries[k[2]].st = "got" THEN 1 ELSE 0, at |-> cvr.queries[k[2]].at]
    [] OTHER -> [value |-> IF cvr.desires[k[2]][k[3]].st = "active" THEN 1 ELSE 0,
                 at |-> cvr.desires[k[2]][k[3]].at]

\* Whatever a client has been poked with, and however it was disconnected and caught up in
\* between, it is shown all that the CVR says it was shown by the version of its cookie:
\* no row, result or desire that came to be by then is missing or stale (News, the bounds
\* of the catchup, and the clients that an advancement pokes).  A query that was removed and
\* is desired anew has no version until it is got.
Undated == {GotKey(q) : q \in {q \in Queries : cvr.queries[q].st = "desired"}}
ViewsMatch ==
  \A c \in Clients, k \in Keys \ Undated :
    ~Less(tabs[c].cookie, Shown(k).at) => tabs[c].view[k] = Shown(k).value

\* Between the tasks of running pipelines, the CVR has as rows the results of the queries
\* that are got, as they are in the pipelines' snapshot, with the references of each.
RowsMatchQueries ==
  task = None /\ pipes.synced =>
    \A r \in Rows :
      /\ cvr.rows[r].refs = Replica[pipes.snap][r].in \cap Got
      /\ Live(r) => cvr.rows[r].ver = Replica[pipes.snap][r].version

\* The assertions of the code hold: a row that is changed has a new CVR version to be
\* changed at; a change belongs to a query the CVR has got; a row to catch up with is in
\* the replica; a poke that was started ends at a later version than it began.
AssertionsHold ==
  /\ task # None /\ task.at \in {"execute", "advance"} =>
       /\ \A r \in RowsOf(task.changes) : ~Unchanged(task.changes, r) => Less(task.orig, task.version)
       /\ task.at = "execute" /\ task.changes = {} /\ Unreferenced # {} => Less(task.orig, task.version)
       /\ task.at = "advance" => pipes.hydrated \subseteq Got
  /\ task # None /\ task.at = "catchup" =>
       /\ \A r \in CaughtUpRows(CatchupFrom(task.orig), task.orig, task.executed) :
            Live(r) => Replica[pipes.snap][r].version # 0
       /\ \A c \in Clients : Poked(handlers, c) /\ handlers[c].poke.started => Less(handlers[c].base, cvr.version)

\* Every client that wants it is connected again and is shown the results, as of the newest
\* version of the replica, of every query that the server knows it to desire.
UpToDateView(c) ==
  /\ Connected(c) /\ ~tabs[c].deaf /\ tabs[c].cookie = cvr.version
  /\ \A k \in Keys : tabs[c].view[k] = Shown(k).value
  /\ \A q \in Queries : cvr.desires[c][q].st = "active" => q \in Got
  /\ \A r \in Rows : Replica[Len(Replica)][r].in \cap Got # {} =>
                       tabs[c].view[RowKey(r)] = Replica[Len(Replica)][r].version
CatchesUp == <>[](\A c \in Clients : UpToDateView(c))

\* The queries that a client wants become those that the server knows it to desire.
WantsHonored == <>[](\A c \in Clients : Asked(c) = tabs[c].wants)
=============================================================================
