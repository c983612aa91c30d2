------------------------------ MODULE Replicache ------------------------------
(***************************************************************************)
(* The tabs of one client group.  Each keeps its commits in memory (the    *)
(* memdag, a LazyStore) above a database that all of them share (the       *)
(* perdag): mutate, push, pull, persist, refresh, and the collection of    *)
(* clients that have gone away.                                            *)
(*                                                                         *)
(* A commit is a snapshot with the local mutations on it, oldest first.    *)
(* The server's state at a cookie is the IDs of the mutations it contains. *)
(* An action is one transaction of a dag store: what a function carries    *)
(* over the await to its next transaction is its phase.                    *)
(***************************************************************************)
EXTENDS Integers, Sequences, FiniteSets, SequencesExt, Selection

CONSTANTS
  Clients,       \* the clients that are ever created; a tab that reopens is a new one
  Writers,       \* those of them that mutate
  MaxMutations,  \* bound: mutations of a client
  MaxCookie,     \* bound: states of the server
  Environment,   \* what the surroundings may do, a subset of Behaviours
  None

\* "pull"    clients pull
\* "close"   tabs are closed
\* "freeze"  a tab may be frozen for so long that its client is collected
Behaviours == {"pull", "close", "freeze"}

ASSUME ReplicacheAssumption ==
  /\ MaxMutations \in Nat /\ MaxCookie \in Nat /\ Writers \subseteq Clients
  /\ None \notin Clients /\ Environment \subseteq Behaviours

VARIABLES
  server,     \* server[v]: the last mutation ID of every client at cookie v
  \* perdag
  records,    \* the head 'clients': refreshHashes and persistHash of every client
  group,      \* the head 'client-groups': headHash, mutationIDs
  stored,     \* the chunks it holds
  \* per client
  main,       \* the memdag's DEFAULT_HEAD_NAME, None while the tab is closed
  memOnly,    \* #memOnlyChunks
  sync,       \* SYNC_HEAD_NAME, with the snapshot that it is based on
  asked,      \* the cookie with which a pull was sent
  persisting, \* where persist() stands
  refreshing, \* where refresh() stands
  due         \* what is scheduled: "persist", "refresh"; "closed" after that

perdagVars == <<records, group, stored>>
tabVars    == <<main, memOnly, sync, asked, persisting, refreshing, due>>
vars       == <<server, perdagVars, tabVars>>

\* A mutation, the hash of a snapshot, a snapshot, and a commit.
Mutation == [client : Clients, id : Nat]
Hash == Nat \X Clients
Snapshot == [cookie : Nat, by : Clients, base : Hash]
Commit == [snap : Snapshot, locals : Seq(Mutation)]

ASSUME NoneAssumption == None \notin Commit

Idle == [at |-> "idle"]
Open(c) == main[c] # None
Registered(c) == c \in DOMAIN records

-----------------------------------------------------------------------------
(* Commits. *)

\* A hash.  A client puts at most one snapshot of a cookie under its main head.
SnapshotID(s) == <<s.cookie, s.by>>

\* lastMutationIDs of a snapshot.
Acked(s) == IF s.cookie = 0 THEN [c \in Clients |-> 0] ELSE server[s.cookie]

\* Commit.getMutationID()
MutationID(k, c) ==
  LET own == {i \in DOMAIN k.locals : k.locals[i].client = c}
  IN  IF own = {} THEN Acked(k.snap)[c] ELSE k.locals[Max(own)].id

\* localMutationsGreaterThan() for one client.
OwnGreaterThan(k, c, limit) ==
  Picked(k.locals, {m \in ToSet(k.locals) : m.client = c /\ m.id > limit})

\* rebase(): mutations that the basis already reflects are skipped.  Mutant: they are not.
Rebase_All(mutations, basis) == [basis EXCEPT !.locals = @ \o mutations]
Rebase(mutations, basis) ==
  FoldLeft(LAMBDA k, m : IF m.id > MutationID(k, m.client)
                         THEN [k EXCEPT !.locals = Append(@, m)] ELSE k,
           basis, mutations)

\* A tree has two leaves, which snapshots replace in turn: that of a snapshot consists
\* of its own leaf and of its base's.  A snapshot has no reference to its base.
SnapshotChunks(s) ==
  {<<"commit", SnapshotID(s)>>, <<"leaf", SnapshotID(s)>>, <<"leaf", s.base>>}
LocalChunks(k) ==
  {<<"local", SnapshotID(k.snap), SubSeq(k.locals, 1, i)>> : i \in 1 .. Len(k.locals)}
Chunks(k) == SnapshotChunks(k.snap) \cup LocalChunks(k)

\* What the heads of the perdag reach.
Reachable(recs, g) ==
  (IF g.head = None THEN {} ELSE Chunks(g.head))
    \cup (UNION {UNION {Chunks(k) : k \in recs[c].refreshHashes} : c \in DOMAIN recs})
    \cup (UNION {UNION {SnapshotChunks(s) : s \in recs[c].persistHash} : c \in DOMAIN recs})

\* A write to the perdag deletes what is not reachable when it commits.
PerdagWrite(recs, g, put) ==
  /\ records' = recs
  /\ group' = g
  /\ stored' = (stored \cup put) \cap Reachable(recs, g)

\* A write to the memdag, which likewise keeps what its head reaches.
SetMain(c, k, created) ==
  /\ main' = [main EXCEPT ![c] = k]
  /\ memOnly' = [memOnly EXCEPT ![c] = (@ \cup created) \cap Chunks(k)]

Schedule(c, what) == due' = [due EXCEPT ![c] = @ \cup {what}]

-----------------------------------------------------------------------------
Init ==
  /\ server = <<>>
  /\ records = <<>>
  /\ group = [head |-> None, mutationIDs |-> [c \in Clients |-> 0]]
  /\ stored = {}
  /\ main = [c \in Clients |-> None]
  /\ memOnly = [c \in Clients |-> {}]
  /\ sync = [c \in Clients |-> None]
  /\ asked = [c \in Clients |-> None]
  /\ persisting = [c \in Clients |-> Idle]
  /\ refreshing = [c \in Clients |-> Idle]
  /\ due = [c \in Clients |-> {}]

\* #open() and initClientV6(): a client joins the group, or creates it with an empty
\* snapshot.
OpenTab(c) ==
  /\ ~Open(c) /\ ~Registered(c)
  /\ due[c] = {}      \* a client ID is used once
  /\ LET empty == [snap |-> [cookie |-> 0, by |-> c, base |-> <<0, c>>], locals |-> <<>>]
         head == IF group.head = None THEN empty ELSE group.head
     IN  /\ PerdagWrite([d \in DOMAIN records \cup {c} |->
                           IF d = c THEN [refreshHashes |-> {head}, persistHash |-> {}]
                           ELSE records[d]],
                        [group EXCEPT !.head = head], Chunks(head))
         /\ main' = [main EXCEPT ![c] = head]
  /\ UNCHANGED <<server, memOnly, sync, asked, persisting, refreshing, due>>

\* close(), or the browser ends the tab.
CloseTab(c) ==
  /\ "close" \in Environment
  /\ Open(c)
  /\ main' = [main EXCEPT ![c] = None]
  /\ memOnly' = [memOnly EXCEPT ![c] = {}]
  /\ sync' = [sync EXCEPT ![c] = None]
  /\ asked' = [asked EXCEPT ![c] = None]
  /\ persisting' = [persisting EXCEPT ![c] = Idle]
  /\ refreshing' = [refreshing EXCEPT ![c] = Idle]
  /\ due' = [due EXCEPT ![c] = {"closed"}]
  /\ UNCHANGED <<server, perdagVars>>

\* gcClients(): a client whose heartbeat is too old is removed, by another one.
CollectClient(c) ==
  /\ Registered(c)
  /\ ~Open(c) \/ "freeze" \in Environment
  /\ \E d \in Clients \ {c} : Open(d)
  /\ PerdagWrite([d \in DOMAIN records \ {c} |-> records[d]], group, {})
  /\ UNCHANGED <<server, tabVars>>

-----------------------------------------------------------------------------
(* Mutations and their way to the server. *)

\* #mutate()
Mutate(c) ==
  /\ Open(c) /\ c \in Writers
  /\ MutationID(main[c], c) < MaxMutations
  /\ LET k == [main[c] EXCEPT !.locals =
                 Append(@, [client |-> c, id |-> MutationID(main[c], c) + 1])]
     IN  SetMain(c, k, LocalChunks(k) \ LocalChunks(main[c]))
  /\ Schedule(c, "persist")
  /\ UNCHANGED <<server, perdagVars, sync, asked, persisting, refreshing>>

LastMutationIDs == IF server = <<>> THEN [c \in Clients |-> 0] ELSE Last(server)

\* push() sends all the local mutations under the main head, those of other clients
\* included, and the server applies one after the other if it is its client's next.  (A
\* push that reaches the server after its tab is closed is taken to be lost.)
Push(c) ==
  /\ Open(c)
  /\ Len(server) < MaxCookie
  /\ \E m \in ToSet(main[c].locals) :
       /\ m.id = LastMutationIDs[m.client] + 1
       /\ server' = Append(server, [LastMutationIDs EXCEPT ![m.client] = m.id])
  /\ UNCHANGED <<perdagVars, tabVars>>

\* Another client group changes the server's state.
ServerChanges ==
  /\ Len(server) < MaxCookie
  /\ server' = Append(server, LastMutationIDs)
  /\ UNCHANGED <<perdagVars, tabVars>>

-----------------------------------------------------------------------------
(* Pull. *)

\* beginPullV1(), up to the request.
BeginPull(c) ==
  /\ "pull" \in Environment
  /\ Open(c) /\ asked[c] = None /\ sync[c] = None
  /\ main[c].snap.cookie < Len(server)
  /\ asked' = [asked EXCEPT ![c] = main[c].snap.cookie]
  /\ UNCHANGED <<server, perdagVars, main, memOnly, sync, persisting, refreshing, due>>

\* The cookie is compared again.
CookieMismatch(c) == asked[c] # main[c].snap.cookie

\* handlePullResponseV1(): if the base cookie is still the same, a sync branch is begun.
\* Poke does the same with the server's idea of the base cookie.
HandlePullResponse(c) ==
  /\ asked[c] # None
  /\ asked' = [asked EXCEPT ![c] = None]
  /\ \E cookie \in asked[c] .. Len(server) :
       LET base == main[c].snap
           s == [cookie |-> cookie, by |-> c, base |-> SnapshotID(base)]
       IN  IF CookieMismatch(c) \/ cookie = base.cookie
           THEN UNCHANGED sync
           ELSE sync' = [sync EXCEPT ![c] = [head |-> [snap |-> s, locals |-> <<>>],
                                             basis |-> SnapshotID(base)]]
  /\ UNCHANGED <<server, perdagVars, main, memOnly, persisting, refreshing, due>>

\* Mutations under the main head that the sync branch does not contain yet.
PendingReplay(c) ==
  Picked(main[c].locals,
         {m \in ToSet(main[c].locals) : m.id > MutationID(sync[c].head, m.client)})

\* ReplicacheImpl.maybeEndPull(): what is pending is replayed, and then looked for again.
\* A replay touches the sync head only, so that its transactions are one step.
ReplayMutations(c) ==
  /\ sync[c] # None /\ sync[c].basis = SnapshotID(main[c].snap)
  /\ PendingReplay(c) # <<>>
  /\ sync' = [sync EXCEPT ![c].head.locals = @ \o PendingReplay(c)]
  /\ UNCHANGED <<server, perdagVars, main, memOnly, asked, persisting, refreshing, due>>

\* maybeEndPull() with nothing to replay: the sync head becomes the main head.
EndPull(c) ==
  /\ sync[c] # None /\ sync[c].basis = SnapshotID(main[c].snap)
  /\ PendingReplay(c) = <<>>
  /\ SetMain(c, sync[c].head, {<<"commit", SnapshotID(sync[c].head.snap)>>,
                               <<"leaf", SnapshotID(sync[c].head.snap)>>}
                                \cup LocalChunks(sync[c].head))
  /\ sync' = [sync EXCEPT ![c] = None]
  /\ Schedule(c, "persist")
  /\ UNCHANGED <<server, perdagVars, asked, persisting, refreshing>>

\* 'Overlapping syncs': the main head has got another base snapshot meanwhile.
OverlappingSyncs(c) ==
  /\ sync[c] # None /\ sync[c].basis # SnapshotID(main[c].snap)
  /\ sync' = [sync EXCEPT ![c] = None]
  /\ UNCHANGED <<server, perdagVars, main, memOnly, asked, persisting, refreshing, due>>

-----------------------------------------------------------------------------
(* persistDD31() *)

PersistPhase(c, phase) == persisting' = [persisting EXCEPT ![c] = phase]

\* #onPersist(): every tab of the group schedules a refresh, this one included.  Mutant: a
\* refresh that is running stands for it.
Notify_Idle == [d \in Clients |-> IF Open(d) /\ refreshing[d] = Idle THEN {"refresh"} ELSE {}]
Notify == [d \in Clients |-> IF Open(d) THEN {"refresh"} ELSE {}]

OnPersist(c) ==
  /\ PersistPhase(c, Idle)
  /\ due' = [d \in Clients |-> due[d] \cup Notify[d]]

\* The first transaction reads the perdag.  A client that was collected stops here.
PersistReadPerdag(c) ==
  /\ Open(c) /\ "persist" \in due[c] /\ persisting[c] = Idle
  /\ IF Registered(c)
     THEN /\ PersistPhase(c, [at |-> "perdag", lmid |-> MutationID(group.head, c),
                              cookie |-> group.head.snap.cookie])
          /\ due' = [due EXCEPT ![c] = @ \ {"persist"}]
     ELSE /\ PersistPhase(c, Idle)
          /\ due' = [d \in Clients |-> (due[d] \ (IF d = c THEN {"persist"} ELSE {}))
                                         \cup Notify[d]]
  /\ UNCHANGED <<server, perdagVars, main, memOnly, sync, asked, refreshing>>

\* The second reads the memdag: the mutations that are new, and the snapshot's chunks.
PersistReadMemdag(c) ==
  /\ persisting[c].at = "perdag"
  /\ LET snap == main[c].snap
     IN  PersistPhase(c,
           [at |-> "memdag", mutations |-> OwnGreaterThan(main[c], c, persisting[c].lmid),
            snap |-> snap, newer |-> snap.cookie > persisting[c].cookie,
            chunks |-> memOnly[c] \cap SnapshotChunks(snap)])
  /\ UNCHANGED <<server, perdagVars, main, memOnly, sync, asked, refreshing, due>>

\* The snapshot is persisted if it is (still) the newer one.
PersistSnapshot(p) == p.newer /\ p.snap.cookie > group.head.snap.cookie

\* The client group's mutations are then rebased onto it.  Mutant: they are not.
Basis_Bare(p) ==
  IF PersistSnapshot(p) THEN [snap |-> p.snap, locals |-> <<>>] ELSE group.head
Basis(p) ==
  IF PersistSnapshot(p) THEN Rebase(group.head.locals, [snap |-> p.snap, locals |-> <<>>])
  ELSE group.head

PersistedHead(p) == Rebase(p.mutations, Basis(p))

\* mutationIDs: the snapshot's, or those of before, and the mutations that were rebased.
StartIDs(p) == IF PersistSnapshot(p) THEN Acked(p.snap) ELSE group.mutationIDs

PersistedIDs(p) ==
  LET locals == PersistedHead(p).locals
      kept == IF PersistSnapshot(p) THEN 0 ELSE Len(group.head.locals)
  IN  FoldLeft(LAMBDA ids, m : [ids EXCEPT ![m.client] = m.id], StartIDs(p),
               SubSeq(locals, kept + 1, Len(locals)))

\* The third writes the perdag.
PersistWrite(c) ==
  /\ persisting[c].at = "memdag"
  /\ LET p == persisting[c]
         head == PersistedHead(p)
         g == [head |-> head, mutationIDs |-> PersistedIDs(p)]
     IN  IF p.newer /\ ~Registered(c)
         THEN UNCHANGED perdagVars /\ OnPersist(c)       \* ClientStateNotFoundError
         ELSE IF PersistSnapshot(p)
         THEN /\ PerdagWrite([records EXCEPT ![c].persistHash = {p.snap}], g,
                             p.chunks \cup LocalChunks(head))
              /\ PersistPhase(c, [at |-> "written", chunks |-> p.chunks])
              /\ UNCHANGED due
         ELSE PerdagWrite(records, g, LocalChunks(head)) /\ OnPersist(c)
  /\ UNCHANGED <<server, main, memOnly, sync, asked, refreshing>>

\* The fourth: chunksPersisted(), after which the chunks are read from the perdag.
ChunksPersisted(c) ==
  /\ persisting[c].at = "written"
  /\ memOnly' = [memOnly EXCEPT ![c] = @ \ persisting[c].chunks]
  /\ OnPersist(c)
  /\ UNCHANGED <<server, perdagVars, main, sync, asked, refreshing>>

-----------------------------------------------------------------------------
(* refresh() *)

RefreshPhase(c, phase) == refreshing' = [refreshing EXCEPT ![c] = phase]

\* shouldAbortRefresh().  Mutant: an older snapshot is taken, too.
ShouldAbortRefresh_Equal(cookie, head) == cookie = head.snap.cookie /\ head.locals = <<>>
ShouldAbortRefresh(cookie, head) ==
  \/ cookie > head.snap.cookie
  \/ cookie = head.snap.cookie /\ head.locals = <<>>

\* The first transaction reads the memdag's base snapshot.
RefreshReadMemdag(c) ==
  /\ Open(c) /\ "refresh" \in due[c] /\ refreshing[c] = Idle
  /\ due' = [due EXCEPT ![c] = @ \ {"refresh"}]
  /\ RefreshPhase(c, [at |-> "base", cookie |-> main[c].snap.cookie])
  /\ UNCHANGED <<server, perdagVars, main, memOnly, sync, asked, persisting>>

\* Mutant: the head is not retained.
Retain_Not(c) == records[c].refreshHashes
Retain(c) == records[c].refreshHashes \cup {group.head}

\* The second takes the group's head from the perdag, and has it retained there.
RefreshReadPerdag(c) ==
  /\ refreshing[c].at = "base"
  /\ IF ~Registered(c) \/ ShouldAbortRefresh(refreshing[c].cookie, group.head)
     THEN UNCHANGED perdagVars /\ RefreshPhase(c, Idle)
     ELSE /\ PerdagWrite([records EXCEPT ![c].refreshHashes = Retain(c)], group, {})
          /\ RefreshPhase(c, [at |-> "gathered", head |-> group.head,
                              lmid |-> MutationID(group.head, c),
                              revert |-> records[c].refreshHashes])
  /\ UNCHANGED <<server, main, memOnly, sync, asked, persisting, due>>

\* After DELAY_MS, the third sets the memdag's head, unless a pull has made it newer.
RefreshRebase(c) ==
  /\ refreshing[c].at = "gathered"
  /\ LET head == refreshing[c].head
         own == OwnGreaterThan(main[c], c, refreshing[c].lmid)
         k == [head EXCEPT !.locals = @ \o own]
     IN  IF ShouldAbortRefresh(main[c].snap.cookie, head)
         THEN /\ RefreshPhase(c, [at |-> "cleanup", hashes |-> refreshing[c].revert])
              /\ UNCHANGED <<main, memOnly>>
         ELSE /\ RefreshPhase(c, [at |-> "cleanup", hashes |-> {head}])
              /\ SetMain(c, k, LocalChunks(k) \ LocalChunks(head))
  /\ UNCHANGED <<server, perdagVars, sync, asked, persisting, due>>

\* The fourth releases what was retained before.
RefreshCleanup(c) ==
  /\ refreshing[c].at = "cleanup"
  /\ RefreshPhase(c, Idle)
  /\ IF Registered(c)
     THEN PerdagWrite([records EXCEPT ![c].refreshHashes = refreshing[c].hashes], group, {})
     ELSE UNCHANGED perdagVars
  /\ UNCHANGED <<server, main, memOnly, sync, asked, persisting, due>>

-----------------------------------------------------------------------------
Persist(c) ==
  PersistReadPerdag(c) \/ PersistReadMemdag(c) \/ PersistWrite(c) \/ ChunksPersisted(c)
Refresh(c) ==
  RefreshReadMemdag(c) \/ RefreshReadPerdag(c) \/ RefreshRebase(c) \/ RefreshCleanup(c)
Pull(c) ==
  BeginPull(c) \/ HandlePullResponse(c) \/ ReplayMutations(c) \/ EndPull(c) \/ OverlappingSyncs(c)

Next ==
  \/ ServerChanges
  \/ \E c \in Clients :
       \/ OpenTab(c) \/ CloseTab(c) \/ CollectClient(c)
       \/ Mutate(c) \/ Push(c)
       \/ Pull(c) \/ Persist(c) \/ Refresh(c)

Spec == Init /\ [][Next]_vars

\* What is scheduled is run, and a pull that was begun is ended.  Nothing is assumed of
\* the users, the server, and pulls and pushes that are not begun.
Fairness ==
  \A c \in Clients :
    /\ WF_vars(Persist(c)) /\ WF_vars(Refresh(c))
    /\ WF_vars(HandlePullResponse(c) \/ ReplayMutations(c) \/ EndPull(c) \/ OverlappingSyncs(c))

FairSpec == Spec /\ Fairness

-----------------------------------------------------------------------------
(* Properties *)

\* Under every head, a local mutation is its client's next after those below it, from the
\* last that the snapshot contains and without a gap: no rebase ends with 'Inconsistent
\* mutation ID', and no push is out of order.
Below(k, i) == [k EXCEPT !.locals = SubSeq(@, 1, i - 1)]
Contiguous(k) ==
  \A i \in DOMAIN k.locals :
    k.locals[i].id = MutationID(Below(k, i), k.locals[i].client) + 1

ChainsContiguous ==
  /\ group.head # None => Contiguous(group.head)
  /\ \A c \in Clients : /\ Open(c) => Contiguous(main[c])
                        /\ sync[c] # None => Contiguous(sync[c].head)

\* A tab can read every chunk under its head: what it does not hold in memory is in the
\* perdag, although other tabs write there and collect what no head of it reaches.
\* (A client that was collected itself is told that its state is not found.)
\* And the perdag holds all that its own heads reach.
ChunksKept ==
  /\ Reachable(records, group) \subseteq stored
  /\ \A c \in Clients :
       Open(c) /\ Registered(c) => Chunks(main[c]) \ memOnly[c] \subseteq stored

\* k1 contains all that k contains.
Extends(k1, k) ==
  /\ k1.snap.cookie >= k.snap.cookie
  /\ \A c \in Clients : MutationID(k1, c) >= MutationID(k, c)

\* What a tab shows never goes back, be it by a pull or by a refresh that was overtaken:
\* neither the server's state nor any mutation, its own or another tab's.
TabForward ==
  [][\A c \in Clients : Open(c) /\ Open(c)' => Extends(main'[c], main[c])]_vars

\* Nor does what is kept for the next tab: no tab persists over another one's mutations
\* or over a newer snapshot.
GroupForward == [][group.head # None => Extends(group'.head, group.head)]_vars

\* A tab comes to see what has been persisted, the server's state and every mutation, or
\* it is closed or collected.  A tab that is closed between its write and onPersist leaves
\* the others unaware of it until the next one.
Unannounced == \E c \in Clients : due[c] = {"closed"}
Behind(d) ==
  Open(d) /\ Registered(d) /\ group.head # None /\ ~Extends(main[d], group.head)

TabsConverge == \A d \in Clients : Behind(d) ~> (Unannounced \/ ~Behind(d))
=============================================================================
