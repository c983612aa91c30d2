--------------------------- MODULE ViewSyncer_proofs ---------------------------
(***************************************************************************)
(* What a client is shown at a cookie is what the CVR says, the rows of    *)
(* the CVR are the results of its queries, and the assertions of the code  *)
(* hold: for every replica, all sets of clients, queries and rows, and any *)
(* number of changes and faults.                                           *)
(***************************************************************************)
EXTENDS ViewSyncer, TLAPS, WellFoundedInduction, SequenceTheorems

USE DEF serverVars
-----------------------------------------------------------------------------
(* The invariant *)

Le(v, w) == ~Less(w, v)
In(s, r) == Replica[s][r].in
Ver(s, r) == Replica[s][r].version
At(kind) == task # None /\ task.at = kind

Desire == [st : {"none", "active", "inactive"}, at : Version]
CVRType ==
  [version : Version, clients : SUBSET Clients, rows : [Rows -> RowRecord],
   queries : [Queries -> QueryRecord], desires : [Clients -> [Queries -> Desire]]]
Tab == [wants : SUBSET Queries, cookie : Version, view : [Keys -> Nat], deaf : BOOLEAN]

ServerType ==
  /\ db \in 1 .. Len(Replica)
  /\ pipes \in [snap : 0 .. Len(Replica), hydrated : SUBSET Queries, synced : BOOLEAN]
  /\ cvr \in CVRType
  /\ task \in {None, [at |-> "sync"]} \cup UpdateTask
ClientType ==
  /\ handlers \in [Clients -> Handler \cup {None}]
  /\ tabs \in [Clients -> Tab]
TypeOK == ServerType /\ ClientType

\* The pipelines are not behind the CVR.
Ahead ==
  /\ task # None => pipes.synced
  /\ pipes.synced => pipes.snap >= 1 /\ pipes.snap <= db /\ cvr.version[1] <= pipes.snap

\* The rows of the CVR are the results of its queries in the state of its version.
Recorded ==
  /\ \A r \in Rows : cvr.rows[r].refs \subseteq Got
  /\ cvr.version[1] = 0 => Got = {}
  /\ cvr.version[1] <= Len(Replica)
  /\ cvr.version[1] # 0 =>
       \A r \in Rows : /\ cvr.rows[r].refs = In(cvr.version[1], r) \cap Got
                       /\ Live(r) => cvr.rows[r].ver = Ver(cvr.version[1], r)

\* Nothing is later than the CVR.
Dated ==
  /\ \A r \in Rows : Le(cvr.rows[r].at, cvr.version)
  /\ \A q \in Queries : Le(cvr.queries[q].at, cvr.version)
  /\ \A c \in Clients, q \in Queries : Le(cvr.desires[c][q].at, cvr.version)

\* As far as some queries go, the rows are as they are in the pipelines' snapshot.
Matches(qs) ==
  \A r \in Rows : /\ cvr.rows[r].refs \cap qs = In(pipes.snap, r) \cap qs
                  /\ cvr.rows[r].refs \cap qs # {} => cvr.rows[r].ver = Ver(pipes.snap, r)

InLine == pipes.hydrated = Got /\ Known = Got /\ Matches(Got)

Removed == task.tracked \ task.executed
SameVersion(r) == Live(r) /\ cvr.rows[r].ver = Ver(pipes.snap, r)
Done(r) == {q \in task.executed \cap In(pipes.snap, r) : <<q, r, "add">> \notin task.changes}
SentAt(r) == IF SameVersion(r) THEN cvr.rows[r].at ELSE task.version
UpdatedQueries(executed, removed, v) ==
  [q \in Queries |->
     IF q \in removed THEN [st |-> "deleted", at |-> v]
     ELSE IF q \in executed \ Got THEN [st |-> "got", at |-> v]
     ELSE cvr.queries[q]]

\* What has been received of the queries that are executed is all there is of them, but the changes.
ReceivedSoFar ==
  \A r \in Rows :
    IF Done(r) = {}
    THEN task.received[r] = None /\ task.rows[r] = None /\ task.last[r] = None
    ELSE /\ task.received[r] = Retained(r) \cup Done(r)
         /\ task.rows[r] = [ver |-> Ver(pipes.snap, r), at |-> SentAt(r), refs |-> Retained(r) \cup Done(r)]
         /\ task.last[r] = [ver |-> Ver(pipes.snap, r), to |-> SentAt(r)]

Executing ==
  /\ task.orig = cvr.version
  /\ task.version = UpdatedVersion(pipes.snap, task.executed, Removed)
  /\ task.queries = UpdatedQueries(task.executed, Removed, task.version)
  /\ task.executed \subseteq pipes.hydrated /\ task.executed \subseteq task.tracked
  /\ Removed \cap pipes.hydrated = {} /\ Known = pipes.hydrated \cup Removed
  /\ pipes.hydrated \ task.executed \subseteq Got
  /\ Matches(pipes.hydrated \ task.executed)
  /\ \A x \in task.changes :
       x[1] \in task.executed /\ x[1] \in In(pipes.snap, x[2]) /\ x[3] = "add"
  /\ ReceivedSoFar

\* The changes lead from the rows of the CVR to those of the snapshot.
Advancing ==
  /\ task.orig = cvr.version
  /\ task.version = UpdatedVersion(pipes.snap, {}, {})
  /\ task.queries = cvr.queries
  /\ task.executed = {} /\ task.tracked = {}
  /\ pipes.hydrated = Got /\ Known = Got
  /\ \A r \in Rows : task.received[r] = None /\ task.rows[r] = None /\ task.last[r] = None
  /\ \A r \in Rows, q \in Queries :
       /\ <<q, r, "add">> \in task.changes <=> q \in (Got \cap In(pipes.snap, r)) \ cvr.rows[r].refs
       /\ <<q, r, "remove">> \in task.changes <=> q \in cvr.rows[r].refs \ In(pipes.snap, r)
       /\ <<q, r, "edit">> \in task.changes <=>
            q \in cvr.rows[r].refs \cap In(pipes.snap, r) /\ cvr.rows[r].ver # Ver(pipes.snap, r)

PipelineInv ==
  /\ pipes.synced /\ task = None => InLine
  /\ At("sync") => pipes.hydrated \subseteq Got /\ Matches(pipes.hydrated)
  /\ At("execute") => Executing
  /\ At("advance") => Advancing
  /\ At("catchup") => InLine /\ task.executed \subseteq Got /\ Le(task.orig, cvr.version)

ServerInv == ServerType /\ Ahead /\ Recorded /\ Dated /\ PipelineInv

-----------------------------------------------------------------------------
\* A client is where its handler takes it to be, unless it is deaf.
Followed ==
  \A c \in Clients :
    /\ Le(tabs[c].cookie, cvr.version)
    /\ Connected(c) => /\ Le(handlers[c].base, cvr.version)
                       /\ ~tabs[c].deaf => handlers[c].base = tabs[c].cookie
    /\ Poked(handlers, c) => At("execute") \/ At("advance") \/ At("catchup")

Changing ==
  \/ task.queries # cvr.queries
  \/ \E r \in Rows : Done(r) # {} /\ ~SameVersion(r)

\* What a client has been sent of an execution.
DraftSoFar(h, view) ==
  /\ \A r \in Rows : h.poke.draft[RowKey(r)] =
       IF task.last[r] # None /\ Less(h.base, task.last[r].to) THEN task.last[r].ver ELSE view[RowKey(r)]
  /\ \A q \in Queries : h.poke.draft[GotKey(q)] =
       IF q \in task.executed \ Got THEN 1 ELSE IF q \in Removed THEN 0 ELSE view[GotKey(q)]
  /\ \A c \in Clients, q \in Queries : h.poke.draft[DesiredKey(c, q)] = view[DesiredKey(c, q)]

Excluded(k) == \E r \in Rows : k = RowKey(r) /\ cvr.rows[r].refs \cap task.executed # {}

\* What it still lacks is what the catchup will send.
DraftToCatchUp(h) ==
  \A k \in Keys \ Undated :
    Le(Shown(k).at, h.base) \/ Less(task.orig, Shown(k).at) \/ Excluded(k)
      => h.poke.draft[k] = Shown(k).value

DraftInv ==
  \A c \in Clients : Poked(handlers, c) =>
    /\ At("execute") =>
         /\ Less(handlers[c].base, task.version)
         /\ handlers[c].poke.started => Less(handlers[c].base, task.orig) \/ Changing
         /\ ~tabs[c].deaf => DraftSoFar(handlers[c], tabs[c].view)
    /\ At("advance") =>
         /\ handlers[c].base = task.orig
         /\ ~tabs[c].deaf => handlers[c].poke.draft = tabs[c].view
    /\ At("catchup") =>
         /\ handlers[c].poke.started => Less(handlers[c].base, cvr.version)
         /\ ~tabs[c].deaf => DraftToCatchUp(handlers[c])

ViewInv == ServerInv /\ ClientType /\ Followed /\ DraftInv /\ ViewsMatch

-----------------------------------------------------------------------------
(* Versions *)

LEMMA VersionOrder ==
  ASSUME NEW u \in Version, NEW v \in Version, NEW w \in Version
  PROVE  /\ Le(u, u) /\ (Less(u, v) => Le(u, v)) /\ (Le(u, v) /\ Le(v, u) => u = v)
         /\ Less(u, v) /\ Less(v, w) => Less(u, w)
         /\ Less(u, v) /\ Le(v, w) => Less(u, w)
         /\ Le(u, v) /\ Less(v, w) => Less(u, w)
         /\ Le(u, v) /\ Le(v, w) => Le(u, w)
<1>1. /\ u[1] \in Nat /\ u[2] \in Nat /\ v[1] \in Nat /\ v[2] \in Nat /\ w[1] \in Nat /\ w[2] \in Nat
      /\ u = <<u[1], u[2]>> /\ v = <<v[1], v[2]>>
  BY DEF Version
<1>2. Le(u, v) /\ Le(v, u) => u = v
  <2> SUFFICES ASSUME Le(u, v), Le(v, u) PROVE u = v
    OBVIOUS
  <2>1. u[1] = v[1] /\ u[2] = v[2]
    BY <1>1 DEF Le, Less
  <2> QED
    BY <1>1, <2>1
<1> QED
  BY <1>1, <1>2 DEF Le, Less

LEMMA LaterVersion ==
  ASSUME NEW v \in Version
  PROVE  /\ OneAfter(v) \in Version /\ Less(v, OneAfter(v)) /\ OneAfter(v)[1] = v[1]
         /\ \A s \in Nat : <<s, 0>> \in Version /\ <<s, 0>>[1] = s /\ (s > v[1] => Less(v, <<s, 0>>))
         /\ ZeroVersion \in Version /\ Le(ZeroVersion, v)
  BY DEF OneAfter, Version, Less, Le, ZeroVersion

-----------------------------------------------------------------------------
(* What things are *)

LEMMA ReplicaStates ==
  /\ Len(Replica) \in Nat /\ Len(Replica) >= 1
  /\ \A s \in 1 .. Len(Replica), r \in Rows :
       Ver(s, r) \in Nat /\ In(s, r) \in SUBSET Queries /\ (In(s, r) # {} => Ver(s, r) # 0)
<1>1. Replica \in Seq([Rows -> [version : Nat, in : SUBSET Queries]]) /\ Replica # <<>>
  BY ViewSyncerAssumption
<1>2. Len(Replica) \in Nat /\ Len(Replica) >= 1
  BY <1>1
<1>3. \A s \in 1 .. Len(Replica) : Replica[s] \in [Rows -> [version : Nat, in : SUBSET Queries]]
  BY <1>1
<1> QED
  BY <1>2, <1>3, ViewSyncerAssumption DEF Ver, In

LEMMA CVRFields ==
  ASSUME ServerType
  PROVE  /\ cvr.version \in Version /\ cvr.clients \in SUBSET Clients
         /\ cvr.rows \in [Rows -> RowRecord] /\ cvr.queries \in [Queries -> QueryRecord]
         /\ cvr.desires \in [Clients -> [Queries -> Desire]]
         /\ \A r \in Rows : /\ cvr.rows[r] \in RowRecord /\ cvr.rows[r].ver \in Nat
                            /\ cvr.rows[r].at \in Version /\ cvr.rows[r].refs \in SUBSET Queries
         /\ \A q \in Queries : cvr.queries[q] \in QueryRecord /\ cvr.queries[q].at \in Version
         /\ \A c \in Clients, q \in Queries :
              cvr.desires[c][q] \in Desire /\ cvr.desires[c][q].at \in Version
  BY DEF ServerType, CVRType, RowRecord, QueryRecord, Desire

LEMMA PipesFields ==
  ASSUME ServerType
  PROVE  /\ pipes = [snap |-> pipes.snap, hydrated |-> pipes.hydrated, synced |-> pipes.synced]
         /\ pipes.snap \in 0 .. Len(Replica) /\ pipes.hydrated \in SUBSET Queries
         /\ pipes.synced \in BOOLEAN
         /\ db \in 1 .. Len(Replica)
  BY DEF ServerType

LEMMA ClientFields ==
  ASSUME ClientType, NEW c \in Clients
  PROVE  /\ tabs[c] \in Tab /\ tabs[c].cookie \in Version /\ tabs[c].view \in [Keys -> Nat]
         /\ tabs[c].deaf \in BOOLEAN
         /\ handlers[c] # None => handlers[c] \in Handler /\ handlers[c].base \in Version
         /\ Poked(handlers, c) => /\ handlers[c].poke \in Poke
                                  /\ handlers[c].poke.draft \in [Keys -> Nat]
                                  /\ handlers[c].poke.started \in BOOLEAN
  BY DEF ClientType, Tab, Handler, Poke, Poked

LEMMA TaskFields ==
  ASSUME ServerType, At("execute") \/ At("advance") \/ At("catchup")
  PROVE  /\ task \in UpdateTask
         /\ task.orig \in Version /\ task.version \in Version
         /\ task.executed \in SUBSET Queries /\ task.tracked \in SUBSET Queries
         /\ task.changes \in SUBSET (Queries \X Rows \X {"add", "edit", "remove"})
         /\ task.queries \in [Queries -> QueryRecord]
         /\ task.received \in [Rows -> (SUBSET Queries) \cup {None}]
         /\ task.last \in [Rows -> RowPatchInfo \cup {None}]
         /\ task.rows \in [Rows -> RowRecord \cup {None}]
         /\ task.at \in {"execute", "advance", "catchup"}
<1>1. task \in UpdateTask
  BY DEF ServerType, At
<1> QED
  BY <1>1 DEF UpdateTask

\* The tasks exclude one another.
LEMMA OneTask ==
  ASSUME ServerType
  PROVE  /\ task = None \/ At("sync") \/ At("execute") \/ At("advance") \/ At("catchup")
         /\ \A a, b : At(a) /\ At(b) => a = b
         /\ \A a : At(a) => task # None
<1>1. task \in UpdateTask => task.at \in {"execute", "advance", "catchup"}
  BY DEF UpdateTask
<1> QED
  BY <1>1, NoneAssumption DEF ServerType, At

LEMMA KeysDiffer ==
  /\ \A r \in Rows : RowKey(r) \in Keys /\ RowKey(r)[1] = "row" /\ RowKey(r)[2] = r
  /\ \A q \in Queries : GotKey(q) \in Keys /\ GotKey(q)[1] = "got" /\ GotKey(q)[2] = q
  /\ \A c \in Clients, q \in Queries :
       /\ DesiredKey(c, q) \in Keys /\ DesiredKey(c, q)[1] = "desired"
       /\ DesiredKey(c, q)[2] = c /\ DesiredKey(c, q)[3] = q
  /\ \A k \in Keys : \/ \E r \in Rows : k = RowKey(r)
                     \/ \E q \in Queries : k = GotKey(q)
                     \/ \E c \in Clients, q \in Queries : k = DesiredKey(c, q)
  BY DEF Keys, RowKey, GotKey, DesiredKey

LEMMA ShownOf ==
  /\ \A r \in Rows : /\ Shown(RowKey(r)).value = IF Live(r) THEN cvr.rows[r].ver ELSE 0
                     /\ Shown(RowKey(r)).at = cvr.rows[r].at
  /\ \A q \in Queries : /\ Shown(GotKey(q)).value = IF cvr.queries[q].st = "got" THEN 1 ELSE 0
                        /\ Shown(GotKey(q)).at = cvr.queries[q].at
  /\ \A c \in Clients, q \in Queries :
       /\ Shown(DesiredKey(c, q)).value = IF cvr.desires[c][q].st = "active" THEN 1 ELSE 0
       /\ Shown(DesiredKey(c, q)).at = cvr.desires[c][q].at
  BY DEF Shown, RowKey, GotKey, DesiredKey

LEMMA Applied ==
  ASSUME NEW view, NEW patches, NEW k \in Keys
  PROVE  /\ (\A p \in patches : p.key # k) => Apply(view, patches)[k] = view[k]
         /\ \A p \in patches :
              p.key = k /\ (\A o \in patches : o.key = k => o.value = p.value)
                => Apply(view, patches)[k] = p.value
<1>1. Apply(view, patches)[k] = IF \E p \in patches : p.key = k
                  THEN (CHOOSE p \in patches : p.key = k).value ELSE view[k]
  BY DEF Apply
<1>2. ASSUME NEW p \in patches, p.key = k, \A o \in patches : o.key = k => o.value = p.value
      PROVE  Apply(view, patches)[k] = p.value
  <2> DEFINE o == CHOOSE o \in patches : o.key = k
  <2>1. o \in patches /\ o.key = k
    BY <1>2
  <2> HIDE DEF o
  <2>2. Apply(view, patches)[k] = o.value
    BY <1>1, <1>2 DEF o
  <2> QED
    BY <1>2, <2>1, <2>2
<1> QED
  BY <1>1, <1>2

LEMMA AppliedType ==
  ASSUME NEW view \in [Keys -> Nat], NEW patches, \A p \in patches : p.value \in Nat
  PROVE  Apply(view, patches) \in [Keys -> Nat]
  BY DEF Apply

-----------------------------------------------------------------------------
(* Pokes *)

\* Handlers with pokes that go on from those there are.
HandlersType(hs) == hs \in [Clients -> Handler \cup {None}]
SameBases(hs, gs) ==
  \A c \in Clients : (hs[c] # None <=> gs[c] # None) /\ (hs[c] # None => hs[c].base = gs[c].base)

LEMMA StartedPokes ==
  ASSUME ClientType, NEW cs \in SUBSET AllClients, NEW to
  PROVE  /\ HandlersType(StartPoke(cs, to)) /\ SameBases(StartPoke(cs, to), handlers)
         /\ \A c \in Clients : Poked(StartPoke(cs, to), c) =>
              \/ Poked(handlers, c) /\ StartPoke(cs, to)[c] = handlers[c]
              \/ /\ c \in cs /\ Less(handlers[c].base, to)
                 /\ StartPoke(cs, to)[c].poke = [started |-> FALSE, draft |-> tabs[c].view]
<1> DEFINE hs == StartPoke(cs, to)
<1>1. \A c \in Clients :
        hs[c] = IF c \in cs /\ Less(handlers[c].base, to)
                THEN [handlers[c] EXCEPT !.poke = [started |-> FALSE, draft |-> tabs[c].view]]
                ELSE handlers[c]
  BY DEF StartPoke
<1>2. hs = [c \in Clients |-> hs[c]]
  BY DEF StartPoke
<1> HIDE DEF hs
<1>3. ASSUME NEW c \in Clients, c \in cs, Less(handlers[c].base, to)
      PROVE  /\ hs[c] \in Handler /\ hs[c].base = handlers[c].base /\ handlers[c] # None
             /\ hs[c].poke = [started |-> FALSE, draft |-> tabs[c].view]
  <2>1. handlers[c] # None /\ handlers[c] \in Handler
    BY <1>3, ClientFields DEF AllClients, Connected
  <2>2. [started |-> FALSE, draft |-> tabs[c].view] \in Poke
    BY ClientFields DEF Poke
  <2>3. hs[c] = [base |-> handlers[c].base, poke |-> [started |-> FALSE, draft |-> tabs[c].view],
                 queue |-> handlers[c].queue]
    BY <1>1, <1>3, <2>1 DEF Handler
  <2> QED
    BY <2>1, <2>2, <2>3 DEF Handler
<1>4. ASSUME NEW c \in Clients, ~(c \in cs /\ Less(handlers[c].base, to))
      PROVE  hs[c] = handlers[c] /\ hs[c] \in Handler \cup {None}
  BY <1>1, <1>4 DEF ClientType
<1>5. HandlersType(hs)
  <2>1. \A c \in Clients : hs[c] \in Handler \cup {None}
    BY <1>3, <1>4
  <2> QED
    BY <1>2, <2>1 DEF HandlersType
<1>6. SameBases(hs, handlers)
  BY <1>3, <1>4, NoneAssumption DEF SameBases
<1>7. ASSUME NEW c \in Clients, Poked(hs, c)
      PROVE  \/ Poked(handlers, c) /\ hs[c] = handlers[c]
             \/ /\ c \in cs /\ Less(handlers[c].base, to)
                /\ hs[c].poke = [started |-> FALSE, draft |-> tabs[c].view]
  BY <1>3, <1>4, <1>7 DEF Poked
<1> QED
  BY <1>5, <1>6, <1>7 DEF hs

LEMMA AddedPatches ==
  ASSUME NEW hs, HandlersType(hs), NEW patches, \A p \in patches : p.value \in Nat
  PROVE  /\ HandlersType(AddPatches(hs, patches)) /\ SameBases(AddPatches(hs, patches), hs)
         /\ \A c \in Clients : Poked(AddPatches(hs, patches), c) =>
              /\ Poked(hs, c) /\ hs[c].poke \in Poke /\ AddPatches(hs, patches)[c].poke \in Poke
              /\ \A k \in Keys : AddPatches(hs, patches)[c].poke.draft[k]
                                   = Apply(hs[c].poke.draft, News(hs[c], patches))[k]
              /\ AddPatches(hs, patches)[c].poke.started
                   => hs[c].poke.started \/ News(hs[c], patches) # {}
<1> DEFINE gs == AddPatches(hs, patches)
<1>1. \A c \in Clients :
        gs[c] = IF Poked(hs, c) /\ News(hs[c], patches) # {}
                THEN [hs[c] EXCEPT !.poke =
                        [started |-> TRUE, draft |-> Apply(hs[c].poke.draft, News(hs[c], patches))]]
                ELSE hs[c]
  BY DEF AddPatches
<1>2. gs = [c \in Clients |-> gs[c]]
  BY DEF AddPatches
<1> HIDE DEF gs
<1>3. ASSUME NEW c \in Clients, Poked(hs, c)
      PROVE  /\ hs[c] # None /\ hs[c] \in Handler /\ hs[c].poke \in Poke
             /\ hs[c].poke.draft \in [Keys -> Nat]
             /\ Apply(hs[c].poke.draft, News(hs[c], patches)) \in [Keys -> Nat]
  <2>1. /\ hs[c] # None /\ hs[c] \in Handler /\ hs[c].poke \in Poke
        /\ hs[c].poke.draft \in [Keys -> Nat]
    BY <1>3 DEF Poked, HandlersType, Handler, Poke
  <2>2. \A p \in News(hs[c], patches) : p.value \in Nat
    BY DEF News
  <2> QED
    BY <2>1, <2>2, AppliedType
<1>4. ASSUME NEW c \in Clients, Poked(hs, c), News(hs[c], patches) # {}
      PROVE  /\ gs[c] \in Handler /\ gs[c].base = hs[c].base /\ hs[c] # None
             /\ gs[c].poke \in Poke
             /\ gs[c].poke.draft = Apply(hs[c].poke.draft, News(hs[c], patches))
  <2> DEFINE d == Apply(hs[c].poke.draft, News(hs[c], patches))
  <2>1. hs[c] # None /\ hs[c] \in Handler /\ d \in [Keys -> Nat]
    BY <1>3, <1>4
  <2>2. gs[c] = [hs[c] EXCEPT !.poke = [started |-> TRUE, draft |-> d]]
    BY <1>1, <1>4
  <2> HIDE DEF d
  <2>3. [started |-> TRUE, draft |-> d] \in Poke
    BY <2>1 DEF Poke
  <2>4. gs[c] = [base |-> hs[c].base, poke |-> [started |-> TRUE, draft |-> d], queue |-> hs[c].queue]
    BY <2>1, <2>2 DEF Handler
  <2>5. gs[c].poke.draft = d
    BY <2>4
  <2> QED
    BY <2>1, <2>3, <2>4, <2>5 DEF Handler, d
<1>5. ASSUME NEW c \in Clients, ~(Poked(hs, c) /\ News(hs[c], patches) # {})
      PROVE  gs[c] = hs[c] /\ gs[c] \in Handler \cup {None}
  BY <1>1, <1>5 DEF HandlersType
<1>6. HandlersType(gs)
  <2>1. \A c \in Clients : gs[c] \in Handler \cup {None}
    BY <1>4, <1>5
  <2> QED
    BY <1>2, <2>1 DEF HandlersType
<1>7. SameBases(gs, hs)
  BY <1>4, <1>5, NoneAssumption DEF SameBases
<1>8. ASSUME NEW c \in Clients, Poked(gs, c)
      PROVE  /\ Poked(hs, c) /\ hs[c].poke \in Poke /\ gs[c].poke \in Poke
             /\ \A k \in Keys : gs[c].poke.draft[k]
                                  = Apply(hs[c].poke.draft, News(hs[c], patches))[k]
             /\ gs[c].poke.started => hs[c].poke.started \/ News(hs[c], patches) # {}
  <2>1. CASE Poked(hs, c) /\ News(hs[c], patches) # {}
    BY <1>3, <1>4, <2>1
  <2>2. CASE ~(Poked(hs, c) /\ News(hs[c], patches) # {})
    <3>1. gs[c] = hs[c] /\ Poked(hs, c) /\ News(hs[c], patches) = {}
      BY <1>5, <1>8, <2>2 DEF Poked
    <3>2. \A k \in Keys : Apply(hs[c].poke.draft, {})[k] = hs[c].poke.draft[k]
      BY Applied
    <3> QED
      BY <1>3, <3>1, <3>2
  <2> QED
    BY <2>1, <2>2
<1> QED
  BY <1>6, <1>7, <1>8 DEF gs

LEMMA EndedPokes ==
  ASSUME ClientType, NEW hs, HandlersType(hs), SameBases(hs, handlers), NEW final \in Version,
         EndPokes(hs, final)
  PROVE  /\ HandlersType(handlers')
         /\ tabs' \in [Clients -> Tab]
         /\ \A c \in Clients :
              /\ ~Poked(handlers', c)
              /\ handlers'[c] # None => /\ handlers[c] # None
                                        /\ handlers'[c].base =
                                             IF Ends(hs, c, final) THEN final ELSE handlers[c].base
              /\ tabs'[c].deaf = tabs[c].deaf
              /\ IF Ends(hs, c, final) /\ ~tabs[c].deaf
                 THEN tabs'[c].view = hs[c].poke.draft /\ tabs'[c].cookie = final
                 ELSE tabs'[c].view = tabs[c].view /\ tabs'[c].cookie = tabs[c].cookie
<1>1. /\ handlers' = [c \in Clients |->
            IF Ends(hs, c, final) THEN [hs[c] EXCEPT !.poke = None, !.base = final]
            ELSE IF Poked(hs, c) THEN [hs[c] EXCEPT !.poke = None] ELSE hs[c]]
      /\ tabs' = [c \in Clients |->
            IF Ends(hs, c, final) /\ ~tabs[c].deaf
            THEN [tabs[c] EXCEPT !.view = hs[c].poke.draft, !.cookie = final] ELSE tabs[c]]
  BY DEF EndPokes, PokesEnded
<1>2. ASSUME NEW c \in Clients, Poked(hs, c)
      PROVE  /\ hs[c] # None /\ hs[c] \in Handler /\ hs[c].poke.draft \in [Keys -> Nat]
             /\ handlers[c] # None /\ hs[c].base = handlers[c].base
  BY <1>2 DEF Poked, HandlersType, Handler, Poke, SameBases
<1>3. ASSUME NEW c \in Clients, Ends(hs, c, final)
      PROVE  /\ handlers'[c] \in Handler /\ handlers'[c].poke = None /\ handlers'[c].base = final
             /\ handlers[c] # None
  <2>1. Poked(hs, c)
    BY <1>3 DEF Ends
  <2>2. handlers'[c] = [hs[c] EXCEPT !.poke = None, !.base = final]
    BY <1>1, <1>3
  <2>3. handlers'[c] = [base |-> final, poke |-> None, queue |-> hs[c].queue]
    BY <1>2, <2>1, <2>2 DEF Handler
  <2> QED
    BY <1>2, <2>1, <2>3 DEF Handler
<1>4. ASSUME NEW c \in Clients, ~Ends(hs, c, final), Poked(hs, c)
      PROVE  /\ handlers'[c] \in Handler /\ handlers'[c].poke = None
             /\ handlers'[c].base = handlers[c].base /\ handlers[c] # None
  <2>2. handlers'[c] = [hs[c] EXCEPT !.poke = None]
    BY <1>1, <1>4
  <2>3. handlers'[c] = [base |-> hs[c].base, poke |-> None, queue |-> hs[c].queue]
    BY <1>2, <1>4, <2>2 DEF Handler
  <2> QED
    BY <1>2, <1>4, <2>3 DEF Handler
<1>5. ASSUME NEW c \in Clients, ~Ends(hs, c, final), ~Poked(hs, c)
      PROVE  /\ handlers'[c] = hs[c] /\ handlers'[c] \in Handler \cup {None}
             /\ handlers'[c] # None => handlers[c] # None /\ handlers'[c].base = handlers[c].base
  BY <1>1, <1>5 DEF HandlersType, SameBases
<1>6. HandlersType(handlers')
  <2>1. \A c \in Clients : handlers'[c] \in Handler \cup {None}
    BY <1>3, <1>4, <1>5
  <2> QED
    BY <1>1, <2>1 DEF HandlersType
<1>7. ASSUME NEW c \in Clients
      PROVE  /\ tabs'[c] \in Tab /\ tabs'[c].deaf = tabs[c].deaf
             /\ IF Ends(hs, c, final) /\ ~tabs[c].deaf
                THEN tabs'[c].view = hs[c].poke.draft /\ tabs'[c].cookie = final
                ELSE tabs'[c].view = tabs[c].view /\ tabs'[c].cookie = tabs[c].cookie
  <2>1. tabs[c] \in Tab
    BY DEF ClientType
  <2>2. CASE Ends(hs, c, final) /\ ~tabs[c].deaf
    <3>1. hs[c].poke.draft \in [Keys -> Nat]
      BY <1>2, <2>2 DEF Ends
    <3>2. tabs'[c] = [tabs[c] EXCEPT !.view = hs[c].poke.draft, !.cookie = final]
      BY <1>1, <2>2
    <3>3. tabs'[c] = [wants |-> tabs[c].wants, cookie |-> final, view |-> hs[c].poke.draft,
                      deaf |-> tabs[c].deaf]
      BY <2>1, <3>2 DEF Tab
    <3> QED
      BY <2>1, <2>2, <3>1, <3>3 DEF Tab
  <2>3. CASE ~(Ends(hs, c, final) /\ ~tabs[c].deaf)
    BY <1>1, <2>1, <2>3
  <2> QED
    BY <2>2, <2>3
<1>8. tabs' \in [Clients -> Tab]
  BY <1>1, <1>7
<1>9. \A c \in Clients : ~Poked(handlers', c)
  BY <1>3, <1>4, <1>5 DEF Poked
<1> QED
  BY <1>3, <1>4, <1>5, <1>6, <1>7, <1>8, <1>9

-----------------------------------------------------------------------------
(* The CVR and the pipelines *)

LEMMA MatchesLess ==
  ASSUME NEW ps, NEW qs \in SUBSET ps, Matches(ps)
  PROVE  Matches(qs)
  BY DEF Matches

LEMMA GotKnown ==
  ASSUME ServerType
  PROVE  Got \subseteq Known /\ Got \in SUBSET Queries /\ Known \in SUBSET Queries
  BY DEF Got, Known

\* Nothing happens to the CVR and the pipelines.
LEMMA ServerStays ==
  ASSUME ServerInv, UNCHANGED <<pipes, cvr, task>>, db' \in 1 .. Len(Replica), db <= db'
  PROVE  ServerInv'
<1>1. db \in Nat /\ db' \in Nat /\ pipes.snap \in Nat
  BY ReplicaStates, PipesFields DEF ServerInv, ServerType
<1>2. ServerType'
  BY DEF ServerInv, ServerType
<1>3. Ahead'
  BY <1>1 DEF ServerInv, Ahead
<1>4. Recorded'
  BY DEF ServerInv, Recorded, Got, Live
<1>5. Dated'
  BY DEF ServerInv, Dated
<1>6. PipelineInv'
  <2>1. (pipes.synced /\ task = None => InLine)' /\ (At("sync") => pipes.hydrated \subseteq Got /\ Matches(pipes.hydrated))'
    BY DEF ServerInv, PipelineInv, InLine, At, Got, Known, Matches
  <2>2. (At("catchup") => InLine /\ task.executed \subseteq Got /\ Le(task.orig, cvr.version))'
    BY DEF ServerInv, PipelineInv, InLine, At, Got, Known, Matches
  <2>3. (At("advance") => Advancing)'
    BY DEF ServerInv, PipelineInv, Advancing, At, Got, Known, UpdatedVersion
  <2>4. (At("execute") => Executing)'
    BY DEF ServerInv, PipelineInv, Executing, ReceivedSoFar, Retained, Done, SentAt, SameVersion, Live,
           At, Got, Known, UpdatedVersion, UpdatedQueries, Removed, Matches
  <2> QED
    BY <2>1, <2>2, <2>3, <2>4 DEF PipelineInv
<1> QED
  BY <1>2, <1>3, <1>4, <1>5, <1>6 DEF ServerInv

LEMMA NextVersion ==
  ASSUME ServerType, NEW snap \in Nat, NEW executed, NEW removed
  PROVE  /\ UpdatedVersion(snap, executed, removed) \in Version
         /\ Le(cvr.version, UpdatedVersion(snap, executed, removed))
         /\ cvr.version[1] <= snap => UpdatedVersion(snap, executed, removed)[1] = snap
         /\ \/ UpdatedVersion(snap, executed, removed) = cvr.version
            \/ Less(cvr.version, UpdatedVersion(snap, executed, removed))
         /\ snap > cvr.version[1] \/ removed # {} \/ executed \ Got # {}
              => Less(cvr.version, UpdatedVersion(snap, executed, removed))
<1>1. cvr.version \in Version /\ cvr.version[1] \in Nat
  BY CVRFields DEF Version
<1>2. CASE snap > cvr.version[1]
  BY <1>1, <1>2, LaterVersion, VersionOrder DEF UpdatedVersion
<1>3. CASE ~(snap > cvr.version[1]) /\ (removed # {} \/ executed \ Got # {})
  BY <1>1, <1>3, LaterVersion, VersionOrder DEF UpdatedVersion
<1>4. CASE ~(snap > cvr.version[1]) /\ ~(removed # {} \/ executed \ Got # {})
  BY <1>1, <1>4, VersionOrder DEF UpdatedVersion
<1> QED
  BY <1>2, <1>3, <1>4

LEMMA UpdaterType ==
  ASSUME ServerType, NEW at \in {"execute", "advance"}, NEW snap \in Nat,
         NEW executed \in SUBSET Queries, NEW removed \in SUBSET Queries,
         NEW changes \in SUBSET (Queries \X Rows \X {"add", "edit", "remove"})
  PROVE  Updater(at, snap, executed, removed, changes) \in UpdateTask
<1> DEFINE v == UpdatedVersion(snap, executed, removed)
<1>1. v \in Version /\ cvr.version \in Version
  BY NextVersion, CVRFields
<1> HIDE DEF v
<1>2. [q \in Queries |->
          IF q \in removed THEN [st |-> "deleted", at |-> v]
          ELSE IF q \in executed \ Got THEN [st |-> "got", at |-> v]
          ELSE cvr.queries[q]] \in [Queries -> QueryRecord]
  BY <1>1, CVRFields DEF QueryRecord
<1>3. /\ [r \in Rows |-> None] \in [Rows -> (SUBSET Queries) \cup {None}]
      /\ [r \in Rows |-> None] \in [Rows -> RowPatchInfo \cup {None}]
      /\ [r \in Rows |-> None] \in [Rows -> RowRecord \cup {None}]
  OBVIOUS
<1> QED
  BY <1>1, <1>2, <1>3 DEF Updater, UpdateTask, v

-----------------------------------------------------------------------------
(* What the tasks do to the CVR and the pipelines *)

LEMMA ConfiguredCVR ==
  ASSUME ServerType, NEW c \in Clients, NEW m
  PROVE  /\ Configured(c, m) \in CVRType
         /\ Configured(c, m).version = IF ConfigChanges(c, m) THEN OneAfter(cvr.version) ELSE cvr.version
         /\ Configured(c, m).rows = cvr.rows
         /\ \A q \in Queries : Configured(c, m).queries[q] =
              IF q \in Needed(c, m) /\ Revived(q) THEN [st |-> "desired", at |-> ZeroVersion]
              ELSE cvr.queries[q]
         /\ \A d \in Clients, q \in Queries : Configured(c, m).desires[d][q] =
              IF d = c /\ q \in Needed(c, m)
              THEN [st |-> "active", at |-> Configured(c, m).version]
              ELSE IF d = c /\ q \in Unwanted(c, m)
              THEN [st |-> "inactive", at |-> Configured(c, m).version]
              ELSE cvr.desires[d][q]
<1> DEFINE v == IF ConfigChanges(c, m) THEN OneAfter(cvr.version) ELSE cvr.version
           ds == [q \in Queries |->
                    IF q \in Needed(c, m) THEN [st |-> "active", at |-> v]
                    ELSE IF q \in Unwanted(c, m) THEN [st |-> "inactive", at |-> v]
                    ELSE cvr.desires[c][q]]
           qs == [q \in Queries |->
                    IF q \in Needed(c, m) /\ Revived(q) THEN [st |-> "desired", at |-> ZeroVersion]
                    ELSE cvr.queries[q]]
<1>1. v \in Version
  BY CVRFields, LaterVersion
<1>2. Configured(c, m) =
        [cvr EXCEPT !.version = v, !.clients = @ \cup {c}, !.desires[c] = ds, !.queries = qs]
  BY DEF Configured
<1>3. ds \in [Queries -> Desire]
  BY <1>1, CVRFields DEF Desire
<1>4. qs \in [Queries -> QueryRecord]
  BY CVRFields, LaterVersion DEF QueryRecord
<1>5. \A q \in Queries :
        /\ qs[q] = IF q \in Needed(c, m) /\ Revived(q) THEN [st |-> "desired", at |-> ZeroVersion]
                   ELSE cvr.queries[q]
        /\ ds[q] = IF q \in Needed(c, m) THEN [st |-> "active", at |-> v]
                   ELSE IF q \in Unwanted(c, m) THEN [st |-> "inactive", at |-> v]
                   ELSE cvr.desires[c][q]
  OBVIOUS
<1> HIDE DEF ds, qs, v
<1>6. cvr \in CVRType
  BY DEF ServerType
<1>7. Configured(c, m) =
        [version |-> v, clients |-> cvr.clients \cup {c}, rows |-> cvr.rows, queries |-> qs,
         desires |-> [cvr.desires EXCEPT ![c] = ds]]
  BY <1>2, <1>6 DEF CVRType
<1>8. [cvr.desires EXCEPT ![c] = ds] \in [Clients -> [Queries -> Desire]]
  BY <1>3, <1>6 DEF CVRType
<1>9. Configured(c, m) \in CVRType
  BY <1>1, <1>4, <1>6, <1>7, <1>8 DEF CVRType
<1>10. \A d \in Clients : Configured(c, m).desires[d] = IF d = c THEN ds ELSE cvr.desires[d]
  BY <1>6, <1>7 DEF CVRType
<1>11. Configured(c, m).version = v /\ Configured(c, m).rows = cvr.rows /\ Configured(c, m).queries = qs
  BY <1>7
<1> QED
  BY <1>5, <1>9, <1>10, <1>11 DEF v

\* The task that brings the queries in line begins.
LEMMA SyncTask ==
  ASSUME ServerType', task' = [at |-> "sync"], pipes'.hydrated \subseteq Got', Matches(pipes.hydrated)'
  PROVE  PipelineInv'
<1>1. At("sync")' /\ task' # None
  BY NoneAssumption DEF At
<1>2. ~At("execute")' /\ ~At("advance")' /\ ~At("catchup")'
  BY <1>1 DEF At
<1> QED
  BY <1>1, <1>2 DEF PipelineInv

LEMMA NoTask ==
  ASSUME task' = None, (pipes.synced => InLine)'
  PROVE  PipelineInv'
  BY DEF PipelineInv, At

LEMMA HandleMessageServer ==
  ASSUME ServerInv, NEW c \in Clients, HandleMessage(c)
  PROVE  ServerInv'
<1> DEFINE m == Head(handlers[c].queue)
<1>1. /\ task = None /\ cvr' = Configured(c, m)
      /\ task' = IF pipes.synced THEN [at |-> "sync"] ELSE None
      /\ UNCHANGED <<db, pipes>>
  BY DEF HandleMessage
<1> HIDE DEF m
<1> USE <1>1
<1>2. ServerType /\ Ahead /\ Recorded /\ Dated /\ PipelineInv
  BY DEF ServerInv
<1>3. /\ cvr' \in CVRType /\ cvr'.rows = cvr.rows
      /\ cvr'.version = cvr.version \/ cvr'.version = OneAfter(cvr.version)
      /\ \A q \in Queries : cvr'.queries[q] = cvr.queries[q]
                            \/ (cvr'.queries[q].st = "desired" /\ cvr'.queries[q].at = ZeroVersion /\ Revived(q))
      /\ \A d \in Clients, q \in Queries : cvr'.desires[d][q] = cvr.desires[d][q]
                            \/ cvr'.desires[d][q].at = cvr'.version
  <2>1. /\ cvr' \in CVRType /\ cvr'.rows = cvr.rows
        /\ cvr'.version = IF ConfigChanges(c, m) THEN OneAfter(cvr.version) ELSE cvr.version
    BY <1>2, ConfiguredCVR
  <2>2. \A q \in Queries : cvr'.queries[q] =
          IF q \in Needed(c, m) /\ Revived(q) THEN [st |-> "desired", at |-> ZeroVersion]
          ELSE cvr.queries[q]
    BY <1>2, ConfiguredCVR
  <2>3. \A d \in Clients, q \in Queries : cvr'.desires[d][q] =
          IF d = c /\ q \in Needed(c, m) THEN [st |-> "active", at |-> cvr'.version]
          ELSE IF d = c /\ q \in Unwanted(c, m) THEN [st |-> "inactive", at |-> cvr'.version]
          ELSE cvr.desires[d][q]
    BY <1>2, ConfiguredCVR
  <2>4. \A q \in Queries : cvr'.queries[q] = cvr.queries[q]
          \/ (cvr'.queries[q].st = "desired" /\ cvr'.queries[q].at = ZeroVersion /\ Revived(q))
    BY <2>2
  <2>5. \A d \in Clients, q \in Queries :
          cvr'.desires[d][q] = cvr.desires[d][q] \/ cvr'.desires[d][q].at = cvr'.version
    BY <2>3
  <2> QED
    BY <2>1, <2>4, <2>5
<1>4. ServerType'
  BY <1>2, <1>3 DEF ServerType
<1>5. cvr.version \in Version /\ cvr'.version \in Version /\ Le(cvr.version, cvr'.version) /\ cvr'.version[1] = cvr.version[1]
  BY <1>2, <1>3, CVRFields, LaterVersion, VersionOrder
<1>6. Got' = Got
  BY <1>3 DEF Got, Revived
<1>7. Ahead'
  BY <1>2, <1>5 DEF Ahead
<1>8. Recorded'
  BY <1>2, <1>3, <1>5, <1>6 DEF Recorded, Live
<1>9. Dated'
  <2>1. \A r \in Rows : cvr'.rows[r].at = cvr.rows[r].at /\ cvr.rows[r].at \in Version
    BY <1>2, <1>3, CVRFields
  <2>2. \A r \in Rows : Le(cvr'.rows[r].at, cvr'.version)
    BY <1>2, <1>5, <2>1, VersionOrder DEF Dated
  <2>3. \A q \in Queries : Le(cvr'.queries[q].at, cvr'.version)
    BY <1>2, <1>3, <1>5, CVRFields, VersionOrder, LaterVersion DEF Dated
  <2>4. \A d \in Clients, q \in Queries : Le(cvr'.desires[d][q].at, cvr'.version)
    BY <1>2, <1>3, <1>5, CVRFields, VersionOrder, LaterVersion DEF Dated
  <2> QED
    BY <2>2, <2>3, <2>4 DEF Dated
<1>10. PipelineInv'
  <2>1. CASE pipes.synced
    <3>1. pipes'.hydrated = Got' /\ Matches(Got)
      BY <1>2, <1>6, <2>1 DEF PipelineInv, InLine
    <3>2. Matches(pipes.hydrated)'
      BY <1>3, <1>6, <3>1 DEF Matches
    <3> QED
      BY <1>4, <2>1, <3>1, <3>2, SyncTask
  <2>2. CASE ~pipes.synced
    BY <2>2, NoTask
  <2> QED
    BY <2>1, <2>2
<1> QED
  BY <1>4, <1>7, <1>8, <1>9, <1>10 DEF ServerInv

\* The queries that are executed, of those that the pipelines and the CVR have.
LEMMA SyncWithServer ==
  ASSUME ServerInv, pipes.synced, pipes.hydrated \subseteq Got, Matches(pipes.hydrated),
         NEW expired \in SUBSET Known, SyncWith(expired), UNCHANGED <<db, cvr>>
  PROVE  ServerInv'
<1> DEFINE wanted == Known \ expired
           executed == Unhydrated(wanted)
           rows == {x \in executed \X Rows : x[1] \in Replica[pipes.snap][x[2]].in}
           changes == {<<x[1], x[2], "add">> : x \in rows}
<1>1. ServerType /\ Ahead /\ Recorded /\ Dated
  BY DEF ServerInv
<1>2. /\ wanted \in SUBSET Queries /\ executed = wanted \ pipes.hydrated /\ expired \in SUBSET Queries
      /\ Got \subseteq Known
  BY <1>1, GotKnown DEF Unhydrated
<1>3. /\ Recorded' /\ Dated' /\ Got' = Got /\ Known' = Known
  BY <1>1 DEF Recorded, Dated, Got, Known, Live
<1>4. CASE executed = {} /\ expired = {} /\ pipes.hydrated \subseteq wanted
  <2>1. task' = None /\ UNCHANGED pipes
    BY <1>4 DEF SyncWith
  <2>2. ServerType' /\ Ahead'
    BY <1>1, <2>1 DEF ServerType, Ahead
  <2>3. Known = pipes.hydrated /\ Got = Known
    BY <1>2, <1>4
  <2>4. InLine'
    BY <1>3, <2>1, <2>3 DEF InLine, Matches
  <2> QED
    BY <1>3, <2>1, <2>2, <2>4, NoTask DEF ServerInv
<1>5. CASE ~(executed = {} /\ expired = {} /\ pipes.hydrated \subseteq wanted)
  <2>1. /\ task' = Updater("execute", pipes.snap, executed, expired, changes)
        /\ pipes' = [pipes EXCEPT !.hydrated = wanted, !.synced = TRUE]
    BY <1>5 DEF SyncWith
  <2>2. /\ pipes'.snap = pipes.snap /\ pipes'.hydrated = wanted /\ pipes'.synced = TRUE
        /\ pipes' \in [snap : 0 .. Len(Replica), hydrated : SUBSET Queries, synced : BOOLEAN]
    <3>1. pipes' = [snap |-> pipes.snap, hydrated |-> wanted, synced |-> TRUE]
      BY <1>1, <2>1, PipesFields
    <3> QED
      BY <1>1, <1>2, <3>1, PipesFields
  <2>3. \A x \in rows : x[1] \in executed /\ x[2] \in Rows /\ x[1] \in In(pipes.snap, x[2])
    BY DEF In
  <2>4. \A q \in executed, r \in Rows : q \in In(pipes.snap, r) => <<q, r, "add">> \in changes
    <3> SUFFICES ASSUME NEW q \in executed, NEW r \in Rows, q \in In(pipes.snap, r)
                 PROVE  <<q, r, "add">> \in changes
      OBVIOUS
    <3>1. <<q, r>> \in rows
      BY DEF In
    <3>2. <<<<q, r>>[1], <<q, r>>[2], "add">> \in changes
      BY <3>1
    <3> QED
      BY <3>2
  <2> HIDE DEF rows
  <2>5. \A x \in changes : /\ x[1] \in executed /\ x[2] \in Rows /\ x[3] = "add"
                           /\ x[1] \in In(pipes.snap, x[2])
                           /\ x = <<x[1], x[2], "add">>
    <3> TAKE x \in changes
    <3>1. PICK y \in rows : x = <<y[1], y[2], "add">>
      OBVIOUS
    <3>2. x[1] = y[1] /\ x[2] = y[2] /\ x[3] = "add"
      BY <3>1
    <3> QED
      BY <2>3, <3>1, <3>2
  <2> HIDE DEF changes
  <2>6. changes \in SUBSET (Queries \X Rows \X {"add", "edit", "remove"})
    BY <1>2, <2>5
  <2> HIDE DEF wanted, executed
  <2>7. pipes.snap \in Nat /\ executed \in SUBSET Queries
    BY <1>1, <1>2, PipesFields, ReplicaStates
  <2>8. task' \in UpdateTask
    BY <1>1, <1>2, <2>1, <2>6, <2>7, UpdaterType
  <2>9. /\ task'.at = "execute" /\ task'.orig = cvr.version
        /\ task'.version = UpdatedVersion(pipes.snap, executed, expired)
        /\ task'.executed = executed /\ task'.tracked = executed \cup expired
        /\ task'.changes = changes
        /\ task'.queries = [q \in Queries |->
             IF q \in expired THEN [st |-> "deleted", at |-> task'.version]
             ELSE IF q \in executed \ Got THEN [st |-> "got", at |-> task'.version]
             ELSE cvr.queries[q]]
        /\ task'.received = [r \in Rows |-> None] /\ task'.last = [r \in Rows |-> None]
        /\ task'.rows = [r \in Rows |-> None]
    BY <2>1 DEF Updater
  <2>10. Removed' = expired
    BY <1>2, <2>9 DEF Removed, wanted
  <2>11. ServerType' /\ Ahead'
    BY <1>1, <2>2, <2>8 DEF ServerType, Ahead
  <2>12. Executing'
    <3>1. (task.orig = cvr.version)'
      BY <2>9
    <3>2. (task.version = UpdatedVersion(pipes.snap, task.executed, Removed))'
      BY <1>3, <2>2, <2>9, <2>10 DEF UpdatedVersion
    <3>3. (task.queries = UpdatedQueries(task.executed, Removed, task.version))'
      BY <1>3, <2>9, <2>10 DEF UpdatedQueries
    <3>4. /\ (task.executed \subseteq pipes.hydrated /\ task.executed \subseteq task.tracked)'
          /\ (Removed \cap pipes.hydrated = {} /\ Known = pipes.hydrated \cup Removed)'
          /\ (pipes.hydrated \ task.executed \subseteq Got)'
      BY <1>2, <1>3, <2>2, <2>9, <2>10 DEF wanted
    <3>5. Matches(pipes.hydrated \ task.executed)'
      <4>1. pipes'.hydrated \ task'.executed \subseteq pipes.hydrated
        BY <1>2, <2>2, <2>9
      <4>2. Matches(pipes'.hydrated \ task'.executed)
        BY <4>1, MatchesLess
      <4> QED
        BY <2>2, <4>2 DEF Matches
    <3>6. (\A x \in task.changes :
             x[1] \in task.executed /\ x[1] \in In(pipes.snap, x[2]) /\ x[3] = "add")'
      BY <2>2, <2>5, <2>9
    <3>7. ReceivedSoFar'
      <4>1. \A r \in Rows : Done(r)' = {}
        BY <2>2, <2>4, <2>9 DEF Done, In
      <4> QED
        BY <2>9, <4>1 DEF ReceivedSoFar
    <3> QED
      BY <3>1, <3>2, <3>3, <3>4, <3>5, <3>6, <3>7 DEF Executing
  <2>13. PipelineInv'
    <3>1. At("execute")' /\ task' # None
      BY <2>8, <2>9, NoneAssumption DEF At
    <3> QED
      BY <2>9, <2>12, <3>1 DEF PipelineInv, At
  <2> QED
    BY <1>3, <2>11, <2>13 DEF ServerInv
<1> QED
  BY <1>4, <1>5

LEMMA SyncServer ==
  ASSUME ServerInv, Sync
  PROVE  ServerInv'
<1>1. PICK expired \in SUBSET Expirable : SyncWith(expired)
  BY DEF Sync
<1>2. At("sync") /\ UNCHANGED <<db, cvr>>
  BY DEF Sync, At
<1>3. expired \in SUBSET Known
  BY DEF Expirable
<1>4. pipes.synced /\ pipes.hydrated \subseteq Got /\ Matches(pipes.hydrated)
  BY <1>2 DEF ServerInv, Ahead, PipelineInv, At
<1> QED
  BY <1>1, <1>2, <1>3, <1>4, SyncWithServer

LEMMA ExpireServer ==
  ASSUME ServerInv, "earlyExpiry" \notin Environment, ExpireQueries
  PROVE  ServerInv'
<1>1. PICK expired \in (SUBSET Expirable) \ {{}} : SyncWith(expired)
  BY DEF ExpireQueries
<1>2. task = None /\ pipes.synced /\ UNCHANGED <<db, cvr>>
  BY DEF ExpireQueries
<1>3. expired \in SUBSET Known
  BY DEF Expirable
<1>4. pipes.hydrated \subseteq Got /\ Matches(pipes.hydrated)
  BY <1>2 DEF ServerInv, PipelineInv, InLine
<1> QED
  BY <1>1, <1>2, <1>3, <1>4, SyncWithServer

-----------------------------------------------------------------------------
(* An execution *)

\* What a batch of the changes of an execution is received as.
LEMMA Batch ==
  ASSUME ServerInv, At("execute"), NEW batch \in SUBSET task.changes
  PROVE  /\ \A r \in Rows : r \in RowsOf(batch) <=> Having(batch, r, {"add"}) # {}
         /\ RowsOf(batch) \subseteq Rows
         /\ \A r \in RowsOf(batch) :
              LET done == Done(r) \cup Having(batch, r, {"add"})
              IN  /\ done # {} /\ Ver(pipes.snap, r) # 0 /\ Ver(pipes.snap, r) \in Nat
                  /\ RowVersion(batch, r) = Ver(pipes.snap, r)
                  /\ Merged(batch, r) = Retained(r) \cup done
                  /\ PatchVersion(batch, r) = SentAt(r) /\ ToVersion(batch, r) = SentAt(r)
                  /\ Record(batch, r) = [ver |-> Ver(pipes.snap, r), at |-> SentAt(r),
                                         refs |-> Retained(r) \cup done]
                  /\ (Unchanged(batch, r) <=> SameVersion(r))
         /\ Deleted(batch) = {}
         /\ Put(batch) = {r \in RowsOf(batch) : Done(r) = {}}
<1>1. ServerType /\ Executing /\ ReceivedSoFar /\ pipes.snap \in 1 .. Len(Replica)
  <2>1. Executing /\ ServerType /\ pipes.snap >= 1
    BY DEF ServerInv, PipelineInv, Ahead, At
  <2> QED
    BY <2>1, PipesFields DEF Executing
<1>2. \A x \in batch : /\ x[1] \in Queries /\ x[2] \in Rows /\ x = <<x[1], x[2], "add">>
                       /\ x[1] \in task.executed /\ x[1] \in In(pipes.snap, x[2])
  BY <1>1, TaskFields DEF Executing
<1>3. RowsOf(batch) \subseteq Rows
  BY <1>2 DEF RowsOf
<1>4. ASSUME NEW r \in Rows
      PROVE  /\ r \in RowsOf(batch) <=> Having(batch, r, {"add"}) # {}
             /\ Having(batch, r, {"remove"}) = {}
             /\ Having(batch, r, {"add", "edit"}) = Having(batch, r, {"add"})
             /\ Having(batch, r, {"add"}) \in SUBSET (task.executed \cap In(pipes.snap, r))
             /\ Having(batch, r, {"add"}) \in SUBSET Queries
  BY <1>2 DEF RowsOf, Having
<1>5. ASSUME NEW r \in Rows, Done(r) # {}
      PROVE  /\ task.received[r] = Retained(r) \cup Done(r) /\ task.received[r] # None
             /\ task.last[r] = [ver |-> Ver(pipes.snap, r), to |-> SentAt(r)] /\ task.last[r] # None
  <2>1. /\ task.received[r] = Retained(r) \cup Done(r)
        /\ task.last[r] = [ver |-> Ver(pipes.snap, r), to |-> SentAt(r)]
    BY <1>1, <1>5 DEF ReceivedSoFar
  <2>2. Retained(r) \cup Done(r) \in SUBSET Queries
    BY <1>1, CVRFields, TaskFields DEF Retained, Done
  <2>3. SentAt(r) \in Version
    BY <1>1, CVRFields, TaskFields DEF SentAt
  <2>4. [ver |-> Ver(pipes.snap, r), to |-> SentAt(r)] \in RowPatchInfo
    BY <1>1, <2>3, ReplicaStates DEF RowPatchInfo
  <2> QED
    BY <2>1, <2>2, <2>4, NoneAssumption
<1>6. ASSUME NEW r \in RowsOf(batch)
      PROVE  LET done == Done(r) \cup Having(batch, r, {"add"})
             IN  /\ done # {} /\ Ver(pipes.snap, r) # 0 /\ Ver(pipes.snap, r) \in Nat
                 /\ RowVersion(batch, r) = Ver(pipes.snap, r)
                 /\ Merged(batch, r) = Retained(r) \cup done
                 /\ PatchVersion(batch, r) = SentAt(r) /\ ToVersion(batch, r) = SentAt(r)
                 /\ Record(batch, r) = [ver |-> Ver(pipes.snap, r), at |-> SentAt(r),
                                        refs |-> Retained(r) \cup done]
                 /\ (Unchanged(batch, r) <=> SameVersion(r))
                 /\ r \notin Deleted(batch)
                 /\ (r \in Put(batch) <=> Done(r) = {})
  <2> DEFINE adds == Having(batch, r, {"add"})
             done == Done(r) \cup adds
  <2>1. r \in Rows /\ adds # {} /\ adds \subseteq In(pipes.snap, r)
    BY <1>3, <1>4
  <2>2. In(pipes.snap, r) # {} /\ Ver(pipes.snap, r) # 0 /\ Ver(pipes.snap, r) \in Nat
    BY <1>1, <2>1, ReplicaStates
  <2>3. RowVersion(batch, r) = Ver(pipes.snap, r)
    BY <1>4, <2>1 DEF RowVersion, Ver
  <2>4. Merged(batch, r) = Retained(r) \cup done
    <3>1. CASE Done(r) = {}
      <4>1. task.received[r] = None
        BY <1>1, <2>1, <3>1 DEF ReceivedSoFar
      <4> QED
        BY <1>4, <2>1, <3>1, <4>1 DEF Merged
    <3>2. CASE Done(r) # {}
      BY <1>4, <1>5, <2>1, <3>2 DEF Merged
    <3> QED
      BY <3>1, <3>2
  <2> HIDE DEF adds
  <2>5. Merged(batch, r) # {}
    BY <2>1, <2>4
  <2>6. Unchanged(batch, r) <=> SameVersion(r)
    BY <2>3, <2>5 DEF Unchanged, SameVersion
  <2>7. PatchVersion(batch, r) = SentAt(r)
    BY <2>6 DEF PatchVersion, SentAt
  <2>8. ToVersion(batch, r) = SentAt(r)
    <3>1. CASE Done(r) = {}
      <4>1. task.last[r] = None
        BY <1>1, <2>1, <3>1 DEF ReceivedSoFar
      <4> QED
        BY <2>7, <4>1 DEF ToVersion
    <3>2. CASE Done(r) # {}
      <4>1. task.last[r] = [ver |-> Ver(pipes.snap, r), to |-> SentAt(r)] /\ task.last[r] # None
        BY <1>5, <2>1, <3>2
      <4>2. task.last[r].to = SentAt(r)
        BY <4>1
      <4> QED
        BY <2>7, <4>1, <4>2 DEF ToVersion, LaterOf
    <3> QED
      BY <3>1, <3>2
  <2>9. Record(batch, r) = [ver |-> Ver(pipes.snap, r), at |-> SentAt(r), refs |-> Retained(r) \cup done]
    BY <2>2, <2>3, <2>4, <2>7 DEF Record
  <2>10. r \notin Deleted(batch)
    BY <2>5 DEF Deleted
  <2>11. r \in Put(batch) <=> Done(r) = {}
    <3>1. CASE Done(r) = {}
      <4>1. task.last[r] = None
        BY <1>1, <2>1, <3>1 DEF ReceivedSoFar
      <4> QED
        BY <2>2, <2>3, <2>5, <3>1, <4>1 DEF Put
    <3>2. CASE Done(r) # {}
      <4>1. task.last[r] = [ver |-> Ver(pipes.snap, r), to |-> SentAt(r)] /\ task.last[r] # None
        BY <1>5, <2>1, <3>2
      <4>2. ~(task.last[r].ver < RowVersion(batch, r))
        BY <2>2, <2>3, <4>1
      <4> QED
        BY <3>2, <4>1, <4>2 DEF Put
    <3> QED
      BY <3>1, <3>2
  <2>12. done # {}
    BY <2>1
  <2> QED
    BY <2>2, <2>3, <2>4, <2>6, <2>7, <2>8, <2>9, <2>10, <2>11, <2>12 DEF adds
<1>7. Deleted(batch) = {}
  BY <1>6 DEF Deleted
<1>8. Put(batch) = {r \in RowsOf(batch) : Done(r) = {}}
  BY <1>6 DEF Put
<1> QED
  BY <1>3, <1>4, <1>6, <1>7, <1>8

LEMMA ReceivedFields ==
  ASSUME task \in UpdateTask, NEW batch
  PROVE  LET t == Received(batch)
         IN  /\ t = [at |-> task.at, orig |-> task.orig, version |-> task.version,
                     executed |-> task.executed, tracked |-> task.tracked,
                     changes |-> task.changes \ batch, queries |-> task.queries,
                     received |-> t.received, last |-> t.last, rows |-> t.rows]
             /\ t.received = [r \in Rows |-> t.received[r]]
             /\ t.last = [r \in Rows |-> t.last[r]]
             /\ t.rows = [r \in Rows |-> t.rows[r]]
             /\ \A r \in Rows :
                  /\ t.received[r] = IF r \in RowsOf(batch) THEN Merged(batch, r) ELSE task.received[r]
                  /\ t.last[r] =
                       IF r \in Deleted(batch) \cup Put(batch)
                       THEN [ver |-> IF r \in Put(batch) THEN RowVersion(batch, r) ELSE 0,
                             to |-> ToVersion(batch, r)]
                       ELSE task.last[r]
                  /\ t.rows[r] = IF r \in RowsOf(batch) THEN Record(batch, r) ELSE task.rows[r]
<1> DEFINE changes == task.changes \ batch
           received == [r \in Rows |-> IF r \in RowsOf(batch) THEN Merged(batch, r) ELSE task.received[r]]
           last == [r \in Rows |->
                      IF r \in Deleted(batch) \cup Put(batch)
                      THEN [ver |-> IF r \in Put(batch) THEN RowVersion(batch, r) ELSE 0,
                            to |-> ToVersion(batch, r)]
                      ELSE task.last[r]]
           rows == [r \in Rows |-> IF r \in RowsOf(batch) THEN Record(batch, r) ELSE task.rows[r]]
<1>1. Received(batch) =
        [task EXCEPT !.changes = changes, !.received = received, !.last = last, !.rows = rows]
  BY DEF Received
<1>2. \A r \in Rows :
        /\ received[r] = IF r \in RowsOf(batch) THEN Merged(batch, r) ELSE task.received[r]
        /\ last[r] = IF r \in Deleted(batch) \cup Put(batch)
                     THEN [ver |-> IF r \in Put(batch) THEN RowVersion(batch, r) ELSE 0,
                           to |-> ToVersion(batch, r)]
                     ELSE task.last[r]
        /\ rows[r] = IF r \in RowsOf(batch) THEN Record(batch, r) ELSE task.rows[r]
  OBVIOUS
<1>3. /\ received = [r \in Rows |-> received[r]] /\ last = [r \in Rows |-> last[r]]
      /\ rows = [r \in Rows |-> rows[r]]
  OBVIOUS
<1> HIDE DEF received, last, rows
<1>4. Received(batch) =
        [at |-> task.at, orig |-> task.orig, version |-> task.version,
         executed |-> task.executed, tracked |-> task.tracked,
         changes |-> changes, queries |-> task.queries,
         received |-> received, last |-> last, rows |-> rows]
  BY <1>1 DEF UpdateTask
<1> HIDE DEF changes
<1>5. /\ Received(batch).received = received /\ Received(batch).last = last
      /\ Received(batch).rows = rows
  BY <1>4
<1> QED
  BY <1>2, <1>3, <1>4, <1>5 DEF changes

LEMMA ExecuteServer ==
  ASSUME ServerInv, Execute
  PROVE  ServerInv' /\ task' \in UpdateTask
<1>1. PICK batch \in {task.changes} \cup {{x \in task.changes : x[1] = q} : q \in Queries} :
        task' = Received(batch)
  BY DEF Execute
<1>2. /\ At("execute") /\ UNCHANGED <<db, pipes, cvr>> /\ batch \in SUBSET task.changes
  BY DEF Execute, At
<1>3. /\ ServerType /\ Ahead /\ Recorded /\ Dated /\ Executing /\ task \in UpdateTask
      /\ pipes.snap \in 1 .. Len(Replica)
  <2>1. ServerType /\ Ahead /\ Recorded /\ Dated /\ Executing /\ pipes.snap >= 1
    BY <1>2 DEF ServerInv, PipelineInv, Ahead, At
  <2>2. task \in UpdateTask
    BY <1>2, <2>1, TaskFields
  <2>3. pipes.snap \in 0 .. Len(Replica)
    BY <2>1, PipesFields
  <2>4. pipes.snap \in 1 .. Len(Replica)
    BY <2>1, <2>3
  <2> QED
    BY <2>1, <2>2, <2>4
<1>4. /\ task'.at = "execute" /\ task'.orig = task.orig /\ task'.version = task.version
      /\ task'.executed = task.executed /\ task'.tracked = task.tracked
      /\ task'.changes = task.changes \ batch /\ task'.queries = task.queries
  <2>1. task.at = "execute"
    BY <1>2 DEF At
  <2>2. task' = [at |-> task.at, orig |-> task.orig, version |-> task.version,
                 executed |-> task.executed, tracked |-> task.tracked,
                 changes |-> task.changes \ batch, queries |-> task.queries,
                 received |-> task'.received, last |-> task'.last, rows |-> task'.rows]
    BY <1>1, <1>3, ReceivedFields
  <2> QED
    BY <2>1, <2>2
<1>5. \A r \in Rows : Having(batch, r, {"add"}) \in SUBSET Queries
  BY DEF Having
<1>6. \A r \in Rows : /\ Done(r)' = Done(r) \cup Having(batch, r, {"add"})
                       /\ Retained(r)' = Retained(r) /\ SentAt(r)' = SentAt(r)
  <2> TAKE r \in Rows
  <2>1. Retained(r)' = Retained(r) /\ SentAt(r)' = SentAt(r)
    BY <1>2, <1>4 DEF Retained, SentAt, SameVersion, Live
  <2>2. \A q \in Queries : <<q, r, "add">> \in batch => q \in task.executed \cap In(pipes.snap, r)
    <3> TAKE q \in Queries
    <3>1. \A x \in batch : x[1] \in task.executed /\ x[1] \in In(pipes.snap, x[2])
      BY <1>2, <1>3 DEF Executing
    <3> QED
      BY <3>1
  <2>3. Having(batch, r, {"add"}) = {q \in Queries : <<q, r, "add">> \in batch}
    BY DEF Having
  <2>4. \A q \in task.executed : q \in Queries
    BY <1>3 DEF UpdateTask
  <2>5. Done(r)' = {q \in task.executed \cap In(pipes.snap, r) :
                     ~(<<q, r, "add">> \in task.changes \ batch)}
    BY <1>2, <1>4 DEF Done, In
  <2>6. Done(r)' = Done(r) \cup Having(batch, r, {"add"})
    BY <2>2, <2>3, <2>4, <2>5 DEF Done
  <2> QED
    BY <2>1, <2>6
<1>7. /\ \A r \in Rows : r \in RowsOf(batch) <=> Having(batch, r, {"add"}) # {}
      /\ RowsOf(batch) \subseteq Rows
      /\ \A r \in RowsOf(batch) :
           /\ RowVersion(batch, r) = Ver(pipes.snap, r) /\ ToVersion(batch, r) = SentAt(r)
           /\ Merged(batch, r) = Retained(r) \cup (Done(r) \cup Having(batch, r, {"add"}))
           /\ Record(batch, r) =
                [ver |-> Ver(pipes.snap, r), at |-> SentAt(r),
                 refs |-> Retained(r) \cup (Done(r) \cup Having(batch, r, {"add"}))]
      /\ Deleted(batch) = {} /\ Put(batch) = {r \in RowsOf(batch) : Done(r) = {}}
  BY <1>2, Batch
<1>8. ReceivedSoFar'
  <2> SUFFICES ASSUME NEW r \in Rows
      PROVE  IF Done(r)' = {}
             THEN task'.received[r] = None /\ task'.rows[r] = None /\ task'.last[r] = None
             ELSE /\ task'.received[r] = Retained(r) \cup Done(r)'
                  /\ task'.rows[r] = [ver |-> Ver(pipes.snap, r), at |-> SentAt(r),
                                      refs |-> Retained(r) \cup Done(r)']
                  /\ task'.last[r] = [ver |-> Ver(pipes.snap, r), to |-> SentAt(r)]
    BY <1>2, <1>6 DEF ReceivedSoFar, Ver
  <2>1. /\ task'.received[r] = IF r \in RowsOf(batch) THEN Merged(batch, r) ELSE task.received[r]
        /\ task'.last[r] = IF r \in Put(batch)
                           THEN [ver |-> RowVersion(batch, r), to |-> ToVersion(batch, r)]
                           ELSE task.last[r]
        /\ task'.rows[r] = IF r \in RowsOf(batch) THEN Record(batch, r) ELSE task.rows[r]
    BY <1>1, <1>3, <1>7, ReceivedFields
  <2>2. IF Done(r) = {}
        THEN task.received[r] = None /\ task.rows[r] = None /\ task.last[r] = None
        ELSE /\ task.received[r] = Retained(r) \cup Done(r)
             /\ task.rows[r] = [ver |-> Ver(pipes.snap, r), at |-> SentAt(r),
                                refs |-> Retained(r) \cup Done(r)]
             /\ task.last[r] = [ver |-> Ver(pipes.snap, r), to |-> SentAt(r)]
    BY <1>3 DEF Executing, ReceivedSoFar
  <2>3. CASE r \notin RowsOf(batch)
    <3>1. Done(r)' = Done(r) /\ r \notin Put(batch)
      BY <1>6, <1>7, <2>3
    <3> QED
      BY <2>1, <2>2, <2>3, <3>1
  <2>4. CASE r \in RowsOf(batch)
    <3>1. Done(r)' # {} /\ Done(r)' = Done(r) \cup Having(batch, r, {"add"})
      BY <1>6, <1>7, <2>4
    <3>2. /\ task'.received[r] = Retained(r) \cup Done(r)'
          /\ task'.rows[r] = [ver |-> Ver(pipes.snap, r), at |-> SentAt(r),
                              refs |-> Retained(r) \cup Done(r)']
      BY <1>7, <2>1, <2>4, <3>1
    <3>3. task'.last[r] = [ver |-> Ver(pipes.snap, r), to |-> SentAt(r)]
      BY <1>7, <2>1, <2>2, <2>4
    <3> QED
      BY <3>1, <3>2, <3>3
  <2> QED
    BY <2>3, <2>4
<1>9. Executing'
  <2>1. Removed' = Removed /\ Got' = Got /\ Known' = Known
    BY <1>2, <1>4 DEF Removed, Got, Known
  <2>2. (task.version = UpdatedVersion(pipes.snap, task.executed, Removed))'
    BY <1>2, <1>3, <1>4, <2>1 DEF Executing, UpdatedVersion
  <2>3. (task.queries = UpdatedQueries(task.executed, Removed, task.version))'
    BY <1>2, <1>3, <1>4, <2>1 DEF Executing, UpdatedQueries
  <2>4. Matches(pipes.hydrated \ task.executed)'
    BY <1>2, <1>3, <1>4 DEF Executing, Matches
  <2>5. (\A x \in task.changes :
           x[1] \in task.executed /\ x[1] \in In(pipes.snap, x[2]) /\ x[3] = "add")'
    BY <1>2, <1>3, <1>4 DEF Executing, In
  <2> QED
    BY <1>2, <1>3, <1>4, <1>8, <2>1, <2>2, <2>3, <2>4, <2>5 DEF Executing
<1>10. ServerType' /\ task' \in UpdateTask
  <2>1. \A r \in Rows : /\ Retained(r) \cup Done(r)' \in SUBSET Queries
                         /\ SentAt(r) \in Version /\ Ver(pipes.snap, r) \in Nat
    <3>1. \A r \in Rows : Retained(r) \cup Done(r)' \in SUBSET Queries
      BY <1>2, <1>3, <1>5, <1>6, CVRFields, TaskFields DEF Retained, Done
    <3>2. \A r \in Rows : SentAt(r) \in Version
      BY <1>2, <1>3, CVRFields, TaskFields DEF SentAt
    <3> QED
      BY <1>3, <3>1, <3>2, ReplicaStates
  <2>2. \A r \in Rows : /\ task'.received[r] \in (SUBSET Queries) \cup {None}
                         /\ task'.rows[r] \in RowRecord \cup {None}
                         /\ task'.last[r] \in RowPatchInfo \cup {None}
    <3> TAKE r \in Rows
    <3>1. /\ [ver |-> Ver(pipes.snap, r), at |-> SentAt(r), refs |-> Retained(r) \cup Done(r)'] \in RowRecord
          /\ [ver |-> Ver(pipes.snap, r), to |-> SentAt(r)] \in RowPatchInfo
      BY <2>1 DEF RowRecord, RowPatchInfo
    <3>2. IF Done(r)' = {}
          THEN task'.received[r] = None /\ task'.rows[r] = None /\ task'.last[r] = None
          ELSE /\ task'.received[r] = Retained(r) \cup Done(r)'
               /\ task'.rows[r] = [ver |-> Ver(pipes.snap, r), at |-> SentAt(r),
                                   refs |-> Retained(r) \cup Done(r)']
               /\ task'.last[r] = [ver |-> Ver(pipes.snap, r), to |-> SentAt(r)]
      BY <1>2, <1>6, <1>8 DEF ReceivedSoFar, Ver
    <3> QED
      BY <2>1, <3>1, <3>2
  <2>3. /\ task' = [at |-> task.at, orig |-> task.orig, version |-> task.version,
                    executed |-> task.executed, tracked |-> task.tracked,
                    changes |-> task.changes \ batch, queries |-> task.queries,
                    received |-> task'.received, last |-> task'.last, rows |-> task'.rows]
        /\ task'.received = [r \in Rows |-> task'.received[r]]
        /\ task'.last = [r \in Rows |-> task'.last[r]]
        /\ task'.rows = [r \in Rows |-> task'.rows[r]]
    BY <1>1, <1>3, ReceivedFields
  <2>4. /\ task'.received \in [Rows -> (SUBSET Queries) \cup {None}]
        /\ task'.last \in [Rows -> RowPatchInfo \cup {None}]
        /\ task'.rows \in [Rows -> RowRecord \cup {None}]
    BY <2>2, <2>3
  <2>5. task' \in UpdateTask
    BY <1>3, <2>3, <2>4 DEF UpdateTask
  <2> QED
    BY <1>2, <1>3, <2>5 DEF ServerType
<1>11. Ahead' /\ Recorded' /\ Dated'
  BY <1>2, <1>3 DEF Ahead, Recorded, Dated, Got, Live, At
<1>12. PipelineInv'
  <2>1. task' # None
    BY <1>10, NoneAssumption
  <2> QED
    BY <1>4, <1>9, <2>1 DEF PipelineInv, At
<1> QED
  BY <1>10, <1>11, <1>12 DEF ServerInv

\* Without anything to change, a row that is executed is as it was: a change has a version.
LEMMA ExecutionVersion ==
  ASSUME ServerInv, At("execute"), NEW r \in Rows,
         \/ task.executed \cap In(pipes.snap, r) # {} /\ ~SameVersion(r)
         \/ cvr.rows[r].refs \cap task.tracked # {} /\ task.executed \cap In(pipes.snap, r) = {}
  PROVE  Less(task.orig, task.version)
<1>1. /\ ServerType /\ Executing /\ Recorded
      /\ pipes.snap \in 1 .. Len(Replica) /\ cvr.version[1] <= pipes.snap
  <2>1. ServerType /\ Executing /\ Recorded /\ pipes.snap >= 1 /\ cvr.version[1] <= pipes.snap
    BY DEF ServerInv, PipelineInv, Ahead, At
  <2>2. pipes.snap \in 0 .. Len(Replica)
    BY <2>1, PipesFields
  <2> QED
    BY <2>1, <2>2
<1>2. SUFFICES ASSUME ~(pipes.snap > cvr.version[1]), Removed = {}, task.executed \ Got = {}
               PROVE  FALSE
  BY <1>1, NextVersion DEF Executing
<1>3. cvr.version[1] \in Nat /\ pipes.snap = cvr.version[1] /\ cvr.version[1] # 0
  BY <1>1, <1>2, CVRFields DEF Version
<1>4. /\ cvr.rows[r].refs = In(pipes.snap, r) \cap Got
      /\ Live(r) => cvr.rows[r].ver = Ver(pipes.snap, r)
  BY <1>1, <1>3 DEF Recorded
<1>5. task.executed \subseteq Got /\ task.tracked = task.executed
  BY <1>1, <1>2 DEF Removed, Executing
<1> QED
  BY <1>4, <1>5 DEF SameVersion, Live

LEMMA Flushed ==
  ASSUME ServerType, NEW t \in UpdateTask
  PROVE  /\ FlushedCVR(t) \in CVRType
         /\ FlushedCVR(t).desires = cvr.desires /\ FlushedCVR(t).queries = t.queries
         /\ FlushedCVR(t) = cvr \/ FlushedCVR(t).version = t.version
         /\ \A r \in Rows :
              \/ FlushedCVR(t).rows[r] = cvr.rows[r] /\ t.rows[r] = None
              \/ FlushedCVR(t).rows[r] = t.rows[r] /\ t.rows[r] # None
              \/ /\ FlushedCVR(t).rows[r] = cvr.rows[r] /\ t.rows[r] # None
                 /\ ~Live(r) /\ t.rows[r].refs = {}
<1>1. /\ t.rows \in [Rows -> RowRecord \cup {None}] /\ t.queries \in [Queries -> QueryRecord]
      /\ t.version \in Version /\ cvr \in CVRType
  BY DEF UpdateTask, ServerType
<1>2. CASE Written(t) = {} /\ t.queries = cvr.queries
  <2>1. FlushedCVR(t) = cvr
    BY <1>2 DEF FlushedCVR
  <2>2. \A r \in Rows : t.rows[r] = None \/ t.rows[r] = cvr.rows[r] \/ (~Live(r) /\ t.rows[r].refs = {})
    BY <1>2 DEF Written
  <2> QED
    BY <1>1, <1>2, <2>1, <2>2
<1>3. CASE ~(Written(t) = {} /\ t.queries = cvr.queries)
  <2> DEFINE rows == [r \in Rows |-> IF r \in Written(t) THEN t.rows[r] ELSE cvr.rows[r]]
  <2>1. FlushedCVR(t) = [cvr EXCEPT !.version = t.version, !.queries = t.queries, !.rows = rows]
    BY <1>3 DEF FlushedCVR
  <2>2. \A r \in Rows : rows[r] = IF r \in Written(t) THEN t.rows[r] ELSE cvr.rows[r]
    OBVIOUS
  <2>3. rows \in [Rows -> RowRecord]
    <3>1. \A r \in Written(t) : t.rows[r] \in RowRecord
      BY <1>1 DEF Written
    <3> QED
      BY <1>1, <3>1 DEF CVRType
  <2> HIDE DEF rows
  <2>4. FlushedCVR(t) = [version |-> t.version, clients |-> cvr.clients, rows |-> rows,
                         queries |-> t.queries, desires |-> cvr.desires]
    BY <1>1, <2>1 DEF CVRType
  <2>5. FlushedCVR(t) \in CVRType
    BY <1>1, <2>3, <2>4 DEF CVRType
  <2>6. \A r \in Rows : r \in Written(t) => t.rows[r] # None
    BY DEF Written
  <2>7. \A r \in Rows : r \notin Written(t) =>
          t.rows[r] = None \/ t.rows[r] = cvr.rows[r] \/ (~Live(r) /\ t.rows[r].refs = {})
    BY DEF Written
  <2>8. \A r \in Rows : FlushedCVR(t).rows[r] = rows[r]
    BY <2>4
  <2>9. \A r \in Rows :
              \/ FlushedCVR(t).rows[r] = cvr.rows[r] /\ t.rows[r] = None
              \/ FlushedCVR(t).rows[r] = t.rows[r] /\ t.rows[r] # None
              \/ /\ FlushedCVR(t).rows[r] = cvr.rows[r] /\ t.rows[r] # None
                 /\ ~Live(r) /\ t.rows[r].refs = {}
    BY <2>2, <2>6, <2>7, <2>8
  <2> QED
    BY <2>4, <2>5, <2>9
<1> QED
  BY <1>2, <1>3

LEMMA PrunedRows ==
  ASSUME ServerInv, At("execute"), task.changes = {}
  PROVE  /\ Pruned \in UpdateTask /\ Pruned.at = "execute" /\ Pruned.orig = task.orig
         /\ Pruned.version = task.version /\ Pruned.executed = task.executed
         /\ Pruned.queries = task.queries
         /\ \A r \in Rows :
              /\ Done(r) = task.executed \cap In(pipes.snap, r)
              /\ Retained(r) \cup Done(r) = In(pipes.snap, r) \cap pipes.hydrated
              /\ Retained(r) # {} => cvr.rows[r].ver = Ver(pipes.snap, r)
              /\ r \in Unreceived <=> cvr.rows[r].refs \cap task.tracked # {} /\ Done(r) = {}
              /\ Pruned.rows[r] =
                   IF r \in Unreceived
                   THEN [ver |-> cvr.rows[r].ver,
                         at |-> IF Retained(r) = {} THEN task.version ELSE cvr.rows[r].at,
                         refs |-> Retained(r)]
                   ELSE IF Done(r) # {}
                   THEN [ver |-> Ver(pipes.snap, r), at |-> SentAt(r), refs |-> Retained(r) \cup Done(r)]
                   ELSE None
              /\ Pruned.rows[r] = None => r \notin Unreceived /\ Done(r) = {}
<1>1. /\ ServerType /\ Executing /\ Recorded /\ task \in UpdateTask
      /\ pipes.snap \in 1 .. Len(Replica)
  <2>1. ServerType /\ Executing /\ Recorded /\ pipes.snap >= 1
    BY DEF ServerInv, PipelineInv, Ahead, At
  <2>2. pipes.snap \in 0 .. Len(Replica)
    BY <2>1, PipesFields
  <2>3. task \in UpdateTask
    BY <2>1, TaskFields
  <2> QED
    BY <2>1, <2>2, <2>3
<1>2. ASSUME NEW r \in Rows
      PROVE  /\ Done(r) = task.executed \cap In(pipes.snap, r)
             /\ Retained(r) = In(pipes.snap, r) \cap (pipes.hydrated \ task.executed)
             /\ Retained(r) \cup Done(r) = In(pipes.snap, r) \cap pipes.hydrated
             /\ Retained(r) # {} => cvr.rows[r].ver = Ver(pipes.snap, r)
             /\ r \in Unreceived <=> cvr.rows[r].refs \cap task.tracked # {} /\ Done(r) = {}
             /\ Retained(r) \in SUBSET Queries /\ Done(r) \in SUBSET Queries
  <2>1. Done(r) = task.executed \cap In(pipes.snap, r)
    BY DEF Done
  <2>2. cvr.rows[r].refs \subseteq Known
    BY <1>1, GotKnown DEF Recorded
  <2>3. Retained(r) = cvr.rows[r].refs \cap (pipes.hydrated \ task.executed)
    BY <1>1, <2>2 DEF Retained, Executing, Removed
  <2>4. /\ Retained(r) = In(pipes.snap, r) \cap (pipes.hydrated \ task.executed)
        /\ Retained(r) # {} => cvr.rows[r].ver = Ver(pipes.snap, r)
    BY <1>1, <2>3 DEF Executing, Matches
  <2>5. Retained(r) \cup Done(r) = In(pipes.snap, r) \cap pipes.hydrated
    BY <1>1, <2>1, <2>4 DEF Executing
  <2>6. task.received[r] \in {None, {}} <=> Done(r) = {}
    <3>1. CASE Done(r) = {}
      BY <1>1, <3>1 DEF Executing, ReceivedSoFar
    <3>2. CASE Done(r) # {}
      <4>1. task.received[r] = Retained(r) \cup Done(r)
        BY <1>1, <3>2 DEF Executing, ReceivedSoFar
      <4>2. Retained(r) \cup Done(r) \in SUBSET Queries
        BY <1>1, <2>5, ReplicaStates
      <4> QED
        BY <3>2, <4>1, <4>2, NoneAssumption
    <3> QED
      BY <3>1, <3>2
  <2>7. r \in Unreceived <=> cvr.rows[r].refs \cap task.tracked # {} /\ Done(r) = {}
    BY <2>6 DEF Unreceived
  <2>8. Retained(r) \in SUBSET Queries /\ Done(r) \in SUBSET Queries
    BY <1>1, <2>1, <2>4, ReplicaStates
  <2> QED
    BY <2>1, <2>4, <2>5, <2>7, <2>8
<1> DEFINE rows == [r \in Rows |->
                      IF r \notin Unreceived THEN task.rows[r]
                      ELSE [cvr.rows[r] EXCEPT !.refs = Retained(r),
                              !.at = IF r \in Unreferenced THEN task.version ELSE @]]
<1>3. Pruned = [task EXCEPT !.rows = rows]
  BY DEF Pruned
<1>4. ASSUME NEW r \in Rows
      PROVE  /\ rows[r] =
                   IF r \in Unreceived
                   THEN [ver |-> cvr.rows[r].ver,
                         at |-> IF Retained(r) = {} THEN task.version ELSE cvr.rows[r].at,
                         refs |-> Retained(r)]
                   ELSE IF Done(r) # {}
                   THEN [ver |-> Ver(pipes.snap, r), at |-> SentAt(r), refs |-> Retained(r) \cup Done(r)]
                   ELSE None
             /\ rows[r] \in RowRecord \cup {None}
             /\ rows[r] = None => r \notin Unreceived /\ Done(r) = {}
  <2>1. CASE r \in Unreceived
    <3>1. rows[r] = [cvr.rows[r] EXCEPT !.refs = Retained(r),
                       !.at = IF r \in Unreferenced THEN task.version ELSE cvr.rows[r].at]
      BY <2>1
    <3>2. r \in Unreferenced <=> Retained(r) = {}
      BY <2>1 DEF Unreferenced
    <3> HIDE DEF rows
    <3>3. rows[r] = [ver |-> cvr.rows[r].ver,
                     at |-> IF r \in Unreferenced THEN task.version ELSE cvr.rows[r].at,
                     refs |-> Retained(r)]
      BY <1>1, <3>1, CVRFields DEF RowRecord
    <3>4. /\ rows[r] = [ver |-> cvr.rows[r].ver,
                        at |-> IF Retained(r) = {} THEN task.version ELSE cvr.rows[r].at,
                        refs |-> Retained(r)]
          /\ (IF Retained(r) = {} THEN task.version ELSE cvr.rows[r].at) \in Version
      BY <1>1, <3>2, <3>3, CVRFields DEF UpdateTask
    <3>5. rows[r] \in RowRecord
      BY <1>1, <1>2, <3>4, CVRFields DEF RowRecord
    <3> QED
      BY <2>1, <3>4, <3>5, NoneAssumption
  <2>2. CASE r \notin Unreceived
    <3>1. rows[r] = task.rows[r]
      BY <2>2
    <3>2. rows[r] \in RowRecord \cup {None}
      BY <1>1, <3>1 DEF UpdateTask
    <3>3. /\ Done(r) = {} => task.rows[r] = None
          /\ Done(r) # {} => task.rows[r] = [ver |-> Ver(pipes.snap, r), at |-> SentAt(r),
                                            refs |-> Retained(r) \cup Done(r)]
      BY <1>1 DEF Executing, ReceivedSoFar
    <3>4. [ver |-> Ver(pipes.snap, r), at |-> SentAt(r), refs |-> Retained(r) \cup Done(r)] # None
      <4>1. SentAt(r) \in Version /\ Ver(pipes.snap, r) \in Nat
        BY <1>1, CVRFields, ReplicaStates DEF SentAt, UpdateTask
      <4>2. [ver |-> Ver(pipes.snap, r), at |-> SentAt(r), refs |-> Retained(r) \cup Done(r)] \in RowRecord
        BY <1>2, <4>1 DEF RowRecord
      <4> QED
        BY <4>2, NoneAssumption
    <3> QED
      BY <2>2, <3>1, <3>2, <3>3, <3>4
  <2> QED
    BY <2>1, <2>2
<1>5. rows \in [Rows -> RowRecord \cup {None}]
  BY <1>4
<1> HIDE DEF rows
<1>6. Pruned = [at |-> task.at, orig |-> task.orig, version |-> task.version,
                executed |-> task.executed, tracked |-> task.tracked,
                changes |-> task.changes, queries |-> task.queries,
                received |-> task.received, last |-> task.last, rows |-> rows]
  BY <1>1, <1>3 DEF UpdateTask
<1>7. Pruned \in UpdateTask
  BY <1>1, <1>5, <1>6 DEF UpdateTask
<1>8. Pruned.at = "execute" /\ Pruned.rows = rows
  BY <1>6 DEF At
<1> QED
  BY <1>2, <1>4, <1>6, <1>7, <1>8

\* What a row of the CVR shows, or since when, changes only with a new version.
RowStays(r) ==
  /\ cvr'.rows[r].at = cvr.rows[r].at /\ Live(r)' = Live(r)
  /\ Live(r) => cvr'.rows[r].ver = cvr.rows[r].ver
RowRenewed(r, v) == Less(cvr.version, v) /\ cvr'.rows[r].at = v /\ cvr'.version = v

LEMMA FlushedRows ==
  ASSUME ServerInv, Flush
  PROVE  /\ At("execute") /\ task.changes = {} /\ Executing /\ UNCHANGED <<db, pipes>>
         /\ cvr' \in CVRType /\ cvr'.desires = cvr.desires /\ cvr'.queries = task.queries
         /\ cvr' = cvr \/ cvr'.version = task.version
         /\ \A r \in Rows :
              /\ cvr'.rows[r].refs = In(pipes.snap, r) \cap pipes.hydrated
              /\ cvr'.rows[r].refs # {} => cvr'.rows[r].ver = Ver(pipes.snap, r)
              /\ RowStays(r) \/ (RowRenewed(r, task.version) /\ (Done(r) # {} \/ r \in Unreferenced))
         /\ task' \in UpdateTask /\ task'.at = "catchup" /\ task'.orig = task.orig
         /\ task'.version = task.version /\ task'.executed = task.executed
<1>1. /\ At("execute") /\ task.changes = {} /\ UNCHANGED <<db, pipes>>
      /\ cvr' = FlushedCVR(Pruned) /\ task' = [Pruned EXCEPT !.at = "catchup"]
  BY DEF Flush, At
<1>2. ServerType /\ Executing /\ task.orig = cvr.version /\ Dated
  BY <1>1 DEF ServerInv, PipelineInv, Executing
<1>3. /\ Pruned \in UpdateTask /\ Pruned.at = "execute" /\ Pruned.orig = task.orig
      /\ Pruned.version = task.version /\ Pruned.executed = task.executed
      /\ Pruned.queries = task.queries
  BY <1>1, PrunedRows
<1>4. /\ cvr' \in CVRType /\ cvr'.desires = cvr.desires /\ cvr'.queries = task.queries
      /\ cvr' = cvr \/ cvr'.version = task.version
  BY <1>1, <1>2, <1>3, Flushed
<1>5. ASSUME NEW r \in Rows
      PROVE  /\ cvr'.rows[r].refs = In(pipes.snap, r) \cap pipes.hydrated
             /\ cvr'.rows[r].refs # {} => cvr'.rows[r].ver = Ver(pipes.snap, r)
             /\ RowStays(r) \/ (RowRenewed(r, task.version) /\ (Done(r) # {} \/ r \in Unreferenced))
  <2> DEFINE row == Pruned.rows[r]
  <2>1. \/ cvr'.rows[r] = cvr.rows[r] /\ row = None
        \/ cvr'.rows[r] = row /\ row # None
        \/ cvr'.rows[r] = cvr.rows[r] /\ row # None /\ ~Live(r) /\ row.refs = {}
    BY <1>1, <1>2, <1>3, Flushed
  <2>2. /\ Done(r) = task.executed \cap In(pipes.snap, r)
        /\ Retained(r) \cup Done(r) = In(pipes.snap, r) \cap pipes.hydrated
        /\ Retained(r) # {} => cvr.rows[r].ver = Ver(pipes.snap, r)
        /\ r \in Unreceived <=> cvr.rows[r].refs \cap task.tracked # {} /\ Done(r) = {}
        /\ row = IF r \in Unreceived
                 THEN [ver |-> cvr.rows[r].ver,
                       at |-> IF Retained(r) = {} THEN task.version ELSE cvr.rows[r].at,
                       refs |-> Retained(r)]
                 ELSE IF Done(r) # {}
                 THEN [ver |-> Ver(pipes.snap, r), at |-> SentAt(r), refs |-> Retained(r) \cup Done(r)]
                 ELSE None
    BY <1>1, PrunedRows
  <2> HIDE DEF row
  <2>3. CASE cvr'.rows[r] = cvr.rows[r] /\ row = None
    <3>1. Live(r)' = Live(r)
      BY <2>3 DEF Live
    <3>2. RowStays(r)
      BY <2>3, <3>1 DEF RowStays
    <3>3. r \notin Unreceived /\ Done(r) = {}
      BY <1>1, <2>3, PrunedRows DEF row
    <3>4. cvr.rows[r].refs \cap task.tracked = {}
      BY <2>2, <3>3
    <3>5. Retained(r) = cvr.rows[r].refs
      BY <3>4 DEF Retained
    <3> QED
      BY <2>2, <2>3, <3>2, <3>3, <3>5
  <2>4. CASE cvr'.rows[r] = row /\ row # None
    <3>1. CASE r \in Unreceived
      <4>1. /\ cvr'.rows[r].refs = Retained(r) /\ cvr'.rows[r].ver = cvr.rows[r].ver
            /\ cvr'.rows[r].at = IF Retained(r) = {} THEN task.version ELSE cvr.rows[r].at
        BY <2>2, <2>4, <3>1
      <4>2. Done(r) = {} /\ cvr.rows[r].refs \cap task.tracked # {} /\ Live(r)
        BY <2>2, <3>1 DEF Live
      <4>3. CASE Retained(r) # {}
        <5>1. RowStays(r)
          BY <4>1, <4>2, <4>3 DEF RowStays, Live
        <5> QED
          BY <2>2, <4>1, <4>2, <4>3, <5>1
      <4>4. CASE Retained(r) = {}
        <5>1. Less(cvr.version, task.version)
          BY <1>1, <1>2, <2>2, <4>2, ExecutionVersion
        <5>2. CASE cvr' = cvr
          <6>1. RowStays(r)
            BY <5>2 DEF RowStays, Live
          <6> QED
            BY <2>2, <4>1, <4>2, <4>4, <6>1
        <5>3. CASE cvr'.version = task.version
          <6>1. RowRenewed(r, task.version)
            BY <4>1, <4>4, <5>1, <5>3 DEF RowRenewed
          <6>2. r \in Unreferenced
            BY <3>1, <4>4 DEF Unreferenced
          <6> QED
            BY <2>2, <4>1, <4>2, <4>4, <6>1, <6>2
        <5> QED
          BY <1>4, <5>2, <5>3
      <4> QED
        BY <4>3, <4>4
    <3>2. CASE r \notin Unreceived
      <4>1. row = [ver |-> Ver(pipes.snap, r), at |-> SentAt(r), refs |-> Retained(r) \cup Done(r)]
        BY <2>2, <2>4, <3>2
      <4>2. Done(r) # {}
        BY <2>2, <2>4, <3>2
      <4>3. /\ cvr'.rows[r].refs = Retained(r) \cup Done(r) /\ cvr'.rows[r].ver = Ver(pipes.snap, r)
            /\ cvr'.rows[r].at = SentAt(r)
        BY <2>4, <4>1
      <4>4. CASE SameVersion(r)
        <5>1. RowStays(r)
          BY <4>2, <4>3, <4>4 DEF RowStays, Live, SameVersion, SentAt
        <5> QED
          BY <2>2, <4>3, <5>1
      <4>5. CASE ~SameVersion(r)
        <5>1. Less(cvr.version, task.version)
          BY <1>1, <1>2, <2>2, <4>2, <4>5, ExecutionVersion
        <5>2. CASE cvr' = cvr
          <6>1. RowStays(r)
            BY <5>2 DEF RowStays, Live
          <6> QED
            BY <2>2, <4>3, <6>1
        <5>3. CASE cvr'.version = task.version
          <6>1. RowRenewed(r, task.version)
            BY <4>3, <4>5, <5>1, <5>3 DEF RowRenewed, SentAt
          <6> QED
            BY <2>2, <4>2, <4>3, <6>1
        <5> QED
          BY <1>4, <5>2, <5>3
      <4> QED
        BY <4>4, <4>5
    <3> QED
      BY <3>1, <3>2
  <2>5. CASE cvr'.rows[r] = cvr.rows[r] /\ row # None /\ ~Live(r) /\ row.refs = {}
    <3>1. RowStays(r)
      BY <2>5 DEF RowStays, Live
    <3>2. Retained(r) \cup Done(r) = {} /\ cvr'.rows[r].refs = {}
      <4>1. cvr'.rows[r].refs = {}
        BY <2>5 DEF Live
      <4>2. CASE r \in Unreceived
        BY <2>2, <2>5, <4>2 DEF Live
      <4>3. CASE r \notin Unreceived
        <5>1. row = [ver |-> Ver(pipes.snap, r), at |-> SentAt(r), refs |-> Retained(r) \cup Done(r)]
          BY <2>2, <2>5, <4>3
        <5> QED
          BY <2>5, <4>1, <5>1
      <4> QED
        BY <4>1, <4>2, <4>3
    <3> QED
      BY <2>2, <3>1, <3>2
  <2> QED
    BY <2>1, <2>3, <2>4, <2>5
<1>6. task' = [at |-> "catchup", orig |-> Pruned.orig, version |-> Pruned.version,
               executed |-> Pruned.executed, tracked |-> Pruned.tracked,
               changes |-> Pruned.changes, queries |-> Pruned.queries,
               received |-> Pruned.received, last |-> Pruned.last, rows |-> Pruned.rows]
  BY <1>1, <1>3 DEF UpdateTask
<1>7. task' \in UpdateTask
  BY <1>3, <1>6 DEF UpdateTask
<1>8. /\ task'.at = "catchup" /\ task'.orig = task.orig /\ task'.version = task.version
      /\ task'.executed = task.executed
  BY <1>3, <1>6
<1> QED
  BY <1>1, <1>2, <1>4, <1>5, <1>7, <1>8

\* The queries that are got after an execution are those of the pipelines.
LEMMA UpdatedGot ==
  ASSUME ServerInv, At("execute"), cvr'.queries = task.queries
  PROVE  Got' = pipes.hydrated /\ Known' = pipes.hydrated
<1>1. /\ Executing /\ ServerType
      /\ \A q \in Queries : cvr'.queries[q] =
           IF q \in Removed THEN [st |-> "deleted", at |-> task.version]
           ELSE IF q \in task.executed \ Got THEN [st |-> "got", at |-> task.version]
           ELSE cvr.queries[q]
  BY DEF ServerInv, PipelineInv, Executing, UpdatedQueries
<1>2. pipes.hydrated \in SUBSET Queries /\ Removed \in SUBSET Queries /\ task.executed \in SUBSET Queries
  BY <1>1, PipesFields, TaskFields DEF Removed
<1>3. \A q \in Queries : cvr'.queries[q].st =
        IF q \in Removed THEN "deleted" ELSE IF q \in task.executed \ Got THEN "got" ELSE cvr.queries[q].st
  BY <1>1
<1>4. \A q \in Queries : q \in Got <=> cvr.queries[q].st = "got"
  BY DEF Got
<1>5. \A q \in Queries : cvr'.queries[q].st = "got" <=> q \in pipes.hydrated
  <2> TAKE q \in Queries
  <2>1. CASE q \in Removed
    BY <1>1, <1>3, <2>1 DEF Executing
  <2>2. CASE q \notin Removed /\ q \in task.executed
    BY <1>1, <1>3, <1>4, <2>2 DEF Executing
  <2>3. CASE q \notin Removed /\ q \notin task.executed
    <3>1. q \in Got => q \in pipes.hydrated
      BY <1>1, <2>3, GotKnown DEF Executing
    <3>2. q \in pipes.hydrated => q \in Got
      BY <1>1, <2>3 DEF Executing
    <3> QED
      BY <1>3, <1>4, <2>3, <3>1, <3>2
  <2> QED
    BY <2>1, <2>2, <2>3
<1>6. \A q \in Queries : cvr'.queries[q].st = "desired" => q \in pipes.hydrated
  <2> TAKE q \in Queries
  <2>1. cvr.queries[q].st = "desired" => q \in Known
    BY DEF Known
  <2> QED
    BY <1>1, <1>3, <2>1 DEF Executing
<1>7. Got' = pipes.hydrated
  BY <1>2, <1>5 DEF Got
<1>8. Known' = pipes.hydrated
  BY <1>2, <1>5, <1>6 DEF Known
<1> QED
  BY <1>7, <1>8

\* Once the rows of the CVR are those of the snapshot, they are those of its new version too.
LEMMA RowsRecorded ==
  ASSUME ServerInv, pipes.synced, UNCHANGED pipes,
         cvr' \in CVRType, cvr' = cvr \/ cvr'.version = task.version, task.orig = cvr.version,
         task.version \in Version, Le(cvr.version, task.version), task.version[1] = pipes.snap,
         Got' = pipes.hydrated, Known' = pipes.hydrated,
         \A r \in Rows : /\ cvr'.rows[r].refs = In(pipes.snap, r) \cap pipes.hydrated
                         /\ cvr'.rows[r].refs # {} => cvr'.rows[r].ver = Ver(pipes.snap, r)
                         /\ RowStays(r) \/ RowRenewed(r, task.version),
         \A q \in Queries : cvr'.queries[q].at = cvr.queries[q].at
                            \/ (cvr'.queries[q].at = task.version /\ cvr'.version = task.version),
         cvr'.desires = cvr.desires
  PROVE  /\ Recorded' /\ Dated' /\ InLine' /\ Le(cvr.version, cvr'.version)
         /\ cvr'.version[1] <= pipes.snap
<1>1. /\ ServerType /\ Recorded /\ Dated /\ pipes.snap >= 1 /\ cvr.version[1] <= pipes.snap
      /\ cvr.version \in Version /\ pipes.snap \in 0 .. Len(Replica)
  <2>1. ServerType /\ Recorded /\ Dated /\ pipes.snap >= 1 /\ cvr.version[1] <= pipes.snap
    BY DEF ServerInv, Ahead
  <2> QED
    BY <2>1, CVRFields, PipesFields
<1>2. Le(cvr.version, cvr'.version) /\ cvr'.version \in Version
  BY <1>1, VersionOrder
<1>3. cvr'.version[1] <= pipes.snap
  BY <1>1
<1>4. InLine'
  <2>1. Matches(Got)'
    BY DEF Matches, In, Ver
  <2> QED
    BY <2>1 DEF InLine
<1>5. Recorded'
  <2>1. CASE cvr' = cvr
    BY <1>1, <2>1 DEF Recorded, Got, Live
  <2>2. CASE cvr'.version = task.version
    <3>1. cvr'.version[1] = pipes.snap /\ pipes.snap # 0 /\ pipes.snap <= Len(Replica)
      BY <1>1, <2>2, ReplicaStates
    <3>2. \A r \in Rows : cvr'.rows[r].refs \subseteq Got'
      OBVIOUS
    <3>3. \A r \in Rows : /\ cvr'.rows[r].refs = In(cvr'.version[1], r) \cap Got'
                          /\ cvr'.rows[r].refs # {} => cvr'.rows[r].ver = Ver(cvr'.version[1], r)
      BY <3>1
    <3> QED
      BY <3>1, <3>2, <3>3 DEF Recorded, Live, In, Ver
  <2> QED
    BY <2>1, <2>2
<1>6. Dated'
  <2>1. \A r \in Rows : Le(cvr'.rows[r].at, cvr'.version)
    <3> TAKE r \in Rows
    <3>1. CASE RowStays(r)
      BY <1>1, <1>2, <3>1, VersionOrder, CVRFields DEF RowStays, Dated
    <3>2. CASE RowRenewed(r, task.version)
      BY <1>2, <3>2, VersionOrder DEF RowRenewed
    <3> QED
      BY <3>1, <3>2
  <2>2. \A q \in Queries : Le(cvr'.queries[q].at, cvr'.version)
    <3> TAKE q \in Queries
    <3>1. CASE cvr'.queries[q].at = cvr.queries[q].at
      BY <1>1, <1>2, <3>1, VersionOrder, CVRFields DEF Dated
    <3>2. CASE cvr'.queries[q].at = task.version /\ cvr'.version = task.version
      BY <1>2, <3>2, VersionOrder
    <3> QED
      BY <3>1, <3>2
  <2>3. \A c \in Clients, q \in Queries : Le(cvr'.desires[c][q].at, cvr'.version)
    BY <1>1, <1>2, VersionOrder, CVRFields DEF Dated
  <2> QED
    BY <2>1, <2>2, <2>3 DEF Dated
<1> QED
  BY <1>2, <1>3, <1>4, <1>5, <1>6

LEMMA FlushServer ==
  ASSUME ServerInv, Flush
  PROVE  ServerInv' /\ Le(cvr.version, cvr'.version)
<1>1. /\ At("execute") /\ task.changes = {} /\ Executing /\ UNCHANGED <<db, pipes>>
      /\ cvr' \in CVRType /\ cvr'.desires = cvr.desires /\ cvr'.queries = task.queries
      /\ cvr' = cvr \/ cvr'.version = task.version
      /\ \A r \in Rows :
           /\ cvr'.rows[r].refs = In(pipes.snap, r) \cap pipes.hydrated
           /\ cvr'.rows[r].refs # {} => cvr'.rows[r].ver = Ver(pipes.snap, r)
           /\ RowStays(r) \/ RowRenewed(r, task.version)
      /\ task' \in UpdateTask /\ task'.at = "catchup" /\ task'.orig = task.orig
      /\ task'.version = task.version /\ task'.executed = task.executed
  BY FlushedRows, Zenon
<1>2. /\ ServerType /\ pipes.synced /\ task.orig = cvr.version
      /\ task.version = UpdatedVersion(pipes.snap, task.executed, Removed)
      /\ task.queries = UpdatedQueries(task.executed, Removed, task.version)
      /\ task.executed \subseteq pipes.hydrated
      /\ cvr.version[1] <= pipes.snap
  BY <1>1 DEF ServerInv, Ahead, At, Executing
<1>3. pipes.snap \in Nat /\ cvr.version \in Version
  BY <1>2, PipesFields, ReplicaStates, CVRFields
<1>4. task.version \in Version /\ Le(cvr.version, task.version) /\ task.version[1] = pipes.snap
  BY <1>2, <1>3, NextVersion
<1>5. Got' = pipes.hydrated /\ Known' = pipes.hydrated
  BY <1>1, UpdatedGot
<1>6. \A q \in Queries : cvr'.queries[q].at = cvr.queries[q].at
                         \/ (cvr'.queries[q].at = task.version /\ cvr'.version = task.version)
  <2> TAKE q \in Queries
  <2>1. CASE cvr' = cvr
    BY <2>1
  <2>2. CASE cvr'.version = task.version
    BY <1>1, <1>2, <2>2 DEF UpdatedQueries
  <2> QED
    BY <1>1, <2>1, <2>2
<1>7. /\ Recorded' /\ Dated' /\ InLine' /\ Le(cvr.version, cvr'.version)
      /\ cvr'.version[1] <= pipes.snap
  BY <1>1, <1>2, <1>4, <1>5, <1>6, RowsRecorded
<1>8. ServerType'
  BY <1>1, <1>2 DEF ServerType
<1>9. Ahead'
  BY <1>1, <1>7 DEF ServerInv, Ahead, At
<1>10. PipelineInv'
  <2>1. task' # None
    BY <1>1, NoneAssumption
  <2>2. (task.executed \subseteq Got /\ Le(task.orig, cvr.version))'
    BY <1>1, <1>2, <1>5, <1>7
  <2> QED
    BY <1>1, <1>7, <2>1, <2>2 DEF PipelineInv, At
<1> QED
  BY <1>7, <1>8, <1>9, <1>10 DEF ServerInv

LEMMA CatchUpServer ==
  ASSUME ServerInv, CatchUp
  PROVE  ServerInv'
<1>1. At("catchup") /\ task' = None /\ UNCHANGED <<db, pipes, cvr>>
  BY DEF CatchUp, At
<1>2. InLine
  BY <1>1 DEF ServerInv, PipelineInv
<1>3. ServerType' /\ Ahead' /\ Recorded' /\ Dated'
  BY <1>1 DEF ServerInv, ServerType, Ahead, Recorded, Dated, Got, Live
<1>4. InLine'
  BY <1>1, <1>2 DEF InLine, Got, Known, Matches
<1> QED
  BY <1>1, <1>3, <1>4, NoTask DEF ServerInv

\* Pipelines that start with the queries whose rows are recorded.
LEMMA FreshPipelines ==
  ASSUME ServerInv, cvr.version[1] <= db, UNCHANGED <<db, cvr>>,
         pipes' = [snap |-> db, hydrated |-> UnchangedQueries, synced |-> TRUE],
         task' = [at |-> "sync"]
  PROVE  ServerInv'
<1>1. /\ ServerType /\ Recorded /\ Dated /\ db \in 1 .. Len(Replica)
      /\ Len(Replica) \in Nat /\ Got \in SUBSET Queries
  BY PipesFields, GotKnown, ReplicaStates DEF ServerInv
<1>2. UnchangedQueries \subseteq Got
  BY DEF UnchangedQueries
<1>3. ServerType'
  BY <1>1, <1>2 DEF ServerType
<1>4. Ahead'
  BY <1>1 DEF Ahead
<1>5. Recorded' /\ Dated' /\ Got' = Got
  BY <1>1 DEF Recorded, Dated, Got, Live
<1>6. Matches(pipes.hydrated)'
  <2>1. CASE cvr.version[1] = db
    <3>1. cvr.version[1] # 0
      BY <1>1, <2>1
    <3>2. \A r \in Rows : /\ cvr.rows[r].refs = In(db, r) \cap Got
                          /\ cvr.rows[r].refs # {} => cvr.rows[r].ver = Ver(db, r)
      BY <1>1, <2>1, <3>1 DEF Recorded, Live
    <3> QED
      BY <1>2, <3>2 DEF Matches, In, Ver
  <2>2. CASE cvr.version[1] # db
    BY <2>2 DEF Matches, UnchangedQueries
  <2> QED
    BY <2>1, <2>2
<1>7. PipelineInv'
  BY <1>2, <1>3, <1>5, <1>6, SyncTask
<1> QED
  BY <1>3, <1>4, <1>5, <1>7 DEF ServerInv

LEMMA StartPipelinesServer ==
  ASSUME ServerInv, StartPipelines
  PROVE  ServerInv'
<1>1. task = None /\ ~pipes.synced /\ UNCHANGED <<db, cvr>>
  BY DEF StartPipelines
<1>2. CASE db < cvr.version[1]
  <2>1. pipes' = [pipes EXCEPT !.snap = db] /\ task' = None
    BY <1>1, <1>2 DEF StartPipelines
  <2>2. pipes' = [snap |-> db, hydrated |-> pipes.hydrated, synced |-> pipes.synced]
    BY <2>1, PipesFields DEF ServerInv
  <2>3. ~pipes'.synced
    BY <1>1, <2>2
  <2>4. ServerType'
    BY <1>1, <2>1, <2>2, PipesFields, ReplicaStates DEF ServerInv, ServerType
  <2>5. Ahead' /\ Recorded' /\ Dated'
    BY <1>1, <2>1, <2>3 DEF ServerInv, Ahead, Recorded, Dated, Got, Live
  <2> QED
    BY <2>1, <2>3, <2>4, <2>5, NoTask DEF ServerInv
<1>3. CASE ~(db < cvr.version[1])
  <2>1. /\ pipes' = [snap |-> db, hydrated |-> UnchangedQueries, synced |-> TRUE]
        /\ task' = [at |-> "sync"]
    BY <1>3 DEF StartPipelines
  <2>2. cvr.version[1] <= db
    <3>1. db \in Nat /\ cvr.version[1] \in Nat
      BY PipesFields, CVRFields, ReplicaStates DEF ServerInv, Version
    <3> QED
      BY <1>3, <3>1
  <2> QED
    BY <1>1, <2>1, <2>2, FreshPipelines
<1> QED
  BY <1>2, <1>3

LEMMA ResetPipelinesServer ==
  ASSUME ServerInv, ResetPipelines
  PROVE  ServerInv'
<1>1. /\ task # None /\ UNCHANGED <<db, cvr>> /\ task' = [at |-> "sync"]
      /\ pipes' = [snap |-> db, hydrated |-> UnchangedQueries, synced |-> TRUE]
  BY DEF ResetPipelines
<1>2. cvr.version[1] <= db
  <2>1. cvr.version[1] <= pipes.snap /\ pipes.snap <= db
    BY <1>1 DEF ServerInv, Ahead
  <2>2. db \in Nat /\ cvr.version[1] \in Nat /\ pipes.snap \in Nat
    BY PipesFields, CVRFields, ReplicaStates DEF ServerInv, Version
  <2> QED
    BY <2>1, <2>2
<1> QED
  BY <1>1, <1>2, FreshPipelines

LEMMA RestartServer ==
  ASSUME ServerInv, Restart
  PROVE  ServerInv'
<1>1. /\ db' \in 1 .. Len(Replica) /\ cvr' = cvr /\ task' = None
      /\ pipes' = [snap |-> 0, hydrated |-> {}, synced |-> FALSE]
  BY DEF Restart
<1>2. ServerType'
  BY <1>1, ReplicaStates DEF ServerInv, ServerType
<1>3. Ahead' /\ Recorded' /\ Dated'
  BY <1>1 DEF ServerInv, Ahead, Recorded, Dated, Got, Live
<1> QED
  BY <1>1, <1>2, <1>3, NoTask DEF ServerInv

-----------------------------------------------------------------------------
(* An advancement *)

\* Diff() as it is seen from the rows of the CVR.
LEMMA DiffOf ==
  ASSUME ServerInv, InLine, pipes.snap >= 1, NEW new
  PROVE  /\ Diff(pipes.snap, new) \subseteq Queries \X Rows \X {"add", "edit", "remove"}
         /\ \A r \in Rows, q \in Queries :
              /\ <<q, r, "add">> \in Diff(pipes.snap, new)
                   <=> q \in (Got \cap In(new, r)) \ cvr.rows[r].refs
              /\ <<q, r, "remove">> \in Diff(pipes.snap, new) <=> q \in cvr.rows[r].refs \ In(new, r)
              /\ <<q, r, "edit">> \in Diff(pipes.snap, new)
                   <=> q \in cvr.rows[r].refs \cap In(new, r) /\ cvr.rows[r].ver # Ver(new, r)
<1> DEFINE old == pipes.snap
           adds == {<<x[1], x[2], "add">> : x \in {x \in pipes.hydrated \X Rows :
                     x[1] \in Replica[new][x[2]].in \ Replica[old][x[2]].in}}
           removes == {<<x[1], x[2], "remove">> : x \in {x \in pipes.hydrated \X Rows :
                     x[1] \in Replica[old][x[2]].in \ Replica[new][x[2]].in}}
           edits == {<<x[1], x[2], "edit">> : x \in {x \in pipes.hydrated \X Rows :
                     /\ x[1] \in Replica[old][x[2]].in \cap Replica[new][x[2]].in
                     /\ Replica[old][x[2]].version # Replica[new][x[2]].version}}
<1>1. Diff(old, new) = adds \cup removes \cup edits
  BY DEF Diff
<1>2. /\ pipes.hydrated = Got /\ Got \in SUBSET Queries
      /\ \A r \in Rows : /\ cvr.rows[r].refs = In(old, r) \cap Got
                         /\ cvr.rows[r].refs # {} => cvr.rows[r].ver = Ver(old, r)
  <2>1. pipes.hydrated = Got /\ Got \in SUBSET Queries /\ Matches(Got)
    BY GotKnown DEF InLine, ServerInv
  <2>2. \A r \in Rows : cvr.rows[r].refs \cap Got = cvr.rows[r].refs
    BY DEF ServerInv, Recorded
  <2> QED
    BY <2>1, <2>2 DEF Matches
<1>3. ASSUME NEW r \in Rows, NEW q \in Queries
      PROVE  /\ <<q, r, "add">> \in adds <=> q \in (Got \cap In(new, r)) \ In(old, r)
             /\ \A type \in {"remove", "edit"} : <<q, r, type>> \notin adds
             /\ <<q, r, "remove">> \in removes <=> q \in (Got \cap In(old, r)) \ In(new, r)
             /\ \A type \in {"add", "edit"} : <<q, r, type>> \notin removes
             /\ <<q, r, "edit">> \in edits <=>
                  q \in Got \cap In(old, r) \cap In(new, r) /\ Ver(old, r) # Ver(new, r)
             /\ \A type \in {"add", "remove"} : <<q, r, type>> \notin edits
  <2>1. <<q, r, "add">> \in adds <=> q \in (Got \cap In(new, r)) \ In(old, r)
    <3>1. ASSUME q \in (Got \cap In(new, r)) \ In(old, r) PROVE <<q, r, "add">> \in adds
      <4>1. <<q, r>> \in {x \in pipes.hydrated \X Rows :
                            x[1] \in Replica[new][x[2]].in \ Replica[old][x[2]].in}
        BY <1>2, <3>1 DEF In
      <4>2. <<<<q, r>>[1], <<q, r>>[2], "add">> \in adds
        BY <4>1
      <4> QED
        BY <4>2
    <3>2. <<q, r, "add">> \in adds => q \in (Got \cap In(new, r)) \ In(old, r)
      BY <1>2 DEF In
    <3> QED
      BY <3>1, <3>2
  <2>2. <<q, r, "remove">> \in removes <=> q \in (Got \cap In(old, r)) \ In(new, r)
    <3>1. ASSUME q \in (Got \cap In(old, r)) \ In(new, r) PROVE <<q, r, "remove">> \in removes
      <4>1. <<q, r>> \in {x \in pipes.hydrated \X Rows :
                            x[1] \in Replica[old][x[2]].in \ Replica[new][x[2]].in}
        BY <1>2, <3>1 DEF In
      <4>2. <<<<q, r>>[1], <<q, r>>[2], "remove">> \in removes
        BY <4>1
      <4> QED
        BY <4>2
    <3>2. <<q, r, "remove">> \in removes => q \in (Got \cap In(old, r)) \ In(new, r)
      BY <1>2 DEF In
    <3> QED
      BY <3>1, <3>2
  <2>3. <<q, r, "edit">> \in edits <=>
                  q \in Got \cap In(old, r) \cap In(new, r) /\ Ver(old, r) # Ver(new, r)
    <3>1. ASSUME q \in Got \cap In(old, r) \cap In(new, r), Ver(old, r) # Ver(new, r)
          PROVE <<q, r, "edit">> \in edits
      <4>1. <<q, r>> \in {x \in pipes.hydrated \X Rows :
                     /\ x[1] \in Replica[old][x[2]].in \cap Replica[new][x[2]].in
                     /\ Replica[old][x[2]].version # Replica[new][x[2]].version}
        BY <1>2, <3>1 DEF In, Ver
      <4>2. <<<<q, r>>[1], <<q, r>>[2], "edit">> \in edits
        BY <4>1
      <4> QED
        BY <4>2
    <3>2. <<q, r, "edit">> \in edits =>
                  q \in Got \cap In(old, r) \cap In(new, r) /\ Ver(old, r) # Ver(new, r)
      BY <1>2 DEF In, Ver
    <3> QED
      BY <3>1, <3>2
  <2>4. \A type \in {"remove", "edit"} : <<q, r, type>> \notin adds
    OBVIOUS
  <2>5. \A type \in {"add", "edit"} : <<q, r, type>> \notin removes
    OBVIOUS
  <2>6. \A type \in {"add", "remove"} : <<q, r, type>> \notin edits
    OBVIOUS
  <2> QED
    BY <2>1, <2>2, <2>3, <2>4, <2>5, <2>6
<1>4. adds \cup removes \cup edits \subseteq Queries \X Rows \X {"add", "edit", "remove"}
  <2>1. adds \subseteq Queries \X Rows \X {"add", "edit", "remove"}
    BY <1>2
  <2>2. removes \subseteq Queries \X Rows \X {"add", "edit", "remove"}
    BY <1>2
  <2>3. edits \subseteq Queries \X Rows \X {"add", "edit", "remove"}
    BY <1>2
  <2> QED
    BY <2>1, <2>2, <2>3
<1> HIDE DEF adds, removes, edits
<1>5. ASSUME NEW r \in Rows, NEW q \in Queries
      PROVE  /\ <<q, r, "add">> \in Diff(old, new) <=> q \in (Got \cap In(new, r)) \ cvr.rows[r].refs
             /\ <<q, r, "remove">> \in Diff(old, new) <=> q \in cvr.rows[r].refs \ In(new, r)
             /\ <<q, r, "edit">> \in Diff(old, new)
                  <=> q \in cvr.rows[r].refs \cap In(new, r) /\ cvr.rows[r].ver # Ver(new, r)
  <2>1. <<q, r, "add">> \in Diff(old, new) <=> q \in (Got \cap In(new, r)) \ In(old, r)
    BY <1>1, <1>3
  <2>2. <<q, r, "remove">> \in Diff(old, new) <=> q \in (Got \cap In(old, r)) \ In(new, r)
    BY <1>1, <1>3
  <2>3. <<q, r, "edit">> \in Diff(old, new)
          <=> q \in Got \cap In(old, r) \cap In(new, r) /\ Ver(old, r) # Ver(new, r)
    BY <1>1, <1>3
  <2>4. cvr.rows[r].refs = In(old, r) \cap Got /\ (cvr.rows[r].refs # {} => cvr.rows[r].ver = Ver(old, r))
    BY <1>2
  <2> QED
    BY <2>1, <2>2, <2>3, <2>4
<1> QED
  BY <1>1, <1>4, <1>5 DEF old

LEMMA AdvanceServer ==
  ASSUME ServerInv, Advance
  PROVE  ServerInv' /\ task' # None
<1> DEFINE changes == Diff(pipes.snap, db)
<1>1. /\ task = None /\ pipes.synced /\ UNCHANGED <<db, cvr>>
      /\ task' = Updater("advance", db, {}, {}, changes)
      /\ pipes' = [pipes EXCEPT !.snap = db]
  BY DEF Advance
<1>2. /\ ServerType /\ Ahead /\ Recorded /\ Dated /\ InLine
      /\ pipes.snap >= 1 /\ pipes.snap <= db /\ cvr.version[1] <= pipes.snap
  BY <1>1 DEF ServerInv, Ahead, PipelineInv
<1>3. /\ db \in Nat /\ db \in 1 .. Len(Replica) /\ pipes.snap \in Nat /\ cvr.version[1] \in Nat
      /\ pipes'.snap = db /\ pipes'.hydrated = pipes.hydrated /\ pipes'.synced
      /\ pipes' \in [snap : 0 .. Len(Replica), hydrated : SUBSET Queries, synced : BOOLEAN]
  <2>1. db \in Nat /\ db \in 1 .. Len(Replica) /\ pipes.snap \in Nat /\ cvr.version[1] \in Nat
    BY <1>2, PipesFields, CVRFields, ReplicaStates DEF Version
  <2>2. pipes' = [snap |-> db, hydrated |-> pipes.hydrated, synced |-> pipes.synced]
    BY <1>1, <1>2, PipesFields
  <2>3. pipes'.snap = db /\ pipes'.hydrated = pipes.hydrated /\ pipes'.synced = pipes.synced
    BY <2>2
  <2>4. /\ pipes.hydrated \in SUBSET Queries /\ pipes.synced \in BOOLEAN
        /\ db \in 0 .. Len(Replica)
    BY <1>2, <2>1, PipesFields, ReplicaStates
  <2>5. pipes' \in [snap : 0 .. Len(Replica), hydrated : SUBSET Queries, synced : BOOLEAN]
    BY <2>2, <2>4
  <2>6. pipes'.synced
    BY <1>1, <2>3
  <2> QED
    BY <2>1, <2>3, <2>5, <2>6
<1>4. /\ changes \in SUBSET (Queries \X Rows \X {"add", "edit", "remove"})
      /\ \A r \in Rows, q \in Queries :
           /\ <<q, r, "add">> \in changes <=> q \in (Got \cap In(db, r)) \ cvr.rows[r].refs
           /\ <<q, r, "remove">> \in changes <=> q \in cvr.rows[r].refs \ In(db, r)
           /\ <<q, r, "edit">> \in changes
                <=> q \in cvr.rows[r].refs \cap In(db, r) /\ cvr.rows[r].ver # Ver(db, r)
  BY <1>2, DiffOf
<1> HIDE DEF changes
<1>5. task' \in UpdateTask
  BY <1>1, <1>2, <1>3, <1>4, UpdaterType
<1>6. /\ task'.at = "advance" /\ task'.orig = cvr.version
      /\ task'.version = UpdatedVersion(db, {}, {})
      /\ task'.executed = {} /\ task'.tracked = {}
      /\ task'.changes = changes
      /\ task'.queries = [q \in Queries |-> cvr.queries[q]]
      /\ task'.received = [r \in Rows |-> None] /\ task'.last = [r \in Rows |-> None]
      /\ task'.rows = [r \in Rows |-> None]
  BY <1>1 DEF Updater
<1>7. ServerType' /\ Ahead' /\ Recorded' /\ Dated'
  BY <1>1, <1>2, <1>3, <1>5 DEF ServerType, Ahead, Recorded, Dated, Got, Live
<1>8. Got' = Got /\ Known' = Known
  BY <1>1 DEF Got, Known
<1>9. Advancing'
  <2>1. (task.version = UpdatedVersion(pipes.snap, {}, {}))'
    BY <1>1, <1>3, <1>6, <1>8 DEF UpdatedVersion
  <2>2. (task.queries = cvr.queries)'
    BY <1>1, <1>2, <1>6, CVRFields
  <2>3. (pipes.hydrated = Got /\ Known = Got)'
    BY <1>2, <1>3, <1>8 DEF InLine
  <2>4. (\A r \in Rows, q \in Queries :
           /\ <<q, r, "add">> \in task.changes <=> q \in (Got \cap In(pipes.snap, r)) \ cvr.rows[r].refs
           /\ <<q, r, "remove">> \in task.changes <=> q \in cvr.rows[r].refs \ In(pipes.snap, r)
           /\ <<q, r, "edit">> \in task.changes <=>
                q \in cvr.rows[r].refs \cap In(pipes.snap, r) /\ cvr.rows[r].ver # Ver(pipes.snap, r))'
    BY <1>1, <1>3, <1>4, <1>6, <1>8 DEF In, Ver
  <2>5. (\A r \in Rows : task.received[r] = None /\ task.rows[r] = None /\ task.last[r] = None)'
    BY <1>6
  <2>6. (task.orig = cvr.version /\ task.executed = {} /\ task.tracked = {})'
    BY <1>1, <1>6
  <2> QED
    BY <2>1, <2>2, <2>3, <2>4, <2>5, <2>6 DEF Advancing
<1>10. task' # None
  BY <1>5, NoneAssumption
<1>11. PipelineInv'
  BY <1>6, <1>9, <1>10 DEF PipelineInv, At
<1> QED
  BY <1>7, <1>10, <1>11 DEF ServerInv

\* What a row is to show when an advancement is done.
Latest(r) == IF In(pipes.snap, r) \cap Got # {} THEN Ver(pipes.snap, r) ELSE 0
ShownNow(r) == IF Live(r) THEN cvr.rows[r].ver ELSE 0

LEMMA AdvanceBatch ==
  ASSUME ServerInv, At("advance")
  PROVE  /\ RowsOf(task.changes) \subseteq Rows
         /\ \A r \in Rows \ RowsOf(task.changes) :
              /\ cvr.rows[r].refs = In(pipes.snap, r) \cap Got
              /\ Live(r) => cvr.rows[r].ver = Ver(pipes.snap, r)
         /\ \A r \in RowsOf(task.changes) :
              /\ Less(task.orig, task.version)
              /\ Merged(task.changes, r) = In(pipes.snap, r) \cap Got
              /\ RowVersion(task.changes, r) \in {0, Ver(pipes.snap, r)}
              /\ Record(task.changes, r) =
                   [ver |-> IF RowVersion(task.changes, r) # 0 THEN RowVersion(task.changes, r)
                            ELSE cvr.rows[r].ver,
                    at |-> PatchVersion(task.changes, r), refs |-> In(pipes.snap, r) \cap Got]
              /\ ToVersion(task.changes, r) = PatchVersion(task.changes, r)
              /\ PatchVersion(task.changes, r) \in Version
              /\ RowVersion(task.changes, r) = 0 /\ In(pipes.snap, r) \cap Got # {} =>
                   /\ Live(r) /\ cvr.rows[r].ver = Ver(pipes.snap, r)
                   /\ ~Unchanged(task.changes, r)
              /\ In(pipes.snap, r) \cap Got = {} => Live(r) /\ ~Unchanged(task.changes, r)
              /\ In(pipes.snap, r) \cap Got # {} => Ver(pipes.snap, r) # 0
              /\ r \in Deleted(task.changes) <=> In(pipes.snap, r) \cap Got = {}
              /\ r \in Put(task.changes) <=>
                   In(pipes.snap, r) \cap Got # {} /\ RowVersion(task.changes, r) # 0
<1> DEFINE b == task.changes
           snap == pipes.snap
           A(r) == (Got \cap In(snap, r)) \ cvr.rows[r].refs
           R(r) == cvr.rows[r].refs \ In(snap, r)
           E(r) == IF cvr.rows[r].ver # Ver(snap, r) THEN cvr.rows[r].refs \cap In(snap, r) ELSE {}
<1>1. /\ ServerType /\ Advancing /\ Recorded /\ Got \in SUBSET Queries
      /\ snap \in 1 .. Len(Replica) /\ cvr.version[1] <= snap /\ task \in UpdateTask
  <2>1. ServerType /\ Advancing /\ Recorded /\ snap >= 1 /\ cvr.version[1] <= snap
    BY DEF ServerInv, PipelineInv, Ahead, At
  <2>2. snap \in 0 .. Len(Replica) /\ task \in UpdateTask /\ Got \in SUBSET Queries
    BY <2>1, PipesFields, TaskFields, GotKnown
  <2>3. snap \in 1 .. Len(Replica)
    BY <2>1, <2>2
  <2> QED
    BY <2>1, <2>2, <2>3
<1>2. b \in SUBSET (Queries \X Rows \X {"add", "edit", "remove"})
  BY <1>1 DEF UpdateTask
<1>3. RowsOf(b) \subseteq Rows
  BY <1>2 DEF RowsOf
<1>4. ASSUME NEW r \in Rows
      PROVE  /\ Having(b, r, {"add"}) = A(r) /\ Having(b, r, {"remove"}) = R(r)
             /\ Having(b, r, {"add", "edit"}) = A(r) \cup E(r)
             /\ r \in RowsOf(b) <=> A(r) \cup R(r) \cup E(r) # {}
             /\ cvr.rows[r].refs \subseteq Got /\ cvr.rows[r].refs \in SUBSET Queries
             /\ Ver(snap, r) \in Nat /\ (In(snap, r) # {} => Ver(snap, r) # 0)
  <2>1. /\ \A q \in Queries :
             /\ <<q, r, "add">> \in b <=> q \in A(r)
             /\ <<q, r, "remove">> \in b <=> q \in R(r)
             /\ <<q, r, "edit">> \in b <=> q \in E(r)
    BY <1>1 DEF Advancing
  <2>2. /\ cvr.rows[r].refs \subseteq Got /\ cvr.rows[r].refs \in SUBSET Queries
        /\ Ver(snap, r) \in Nat /\ (In(snap, r) # {} => Ver(snap, r) # 0)
    BY <1>1, CVRFields, ReplicaStates DEF Recorded
  <2>3. A(r) \in SUBSET Queries /\ R(r) \in SUBSET Queries /\ E(r) \in SUBSET Queries
    BY <1>1, <2>2
  <2> HIDE DEF A, R, E
  <2>4. /\ Having(b, r, {"add"}) = A(r) /\ Having(b, r, {"remove"}) = R(r)
        /\ Having(b, r, {"add", "edit"}) = A(r) \cup E(r)
    BY <2>1, <2>3 DEF Having
  <2>5. r \in RowsOf(b) <=> A(r) \cup R(r) \cup E(r) # {}
    <3>1. ASSUME r \in RowsOf(b) PROVE A(r) \cup R(r) \cup E(r) # {}
      <4>1. PICK x \in b : x[2] = r
        BY <3>1 DEF RowsOf
      <4>2. x[1] \in Queries /\ x = <<x[1], r, x[3]>> /\ x[3] \in {"add", "edit", "remove"}
        BY <1>2, <4>1
      <4> QED
        BY <2>1, <4>1, <4>2
    <3>2. ASSUME NEW q \in A(r) \cup R(r) \cup E(r) PROVE r \in RowsOf(b)
      <4>1. PICK type \in {"add", "edit", "remove"} : <<q, r, type>> \in b
        BY <2>1, <2>3, <3>2
      <4>2. <<q, r, type>>[2] = r
        OBVIOUS
      <4> QED
        BY <4>1, <4>2 DEF RowsOf
    <3> QED
      BY <3>1, <3>2
  <2> QED
    BY <2>2, <2>4, <2>5
<1>5. ASSUME NEW r \in Rows \ RowsOf(b)
      PROVE  /\ cvr.rows[r].refs = In(snap, r) \cap Got
             /\ Live(r) => cvr.rows[r].ver = Ver(snap, r)
  <2>1. A(r) = {} /\ R(r) = {} /\ E(r) = {} /\ cvr.rows[r].refs \subseteq Got
    BY <1>4
  <2> QED
    BY <2>1 DEF Live
<1>6. ASSUME NEW r \in RowsOf(b)
      PROVE  /\ Less(task.orig, task.version)
             /\ Merged(b, r) = In(snap, r) \cap Got
             /\ RowVersion(b, r) \in {0, Ver(snap, r)}
             /\ Record(b, r) =
                   [ver |-> IF RowVersion(b, r) # 0 THEN RowVersion(b, r) ELSE cvr.rows[r].ver,
                    at |-> PatchVersion(b, r), refs |-> In(snap, r) \cap Got]
             /\ ToVersion(b, r) = PatchVersion(b, r)
             /\ PatchVersion(b, r) \in Version
             /\ RowVersion(b, r) = 0 /\ In(snap, r) \cap Got # {} =>
                  Live(r) /\ cvr.rows[r].ver = Ver(snap, r) /\ ~Unchanged(b, r)
             /\ In(snap, r) \cap Got = {} => Live(r) /\ ~Unchanged(b, r)
             /\ In(snap, r) \cap Got # {} => Ver(snap, r) # 0
             /\ r \in Deleted(b) <=> In(snap, r) \cap Got = {}
             /\ r \in Put(b) <=> In(snap, r) \cap Got # {} /\ RowVersion(b, r) # 0
  <2>1. r \in Rows /\ task.received[r] = None /\ task.last[r] = None /\ task.tracked = {}
    BY <1>1, <1>3 DEF Advancing
  <2>2. /\ A(r) \cup R(r) \cup E(r) # {} /\ cvr.rows[r].refs \subseteq Got
        /\ Ver(snap, r) \in Nat /\ (In(snap, r) # {} => Ver(snap, r) # 0)
    BY <1>4, <2>1
  <2>3. Retained(r) = cvr.rows[r].refs
    BY <2>1 DEF Retained
  <2>4. Merged(b, r) = In(snap, r) \cap Got
    <3>1. Merged(b, r) = (cvr.rows[r].refs \ R(r)) \cup A(r)
      BY <1>4, <2>1, <2>3 DEF Merged
    <3> QED
      BY <2>2, <3>1
  <2>5. RowVersion(b, r) = IF A(r) \cup E(r) # {} THEN Ver(snap, r) ELSE 0
    BY <1>4, <2>1 DEF RowVersion, Ver
  <2>6. ~Live(r) => RowVersion(b, r) # 0
    BY <2>2, <2>5 DEF Live
  <2>7. Record(b, r) =
                   [ver |-> IF RowVersion(b, r) # 0 THEN RowVersion(b, r) ELSE cvr.rows[r].ver,
                    at |-> PatchVersion(b, r), refs |-> In(snap, r) \cap Got]
    BY <2>4, <2>6 DEF Record
  <2>8. ToVersion(b, r) = PatchVersion(b, r)
    BY <2>1 DEF ToVersion
  <2>9. PatchVersion(b, r) \in Version
    BY <1>1, <2>1, CVRFields DEF PatchVersion, UpdateTask
  <2>10. RowVersion(b, r) = 0 /\ In(snap, r) \cap Got # {} =>
                  Live(r) /\ cvr.rows[r].ver = Ver(snap, r) /\ ~Unchanged(b, r)
    <3> SUFFICES ASSUME RowVersion(b, r) = 0, In(snap, r) \cap Got # {}
                 PROVE  Live(r) /\ cvr.rows[r].ver = Ver(snap, r) /\ ~Unchanged(b, r)
      OBVIOUS
    <3>1. A(r) = {} /\ E(r) = {} /\ Ver(snap, r) # 0
      BY <2>2, <2>5
    <3>2. Live(r) /\ cvr.rows[r].ver = Ver(snap, r)
      BY <3>1 DEF Live
    <3> QED
      BY <3>1, <3>2 DEF Unchanged
  <2>11. In(snap, r) \cap Got = {} => Live(r) /\ ~Unchanged(b, r)
    <3>1. In(snap, r) \cap Got = {} => A(r) = {} /\ E(r) = {}
      BY <2>2
    <3> QED
      BY <2>2, <2>4, <3>1 DEF Unchanged, Live
  <2>12. r \in Deleted(b) <=> In(snap, r) \cap Got = {}
    BY <2>1, <2>4, <2>11 DEF Deleted
  <2>13. r \in Put(b) <=> In(snap, r) \cap Got # {} /\ RowVersion(b, r) # 0
    BY <2>1, <2>4 DEF Put
  <2>14. Less(task.orig, task.version)
    <3> SUFFICES ASSUME ~(snap > cvr.version[1]) PROVE FALSE
      BY <1>1, NextVersion DEF Advancing
    <3>1. cvr.version[1] \in Nat /\ snap = cvr.version[1] /\ cvr.version[1] # 0
      BY <1>1, CVRFields DEF Version
    <3>2. /\ cvr.rows[r].refs = In(snap, r) \cap Got
          /\ Live(r) => cvr.rows[r].ver = Ver(snap, r)
      BY <1>1, <2>1, <3>1 DEF Recorded
    <3> QED
      BY <2>2, <3>2 DEF Live
  <2> QED
    BY <2>2, <2>4, <2>5, <2>7, <2>8, <2>9, <2>10, <2>11, <2>12, <2>13, <2>14
<1> QED
  BY <1>3, <1>5, <1>6 DEF b, snap

\* The rows after an advancement, and the patches that its clients were sent.
LEMMA AdvancedRows ==
  ASSUME ServerInv, FinishAdvance
  PROVE  /\ At("advance") /\ Advancing /\ UNCHANGED <<db, pipes>> /\ task' = None
         /\ cvr' \in CVRType /\ cvr'.desires = cvr.desires /\ cvr'.queries = cvr.queries
         /\ cvr' = cvr \/ cvr'.version = task.version
         /\ \A r \in Rows :
              /\ cvr'.rows[r].refs = In(pipes.snap, r) \cap Got
              /\ cvr'.rows[r].refs # {} => cvr'.rows[r].ver = Ver(pipes.snap, r)
              /\ RowStays(r) \/ RowRenewed(r, task.version)
         /\ \A p \in RowPatches(task.changes) :
              /\ p.value \in Nat
              /\ \E r \in Rows : p.key = RowKey(r)
              /\ \A r \in Rows : p.key = RowKey(r) => p.value = Latest(r)
              /\ Less(task.orig, p.at) \/ Le(p.at, task.orig)
              /\ Less(task.orig, p.at) => Less(task.orig, task.version)
         /\ \A r \in Rows : \/ ShownNow(r) = Latest(r)
                            \/ \E p \in RowPatches(task.changes) :
                                 p.key = RowKey(r) /\ Less(task.orig, p.at)
<1> DEFINE b == task.changes
           t == Received(b)
           snap == pipes.snap
<1>1. /\ At("advance") /\ UNCHANGED <<db, pipes>> /\ task' = None
      /\ cvr' = FlushedCVR(t)
  BY DEF FinishAdvance, At
<1>2. /\ ServerType /\ Advancing /\ task.orig = cvr.version /\ Recorded /\ Dated /\ task \in UpdateTask
      /\ snap \in 1 .. Len(Replica) /\ task.queries = cvr.queries
      /\ \A r \in Rows : task.rows[r] = None /\ task.received[r] = None /\ task.last[r] = None
  <2>1. ServerType /\ Advancing /\ Recorded /\ Dated /\ snap >= 1
    BY <1>1 DEF ServerInv, PipelineInv, Ahead, At
  <2>2. snap \in 0 .. Len(Replica) /\ task \in UpdateTask
    BY <1>1, <2>1, PipesFields, TaskFields
  <2>3. snap \in 1 .. Len(Replica)
    BY <2>1, <2>2
  <2> QED
    BY <2>1, <2>2, <2>3 DEF Advancing
<1>3. /\ RowsOf(b) \subseteq Rows
      /\ \A r \in Rows \ RowsOf(b) :
           cvr.rows[r].refs = In(snap, r) \cap Got /\ (Live(r) => cvr.rows[r].ver = Ver(snap, r))
      /\ \A r \in RowsOf(b) :
           /\ Less(task.orig, task.version)
           /\ Merged(b, r) = In(snap, r) \cap Got
           /\ RowVersion(b, r) \in {0, Ver(snap, r)}
           /\ Record(b, r) =
                [ver |-> IF RowVersion(b, r) # 0 THEN RowVersion(b, r) ELSE cvr.rows[r].ver,
                 at |-> PatchVersion(b, r), refs |-> In(snap, r) \cap Got]
           /\ ToVersion(b, r) = PatchVersion(b, r)
           /\ PatchVersion(b, r) \in Version
           /\ RowVersion(b, r) = 0 /\ In(snap, r) \cap Got # {} =>
                Live(r) /\ cvr.rows[r].ver = Ver(snap, r) /\ ~Unchanged(b, r)
           /\ In(snap, r) \cap Got = {} => Live(r) /\ ~Unchanged(b, r)
           /\ In(snap, r) \cap Got # {} => Ver(snap, r) # 0
           /\ r \in Deleted(b) <=> In(snap, r) \cap Got = {}
           /\ r \in Put(b) <=> In(snap, r) \cap Got # {} /\ RowVersion(b, r) # 0
  BY <1>1, AdvanceBatch
<1>4. \A r \in Rows : /\ Ver(snap, r) \in Nat /\ cvr.rows[r].ver \in Nat /\ cvr.rows[r].at \in Version
                      /\ cvr.rows[r].refs \in SUBSET Queries /\ In(snap, r) \in SUBSET Queries
  BY <1>2, ReplicaStates, CVRFields
<1>5. /\ t \in UpdateTask /\ t.queries = cvr.queries /\ t.version = task.version
      /\ \A r \in Rows : t.rows[r] = IF r \in RowsOf(b) THEN Record(b, r) ELSE None
  <2>1. /\ t = [at |-> task.at, orig |-> task.orig, version |-> task.version,
                executed |-> task.executed, tracked |-> task.tracked,
                changes |-> task.changes \ b, queries |-> task.queries,
                received |-> t.received, last |-> t.last, rows |-> t.rows]
        /\ t.received = [r \in Rows |-> t.received[r]]
        /\ t.last = [r \in Rows |-> t.last[r]]
        /\ t.rows = [r \in Rows |-> t.rows[r]]
        /\ \A r \in Rows :
             /\ t.received[r] = IF r \in RowsOf(b) THEN Merged(b, r) ELSE task.received[r]
             /\ t.last[r] =
                  IF r \in Deleted(b) \cup Put(b)
                  THEN [ver |-> IF r \in Put(b) THEN RowVersion(b, r) ELSE 0, to |-> ToVersion(b, r)]
                  ELSE task.last[r]
             /\ t.rows[r] = IF r \in RowsOf(b) THEN Record(b, r) ELSE task.rows[r]
    BY <1>2, ReceivedFields
  <2> HIDE DEF t, b, snap
  <2>2. ASSUME NEW r \in Rows
        PROVE  /\ t.received[r] \in (SUBSET Queries) \cup {None}
               /\ t.last[r] \in RowPatchInfo \cup {None}
               /\ t.rows[r] \in RowRecord \cup {None}
               /\ t.rows[r] = IF r \in RowsOf(b) THEN Record(b, r) ELSE None
    <3>1. CASE r \in RowsOf(b)
      <4>1. t.received[r] \in SUBSET Queries
        <5>1. t.received[r] = In(snap, r) \cap Got
          BY <1>3, <2>1, <3>1
        <5>2. In(snap, r) \cap Got \in SUBSET Queries
          BY <1>4
        <5> QED
          BY <5>1, <5>2
      <4>2. t.rows[r] = Record(b, r)
        BY <2>1, <3>1
      <4>3. Record(b, r) \in RowRecord
        <5>1. (IF RowVersion(b, r) # 0 THEN RowVersion(b, r) ELSE cvr.rows[r].ver) \in Nat
          BY <1>3, <1>4, <3>1
        <5>2. PatchVersion(b, r) \in Version /\ In(snap, r) \cap Got \in SUBSET Queries
          BY <1>3, <1>4, <3>1
        <5>3. Record(b, r) =
                [ver |-> IF RowVersion(b, r) # 0 THEN RowVersion(b, r) ELSE cvr.rows[r].ver,
                 at |-> PatchVersion(b, r), refs |-> In(snap, r) \cap Got]
          BY <1>3, <3>1
        <5> QED
          BY <5>1, <5>2, <5>3 DEF RowRecord
      <4>4. t.last[r] \in RowPatchInfo \cup {None}
        <5>1. (IF r \in Put(b) THEN RowVersion(b, r) ELSE 0) \in Nat
          BY <1>3, <1>4, <3>1
        <5>2. ToVersion(b, r) \in Version
          BY <1>3, <3>1
        <5>3. [ver |-> IF r \in Put(b) THEN RowVersion(b, r) ELSE 0, to |-> ToVersion(b, r)] \in RowPatchInfo
          BY <5>1, <5>2 DEF RowPatchInfo
        <5> QED
          BY <1>2, <2>1, <5>3
      <4> QED
        BY <3>1, <4>1, <4>2, <4>3, <4>4
    <3>2. CASE r \notin RowsOf(b)
      <4>1. r \notin Deleted(b) \cup Put(b)
        BY <3>2 DEF Deleted, Put
      <4> QED
        BY <1>2, <2>1, <3>2, <4>1
    <3> QED
      BY <3>1, <3>2
  <2>3. /\ t.received \in [Rows -> (SUBSET Queries) \cup {None}]
        /\ t.last \in [Rows -> RowPatchInfo \cup {None}]
        /\ t.rows \in [Rows -> RowRecord \cup {None}]
    BY <2>1, <2>2
  <2>4. t \in UpdateTask
    BY <1>2, <2>1, <2>3 DEF UpdateTask
  <2>5. t.queries = cvr.queries /\ t.version = task.version
    BY <1>2, <2>1
  <2> QED
    BY <2>2, <2>4, <2>5
<1> HIDE DEF t, b, snap
<1>6. /\ cvr' \in CVRType /\ cvr'.desires = cvr.desires /\ cvr'.queries = cvr.queries
      /\ cvr' = cvr \/ cvr'.version = task.version
      /\ \A r \in Rows :
           \/ cvr'.rows[r] = cvr.rows[r] /\ t.rows[r] = None
           \/ cvr'.rows[r] = t.rows[r] /\ t.rows[r] # None
           \/ cvr'.rows[r] = cvr.rows[r] /\ t.rows[r] # None /\ ~Live(r) /\ t.rows[r].refs = {}
  BY <1>1, <1>2, <1>5, Flushed
<1>7. ASSUME NEW r \in Rows
      PROVE  /\ cvr'.rows[r].refs = In(snap, r) \cap Got
             /\ cvr'.rows[r].refs # {} => cvr'.rows[r].ver = Ver(snap, r)
             /\ RowStays(r) \/ RowRenewed(r, task.version)
  <2>1. CASE r \notin RowsOf(b)
    <3>1. cvr'.rows[r] = cvr.rows[r]
      BY <1>5, <1>6, <2>1
    <3>2. RowStays(r)
      BY <3>1 DEF RowStays, Live
    <3> QED
      BY <1>3, <2>1, <3>1, <3>2 DEF Live
  <2>2. CASE r \in RowsOf(b)
    <3>1. /\ t.rows[r] =
               [ver |-> IF RowVersion(b, r) # 0 THEN RowVersion(b, r) ELSE cvr.rows[r].ver,
                at |-> PatchVersion(b, r), refs |-> In(snap, r) \cap Got]
          /\ Less(cvr.version, task.version)
      BY <1>2, <1>3, <1>5, <2>2
    <3>2. t.rows[r].refs = In(snap, r) \cap Got /\ t.rows[r].at = PatchVersion(b, r)
      BY <3>1
    <3>3. t.rows[r].refs # {} => t.rows[r].ver = Ver(snap, r)
      BY <1>3, <2>2, <3>1
    <3>4. t.rows[r] # None
      <4>1. (IF RowVersion(b, r) # 0 THEN RowVersion(b, r) ELSE cvr.rows[r].ver) \in Nat
        BY <1>3, <1>4, <2>2
      <4>2. PatchVersion(b, r) \in Version /\ In(snap, r) \cap Got \in SUBSET Queries
        BY <1>3, <1>4, <2>2
      <4>3. t.rows[r] \in RowRecord
        BY <3>1, <4>1, <4>2 DEF RowRecord
      <4> QED
        BY <4>3, NoneAssumption
    <3>5. cvr'.rows[r] = t.rows[r]
      BY <1>3, <1>6, <2>2, <3>2, <3>4 DEF Live
    <3>6. CASE Unchanged(b, r)
      <4>1. RowStays(r)
        <5>1. /\ Live(r) /\ cvr'.rows[r].at = cvr.rows[r].at
              /\ In(snap, r) \cap Got # {} /\ cvr.rows[r].ver = RowVersion(b, r)
          BY <1>3, <2>2, <3>2, <3>5, <3>6 DEF PatchVersion, Unchanged
        <5>2. RowVersion(b, r) # 0
          BY <1>3, <2>2, <3>6, <5>1
        <5>3. cvr'.rows[r].ver = RowVersion(b, r)
          BY <3>1, <3>5, <5>2
        <5> QED
          BY <3>2, <3>5, <5>1, <5>3 DEF RowStays, Live
      <4> QED
        BY <3>2, <3>3, <3>5, <4>1
    <3>7. CASE ~Unchanged(b, r)
      <4>1. cvr'.rows[r].at = task.version
        BY <3>2, <3>5, <3>7 DEF PatchVersion
      <4>2. CASE cvr' = cvr
        <5>1. RowStays(r)
          BY <4>2 DEF RowStays, Live
        <5> QED
          BY <3>2, <3>3, <3>5, <5>1
      <4>3. CASE cvr'.version = task.version
        <5>1. RowRenewed(r, task.version)
          BY <3>1, <4>1, <4>3 DEF RowRenewed
        <5> QED
          BY <3>2, <3>3, <3>5, <5>1
      <4> QED
        BY <1>6, <4>2, <4>3
    <3> QED
      BY <3>6, <3>7
  <2> QED
    BY <2>1, <2>2
<1>8. ASSUME NEW p \in RowPatches(b)
      PROVE  /\ p.value \in Nat
             /\ \E r \in Rows : p.key = RowKey(r)
             /\ \A r \in Rows : p.key = RowKey(r) => p.value = Latest(r)
             /\ Less(task.orig, p.at) \/ Le(p.at, task.orig)
             /\ Less(task.orig, p.at) => Less(task.orig, task.version)
  <2>1. PICK r \in RowsOf(b) : /\ p.key = RowKey(r)
                               /\ \/ r \in Deleted(b) /\ p.value = 0
                                  \/ r \in Put(b) /\ p.value = RowVersion(b, r)
    <3>1. CASE \E r \in Deleted(b) : p = Patch(RowKey(r), 0, ToVersion(b, r))
      BY <3>1 DEF Patch, Deleted
    <3>2. CASE \E r \in Put(b) : p = Patch(RowKey(r), RowVersion(b, r), ToVersion(b, r))
      BY <3>2 DEF Patch, Put
    <3> QED
      BY <3>1, <3>2 DEF RowPatches
  <2>2. p.value = Latest(r) /\ p.value \in Nat /\ r \in Rows
    BY <1>3, <1>4, <2>1 DEF Latest, snap
  <2>3. \A s \in Rows : p.key = RowKey(s) => s = r
    BY <2>1 DEF RowKey
  <2> QED
    BY <1>3, <2>1, <2>2, <2>3 DEF Le
<1>9. ASSUME NEW r \in Rows, ShownNow(r) # Latest(r)
      PROVE  \E p \in RowPatches(b) : p.key = RowKey(r) /\ Less(task.orig, p.at)
  <2>1. r \in RowsOf(b)
    BY <1>3, <1>9 DEF ShownNow, Latest, Live, snap
  <2>2. r \in Deleted(b) \cup Put(b)
    BY <1>3, <1>9, <2>1 DEF ShownNow, Latest, snap
  <2>3. ~Unchanged(b, r)
    <3>1. ASSUME Unchanged(b, r) PROVE FALSE
      <4>1. In(snap, r) \cap Got # {} /\ Live(r) /\ cvr.rows[r].ver = RowVersion(b, r)
        BY <1>3, <2>1, <3>1 DEF Unchanged
      <4>2. RowVersion(b, r) = Ver(snap, r)
        BY <1>3, <2>1, <3>1, <4>1
      <4> QED
        BY <1>9, <4>1, <4>2 DEF ShownNow, Latest, snap
    <3> QED
      BY <3>1
  <2>4. ToVersion(b, r) = task.version
    BY <1>3, <2>1, <2>3 DEF PatchVersion
  <2>5. PICK value : Patch(RowKey(r), value, ToVersion(b, r)) \in RowPatches(b)
    BY <2>2 DEF RowPatches
  <2>6. /\ Patch(RowKey(r), value, ToVersion(b, r)).key = RowKey(r)
        /\ Patch(RowKey(r), value, ToVersion(b, r)).at = task.version
    BY <2>4 DEF Patch
  <2>7. Less(task.orig, task.version)
    BY <1>3, <2>1
  <2> QED
    BY <2>5, <2>6, <2>7
<1> QED
  BY <1>1, <1>2, <1>6, <1>7, <1>8, <1>9 DEF b, snap

LEMMA FinishAdvanceServer ==
  ASSUME ServerInv, FinishAdvance
  PROVE  ServerInv' /\ Le(cvr.version, cvr'.version)
<1>1. /\ At("advance") /\ Advancing /\ UNCHANGED <<db, pipes>> /\ task' = None
      /\ cvr' \in CVRType /\ cvr'.desires = cvr.desires /\ cvr'.queries = cvr.queries
      /\ cvr' = cvr \/ cvr'.version = task.version
      /\ \A r \in Rows :
           /\ cvr'.rows[r].refs = In(pipes.snap, r) \cap Got
           /\ cvr'.rows[r].refs # {} => cvr'.rows[r].ver = Ver(pipes.snap, r)
           /\ RowStays(r) \/ RowRenewed(r, task.version)
  BY AdvancedRows
<1>2. /\ ServerType /\ pipes.synced /\ task.orig = cvr.version
      /\ task.version = UpdatedVersion(pipes.snap, {}, {})
      /\ pipes.hydrated = Got /\ Known = Got /\ cvr.version[1] <= pipes.snap
  BY <1>1 DEF ServerInv, Ahead, At, Advancing
<1>3. pipes.snap \in Nat /\ cvr.version \in Version
  BY <1>2, PipesFields, ReplicaStates, CVRFields
<1>4. task.version \in Version /\ Le(cvr.version, task.version) /\ task.version[1] = pipes.snap
  BY <1>2, <1>3, NextVersion
<1>5. Got' = pipes.hydrated /\ Known' = pipes.hydrated
  BY <1>1, <1>2 DEF Got, Known
<1>6. /\ Recorded' /\ Dated' /\ InLine' /\ Le(cvr.version, cvr'.version)
      /\ cvr'.version[1] <= pipes.snap
  BY <1>1, <1>2, <1>4, <1>5, RowsRecorded
<1>7. ServerType'
  BY <1>1, <1>2 DEF ServerType
<1>8. Ahead'
  BY <1>1, <1>6 DEF ServerInv, Ahead, At
<1> QED
  BY <1>1, <1>6, <1>7, <1>8, NoTask DEF ServerInv

-----------------------------------------------------------------------------
(* The rows of the CVR *)

LEMMA ServerInit ==
  ASSUME Init
  PROVE  ServerInv
<1>1. /\ db = 1 /\ pipes = [snap |-> 0, hydrated |-> {}, synced |-> FALSE] /\ task = None
      /\ cvr = [version |-> ZeroVersion, clients |-> {},
                rows |-> [r \in Rows |-> NoRow],
                queries |-> [q \in Queries |-> [st |-> "unknown", at |-> ZeroVersion]],
                desires |-> [c \in Clients |-> [q \in Queries |-> [st |-> "none", at |-> ZeroVersion]]]]
  BY DEF Init
<1>2. ZeroVersion \in Version /\ ZeroVersion[1] = 0 /\ Le(ZeroVersion, ZeroVersion)
  BY DEF ZeroVersion, Version, Le, Less
<1>3. /\ cvr.version = ZeroVersion /\ \A r \in Rows : cvr.rows[r] = NoRow
      /\ \A q \in Queries : cvr.queries[q] = [st |-> "unknown", at |-> ZeroVersion]
      /\ \A c \in Clients, q \in Queries : cvr.desires[c][q] = [st |-> "none", at |-> ZeroVersion]
  BY <1>1
<1>4. ServerType
  <2>1. cvr \in CVRType
    BY <1>1, <1>2 DEF CVRType, RowRecord, QueryRecord, Desire, NoRow
  <2> QED
    BY <1>1, <2>1, ReplicaStates DEF ServerType
<1>5. Got = {}
  BY <1>3 DEF Got
<1>6. Recorded
  BY <1>2, <1>3, <1>5, ReplicaStates DEF Recorded, NoRow
<1>7. Dated
  BY <1>2, <1>3 DEF Dated, NoRow
<1>8. Ahead
  BY <1>1 DEF Ahead
<1>9. PipelineInv
  BY <1>1 DEF PipelineInv, At
<1> QED
  BY <1>4, <1>6, <1>7, <1>8, <1>9 DEF ServerInv

LEMMA ServerStep ==
  ASSUME ServerInv, "earlyExpiry" \notin Environment, [Next]_vars
  PROVE  ServerInv'
<1>1. db \in 1 .. Len(Replica) /\ db \in Nat
  BY PipesFields, ReplicaStates DEF ServerInv
<1>2. ASSUME NEW c \in Clients, Connect(c) \/ LoseConnection(c) \/ Disconnect(c)
      PROVE  ServerInv'
  BY <1>1, <1>2, ServerStays DEF Connect, LoseConnection, Disconnect
<1>3. ASSUME NEW c \in Clients, HandleMessage(c)
      PROVE  ServerInv'
  BY <1>3, HandleMessageServer
<1>4. ASSUME NEW c \in Clients, NEW q \in Queries, ChangeDesiredQueries(c, q)
      PROVE  ServerInv'
  BY <1>1, <1>4, ServerStays DEF ChangeDesiredQueries
<1>5. CASE ReplicaAdvances
  <2>1. db < Len(Replica) /\ db' = db + 1 /\ UNCHANGED <<pipes, cvr, task>>
    BY <1>5 DEF ReplicaAdvances
  <2>2. db' \in 1 .. Len(Replica) /\ db <= db'
    BY <1>1, <2>1, ReplicaStates
  <2> QED
    BY <2>1, <2>2, ServerStays
<1>6. CASE UNCHANGED vars
  BY <1>1, <1>6, ServerStays DEF vars
<1>7. CASE Sync
  BY <1>7, SyncServer
<1>8. CASE ExpireQueries
  BY <1>8, ExpireServer
<1>9. CASE Execute
  BY <1>9, ExecuteServer
<1>10. CASE Flush
  BY <1>10, FlushServer
<1>11. CASE CatchUp
  BY <1>11, CatchUpServer
<1>12. CASE StartPipelines
  BY <1>12, StartPipelinesServer
<1>13. CASE Advance
  BY <1>13, AdvanceServer
<1>14. CASE FinishAdvance
  BY <1>14, FinishAdvanceServer
<1>15. CASE ResetPipelines
  BY <1>15, ResetPipelinesServer
<1>16. CASE Restart
  BY <1>16, RestartServer
<1> QED
  BY <1>2, <1>3, <1>4, <1>5, <1>6, <1>7, <1>8, <1>9, <1>10, <1>11, <1>12, <1>13, <1>14, <1>15, <1>16
     DEF Next

\* Whatever the clients do, and whenever the view syncer or its pipelines start again: between
\* the tasks of running pipelines, the rows of the CVR are the results of the queries that
\* are got, each with the references of its queries, although an execution counts those of
\* other queries as they are (mergeRefCounts()).  The timer of scheduleExpireEviction() is
\* taken to go off only when the pipelines have caught up with the CVR.
THEOREM RowsAreResults ==
  ASSUME "earlyExpiry" \notin Environment
  PROVE  Spec => []RowsMatchQueries
<1>1. ServerInv => RowsMatchQueries
  <2> SUFFICES ASSUME ServerInv, task = None, pipes.synced, NEW r \in Rows
               PROVE  /\ cvr.rows[r].refs = Replica[pipes.snap][r].in \cap Got
                      /\ Live(r) => cvr.rows[r].ver = Replica[pipes.snap][r].version
    BY DEF RowsMatchQueries
  <2>1. Matches(Got) /\ cvr.rows[r].refs \subseteq Got
    BY DEF ServerInv, PipelineInv, InLine, Recorded
  <2>2. cvr.rows[r].refs \cap Got = cvr.rows[r].refs
    BY <2>1
  <2> QED
    BY <2>1, <2>2 DEF Matches, In, Ver, Live
<1>2. ServerInv /\ [Next]_vars => ServerInv'
  BY ServerStep
<1> QED
  BY <1>1, <1>2, ServerInit, PTL DEF Spec

-----------------------------------------------------------------------------
(* What the CVR shows *)

LEMMA ShownTyped ==
  ASSUME ServerInv, NEW k \in Keys
  PROVE  Shown(k).at \in Version /\ Le(Shown(k).at, cvr.version) /\ Shown(k).value \in Nat
<1>1. ServerType /\ Dated
  BY DEF ServerInv
<1>2. CASE \E r \in Rows : k = RowKey(r)
  BY <1>1, <1>2, ShownOf, CVRFields DEF Dated
<1>3. CASE \E q \in Queries : k = GotKey(q)
  BY <1>1, <1>3, ShownOf, CVRFields DEF Dated
<1>4. CASE \E c \in Clients, q \in Queries : k = DesiredKey(c, q)
  <2>1. PICK c \in Clients, q \in Queries : k = DesiredKey(c, q)
    BY <1>4
  <2>2. /\ Shown(k).at = cvr.desires[c][q].at
        /\ Shown(k).value = IF cvr.desires[c][q].st = "active" THEN 1 ELSE 0
    BY <2>1, ShownOf
  <2>3. cvr.desires[c][q].at \in Version /\ Le(cvr.desires[c][q].at, cvr.version)
    BY <1>1, CVRFields DEF Dated
  <2> QED
    BY <2>2, <2>3
<1> QED
  BY <1>2, <1>3, <1>4, KeysDiffer

LEMMA ShownNext ==
  /\ \A r \in Rows : /\ Shown(RowKey(r)).value' = IF cvr'.rows[r].refs # {} THEN cvr'.rows[r].ver ELSE 0
                     /\ Shown(RowKey(r)).at' = cvr'.rows[r].at
  /\ \A q \in Queries : /\ Shown(GotKey(q)).value' = IF cvr'.queries[q].st = "got" THEN 1 ELSE 0
                        /\ Shown(GotKey(q)).at' = cvr'.queries[q].at
  /\ \A c \in Clients, q \in Queries :
       /\ Shown(DesiredKey(c, q)).value' = IF cvr'.desires[c][q].st = "active" THEN 1 ELSE 0
       /\ Shown(DesiredKey(c, q)).at' = cvr'.desires[c][q].at
  BY DEF Shown, RowKey, GotKey, DesiredKey, Live

LEMMA ShownNextTyped ==
  ASSUME ServerInv', NEW k \in Keys
  PROVE  Shown(k).at' \in Version
<1>1. cvr' \in CVRType
  BY DEF ServerInv, ServerType
<1>2. /\ \A r \in Rows : cvr'.rows[r].at \in Version
      /\ \A q \in Queries : cvr'.queries[q].at \in Version
      /\ \A c \in Clients, q \in Queries : cvr'.desires[c][q].at \in Version
  BY <1>1 DEF CVRType, RowRecord, QueryRecord, Desire
<1>3. CASE \E r \in Rows : k = RowKey(r)
  BY <1>2, <1>3, ShownNext
<1>4. CASE \E q \in Queries : k = GotKey(q)
  BY <1>2, <1>4, ShownNext
<1>5. CASE \E c \in Clients, q \in Queries : k = DesiredKey(c, q)
  BY <1>2, <1>5, ShownNext
<1> QED
  BY <1>3, <1>4, <1>5, KeysDiffer

\* Only what has a query that is desired and not got is undated.
LEMMA UndatedKeys ==
  /\ \A q \in Queries : GotKey(q) \in Undated <=> cvr.queries[q].st = "desired"
  /\ \A q \in Queries : GotKey(q) \in Undated' <=> cvr'.queries[q].st = "desired"
  /\ \A r \in Rows : RowKey(r) \notin Undated /\ RowKey(r) \notin Undated'
  /\ \A c \in Clients, q \in Queries : DesiredKey(c, q) \notin Undated /\ DesiredKey(c, q) \notin Undated'
  BY DEF Undated, GotKey, RowKey, DesiredKey

\* What the CVR shows changes only at a later version than it has.
ShownSteps ==
  \A k \in Keys \ Undated' :
    \/ k \notin Undated /\ Shown(k).value' = Shown(k).value /\ Shown(k).at' = Shown(k).at
    \/ Less(cvr.version, Shown(k).at')

LEMMA ViewKept ==
  ASSUME ViewInv, ServerInv', ShownSteps, NEW c \in Clients,
         tabs'[c].view = tabs[c].view, tabs'[c].cookie = tabs[c].cookie
  PROVE  \A k \in Keys \ Undated' :
           ~Less(tabs'[c].cookie, Shown(k).at') => tabs'[c].view[k] = Shown(k).value'
<1> SUFFICES ASSUME NEW k \in Keys \ Undated', ~Less(tabs'[c].cookie, Shown(k).at')
             PROVE  tabs'[c].view[k] = Shown(k).value'
  OBVIOUS
<1>1. tabs[c].cookie \in Version /\ cvr.version \in Version /\ Le(tabs[c].cookie, cvr.version)
  BY ClientFields, CVRFields DEF ViewInv, ServerInv, Followed
<1>2. Shown(k).at' \in Version
  BY ShownNextTyped
<1>3. ~Less(cvr.version, Shown(k).at')
  BY <1>1, <1>2, VersionOrder
<1>4. k \notin Undated /\ Shown(k).value' = Shown(k).value /\ Shown(k).at' = Shown(k).at
  BY <1>3 DEF ShownSteps
<1>5. k \in Keys \ Undated /\ ~Less(tabs[c].cookie, Shown(k).at)
  BY <1>4
<1> QED
  BY <1>4, <1>5 DEF ViewInv, ViewsMatch

\* What was shown by the time of a client's cookie, when that is the version of the CVR.
LEMMA ViewCurrent ==
  ASSUME ViewInv, NEW c \in Clients, NEW k \in Keys \ Undated,
         Le(Shown(k).at, tabs[c].cookie)
  PROVE  tabs[c].view[k] = Shown(k).value
  BY DEF ViewInv, ViewsMatch, Le

-----------------------------------------------------------------------------
(* What the tasks do to the clients *)

\* A poke that ends shows what the CVR says.
LEMMA Ended ==
  ASSUME ViewInv, ServerInv', ShownSteps, Le(cvr.version, cvr'.version),
         NEW hs, HandlersType(hs), SameBases(hs, handlers), EndPokes(hs, cvr'.version),
         \A c \in Clients : Ends(hs, c, cvr'.version) /\ ~tabs[c].deaf =>
           \A k \in Keys \ Undated' : hs[c].poke.draft[k] = Shown(k).value'
  PROVE  (ClientType /\ Followed /\ DraftInv /\ ViewsMatch)'
<1>1. /\ ServerType /\ ClientType /\ Followed
      /\ cvr.version \in Version /\ cvr'.version \in Version
  BY CVRFields DEF ViewInv, ServerInv, ServerType, CVRType
<1>2. /\ HandlersType(handlers')
      /\ tabs' \in [Clients -> Tab]
      /\ \A c \in Clients :
           /\ ~Poked(handlers', c)
           /\ handlers'[c] # None => /\ handlers[c] # None
                                     /\ handlers'[c].base =
                                          IF Ends(hs, c, cvr'.version) THEN cvr'.version ELSE handlers[c].base
           /\ tabs'[c].deaf = tabs[c].deaf
           /\ IF Ends(hs, c, cvr'.version) /\ ~tabs[c].deaf
              THEN tabs'[c].view = hs[c].poke.draft /\ tabs'[c].cookie = cvr'.version
              ELSE tabs'[c].view = tabs[c].view /\ tabs'[c].cookie = tabs[c].cookie
  BY <1>1, EndedPokes
<1>3. ClientType'
  BY <1>2 DEF ClientType, HandlersType
<1>4. DraftInv'
  BY <1>2 DEF DraftInv
<1>5. Followed'
  <2> SUFFICES ASSUME NEW c \in Clients
               PROVE  /\ Le(tabs'[c].cookie, cvr'.version)
                      /\ handlers'[c] # None => /\ Le(handlers'[c].base, cvr'.version)
                                                /\ ~tabs'[c].deaf => handlers'[c].base = tabs'[c].cookie
    BY <1>2 DEF Followed, Connected
  <2>1. Le(cvr'.version, cvr'.version)
    BY <1>1, VersionOrder
  <2>2. Le(tabs[c].cookie, cvr'.version)
    BY <1>1, VersionOrder, ClientFields DEF Followed
  <2>3. handlers[c] # None => Le(handlers[c].base, cvr'.version)
    BY <1>1, VersionOrder, ClientFields DEF Followed, Connected
  <2>4. handlers[c] # None => (~tabs[c].deaf => handlers[c].base = tabs[c].cookie)
    BY <1>1 DEF Followed, Connected
  <2>5. CASE Ends(hs, c, cvr'.version) /\ ~tabs[c].deaf
    BY <1>2, <2>1, <2>5
  <2>6. CASE Ends(hs, c, cvr'.version) /\ tabs[c].deaf
    BY <1>2, <2>1, <2>2, <2>6
  <2>7. CASE ~Ends(hs, c, cvr'.version)
    BY <1>2, <2>2, <2>3, <2>4, <2>7
  <2> QED
    BY <2>5, <2>6, <2>7
<1>6. ViewsMatch'
  <2> SUFFICES ASSUME NEW c \in Clients, NEW k \in Keys \ Undated', ~Less(tabs'[c].cookie, Shown(k).at')
               PROVE  tabs'[c].view[k] = Shown(k).value'
    BY DEF ViewsMatch
  <2>1. CASE Ends(hs, c, cvr'.version) /\ ~tabs[c].deaf
    BY <1>2, <2>1
  <2>2. CASE ~(Ends(hs, c, cvr'.version) /\ ~tabs[c].deaf)
    <3>1. tabs'[c].view = tabs[c].view /\ tabs'[c].cookie = tabs[c].cookie
      BY <1>2, <2>2
    <3> QED
      BY <3>1, ViewKept
  <2> QED
    BY <2>1, <2>2
<1> QED
  BY <1>3, <1>4, <1>5, <1>6

\* Clients come, go deaf, go and ask for queries, and the replica goes on.
LEMMA ClientsStay ==
  ASSUME ViewInv, ServerInv', ClientType', UNCHANGED <<pipes, cvr, task>>,
         \A c \in Clients : tabs'[c].view = tabs[c].view /\ tabs'[c].cookie = tabs[c].cookie,
         \A c \in Clients : handlers'[c] # None =>
           \/ /\ handlers[c] # None /\ handlers'[c].base = handlers[c].base
              /\ handlers'[c].poke = handlers[c].poke /\ (tabs[c].deaf => tabs'[c].deaf)
           \/ handlers'[c].poke = None /\ handlers'[c].base = tabs[c].cookie
  PROVE  ViewInv'
<1>1. ServerType /\ ClientType /\ Followed /\ DraftInv /\ ViewsMatch
  BY DEF ViewInv, ServerInv
<1>2. /\ \A kind : At(kind)' = At(kind)
      /\ \A k : Shown(k)' = Shown(k)
      /\ Undated' = Undated /\ Got' = Got /\ Removed' = Removed
  BY DEF At, Shown, Live, Undated, Got, Removed
<1>3. Followed'
  <2> SUFFICES ASSUME NEW c \in Clients
               PROVE  /\ Le(tabs'[c].cookie, cvr'.version)
                      /\ handlers'[c] # None => /\ Le(handlers'[c].base, cvr'.version)
                                                /\ ~tabs'[c].deaf => handlers'[c].base = tabs'[c].cookie
                      /\ Poked(handlers', c) => At("execute") \/ At("advance") \/ At("catchup")
    BY <1>2 DEF Followed, Connected
  <2>1. Le(tabs'[c].cookie, cvr'.version)
    BY <1>1 DEF Followed
  <2>2. ASSUME handlers'[c] # None, handlers[c] # None, handlers'[c].base = handlers[c].base,
               handlers'[c].poke = handlers[c].poke, tabs[c].deaf => tabs'[c].deaf
        PROVE  /\ Le(handlers'[c].base, cvr'.version)
               /\ ~tabs'[c].deaf => handlers'[c].base = tabs'[c].cookie
               /\ Poked(handlers', c) => At("execute") \/ At("advance") \/ At("catchup")
    BY <1>1, <2>2 DEF Followed, Connected, Poked
  <2>3. ASSUME handlers'[c] # None, handlers'[c].poke = None, handlers'[c].base = tabs[c].cookie
        PROVE  /\ Le(handlers'[c].base, cvr'.version)
               /\ ~tabs'[c].deaf => handlers'[c].base = tabs'[c].cookie
               /\ ~Poked(handlers', c)
    BY <2>1, <2>3 DEF Poked
  <2>4. handlers'[c] = None => ~Poked(handlers', c)
    BY DEF Poked
  <2> QED
    BY <2>1, <2>2, <2>3, <2>4
<1>4. DraftInv'
  <2>1. Changing' = Changing
    BY DEF Changing, Done, In, SameVersion, Live, Ver
  <2> SUFFICES ASSUME NEW c \in Clients, Poked(handlers', c)
      PROVE  /\ At("execute") =>
                  /\ Less(handlers'[c].base, task.version)
                  /\ handlers'[c].poke.started => Less(handlers'[c].base, task.orig) \/ Changing
                  /\ ~tabs'[c].deaf => DraftSoFar(handlers[c], tabs[c].view)'
             /\ At("advance") =>
                  /\ handlers'[c].base = task.orig
                  /\ ~tabs'[c].deaf => handlers'[c].poke.draft = tabs'[c].view
             /\ At("catchup") =>
                  /\ handlers'[c].poke.started => Less(handlers'[c].base, cvr.version)
                  /\ ~tabs'[c].deaf => DraftToCatchUp(handlers[c])'
    BY <1>2, <2>1 DEF DraftInv
  <2>2. /\ handlers'[c].base = handlers[c].base /\ handlers'[c].poke = handlers[c].poke
        /\ Poked(handlers, c) /\ (tabs[c].deaf => tabs'[c].deaf)
    BY DEF Poked
  <2>3. DraftSoFar(handlers[c], tabs[c].view)' = DraftSoFar(handlers[c], tabs[c].view)
    BY <1>2, <2>2 DEF DraftSoFar
  <2>4. DraftToCatchUp(handlers[c])' = DraftToCatchUp(handlers[c])
    BY <1>2, <2>2 DEF DraftToCatchUp, Excluded
  <2>5. /\ At("execute") =>
             /\ Less(handlers[c].base, task.version)
             /\ handlers[c].poke.started => Less(handlers[c].base, task.orig) \/ Changing
             /\ ~tabs[c].deaf => DraftSoFar(handlers[c], tabs[c].view)
        /\ At("advance") =>
             /\ handlers[c].base = task.orig
             /\ ~tabs[c].deaf => handlers[c].poke.draft = tabs[c].view
        /\ At("catchup") =>
             /\ handlers[c].poke.started => Less(handlers[c].base, cvr.version)
             /\ ~tabs[c].deaf => DraftToCatchUp(handlers[c])
    BY <1>1, <2>2 DEF DraftInv
  <2> QED
    BY <2>2, <2>3, <2>4, <2>5
<1>5. ViewsMatch'
  BY <1>1, <1>2 DEF ViewsMatch
<1> QED
  BY <1>3, <1>4, <1>5 DEF ViewInv

\* No client is poked any more, and none was poked to an end.
LEMMA PokesGone ==
  ASSUME ViewInv, ServerInv', ClientType', UNCHANGED cvr,
         \A c \in Clients : tabs'[c].view = tabs[c].view /\ tabs'[c].cookie = tabs[c].cookie,
         \A c \in Clients : handlers'[c] # None =>
           /\ handlers[c] # None /\ handlers'[c].base = handlers[c].base
           /\ handlers'[c].poke = None /\ (tabs[c].deaf => tabs'[c].deaf)
  PROVE  ViewInv'
<1>1. Followed /\ ViewsMatch
  BY DEF ViewInv
<1>2. \A c \in Clients : ~Poked(handlers', c)
  BY DEF Poked
<1>3. (\A k : Shown(k)' = Shown(k)) /\ Undated' = Undated
  BY DEF Shown, Live, Undated
<1>4. Followed'
  BY <1>1, <1>2 DEF Followed, Connected
<1>5. DraftInv'
  BY <1>2 DEF DraftInv
<1>6. ViewsMatch'
  BY <1>1, <1>3 DEF ViewsMatch
<1> QED
  BY <1>4, <1>5, <1>6 DEF ViewInv

LEMMA ConnectView ==
  ASSUME ViewInv, NEW c \in Clients, Connect(c)
  PROVE  ViewInv'
<1> DEFINE h == [base |-> tabs[c].cookie, poke |-> None,
                 queue |-> <<[put |-> tabs[c].wants \ Asked(c), del |-> Asked(c) \ tabs[c].wants]>>]
<1>1. /\ handlers' = [handlers EXCEPT ![c] = h] /\ tabs' = [tabs EXCEPT ![c].deaf = FALSE]
      /\ UNCHANGED <<db, pipes, cvr, task>>
  BY DEF Connect
<1>2. ServerInv /\ ClientType
  BY DEF ViewInv
<1>3. h \in Handler /\ h.base = tabs[c].cookie /\ h.poke = None
  <2>1. Asked(c) \in SUBSET Queries /\ tabs[c].wants \in SUBSET Queries /\ tabs[c].cookie \in Version
    BY <1>2, ClientFields DEF Asked, Tab
  <2>2. [put |-> tabs[c].wants \ Asked(c), del |-> Asked(c) \ tabs[c].wants] \in Message
    BY <2>1 DEF Message
  <2>3. <<[put |-> tabs[c].wants \ Asked(c), del |-> Asked(c) \ tabs[c].wants]>> \in Seq(Message)
    BY <2>2
  <2> QED
    BY <2>1, <2>3 DEF Handler
<1> HIDE DEF h
<1>4. \A d \in Clients : /\ handlers'[d] = IF d = c THEN h ELSE handlers[d]
                         /\ tabs'[d].view = tabs[d].view /\ tabs'[d].cookie = tabs[d].cookie
                         /\ d # c => tabs'[d] = tabs[d]
  BY <1>1, <1>2 DEF ClientType, Tab
<1>5. ClientType'
  <2>1. handlers' \in [Clients -> Handler \cup {None}]
    BY <1>1, <1>2, <1>3 DEF ClientType
  <2>2. tabs' \in [Clients -> Tab]
    BY <1>1, <1>2 DEF ClientType, Tab
  <2> QED
    BY <2>1, <2>2 DEF ClientType
<1>6. db \in 1 .. Len(Replica) /\ db \in Nat
  BY <1>2, PipesFields, ReplicaStates DEF ServerInv
<1>7. ServerInv'
  BY <1>1, <1>2, <1>6, ServerStays
<1> QED
  BY <1>1, <1>3, <1>4, <1>5, <1>7, ClientsStay

LEMMA LoseConnectionView ==
  ASSUME ViewInv, NEW c \in Clients, LoseConnection(c)
  PROVE  ViewInv'
<1>1. tabs' = [tabs EXCEPT ![c].deaf = TRUE] /\ UNCHANGED <<db, pipes, cvr, task, handlers>>
  BY DEF LoseConnection
<1>2. ServerInv /\ ClientType
  BY DEF ViewInv
<1>3. \A d \in Clients : /\ tabs'[d].view = tabs[d].view /\ tabs'[d].cookie = tabs[d].cookie
                         /\ tabs[d].deaf => tabs'[d].deaf
  BY <1>1, <1>2 DEF ClientType, Tab
<1>4. ClientType'
  BY <1>1, <1>2 DEF ClientType, Tab
<1>5. db \in 1 .. Len(Replica) /\ db \in Nat
  BY <1>2, PipesFields, ReplicaStates DEF ServerInv
<1>6. ServerInv'
  BY <1>1, <1>2, <1>5, ServerStays
<1> QED
  BY <1>1, <1>3, <1>4, <1>6, ClientsStay

LEMMA DisconnectView ==
  ASSUME ViewInv, NEW c \in Clients, Disconnect(c)
  PROVE  ViewInv'
<1>1. /\ tabs' = [tabs EXCEPT ![c].deaf = FALSE] /\ handlers' = [handlers EXCEPT ![c] = None]
      /\ UNCHANGED <<db, pipes, cvr, task>>
  BY DEF Disconnect
<1>2. ServerInv /\ ClientType
  BY DEF ViewInv
<1>3. \A d \in Clients : /\ tabs'[d].view = tabs[d].view /\ tabs'[d].cookie = tabs[d].cookie
                         /\ handlers'[d] = IF d = c THEN None ELSE handlers[d]
                         /\ d # c => tabs'[d] = tabs[d]
  BY <1>1, <1>2 DEF ClientType, Tab
<1>4. ClientType'
  <2>1. handlers' \in [Clients -> Handler \cup {None}]
    BY <1>1, <1>2 DEF ClientType
  <2>2. tabs' \in [Clients -> Tab]
    BY <1>1, <1>2 DEF ClientType, Tab
  <2> QED
    BY <2>1, <2>2 DEF ClientType
<1>5. db \in 1 .. Len(Replica) /\ db \in Nat
  BY <1>2, PipesFields, ReplicaStates DEF ServerInv
<1>6. ServerInv'
  BY <1>1, <1>2, <1>5, ServerStays
<1> QED
  BY <1>1, <1>3, <1>4, <1>6, ClientsStay

LEMMA ChangeDesiredQueriesView ==
  ASSUME ViewInv, NEW c \in Clients, NEW q \in Queries, ChangeDesiredQueries(c, q)
  PROVE  ViewInv'
<1> DEFINE wants == IF q \in tabs[c].wants THEN tabs[c].wants \ {q} ELSE tabs[c].wants \cup {q}
           m == [put |-> IF q \in tabs[c].wants THEN {} ELSE {q},
                 del |-> IF q \in tabs[c].wants THEN {q} ELSE {}]
<1>1. /\ tabs' = [tabs EXCEPT ![c].wants = wants]
      /\ \/ Connected(c) /\ handlers' = [handlers EXCEPT ![c].queue = Append(@, m)]
         \/ handlers' = handlers
      /\ UNCHANGED <<db, pipes, cvr, task>>
  BY DEF ChangeDesiredQueries
<1>2. ServerInv /\ ClientType
  BY DEF ViewInv
<1>3. wants \in SUBSET Queries /\ m \in Message
  BY <1>2, ClientFields DEF Tab, Message
<1> HIDE DEF wants, m
<1>4. \A d \in Clients : /\ tabs'[d].view = tabs[d].view /\ tabs'[d].cookie = tabs[d].cookie
                         /\ tabs'[d].deaf = tabs[d].deaf
  BY <1>1, <1>2 DEF ClientType, Tab
<1>5. tabs' \in [Clients -> Tab]
  <2>1. tabs[c] \in Tab
    BY <1>2 DEF ClientType
  <2>2. [tabs[c] EXCEPT !.wants = wants] \in Tab
    BY <1>3, <2>1 DEF Tab
  <2>3. tabs' = [tabs EXCEPT ![c] = [tabs[c] EXCEPT !.wants = wants]]
    BY <1>1
  <2> QED
    BY <1>2, <2>2, <2>3 DEF ClientType
<1>6. /\ handlers' \in [Clients -> Handler \cup {None}]
      /\ \A d \in Clients : handlers'[d] # None =>
           /\ handlers[d] # None /\ handlers'[d].base = handlers[d].base
           /\ handlers'[d].poke = handlers[d].poke
  <2>1. CASE handlers' = handlers
    BY <1>2, <2>1 DEF ClientType
  <2>2. CASE Connected(c) /\ handlers' = [handlers EXCEPT ![c].queue = Append(@, m)]
    <3>1. handlers[c] # None /\ handlers[c] \in Handler
      BY <1>2, <2>2, ClientFields DEF Connected
    <3> DEFINE queue == Append(handlers[c].queue, m)
               h == [base |-> handlers[c].base, poke |-> handlers[c].poke, queue |-> queue]
    <3>2. handlers' = [handlers EXCEPT ![c] = [handlers[c] EXCEPT !.queue = queue]]
      BY <2>2
    <3>3. queue \in Seq(Message)
      BY <1>3, <3>1 DEF Handler
    <3> HIDE DEF queue
    <3>4. [handlers[c] EXCEPT !.queue = queue] = h
      BY <3>1 DEF Handler
    <3>5. h \in Handler
      BY <3>1, <3>3 DEF Handler
    <3>6. h \in Handler /\ h.base = handlers[c].base /\ h.poke = handlers[c].poke
          /\ handlers' = [handlers EXCEPT ![c] = h]
      BY <3>2, <3>4, <3>5
    <3> HIDE DEF h
    <3>7. \A d \in Clients : handlers'[d] = IF d = c THEN h ELSE handlers[d]
      BY <1>2, <3>6 DEF ClientType
    <3>8. handlers' \in [Clients -> Handler \cup {None}]
      BY <1>2, <3>6 DEF ClientType
    <3> QED
      BY <3>1, <3>6, <3>7, <3>8
  <2> QED
    BY <1>1, <2>1, <2>2
<1>7. ClientType'
  BY <1>5, <1>6 DEF ClientType
<1>8. db \in 1 .. Len(Replica) /\ db \in Nat
  BY <1>2, PipesFields, ReplicaStates DEF ServerInv
<1>9. ServerInv'
  BY <1>1, <1>2, <1>8, ServerStays
<1> QED
  BY <1>1, <1>4, <1>6, <1>7, <1>9, ClientsStay

\* Neither the CVR, nor the clients.
LEMMA NoClientChange ==
  ASSUME ViewInv, ServerInv', UNCHANGED <<cvr, handlers, tabs>>,
         UNCHANGED <<pipes, task>> \/ task = None
  PROVE  ViewInv'
<1>1. ClientType'
  BY DEF ViewInv, ClientType
<1>2. CASE UNCHANGED <<pipes, task>>
  BY <1>1, <1>2, ClientsStay
<1>3. CASE task = None
  <2>1. \A c \in Clients : ~Poked(handlers, c)
    BY <1>3 DEF ViewInv, Followed, At
  <2>2. \A c \in Clients : handlers'[c] # None => handlers[c] # None /\ handlers'[c].poke = None
    BY <2>1 DEF Poked
  <2> QED
    BY <1>1, <2>2, PokesGone
<1> QED
  BY <1>2, <1>3

LEMMA ResetPipelinesView ==
  ASSUME ViewInv, ResetPipelines
  PROVE  ViewInv'
<1>1. /\ handlers' = [c \in Clients |-> IF Poked(handlers, c) THEN [handlers[c] EXCEPT !.poke = None]
                                        ELSE handlers[c]]
      /\ UNCHANGED <<cvr, tabs>>
  BY DEF ResetPipelines
<1>2. ServerInv' /\ ClientType
  BY ResetPipelinesServer DEF ViewInv
<1>3. ASSUME NEW c \in Clients
      PROVE  /\ handlers'[c] \in Handler \cup {None}
             /\ handlers'[c] # None => /\ handlers[c] # None /\ handlers'[c].base = handlers[c].base
                                       /\ handlers'[c].poke = None
  <2>1. CASE Poked(handlers, c)
    <3>1. handlers[c] # None /\ handlers[c] \in Handler
      BY <1>2, <2>1, ClientFields DEF Poked
    <3>2. handlers'[c] = [base |-> handlers[c].base, poke |-> None, queue |-> handlers[c].queue]
      BY <1>1, <2>1, <3>1 DEF Handler
    <3> QED
      BY <3>1, <3>2 DEF Handler
  <2>2. CASE ~Poked(handlers, c)
    BY <1>1, <1>2, <2>2 DEF ClientType, Poked
  <2> QED
    BY <2>1, <2>2
<1>4. ClientType'
  BY <1>1, <1>2, <1>3 DEF ClientType
<1> QED
  BY <1>1, <1>2, <1>3, <1>4, PokesGone

LEMMA RestartView ==
  ASSUME ViewInv, Restart
  PROVE  ViewInv'
<1>1. /\ handlers' = [c \in Clients |-> None] /\ cvr' = cvr
      /\ tabs' = [c \in Clients |-> [tabs[c] EXCEPT !.deaf = FALSE]]
  BY DEF Restart, NoHandlers
<1>2. ServerInv' /\ ClientType
  BY RestartServer DEF ViewInv
<1>3. \A c \in Clients : /\ tabs'[c] \in Tab
                         /\ tabs'[c].view = tabs[c].view /\ tabs'[c].cookie = tabs[c].cookie
  BY <1>1, <1>2 DEF ClientType, Tab
<1>4. ClientType'
  BY <1>1, <1>3 DEF ClientType
<1> QED
  BY <1>1, <1>2, <1>3, <1>4, PokesGone

LEMMA HandleMessageView ==
  ASSUME ViewInv, NEW c \in Clients, HandleMessage(c)
  PROVE  ViewInv'
<1> DEFINE m == Head(handlers[c].queue)
           v == cvr'.version
           patches == ConfigPatches(c, m, v)
           hs0 == StartPoke(ClientsAt(cvr.version), v)
           hs1 == AddPatches(hs0, patches)
           hs == [hs1 EXCEPT ![c].queue = Tail(@)]
<1>1. /\ task = None /\ Connected(c) /\ handlers[c].queue # <<>>
      /\ cvr' = Configured(c, m) /\ EndPokes(hs, v)
  BY DEF HandleMessage
<1> HIDE DEF m
<1>2. ServerInv /\ ServerType /\ ServerInv' /\ ClientType /\ Followed /\ Dated
  BY HandleMessageServer DEF ViewInv, ServerInv
<1>3. /\ v = IF ConfigChanges(c, m) THEN OneAfter(cvr.version) ELSE cvr.version
      /\ cvr'.rows = cvr.rows
      /\ \A q \in Queries : cvr'.queries[q] =
           IF q \in Needed(c, m) /\ Revived(q) THEN [st |-> "desired", at |-> ZeroVersion]
           ELSE cvr.queries[q]
      /\ \A d \in Clients, q \in Queries : cvr'.desires[d][q] =
           IF d = c /\ q \in Needed(c, m) THEN [st |-> "active", at |-> v]
           ELSE IF d = c /\ q \in Unwanted(c, m) THEN [st |-> "inactive", at |-> v]
           ELSE cvr.desires[d][q]
  BY <1>1, <1>2, ConfiguredCVR
<1>4. /\ cvr.version \in Version /\ v \in Version /\ Le(cvr.version, v)
      /\ ConfigChanges(c, m) => Less(cvr.version, v)
  BY <1>2, <1>3, CVRFields, LaterVersion, VersionOrder
<1>5. /\ HandlersType(hs0) /\ SameBases(hs0, handlers)
      /\ \A d \in Clients : Poked(hs0, d) =>
           \/ Poked(handlers, d) /\ hs0[d] = handlers[d]
           \/ /\ d \in ClientsAt(cvr.version) /\ Less(handlers[d].base, v)
              /\ hs0[d].poke = [started |-> FALSE, draft |-> tabs[d].view]
  <2>1. ClientsAt(cvr.version) \in SUBSET AllClients
    BY DEF ClientsAt
  <2> QED
    BY <1>2, <2>1, StartedPokes
<1>6. \A p \in patches : /\ p.at = v /\ p.value \in {0, 1}
                         /\ \E q \in Queries : /\ p.key = DesiredKey(c, q)
                                               /\ p.value = 1 <=> q \in Needed(c, m)
                                               /\ q \in Needed(c, m) \cup Unwanted(c, m)
  <2>1. m \in Message
    BY <1>1, <1>2, ClientFields, HeadTailProperties DEF m, Handler, Connected
  <2>2. Needed(c, m) \in SUBSET Queries /\ Unwanted(c, m) \in SUBSET Queries
        /\ Needed(c, m) \cap Unwanted(c, m) = {}
    BY <2>1 DEF Needed, Unwanted, Message
  <2> SUFFICES ASSUME NEW p \in patches
      PROVE  /\ p.at = v /\ p.value \in {0, 1}
             /\ \E q \in Queries : /\ p.key = DesiredKey(c, q)
                                   /\ p.value = 1 <=> q \in Needed(c, m)
                                   /\ q \in Needed(c, m) \cup Unwanted(c, m)
    OBVIOUS
  <2>3. CASE \E q \in Needed(c, m) : p = Patch(DesiredKey(c, q), 1, v)
    BY <2>2, <2>3 DEF Patch
  <2>4. CASE \E q \in Unwanted(c, m) : p = Patch(DesiredKey(c, q), 0, v)
    BY <2>2, <2>4 DEF Patch
  <2> QED
    BY <2>3, <2>4 DEF ConfigPatches
<1>7. \A d \in Clients, q \in Queries :
        d = c /\ q \in Needed(c, m) \cup Unwanted(c, m) =>
          \E p \in patches : p.key = DesiredKey(d, q)
  <2> SUFFICES ASSUME NEW q \in Queries, q \in Needed(c, m) \cup Unwanted(c, m)
               PROVE  \E p \in patches : p.key = DesiredKey(c, q)
    OBVIOUS
  <2>1. Patch(DesiredKey(c, q), 1, v).key = DesiredKey(c, q) /\ Patch(DesiredKey(c, q), 0, v).key = DesiredKey(c, q)
    BY DEF Patch
  <2>2. Patch(DesiredKey(c, q), 1, v) \in patches \/ Patch(DesiredKey(c, q), 0, v) \in patches
    BY DEF ConfigPatches
  <2> QED
    BY <2>1, <2>2
<1> HIDE DEF patches, hs0
<1>8. /\ HandlersType(hs1) /\ SameBases(hs1, hs0)
      /\ \A d \in Clients : Poked(hs1, d) =>
           /\ Poked(hs0, d) /\ hs1[d].poke \in Poke
           /\ \A k \in Keys : hs1[d].poke.draft[k] = Apply(hs0[d].poke.draft, News(hs0[d], patches))[k]
  <2>1. \A p \in patches : p.value \in Nat
    BY <1>6
  <2> QED
    BY <1>5, <2>1, AddedPatches
<1> HIDE DEF hs1
<1>9. /\ HandlersType(hs) /\ SameBases(hs, handlers)
      /\ \A d \in Clients : hs[d].poke = hs1[d].poke /\ hs[d].base = hs1[d].base
      /\ \A d \in Clients : Poked(hs, d) => Poked(hs1, d)
  <2>1. handlers[c] # None /\ hs1[c] # None /\ hs1[c] \in Handler /\ hs1[c].base = handlers[c].base
    BY <1>1, <1>5, <1>8 DEF Connected, SameBases, HandlersType
  <2> DEFINE h == [base |-> hs1[c].base, poke |-> hs1[c].poke, queue |-> Tail(hs1[c].queue)]
  <2>2. hs1[c].queue # <<>>
    <3>1. hs0[c].queue = handlers[c].queue
      <4>1. handlers[c] \in Handler
        BY <1>2, <2>1, ClientFields
      <4>2. hs0[c] = handlers[c] \/ hs0[c] = [handlers[c] EXCEPT !.poke = [started |-> FALSE, draft |-> tabs[c].view]]
        BY DEF hs0, StartPoke
      <4> QED
        BY <4>1, <4>2 DEF Handler
    <3>2. hs1[c].queue = hs0[c].queue
      <4>1. hs0[c] \in Handler
        BY <1>5, <1>8, <2>1 DEF SameBases, HandlersType
      <4>2. hs1[c] = hs0[c] \/ \E poke : hs1[c] = [hs0[c] EXCEPT !.poke = poke]
        BY DEF hs1, AddPatches
      <4> QED
        BY <4>1, <4>2 DEF Handler
    <3> QED
      BY <1>1, <3>1, <3>2
  <2>3. Tail(hs1[c].queue) \in Seq(Message)
    BY <2>1, <2>2, HeadTailProperties DEF Handler
  <2>4. h \in Handler
    BY <2>1, <2>3 DEF Handler
  <2>5. hs = [hs1 EXCEPT ![c] = h]
    <3> DEFINE queue == Tail(hs1[c].queue)
    <3>1. hs = [hs1 EXCEPT ![c] = [hs1[c] EXCEPT !.queue = queue]]
      OBVIOUS
    <3> HIDE DEF queue, hs
    <3>2. [hs1[c] EXCEPT !.queue = queue]
            = [base |-> hs1[c].base, poke |-> hs1[c].poke, queue |-> queue]
      BY <2>1 DEF Handler
    <3> QED
      BY <3>1, <3>2 DEF queue
  <2>6. h.base = hs1[c].base /\ h.poke = hs1[c].poke
    OBVIOUS
  <2> HIDE DEF h, hs
  <2>7. \A d \in Clients : hs[d] = IF d = c THEN h ELSE hs1[d]
    BY <1>8, <2>5 DEF HandlersType
  <2>8. HandlersType(hs)
    BY <1>8, <2>4, <2>5 DEF HandlersType
  <2>9. h # None
    BY <2>4, NoneAssumption
  <2>10. SameBases(hs, handlers)
    BY <1>5, <1>8, <2>1, <2>6, <2>7, <2>9 DEF SameBases
  <2>11. \A d \in Clients : Poked(hs, d) => Poked(hs1, d)
    BY <2>1, <2>6, <2>7 DEF Poked
  <2> QED
    BY <2>6, <2>7, <2>8, <2>10, <2>11
<1> HIDE DEF hs, v
<1>10. \A q \in Queries : cvr'.queries[q].st # "desired" =>
          cvr'.queries[q] = cvr.queries[q] /\ cvr.queries[q].st # "desired"
  BY <1>3
<1>11. \A d \in Clients, q \in Queries :
         \/ cvr'.desires[d][q] = cvr.desires[d][q]
         \/ /\ d = c /\ q \in Needed(c, m) \cup Unwanted(c, m) /\ ConfigChanges(c, m)
            /\ cvr'.desires[d][q].at = v
            /\ cvr'.desires[d][q].st = "active" <=> q \in Needed(c, m)
  <2> TAKE d \in Clients, q \in Queries
  <2>1. ASSUME d = c, q \in Needed(c, m)
        PROVE  /\ cvr'.desires[d][q].at = v /\ cvr'.desires[d][q].st = "active"
               /\ ConfigChanges(c, m)
    <3>1. cvr'.desires[d][q] = [st |-> "active", at |-> v]
      BY <1>3, <2>1
    <3> QED
      BY <2>1, <3>1 DEF ConfigChanges
  <2>2. ASSUME d = c, q \notin Needed(c, m), q \in Unwanted(c, m)
        PROVE  /\ cvr'.desires[d][q].at = v /\ cvr'.desires[d][q].st = "inactive"
               /\ ConfigChanges(c, m)
    <3>1. cvr'.desires[d][q] = [st |-> "inactive", at |-> v]
      BY <1>3, <2>2
    <3> QED
      BY <2>2, <3>1 DEF ConfigChanges
  <2>3. ~(d = c /\ q \in Needed(c, m) \cup Unwanted(c, m)) => cvr'.desires[d][q] = cvr.desires[d][q]
    BY <1>3
  <2> QED
    BY <2>1, <2>2, <2>3
<1>12. ShownSteps
  <2> SUFFICES ASSUME NEW k \in Keys \ Undated'
      PROVE  \/ k \notin Undated /\ Shown(k).value' = Shown(k).value /\ Shown(k).at' = Shown(k).at
             \/ Less(cvr.version, Shown(k).at')
    BY DEF ShownSteps
  <2>1. ASSUME NEW r \in Rows, k = RowKey(r)
        PROVE  k \notin Undated /\ Shown(k).value' = Shown(k).value /\ Shown(k).at' = Shown(k).at
    BY <1>3, <2>1, ShownOf, ShownNext, UndatedKeys DEF Live
  <2>2. ASSUME NEW q \in Queries, k = GotKey(q)
        PROVE  k \notin Undated /\ Shown(k).value' = Shown(k).value /\ Shown(k).at' = Shown(k).at
    BY <1>10, <2>2, ShownOf, ShownNext, UndatedKeys
  <2>3. ASSUME NEW d \in Clients, NEW q \in Queries, k = DesiredKey(d, q)
        PROVE  \/ k \notin Undated /\ Shown(k).value' = Shown(k).value /\ Shown(k).at' = Shown(k).at
               \/ Less(cvr.version, Shown(k).at')
    BY <1>4, <1>11, <2>3, ShownOf, ShownNext, UndatedKeys
  <2> QED
    BY <2>1, <2>2, <2>3, KeysDiffer
<1>13. ASSUME NEW d \in Clients, Ends(hs, d, v), ~tabs[d].deaf, NEW k \in Keys \ Undated'
       PROVE  hs[d].poke.draft[k] = Shown(k).value'
  <2>1. /\ Poked(hs0, d) /\ hs[d].poke.draft[k] = Apply(hs0[d].poke.draft, News(hs0[d], patches))[k]
    BY <1>8, <1>9, <1>13 DEF Ends
  <2>2. ~Poked(handlers, d)
    BY <1>1, <1>2, NoneAssumption DEF Followed, At
  <2>3. /\ d \in ClientsAt(cvr.version) /\ Less(handlers[d].base, v)
        /\ hs0[d].poke.draft = tabs[d].view
    <3>1. /\ d \in ClientsAt(cvr.version) /\ Less(handlers[d].base, v)
          /\ hs0[d].poke = [started |-> FALSE, draft |-> tabs[d].view]
      BY <1>5, <2>1, <2>2
    <3>2. hs0[d].poke.draft = tabs[d].view
      BY <3>1
    <3> QED
      BY <3>1, <3>2
  <2>4. handlers[d] # None /\ handlers[d].base = cvr.version /\ tabs[d].cookie = cvr.version
    BY <1>2, <1>13, <2>3 DEF ClientsAt, AllClients, Connected, Followed
  <2>5. hs0[d].base = cvr.version /\ Less(cvr.version, v)
    BY <1>5, <2>1, <2>3, <2>4 DEF SameBases, Poked
  <2>6. News(hs0[d], patches) = patches
    BY <1>6, <2>5 DEF News
  <2>7. hs[d].poke.draft[k] = Apply(tabs[d].view, patches)[k]
    BY <2>1, <2>3, <2>6
  <2>8. k \notin Undated => tabs[d].view[k] = Shown(k).value
    BY <1>2, <2>4, ShownTyped, ViewCurrent
  <2>9. ASSUME NEW r \in Rows, k = RowKey(r)
        PROVE  hs[d].poke.draft[k] = Shown(k).value'
    <3>1. \A p \in patches : p.key # k
      BY <1>6, <2>9 DEF RowKey, DesiredKey
    <3>2. k \notin Undated /\ Shown(k).value' = Shown(k).value
      BY <1>3, <2>9, ShownOf, ShownNext, UndatedKeys DEF Live
    <3> QED
      BY <2>7, <2>8, <3>1, <3>2, Applied
  <2>10. ASSUME NEW q \in Queries, k = GotKey(q)
         PROVE  hs[d].poke.draft[k] = Shown(k).value'
    <3>1. \A p \in patches : p.key # k
      BY <1>6, <2>10 DEF GotKey, DesiredKey
    <3>2. k \notin Undated /\ Shown(k).value' = Shown(k).value
      BY <1>10, <2>10, ShownOf, ShownNext, UndatedKeys
    <3> QED
      BY <2>7, <2>8, <3>1, <3>2, Applied
  <2>11. ASSUME NEW e \in Clients, NEW q \in Queries, k = DesiredKey(e, q)
         PROVE  hs[d].poke.draft[k] = Shown(k).value'
    <3>1. CASE e = c /\ q \in Needed(c, m) \cup Unwanted(c, m)
      <4>1. PICK p \in patches : p.key = k
        BY <1>7, <2>11, <3>1
      <4>2. \A o \in patches : o.key = k => o.value = IF q \in Needed(c, m) THEN 1 ELSE 0
        BY <1>6, <2>11 DEF DesiredKey
      <4>3. Apply(tabs[d].view, patches)[k] = IF q \in Needed(c, m) THEN 1 ELSE 0
        BY <4>1, <4>2, Applied
      <4>4. Shown(k).value' = IF q \in Needed(c, m) THEN 1 ELSE 0
        BY <1>3, <2>11, <3>1, ShownNext
      <4> QED
        BY <2>7, <4>3, <4>4
    <3>2. CASE ~(e = c /\ q \in Needed(c, m) \cup Unwanted(c, m))
      <4>1. \A p \in patches : p.key # k
        BY <1>6, <2>11, <3>2 DEF DesiredKey
      <4>2. k \notin Undated /\ Shown(k).value' = Shown(k).value
        BY <1>3, <2>11, <3>2, ShownOf, ShownNext, UndatedKeys
      <4> QED
        BY <2>7, <2>8, <4>1, <4>2, Applied
    <3> QED
      BY <3>1, <3>2
  <2> QED
    BY <2>9, <2>10, <2>11, KeysDiffer
<1>14. (ClientType /\ Followed /\ DraftInv /\ ViewsMatch)'
  BY <1>1, <1>2, <1>4, <1>9, <1>12, <1>13, Ended DEF v
<1> QED
  BY <1>2, <1>14 DEF ViewInv

-----------------------------------------------------------------------------
(* The catchup *)

LEMMA LeastOf ==
  ASSUME NEW S \in SUBSET Nat, S # {}
  PROVE  \E x \in S : \A y \in S : x <= y
<1>1. PICK x \in S : \A y \in S : <<y, x>> \notin OpToRel(<, Nat)
  BY WFMin, NatLessThanWellFounded, Zenon
<1>2. \A y \in S : ~(y < x)
  BY <1>1, Zenon DEF OpToRel
<1> QED
  BY <1>2

LEMMA EarliestVersion ==
  ASSUME NEW S \in SUBSET Version, S # {}
  PROVE  \E v \in S : \A w \in S : ~Less(w, v)
<1> DEFINE firsts == {v[1] : v \in S}
<1>1. \A v \in S : v[1] \in Nat /\ v[2] \in Nat
  BY DEF Version
<1>2. PICK s \in firsts : \A x \in firsts : s <= x
  <2>1. firsts \in SUBSET Nat /\ firsts # {}
    BY <1>1
  <2> HIDE DEF firsts
  <2> QED
    BY <2>1, LeastOf
<1> DEFINE seconds == {v[2] : v \in {v \in S : v[1] = s}}
<1>3. PICK n \in seconds : \A x \in seconds : n <= x
  <2>1. seconds \in SUBSET Nat /\ seconds # {}
    BY <1>1, <1>2
  <2> HIDE DEF seconds
  <2> QED
    BY <2>1, LeastOf
<1>4. PICK v \in S : v[1] = s /\ v[2] = n
  BY <1>3
<1>5. ASSUME NEW w \in S PROVE ~Less(w, v)
  <2>1. s <= w[1]
    BY <1>2
  <2>2. w[1] = s => n <= w[2]
    BY <1>3
  <2> QED
    BY <1>1, <1>4, <2>1, <2>2 DEF Less
<1> QED
  BY <1>5

LEMMA CatchupFromIs ==
  ASSUME ClientType, NEW to \in Version
  PROVE  CatchupFrom(to) \in Version /\ \A c \in AllClients : Le(CatchupFrom(to), handlers[c].base)
<1> DEFINE S == {to} \cup {handlers[c].base : c \in AllClients}
<1>1. S \in SUBSET Version /\ S # {}
  BY ClientFields DEF AllClients, Connected
<1>2. CatchupFrom(to) = CHOOSE v \in S : \A w \in S : ~Less(w, v)
  BY DEF CatchupFrom
<1>3. \A c \in AllClients : handlers[c].base \in S
  OBVIOUS
<1> HIDE DEF S
<1>4. CatchupFrom(to) \in S /\ \A w \in S : ~Less(w, CatchupFrom(to))
  BY <1>1, <1>2, EarliestVersion
<1> QED
  BY <1>1, <1>3, <1>4 DEF Le

\* The catchup sends what the CVR shows, and all of it that a client has not seen.
LEMMA CatchupIs ==
  ASSUME ServerInv, ClientType, InLine, NEW to \in Version, NEW excluded
  PROVE  /\ \A p \in CatchupPatches(to, excluded) :
              /\ p.key \in Keys /\ p.at = Shown(p.key).at /\ p.value = Shown(p.key).value
              /\ p.value \in Nat
         /\ \A c \in AllClients, k \in Keys :
              \/ Le(Shown(k).at, handlers[c].base) \/ Less(to, Shown(k).at)
              \/ \E r \in Rows : k = RowKey(r) /\ cvr.rows[r].refs \cap excluded # {}
              \/ \E p \in CatchupPatches(to, excluded) : p.key = k
<1> DEFINE from == CatchupFrom(to)
           rows == {Patch(RowKey(r), IF Live(r) THEN Replica[pipes.snap][r].version ELSE 0, cvr.rows[r].at) :
                      r \in CaughtUpRows(from, to, excluded)}
           gots == {Patch(GotKey(q), IF cvr.queries[q].st = "got" THEN 1 ELSE 0, cvr.queries[q].at) :
                      q \in {q \in Queries : Between(cvr.queries[q].at, from, to)}}
           pairs == {x \in Clients \X Queries : Between(cvr.desires[x[1]][x[2]].at, from, to)}
           desires == {Patch(DesiredKey(x[1], x[2]),
                             IF cvr.desires[x[1]][x[2]].st = "active" THEN 1 ELSE 0,
                             cvr.desires[x[1]][x[2]].at) : x \in pairs}
<1>1. CatchupPatches(to, excluded) = rows \cup gots \cup desires
  BY DEF CatchupPatches
<1>2. \A r \in Rows : (IF Live(r) THEN Replica[pipes.snap][r].version ELSE 0) = Shown(RowKey(r)).value
  <2> TAKE r \in Rows
  <2>1. Matches(Got) /\ cvr.rows[r].refs \subseteq Got
    BY DEF InLine, ServerInv, Recorded
  <2>2. Live(r) => cvr.rows[r].ver = Replica[pipes.snap][r].version
    <3>1. cvr.rows[r].refs \cap Got = cvr.rows[r].refs
      BY <2>1
    <3> QED
      BY <2>1, <3>1 DEF Matches, Live, Ver
  <2> QED
    BY <2>2, ShownOf
<1>3. \A p \in rows : \E r \in Rows : p = Patch(RowKey(r), Shown(RowKey(r)).value, Shown(RowKey(r)).at)
  BY <1>2, ShownOf DEF CaughtUpRows
<1>4. \A p \in gots : \E q \in Queries : p = Patch(GotKey(q), Shown(GotKey(q)).value, Shown(GotKey(q)).at)
  BY ShownOf
<1>5. \A p \in desires : \E c \in Clients, q \in Queries :
        p = Patch(DesiredKey(c, q), Shown(DesiredKey(c, q)).value, Shown(DesiredKey(c, q)).at)
  <2> TAKE p \in desires
  <2>1. PICK x \in pairs : p = Patch(DesiredKey(x[1], x[2]),
                             IF cvr.desires[x[1]][x[2]].st = "active" THEN 1 ELSE 0,
                             cvr.desires[x[1]][x[2]].at)
    OBVIOUS
  <2>2. x[1] \in Clients /\ x[2] \in Queries
    OBVIOUS
  <2> QED
    BY <2>1, <2>2, ShownOf
<1>6. ASSUME NEW p \in CatchupPatches(to, excluded)
      PROVE  /\ p.key \in Keys /\ p.at = Shown(p.key).at /\ p.value = Shown(p.key).value
             /\ p.value \in Nat
  <2>1. PICK k \in Keys : p = Patch(k, Shown(k).value, Shown(k).at)
    <3>1. CASE p \in rows
      BY <1>3, <3>1, KeysDiffer
    <3>2. CASE p \in gots
      BY <1>4, <3>2, KeysDiffer
    <3>3. CASE p \in desires
      BY <1>5, <3>3, KeysDiffer
    <3> QED
      BY <1>1, <3>1, <3>2, <3>3
  <2>2. p.key = k /\ p.value = Shown(k).value /\ p.at = Shown(k).at
    BY <2>1 DEF Patch
  <2> QED
    BY <2>2, ShownTyped
<1>7. ASSUME NEW c \in AllClients, NEW k \in Keys, ~Le(Shown(k).at, handlers[c].base),
             ~Less(to, Shown(k).at),
             ~\E r \in Rows : k = RowKey(r) /\ cvr.rows[r].refs \cap excluded # {}
      PROVE  \E p \in CatchupPatches(to, excluded) : p.key = k
  <2>1. Between(Shown(k).at, from, to)
    <3>1. from \in Version /\ Le(from, handlers[c].base) /\ handlers[c].base \in Version
      BY CatchupFromIs, ClientFields DEF AllClients, Connected
    <3>2. Less(handlers[c].base, Shown(k).at) /\ Shown(k).at \in Version
      BY <1>7, ShownTyped DEF Le
    <3>3. Less(from, Shown(k).at)
      BY <3>1, <3>2, VersionOrder
    <3> QED
      BY <1>7, <3>3 DEF Between
  <2> HIDE DEF from
  <2>2. ASSUME NEW r \in Rows, k = RowKey(r)
        PROVE  \E p \in rows : p.key = k
    <3>1. r \in CaughtUpRows(from, to, excluded)
      BY <1>7, <2>1, <2>2, ShownOf DEF CaughtUpRows
    <3>2. Patch(RowKey(r), IF Live(r) THEN Replica[pipes.snap][r].version ELSE 0, cvr.rows[r].at) \in rows
      BY <3>1
    <3>3. Patch(RowKey(r), IF Live(r) THEN Replica[pipes.snap][r].version ELSE 0, cvr.rows[r].at).key = k
      BY <2>2 DEF Patch
    <3> QED
      BY <3>2, <3>3
  <2>3. ASSUME NEW q \in Queries, k = GotKey(q)
        PROVE  \E p \in gots : p.key = k
    <3>1. Between(cvr.queries[q].at, from, to)
      BY <2>1, <2>3, ShownOf
    <3>2. Patch(GotKey(q), IF cvr.queries[q].st = "got" THEN 1 ELSE 0, cvr.queries[q].at) \in gots
      BY <3>1
    <3>3. Patch(GotKey(q), IF cvr.queries[q].st = "got" THEN 1 ELSE 0, cvr.queries[q].at).key = k
      BY <2>3 DEF Patch
    <3> QED
      BY <3>2, <3>3
  <2>4. ASSUME NEW d \in Clients, NEW q \in Queries, k = DesiredKey(d, q)
        PROVE  \E p \in desires : p.key = k
    <3>1. Between(cvr.desires[d][q].at, from, to)
      BY <2>1, <2>4, ShownOf
    <3>2. <<d, q>> \in pairs
      BY <3>1
    <3> HIDE DEF pairs
    <3>3. PICK x \in pairs : x[1] = d /\ x[2] = q
      BY <3>2
    <3>4. Patch(DesiredKey(x[1], x[2]), IF cvr.desires[x[1]][x[2]].st = "active" THEN 1 ELSE 0,
                cvr.desires[x[1]][x[2]].at) \in desires
      OBVIOUS
    <3>5. Patch(DesiredKey(x[1], x[2]), IF cvr.desires[x[1]][x[2]].st = "active" THEN 1 ELSE 0,
                cvr.desires[x[1]][x[2]].at).key = k
      BY <2>4, <3>3 DEF Patch
    <3> QED
      BY <3>4, <3>5
  <2> HIDE DEF rows, gots, desires
  <2> QED
    BY <1>1, <2>2, <2>3, <2>4, KeysDiffer
<1> QED
  BY <1>6, <1>7

\* A client that is caught up has what the CVR shows, but for what the catchup leaves out.
LEMMA CaughtUp ==
  ASSUME ServerInv, ClientType, InLine, NEW to \in Version, NEW excluded,
         NEW hs, HandlersType(hs), SameBases(hs, handlers),
         NEW gs, gs = AddPatches(hs, CatchupPatches(to, excluded))
  PROVE  /\ HandlersType(gs) /\ SameBases(gs, handlers)
         /\ \A c \in Clients : Poked(gs, c) => Poked(hs, c)
         /\ \A c \in Clients, k \in Keys : Poked(gs, c) =>
              \/ gs[c].poke.draft[k] = Shown(k).value
              \/ /\ gs[c].poke.draft[k] = hs[c].poke.draft[k]
                 /\ \/ Le(Shown(k).at, handlers[c].base) \/ Less(to, Shown(k).at)
                    \/ \E r \in Rows : k = RowKey(r) /\ cvr.rows[r].refs \cap excluded # {}
<1> DEFINE patches == CatchupPatches(to, excluded)
<1>1. /\ \A p \in patches :
           /\ p.key \in Keys /\ p.at = Shown(p.key).at /\ p.value = Shown(p.key).value
           /\ p.value \in Nat
      /\ \A c \in AllClients, k \in Keys :
           \/ Le(Shown(k).at, handlers[c].base) \/ Less(to, Shown(k).at)
           \/ \E r \in Rows : k = RowKey(r) /\ cvr.rows[r].refs \cap excluded # {}
           \/ \E p \in patches : p.key = k
  BY CatchupIs
<1> HIDE DEF patches
<1>2. /\ HandlersType(gs) /\ SameBases(gs, hs)
      /\ \A c \in Clients : Poked(gs, c) =>
           /\ Poked(hs, c)
           /\ \A k \in Keys : gs[c].poke.draft[k] = Apply(hs[c].poke.draft, News(hs[c], patches))[k]
  <2>1. gs = AddPatches(hs, patches) /\ \A p \in patches : p.value \in Nat
    BY <1>1 DEF patches
  <2> QED
    BY <2>1, AddedPatches
<1>3. SameBases(gs, handlers)
  BY <1>2 DEF SameBases
<1>4. ASSUME NEW c \in Clients, NEW k \in Keys, Poked(gs, c)
      PROVE  \/ gs[c].poke.draft[k] = Shown(k).value
             \/ /\ gs[c].poke.draft[k] = hs[c].poke.draft[k]
                /\ \/ Le(Shown(k).at, handlers[c].base) \/ Less(to, Shown(k).at)
                   \/ \E r \in Rows : k = RowKey(r) /\ cvr.rows[r].refs \cap excluded # {}
  <2>1. Poked(hs, c) /\ gs[c].poke.draft[k] = Apply(hs[c].poke.draft, News(hs[c], patches))[k]
    BY <1>2, <1>4
  <2>2. hs[c].base = handlers[c].base /\ c \in AllClients
    BY <2>1 DEF SameBases, Poked, AllClients, Connected
  <2>3. CASE \E p \in News(hs[c], patches) : p.key = k
    <3>1. PICK p \in News(hs[c], patches) : p.key = k
      BY <2>3
    <3>2. \A o \in News(hs[c], patches) : o.key = k => o.value = Shown(k).value
      BY <1>1 DEF News
    <3>3. Apply(hs[c].poke.draft, News(hs[c], patches))[k] = Shown(k).value
      BY <3>1, <3>2, Applied
    <3> QED
      BY <2>1, <3>3
  <2>4. CASE ~ \E p \in News(hs[c], patches) : p.key = k
    <3>1. gs[c].poke.draft[k] = hs[c].poke.draft[k]
      BY <2>1, <2>4, Applied
    <3>2. ASSUME NEW p \in patches, p.key = k
          PROVE  Le(Shown(k).at, handlers[c].base)
      BY <1>1, <2>2, <2>4, <3>2 DEF News, Le
    <3> QED
      BY <1>1, <2>2, <3>1, <3>2
  <2> QED
    BY <2>3, <2>4
<1> QED
  BY <1>2, <1>3, <1>4

-----------------------------------------------------------------------------
(* The clients of an execution *)

\* Nobody is poked outside of an execution and an advancement.
LEMMA NotPoked ==
  ASSUME ViewInv, task = None \/ At("sync"), NEW c \in Clients
  PROVE  ~Poked(handlers, c)
<1>1. ServerType /\ Followed
  BY DEF ViewInv, ServerInv
<1>2. ~At("execute") /\ ~At("advance") /\ ~At("catchup")
  BY <1>1, OneTask
<1> QED
  BY <1>1, <1>2 DEF Followed

\* With nothing to execute or to remove, the clients are caught up.
LEMMA InLineView ==
  ASSUME ViewInv, ServerInv', InLine, task = None \/ At("sync"), UNCHANGED cvr,
         EndPokes(AddPatches(StartPoke(AllClients, cvr.version), CatchupPatches(cvr.version, {})),
                  cvr.version)
  PROVE  ViewInv'
<1> DEFINE hs == StartPoke(AllClients, cvr.version)
           gs == AddPatches(hs, CatchupPatches(cvr.version, {}))
<1>1. ServerInv /\ ServerType /\ ClientType /\ cvr.version \in Version /\ cvr'.version = cvr.version
  BY CVRFields DEF ViewInv, ServerInv
<1>2. /\ HandlersType(hs) /\ SameBases(hs, handlers)
      /\ \A c \in Clients : Poked(hs, c) =>
           \/ Poked(handlers, c) /\ hs[c] = handlers[c]
           \/ hs[c].poke = [started |-> FALSE, draft |-> tabs[c].view]
  BY <1>1, StartedPokes
<1>3. EndPokes(gs, cvr'.version)
  BY <1>1
<1> HIDE DEF hs
<1>4. gs = AddPatches(hs, CatchupPatches(cvr.version, {}))
  OBVIOUS
<1> HIDE DEF gs
<1>5. /\ HandlersType(gs) /\ SameBases(gs, handlers)
      /\ \A c \in Clients : Poked(gs, c) => Poked(hs, c)
      /\ \A c \in Clients, k \in Keys : Poked(gs, c) =>
           \/ gs[c].poke.draft[k] = Shown(k).value
           \/ /\ gs[c].poke.draft[k] = hs[c].poke.draft[k]
              /\ \/ Le(Shown(k).at, handlers[c].base) \/ Less(cvr.version, Shown(k).at)
                 \/ \E r \in Rows : k = RowKey(r) /\ cvr.rows[r].refs \cap {} # {}
  BY <1>1, <1>2, <1>4, CaughtUp
<1>6. /\ \A k : Shown(k)' = Shown(k)
      /\ Undated' = Undated
  BY DEF Shown, Live, Undated
<1>7. \A k : Shown(k).value' = Shown(k).value /\ Shown(k).at' = Shown(k).at
  BY <1>6
<1>8. ShownSteps
  BY <1>6, <1>7 DEF ShownSteps
<1>9. ASSUME NEW c \in Clients, Ends(gs, c, cvr'.version), ~tabs[c].deaf, NEW k \in Keys \ Undated'
      PROVE  gs[c].poke.draft[k] = Shown(k).value'
  <2>1. Poked(gs, c) /\ Poked(hs, c)
    BY <1>5, <1>9 DEF Ends
  <2>2. ~Poked(handlers, c)
    BY NotPoked
  <2>3. hs[c].poke.draft = tabs[c].view
    <3>1. hs[c].poke = [started |-> FALSE, draft |-> tabs[c].view]
      BY <1>2, <2>1, <2>2
    <3> QED
      BY <3>1
  <2>4. handlers[c] # None /\ handlers[c].base = tabs[c].cookie
    BY <1>2, <1>9, <2>1 DEF SameBases, Poked, ViewInv, Followed, Connected
  <2>5. ~Less(cvr.version, Shown(k).at)
    BY <1>1, ShownTyped DEF Le
  <2>6. gs[c].poke.draft[k] = Shown(k).value
        \/ (gs[c].poke.draft[k] = tabs[c].view[k] /\ Le(Shown(k).at, tabs[c].cookie))
    BY <1>5, <2>1, <2>3, <2>4, <2>5
  <2>7. Le(Shown(k).at, tabs[c].cookie) => tabs[c].view[k] = Shown(k).value
    BY <1>6, ViewCurrent
  <2> QED
    BY <1>7, <2>6, <2>7
<1>10. Le(cvr.version, cvr'.version)
  BY <1>1, VersionOrder
<1>11. (ClientType /\ Followed /\ DraftInv /\ ViewsMatch)'
  BY <1>3, <1>5, <1>8, <1>9, <1>10, Ended
<1> QED
  BY <1>11 DEF ViewInv

\* Nothing that the clients have been shown changes, and nothing is to be shown.
LEMMA ViewStays ==
  ASSUME ViewsMatch, UNCHANGED <<cvr, tabs>>
  PROVE  ViewsMatch'
<1>1. (\A k : Shown(k)' = Shown(k)) /\ Undated' = Undated
  BY DEF Shown, Live, Undated
<1> QED
  BY <1>1 DEF ViewsMatch

\* The patches for the queries that are new and those that are removed.
LEMMA QueryPatchesAre ==
  ASSUME NEW executed \in SUBSET Queries, NEW removed \in SUBSET Queries, NEW v,
         executed \cap removed = {}
  PROVE  /\ \A p \in QueryPatches(executed, removed, v) :
              /\ p.at = v /\ p.value \in Nat
              /\ \E q \in Queries : /\ p.key = GotKey(q) /\ q \in (executed \ Got) \cup removed
                                    /\ p.value = IF q \in executed \ Got THEN 1 ELSE 0
         /\ \A q \in (executed \ Got) \cup removed :
              \E p \in QueryPatches(executed, removed, v) : p.key = GotKey(q)
<1>1. \A q : /\ Patch(GotKey(q), 1, v).at = v /\ Patch(GotKey(q), 1, v).value = 1
             /\ Patch(GotKey(q), 1, v).key = GotKey(q)
             /\ Patch(GotKey(q), 0, v).at = v /\ Patch(GotKey(q), 0, v).value = 0
             /\ Patch(GotKey(q), 0, v).key = GotKey(q)
  BY DEF Patch
<1>2. \A p \in QueryPatches(executed, removed, v) :
        \/ \E q \in executed \ Got : p = Patch(GotKey(q), 1, v)
        \/ \E q \in removed : p = Patch(GotKey(q), 0, v)
  BY DEF QueryPatches
<1>3. /\ \A q \in executed \ Got : Patch(GotKey(q), 1, v) \in QueryPatches(executed, removed, v)
      /\ \A q \in removed : Patch(GotKey(q), 0, v) \in QueryPatches(executed, removed, v)
  BY DEF QueryPatches
<1>4. ASSUME NEW p \in QueryPatches(executed, removed, v)
      PROVE  /\ p.at = v /\ p.value \in Nat
             /\ \E q \in Queries : /\ p.key = GotKey(q) /\ q \in (executed \ Got) \cup removed
                                   /\ p.value = IF q \in executed \ Got THEN 1 ELSE 0
  <2>1. CASE \E q \in executed \ Got : p = Patch(GotKey(q), 1, v)
    BY <1>1, <2>1
  <2>2. CASE \E q \in removed : p = Patch(GotKey(q), 0, v)
    <3>1. PICK q \in removed : p = Patch(GotKey(q), 0, v)
      BY <2>2
    <3>2. q \in Queries /\ q \notin executed \ Got
      OBVIOUS
    <3> QED
      BY <1>1, <3>1, <3>2
  <2> QED
    BY <1>2, <2>1, <2>2
<1>5. ASSUME NEW q \in (executed \ Got) \cup removed
      PROVE  \E p \in QueryPatches(executed, removed, v) : p.key = GotKey(q)
  BY <1>1, <1>3
<1> QED
  BY <1>4, <1>5

\* An execution begins: its clients are those that are older than it.
LEMMA SyncWithView ==
  ASSUME ViewInv, ServerInv', pipes.synced, pipes.hydrated \subseteq Got, Matches(pipes.hydrated),
         task = None \/ At("sync"),
         NEW expired \in SUBSET Known, SyncWith(expired), UNCHANGED <<db, cvr>>
  PROVE  ViewInv'
<1> DEFINE wanted == Known \ expired
           executed == Unhydrated(wanted)
           rows == {x \in executed \X Rows : x[1] \in Replica[pipes.snap][x[2]].in}
           changes == {<<x[1], x[2], "add">> : x \in rows}
<1>1. ServerInv /\ ServerType /\ ClientType /\ Followed /\ ViewsMatch
  BY DEF ViewInv, ServerInv
<1>2. /\ executed \in SUBSET Queries /\ expired \in SUBSET Queries /\ executed \cap expired = {}
      /\ executed = wanted \ pipes.hydrated /\ Got \subseteq Known
  BY <1>1, GotKnown DEF Unhydrated
<1>3. CASE executed = {} /\ expired = {} /\ pipes.hydrated \subseteq wanted
  <2>1. EndPokes(AddPatches(StartPoke(AllClients, cvr.version), CatchupPatches(cvr.version, {})),
                 cvr.version)
    BY <1>3 DEF SyncWith
  <2>2. Known = pipes.hydrated /\ Got = Known
    BY <1>2, <1>3
  <2>3. InLine
    BY <2>2 DEF InLine
  <2> QED
    BY <2>1, <2>3, InLineView
<1>4. CASE ~(executed = {} /\ expired = {} /\ pipes.hydrated \subseteq wanted)
  <2> DEFINE v == task'.version
             hs == StartPoke(AllClients, v)
             patches == QueryPatches(executed, expired, v)
  <2>1. /\ task' = Updater("execute", pipes.snap, executed, expired, changes)
        /\ handlers' = AddPatches(hs, patches) /\ UNCHANGED tabs
    BY <1>4 DEF SyncWith
  <2> HIDE DEF changes, executed, wanted, rows
  <2>2. /\ task'.at = "execute" /\ task'.orig = cvr.version
        /\ task'.executed = executed /\ task'.tracked = executed \cup expired
        /\ task'.queries = [q \in Queries |->
             IF q \in expired THEN [st |-> "deleted", at |-> v]
             ELSE IF q \in executed \ Got THEN [st |-> "got", at |-> v]
             ELSE cvr.queries[q]]
        /\ task'.last = [r \in Rows |-> None]
    BY <2>1 DEF Updater
  <2>3. Removed' = expired /\ Got' = Got
    BY <1>2, <2>2 DEF Removed, Got
  <2> HIDE DEF hs, patches, v
  <2>4. /\ HandlersType(hs) /\ SameBases(hs, handlers)
        /\ \A c \in Clients : Poked(hs, c) =>
             \/ Poked(handlers, c) /\ hs[c] = handlers[c]
             \/ /\ c \in AllClients /\ Less(handlers[c].base, v)
                /\ hs[c].poke = [started |-> FALSE, draft |-> tabs[c].view]
    BY <1>1, StartedPokes DEF hs
  <2>5. /\ \A p \in patches :
             /\ p.at = v /\ p.value \in Nat
             /\ \E q \in Queries : /\ p.key = GotKey(q) /\ q \in (executed \ Got) \cup expired
                                   /\ p.value = IF q \in executed \ Got THEN 1 ELSE 0
        /\ \A q \in (executed \ Got) \cup expired : \E p \in patches : p.key = GotKey(q)
    BY <1>2, QueryPatchesAre DEF patches
  <2>6. /\ HandlersType(handlers') /\ SameBases(handlers', hs)
        /\ \A c \in Clients : Poked(handlers', c) =>
             /\ Poked(hs, c)
             /\ \A k \in Keys : handlers'[c].poke.draft[k]
                                  = Apply(hs[c].poke.draft, News(hs[c], patches))[k]
             /\ handlers'[c].poke.started => hs[c].poke.started \/ News(hs[c], patches) # {}
    <3>1. \A p \in patches : p.value \in Nat
      BY <2>5
    <3> QED
      BY <2>1, <2>4, <3>1, AddedPatches
  <2>7. ASSUME NEW c \in Clients, Poked(handlers', c)
        PROVE  /\ handlers[c] # None /\ handlers'[c].base = handlers[c].base /\ Less(handlers[c].base, v)
               /\ handlers'[c].poke.started => patches # {}
               /\ \A k \in Keys : handlers'[c].poke.draft[k] = Apply(tabs[c].view, patches)[k]
    <3>1. Poked(hs, c) /\ ~Poked(handlers, c)
      BY <2>6, <2>7, NotPoked
    <3>2. /\ c \in AllClients /\ Less(handlers[c].base, v)
          /\ hs[c].poke = [started |-> FALSE, draft |-> tabs[c].view]
      BY <2>4, <3>1
    <3>3. hs[c].poke.started = FALSE /\ hs[c].poke.draft = tabs[c].view
      BY <3>2
    <3>4. handlers[c] # None /\ hs[c].base = handlers[c].base
      BY <2>4, <3>2 DEF AllClients, Connected, SameBases
    <3>5. handlers'[c].base = handlers[c].base
      BY <2>6, <2>4, <3>4 DEF SameBases
    <3>6. News(hs[c], patches) = patches
      BY <2>5, <3>2, <3>4 DEF News
    <3> QED
      BY <2>6, <2>7, <3>2, <3>3, <3>4, <3>5, <3>6
  <2>8. At("execute")' /\ ~At("advance")' /\ ~At("catchup")'
    <3>1. task' # None
      <4>1. pipes.snap \in Nat
        BY <1>1, PipesFields, ReplicaStates
      <4>2. changes \in SUBSET (Queries \X Rows \X {"add", "edit", "remove"})
        BY <1>2 DEF changes, rows
      <4>3. task' \in UpdateTask
        BY <1>1, <1>2, <2>1, <4>1, <4>2, UpdaterType
      <4> QED
        BY <4>3, NoneAssumption
    <3> QED
      BY <2>2, <3>1 DEF At
  <2>9. patches # {} => Changing'
    <3>1. SUFFICES ASSUME patches # {} PROVE task'.queries # cvr'.queries
      BY DEF Changing
    <3>2. PICK q \in Queries : q \in (executed \ Got) \cup expired
      BY <2>5, <3>1
    <3>3. task'.queries[q] = IF q \in expired THEN [st |-> "deleted", at |-> v]
                             ELSE [st |-> "got", at |-> v]
      BY <2>2, <3>2
    <3>4. task'.queries[q].st = IF q \in expired THEN "deleted" ELSE "got"
      BY <3>3
    <3>5. q \in expired => cvr.queries[q].st # "deleted"
      BY DEF Known
    <3>6. q \notin expired => cvr.queries[q].st # "got"
      BY <3>2 DEF Got
    <3> QED
      BY <3>4, <3>5, <3>6
  <2>10. ASSUME NEW c \in Clients, Poked(handlers', c)
         PROVE  DraftSoFar(handlers[c], tabs[c].view)'
    <3>1. \A k \in Keys : handlers'[c].poke.draft[k] = Apply(tabs[c].view, patches)[k]
      BY <2>7, <2>10
    <3>2. \A r \in Rows : handlers'[c].poke.draft[RowKey(r)] = tabs[c].view[RowKey(r)]
      <4> TAKE r \in Rows
      <4>1. \A p \in patches : p.key # RowKey(r)
        BY <2>5 DEF RowKey, GotKey
      <4>2. Apply(tabs[c].view, patches)[RowKey(r)] = tabs[c].view[RowKey(r)]
        BY <4>1, KeysDiffer, Applied
      <4> QED
        BY <3>1, <4>2, KeysDiffer
    <3>3. \A d \in Clients, q \in Queries :
            handlers'[c].poke.draft[DesiredKey(d, q)] = tabs[c].view[DesiredKey(d, q)]
      <4> TAKE d \in Clients, q \in Queries
      <4>1. \A p \in patches : p.key # DesiredKey(d, q)
        BY <2>5 DEF DesiredKey, GotKey
      <4>2. Apply(tabs[c].view, patches)[DesiredKey(d, q)] = tabs[c].view[DesiredKey(d, q)]
        BY <4>1, KeysDiffer, Applied
      <4> QED
        BY <3>1, <4>2, KeysDiffer
    <3>4. \A q \in Queries : handlers'[c].poke.draft[GotKey(q)] =
            IF q \in executed \ Got THEN 1 ELSE IF q \in expired THEN 0 ELSE tabs[c].view[GotKey(q)]
      <4> TAKE q \in Queries
      <4>1. CASE q \in (executed \ Got) \cup expired
        <5>1. PICK p \in patches : p.key = GotKey(q)
          BY <2>5, <4>1
        <5>2. \A o \in patches : o.key = GotKey(q) => o.value = IF q \in executed \ Got THEN 1 ELSE 0
          BY <2>5 DEF GotKey
        <5>3. Apply(tabs[c].view, patches)[GotKey(q)] = IF q \in executed \ Got THEN 1 ELSE 0
          BY <5>1, <5>2, KeysDiffer, Applied
        <5> QED
          BY <3>1, <4>1, <5>3, KeysDiffer
      <4>2. CASE q \notin (executed \ Got) \cup expired
        <5>1. \A p \in patches : p.key # GotKey(q)
          BY <2>5, <4>2 DEF GotKey
        <5>2. Apply(tabs[c].view, patches)[GotKey(q)] = tabs[c].view[GotKey(q)]
          BY <5>1, KeysDiffer, Applied
        <5> QED
          BY <3>1, <4>2, <5>2, KeysDiffer
      <4> QED
        BY <4>1, <4>2
    <3> QED
      BY <2>1, <2>2, <2>3, <3>2, <3>3, <3>4 DEF DraftSoFar
  <2>11. DraftInv'
    BY <2>2, <2>7, <2>8, <2>9, <2>10 DEF DraftInv, v
  <2>12. Followed'
    <3> SUFFICES ASSUME NEW c \in Clients
                 PROVE  /\ Le(tabs'[c].cookie, cvr'.version)
                        /\ handlers'[c] # None => /\ Le(handlers'[c].base, cvr'.version)
                                                  /\ ~tabs'[c].deaf => handlers'[c].base = tabs'[c].cookie
      BY <2>8 DEF Followed, Connected
    <3>1. handlers'[c] # None => handlers[c] # None /\ handlers'[c].base = handlers[c].base
      BY <2>4, <2>6 DEF SameBases
    <3> QED
      BY <1>1, <2>1, <3>1 DEF Followed, Connected
  <2>13. ClientType' /\ ViewsMatch'
    BY <1>1, <2>1, <2>6, ViewStays DEF ClientType, HandlersType
  <2> QED
    BY <2>11, <2>12, <2>13 DEF ViewInv
<1> QED
  BY <1>3, <1>4

LEMMA SyncView ==
  ASSUME ViewInv, Sync
  PROVE  ViewInv'
<1>1. PICK expired \in SUBSET Expirable : SyncWith(expired)
  BY DEF Sync
<1>2. At("sync") /\ UNCHANGED <<db, cvr>> /\ ServerInv
  BY DEF Sync, At, ViewInv
<1>3. expired \in SUBSET Known /\ ServerInv'
  BY <1>2, SyncServer DEF Expirable
<1>4. pipes.synced /\ pipes.hydrated \subseteq Got /\ Matches(pipes.hydrated)
  BY <1>2 DEF ServerInv, Ahead, PipelineInv, At
<1> QED
  BY <1>1, <1>2, <1>3, <1>4, SyncWithView

LEMMA ExpireView ==
  ASSUME ViewInv, "earlyExpiry" \notin Environment, ExpireQueries
  PROVE  ViewInv'
<1>1. PICK expired \in (SUBSET Expirable) \ {{}} : SyncWith(expired)
  BY DEF ExpireQueries
<1>2. task = None /\ pipes.synced /\ UNCHANGED <<db, cvr>> /\ ServerInv
  BY DEF ExpireQueries, ViewInv
<1>3. expired \in SUBSET Known /\ ServerInv'
  BY <1>2, ExpireServer DEF Expirable
<1>4. pipes.hydrated \subseteq Got /\ Matches(pipes.hydrated)
  BY <1>2 DEF ServerInv, PipelineInv, InLine
<1> QED
  BY <1>1, <1>2, <1>3, <1>4, SyncWithView

\* A batch of an execution is sent to those it is news to.
LEMMA ExecuteView ==
  ASSUME ViewInv, Execute
  PROVE  ViewInv'
<1>1. PICK batch \in {task.changes} \cup {{x \in task.changes : x[1] = q} : q \in Queries} :
        task' = Received(batch) /\ handlers' = AddPatches(handlers, RowPatches(batch))
  BY DEF Execute
<1>2. /\ At("execute") /\ UNCHANGED <<db, pipes, cvr, tabs>> /\ batch \in SUBSET task.changes
  BY DEF Execute, At
<1>3. /\ ServerInv /\ ServerType /\ Dated /\ Executing /\ ClientType /\ Followed /\ ViewsMatch /\ DraftInv
      /\ task \in UpdateTask
  <2>1. /\ ServerInv /\ ServerType /\ Dated /\ Executing /\ ClientType /\ Followed /\ ViewsMatch /\ DraftInv
    BY <1>2 DEF ViewInv, ServerInv, PipelineInv
  <2> QED
    BY <1>2, <2>1, TaskFields
<1>4. ServerInv' /\ task' # None
  BY <1>3, ExecuteServer, NoneAssumption
<1>5. /\ \A r \in Rows : r \in RowsOf(batch) <=> Having(batch, r, {"add"}) # {}
      /\ RowsOf(batch) \subseteq Rows
      /\ \A r \in RowsOf(batch) : /\ Ver(pipes.snap, r) \in Nat
                                  /\ RowVersion(batch, r) = Ver(pipes.snap, r)
                                  /\ ToVersion(batch, r) = SentAt(r)
      /\ Deleted(batch) = {} /\ Put(batch) = {r \in RowsOf(batch) : Done(r) = {}}
  BY <1>2, <1>3, Batch
<1>6. /\ task'.at = "execute" /\ task'.orig = task.orig /\ task'.version = task.version
      /\ task'.executed = task.executed /\ task'.tracked = task.tracked
      /\ task'.changes = task.changes \ batch /\ task'.queries = task.queries
  <2>1. task.at = "execute"
    BY <1>2 DEF At
  <2>2. task' = [at |-> task.at, orig |-> task.orig, version |-> task.version,
                 executed |-> task.executed, tracked |-> task.tracked,
                 changes |-> task.changes \ batch, queries |-> task.queries,
                 received |-> task'.received, last |-> task'.last, rows |-> task'.rows]
    BY <1>1, <1>3, ReceivedFields
  <2> QED
    BY <2>1, <2>2
<1>7. \A r \in Rows : task'.last[r] = IF r \in Put(batch)
                                      THEN [ver |-> Ver(pipes.snap, r), to |-> SentAt(r)]
                                      ELSE task.last[r]
  <2>1. \A r \in Rows : task'.last[r] = IF r \in Put(batch)
                                        THEN [ver |-> RowVersion(batch, r), to |-> ToVersion(batch, r)]
                                        ELSE task.last[r]
    BY <1>1, <1>3, <1>5, ReceivedFields
  <2> QED
    BY <1>5, <2>1
<1>8. \A r \in Rows : /\ Done(r) \subseteq Done(r)' /\ (r \in Put(batch) => Done(r)' # {})
                      /\ (SameVersion(r) <=> SameVersion(r)')
  <2> TAKE r \in Rows
  <2>1. Done(r)' = {q \in task.executed \cap In(pipes.snap, r) :
                     ~(<<q, r, "add">> \in task.changes \ batch)}
    BY <1>2, <1>6 DEF Done, In
  <2>2. Done(r) \subseteq Done(r)'
    BY <2>1 DEF Done
  <2>3. ASSUME r \in Put(batch) PROVE Done(r)' # {}
    <3>1. PICK q \in Queries : <<q, r, "add">> \in batch
      <4>1. Having(batch, r, {"add"}) = {q \in Queries : <<q, r, "add">> \in batch}
        BY DEF Having
      <4> QED
        BY <1>5, <2>3, <4>1
    <3>2. \A x \in batch : x[1] \in task.executed /\ x[1] \in In(pipes.snap, x[2])
      BY <1>2, <1>3 DEF Executing
    <3>3. q \in task.executed \cap In(pipes.snap, r)
      BY <3>1, <3>2
    <3> QED
      BY <2>1, <3>1, <3>3
  <2>4. SameVersion(r) <=> SameVersion(r)'
    BY <1>2 DEF SameVersion, Live, Ver
  <2> QED
    BY <2>2, <2>3, <2>4
<1>9. Changing => Changing'
  BY <1>2, <1>6, <1>8 DEF Changing
<1> DEFINE patches == RowPatches(batch)
<1>10. /\ \A p \in patches : \E r \in Put(batch) :
            p.key = RowKey(r) /\ p.value = Ver(pipes.snap, r) /\ p.at = SentAt(r)
       /\ \A r \in Put(batch) : \E p \in patches :
            p.key = RowKey(r) /\ p.value = Ver(pipes.snap, r) /\ p.at = SentAt(r)
  <2>1. patches = {Patch(RowKey(r), RowVersion(batch, r), ToVersion(batch, r)) : r \in Put(batch)}
    BY <1>5 DEF RowPatches
  <2> HIDE DEF patches
  <2>2. \A r \in Put(batch) :
          /\ Patch(RowKey(r), RowVersion(batch, r), ToVersion(batch, r)).key = RowKey(r)
          /\ Patch(RowKey(r), RowVersion(batch, r), ToVersion(batch, r)).value = Ver(pipes.snap, r)
          /\ Patch(RowKey(r), RowVersion(batch, r), ToVersion(batch, r)).at = SentAt(r)
    BY <1>5 DEF Patch
  <2> QED
    BY <2>1, <2>2
<1>11. \A r \in Put(batch) : r \in Rows /\ Done(r) = {} /\ Ver(pipes.snap, r) \in Nat
  BY <1>5
<1>12. handlers' = AddPatches(handlers, patches)
  BY <1>1
<1> HIDE DEF patches
<1>13. /\ HandlersType(handlers') /\ SameBases(handlers', handlers)
       /\ \A c \in Clients : Poked(handlers', c) =>
            /\ Poked(handlers, c)
            /\ \A k \in Keys : handlers'[c].poke.draft[k]
                                 = Apply(handlers[c].poke.draft, News(handlers[c], patches))[k]
            /\ handlers'[c].poke.started => handlers[c].poke.started \/ News(handlers[c], patches) # {}
  <2>1. \A p \in patches : p.value \in Nat
    BY <1>10, <1>11
  <2>2. HandlersType(handlers)
    BY <1>3 DEF ClientType, HandlersType
  <2> QED
    BY <1>12, <2>1, <2>2, AddedPatches
<1>14. /\ At("execute")' /\ ~At("advance")' /\ ~At("catchup")'
  BY <1>4, <1>6 DEF At
<1>15. Removed' = Removed /\ Got' = Got
  BY <1>2, <1>6 DEF Removed, Got
<1>16. ASSUME NEW c \in Clients, Poked(handlers', c)
       PROVE  /\ Poked(handlers, c) /\ handlers'[c].base = handlers[c].base
              /\ handlers[c].base \in Version
  <2>1. Poked(handlers, c) /\ handlers'[c].base = handlers[c].base
    BY <1>13, <1>16 DEF SameBases, Poked
  <2> QED
    BY <1>3, <2>1, ClientFields DEF Poked
<1>17. ASSUME NEW c \in Clients, Poked(handlers', c), handlers'[c].poke.started
       PROVE  Less(handlers[c].base, task.orig) \/ Changing'
  <2>1. CASE handlers[c].poke.started
    BY <1>2, <1>3, <1>9, <1>16, <1>17, <2>1 DEF DraftInv
  <2>2. CASE News(handlers[c], patches) # {}
    <3>1. PICK p \in patches : Less(handlers[c].base, p.at)
      BY <2>2 DEF News
    <3>2. PICK r \in Put(batch) : p.at = SentAt(r)
      BY <1>10
    <3>3. r \in Rows /\ Done(r)' # {} /\ (SameVersion(r) <=> SameVersion(r)')
      BY <1>8, <1>11
    <3>4. CASE SameVersion(r)
      <4>1. /\ p.at = cvr.rows[r].at /\ cvr.rows[r].at \in Version /\ cvr.version \in Version
            /\ Le(cvr.rows[r].at, cvr.version)
        BY <1>3, <3>2, <3>3, <3>4, CVRFields DEF SentAt, Dated
      <4>2. task.orig = cvr.version
        BY <1>3 DEF Executing
      <4> QED
        BY <1>16, <1>17, <3>1, <4>1, <4>2, VersionOrder
    <3>5. CASE ~SameVersion(r)
      BY <3>3, <3>5 DEF Changing
    <3> QED
      BY <3>4, <3>5
  <2> QED
    BY <1>13, <1>17, <2>1, <2>2
<1>18. ASSUME NEW c \in Clients, Poked(handlers', c), ~tabs[c].deaf
       PROVE  DraftSoFar(handlers[c], tabs[c].view)'
  <2>1. /\ \A k \in Keys : handlers'[c].poke.draft[k]
                             = Apply(handlers[c].poke.draft, News(handlers[c], patches))[k]
        /\ handlers'[c].base = handlers[c].base
        /\ DraftSoFar(handlers[c], tabs[c].view)
    BY <1>2, <1>3, <1>13, <1>16, <1>18 DEF DraftInv
  <2>2. \A r \in Rows : handlers'[c].poke.draft[RowKey(r)] =
          IF task'.last[r] # None /\ Less(handlers'[c].base, task'.last[r].to) THEN task'.last[r].ver
          ELSE tabs[c].view[RowKey(r)]
    <3> TAKE r \in Rows
    <3>1. handlers[c].poke.draft[RowKey(r)] =
            IF task.last[r] # None /\ Less(handlers[c].base, task.last[r].to) THEN task.last[r].ver
            ELSE tabs[c].view[RowKey(r)]
      BY <2>1 DEF DraftSoFar
    <3>2. \A p \in patches : p.key = RowKey(r) =>
            r \in Put(batch) /\ p.value = Ver(pipes.snap, r) /\ p.at = SentAt(r)
      BY <1>10, <1>11 DEF RowKey
    <3>3. CASE r \notin Put(batch)
      <4>1. \A p \in News(handlers[c], patches) : p.key # RowKey(r)
        BY <3>2, <3>3 DEF News
      <4>2. handlers'[c].poke.draft[RowKey(r)] = handlers[c].poke.draft[RowKey(r)]
        BY <2>1, <4>1, KeysDiffer, Applied
      <4> QED
        BY <1>7, <2>1, <3>1, <3>3, <4>2
    <3>4. CASE r \in Put(batch) /\ Less(handlers[c].base, SentAt(r))
      <4>1. PICK p \in News(handlers[c], patches) : p.key = RowKey(r)
        BY <1>10, <3>4 DEF News
      <4>2. \A o \in News(handlers[c], patches) : o.key = RowKey(r) => o.value = Ver(pipes.snap, r)
        BY <3>2 DEF News
      <4>3. handlers'[c].poke.draft[RowKey(r)] = Ver(pipes.snap, r)
        BY <2>1, <4>1, <4>2, KeysDiffer, Applied
      <4>4. task'.last[r].ver = Ver(pipes.snap, r) /\ task'.last[r].to = SentAt(r) /\ task'.last[r] # None
        <5>1. task'.last[r] = [ver |-> Ver(pipes.snap, r), to |-> SentAt(r)]
          BY <1>7, <3>4
        <5>2. SentAt(r) \in Version
          BY <1>2, <1>3, CVRFields, TaskFields DEF SentAt
        <5>3. task'.last[r] \in RowPatchInfo
          BY <1>11, <3>4, <5>1, <5>2 DEF RowPatchInfo
        <5> QED
          BY <5>1, <5>3, NoneAssumption
      <4> QED
        BY <2>1, <3>4, <4>3, <4>4
    <3>5. CASE r \in Put(batch) /\ ~Less(handlers[c].base, SentAt(r))
      <4>1. \A p \in News(handlers[c], patches) : p.key # RowKey(r)
        BY <3>2, <3>5 DEF News
      <4>2. handlers'[c].poke.draft[RowKey(r)] = handlers[c].poke.draft[RowKey(r)]
        BY <2>1, <4>1, KeysDiffer, Applied
      <4>3. task.last[r] = None
        BY <1>3, <1>11, <3>5 DEF Executing, ReceivedSoFar
      <4>4. task'.last[r] = [ver |-> Ver(pipes.snap, r), to |-> SentAt(r)]
        BY <1>7, <3>5
      <4>5. task'.last[r].to = SentAt(r)
        BY <4>4
      <4> QED
        BY <2>1, <3>1, <3>5, <4>2, <4>3, <4>5
    <3> QED
      BY <3>3, <3>4, <3>5
  <2>3. \A k \in Keys : (\A r \in Rows : k # RowKey(r)) =>
          handlers'[c].poke.draft[k] = handlers[c].poke.draft[k]
    <3> SUFFICES ASSUME NEW k \in Keys, \A r \in Rows : k # RowKey(r)
                 PROVE  handlers'[c].poke.draft[k] = handlers[c].poke.draft[k]
      OBVIOUS
    <3>1. \A p \in News(handlers[c], patches) : p.key # k
      BY <1>10, <1>11 DEF News
    <3> QED
      BY <2>1, <3>1, Applied
  <2>4. /\ \A q \in Queries : handlers'[c].poke.draft[GotKey(q)] = handlers[c].poke.draft[GotKey(q)]
        /\ \A d \in Clients, q \in Queries :
             handlers'[c].poke.draft[DesiredKey(d, q)] = handlers[c].poke.draft[DesiredKey(d, q)]
    <3>1. \A r \in Rows, q \in Queries : GotKey(q) # RowKey(r)
      BY DEF GotKey, RowKey
    <3>2. \A r \in Rows, d \in Clients, q \in Queries : DesiredKey(d, q) # RowKey(r)
      BY DEF DesiredKey, RowKey
    <3> QED
      BY <2>3, <3>1, <3>2, KeysDiffer
  <2> QED
    BY <1>2, <1>6, <1>15, <2>1, <2>2, <2>4 DEF DraftSoFar
<1>19. DraftInv'
  <2> SUFFICES ASSUME NEW c \in Clients, Poked(handlers', c)
      PROVE  /\ Less(handlers'[c].base, task'.version)
             /\ handlers'[c].poke.started => Less(handlers'[c].base, task'.orig) \/ Changing'
             /\ ~tabs'[c].deaf => DraftSoFar(handlers[c], tabs[c].view)'
    BY <1>14 DEF DraftInv
  <2>1. Less(handlers[c].base, task.version)
    BY <1>2, <1>3, <1>16 DEF DraftInv
  <2> QED
    BY <1>2, <1>6, <1>16, <1>17, <1>18, <2>1
<1>20. Followed'
  <2> SUFFICES ASSUME NEW c \in Clients
               PROVE  /\ Le(tabs'[c].cookie, cvr'.version)
                      /\ handlers'[c] # None => /\ Le(handlers'[c].base, cvr'.version)
                                                /\ ~tabs'[c].deaf => handlers'[c].base = tabs'[c].cookie
    BY <1>14 DEF Followed, Connected
  <2>1. handlers'[c] # None => handlers[c] # None /\ handlers'[c].base = handlers[c].base
    BY <1>13 DEF SameBases
  <2> QED
    BY <1>2, <1>3, <2>1 DEF Followed, Connected
<1>21. ClientType' /\ ViewsMatch'
  BY <1>2, <1>3, <1>13, ViewStays DEF ClientType, HandlersType
<1> QED
  BY <1>4, <1>19, <1>20, <1>21 DEF ViewInv

\* What a flush changes of what the CVR shows is at its version.
LEMMA FlushShows ==
  ASSUME ServerInv, Flush
  PROVE  /\ ShownSteps
         /\ \A q \in Queries : cvr'.queries[q] =
              IF q \in Removed THEN [st |-> "deleted", at |-> task.version]
              ELSE IF q \in task.executed \ Got THEN [st |-> "got", at |-> task.version]
              ELSE cvr.queries[q]
         /\ \A r \in Rows : RowStays(r) => /\ Shown(RowKey(r)).value' = Shown(RowKey(r)).value
                                           /\ Shown(RowKey(r)).at' = Shown(RowKey(r)).at
         /\ \A c \in Clients, q \in Queries :
              /\ Shown(DesiredKey(c, q)).value' = Shown(DesiredKey(c, q)).value
              /\ Shown(DesiredKey(c, q)).at' = Shown(DesiredKey(c, q)).at
<1>1. /\ At("execute") /\ Executing
      /\ cvr'.desires = cvr.desires /\ cvr'.queries = task.queries
      /\ \A r \in Rows : RowStays(r) \/ RowRenewed(r, task.version)
  BY FlushedRows, Zenon
<1>2. /\ ServerType /\ cvr.version \in Version /\ pipes.snap \in Nat
  BY PipesFields, ReplicaStates, CVRFields DEF ServerInv
<1>3. \A q \in Queries : cvr'.queries[q] =
        IF q \in Removed THEN [st |-> "deleted", at |-> task.version]
        ELSE IF q \in task.executed \ Got THEN [st |-> "got", at |-> task.version]
        ELSE cvr.queries[q]
  BY <1>1 DEF Executing, UpdatedQueries
<1>4. Removed # {} \/ task.executed \ Got # {} => Less(cvr.version, task.version)
  BY <1>1, <1>2, NextVersion DEF Executing
<1>5. ASSUME NEW r \in Rows, RowStays(r)
      PROVE  /\ Shown(RowKey(r)).value' = Shown(RowKey(r)).value
             /\ Shown(RowKey(r)).at' = Shown(RowKey(r)).at
  BY <1>5, ShownOf, ShownNext DEF RowStays, Live
<1>6. \A c \in Clients, q \in Queries :
        /\ Shown(DesiredKey(c, q)).value' = Shown(DesiredKey(c, q)).value
        /\ Shown(DesiredKey(c, q)).at' = Shown(DesiredKey(c, q)).at
  BY <1>1, ShownOf, ShownNext
<1>7. ShownSteps
  <2> SUFFICES ASSUME NEW k \in Keys \ Undated'
      PROVE  \/ k \notin Undated /\ Shown(k).value' = Shown(k).value /\ Shown(k).at' = Shown(k).at
             \/ Less(cvr.version, Shown(k).at')
    BY DEF ShownSteps
  <2>1. ASSUME NEW r \in Rows, k = RowKey(r)
        PROVE  \/ k \notin Undated /\ Shown(k).value' = Shown(k).value /\ Shown(k).at' = Shown(k).at
               \/ Less(cvr.version, Shown(k).at')
    <3>1. CASE RowStays(r)
      BY <1>5, <2>1, <3>1, UndatedKeys
    <3>2. CASE RowRenewed(r, task.version)
      BY <2>1, <3>2, ShownNext DEF RowRenewed
    <3> QED
      BY <1>1, <3>1, <3>2
  <2>2. ASSUME NEW q \in Queries, k = GotKey(q)
        PROVE  \/ k \notin Undated /\ Shown(k).value' = Shown(k).value /\ Shown(k).at' = Shown(k).at
               \/ Less(cvr.version, Shown(k).at')
    <3>1. CASE q \in Removed \cup (task.executed \ Got)
      <4>1. cvr'.queries[q].at = task.version
        BY <1>3, <3>1
      <4> QED
        BY <1>4, <2>2, <3>1, <4>1, ShownNext
    <3>2. CASE q \notin Removed \cup (task.executed \ Got)
      <4>1. cvr'.queries[q] = cvr.queries[q]
        BY <1>3, <3>2
      <4> QED
        BY <2>2, <4>1, ShownOf, ShownNext, UndatedKeys
    <3> QED
      BY <3>1, <3>2
  <2>3. ASSUME NEW c \in Clients, NEW q \in Queries, k = DesiredKey(c, q)
        PROVE  k \notin Undated /\ Shown(k).value' = Shown(k).value /\ Shown(k).at' = Shown(k).at
    BY <1>6, <2>3, UndatedKeys
  <2> QED
    BY <2>1, <2>2, <2>3, KeysDiffer
<1> QED
  BY <1>3, <1>5, <1>6, <1>7

\* Clients that were at the version of the CVR, or behind it, have what it shows from then on.
LEMMA FlushDraft ==
  ASSUME ViewInv, Flush, ServerInv', NEW c \in Clients, Poked(handlers, c), ~tabs[c].deaf,
         NEW draft,
         \A k \in Keys : draft[k] = IF \E r \in Unreferenced : k = RowKey(r) THEN 0
                                    ELSE handlers[c].poke.draft[k],
         NEW k \in Keys \ Undated',
         \/ Le(Shown(k).at', handlers[c].base) \/ Less(task.orig, Shown(k).at')
         \/ \E r \in Rows : k = RowKey(r) /\ cvr'.rows[r].refs \cap task.executed # {}
  PROVE  draft[k] = Shown(k).value'
<1>1. /\ At("execute") /\ task.changes = {} /\ Executing
      /\ \A r \in Rows :
           /\ cvr'.rows[r].refs = In(pipes.snap, r) \cap pipes.hydrated
           /\ cvr'.rows[r].refs # {} => cvr'.rows[r].ver = Ver(pipes.snap, r)
           /\ RowStays(r) \/ (RowRenewed(r, task.version) /\ (Done(r) # {} \/ r \in Unreferenced))
  BY FlushedRows, Zenon DEF ViewInv
<1>2. /\ ServerInv /\ ServerType /\ ClientType /\ cvr.version \in Version /\ task.orig = cvr.version
      /\ handlers[c].base = tabs[c].cookie
      /\ Less(handlers[c].base, task.version)
      /\ DraftSoFar(handlers[c], tabs[c].view)
  BY <1>1, CVRFields DEF ViewInv, ServerInv, Executing, Followed, Connected, Poked, DraftInv
<1>3. /\ \A q \in Queries : cvr'.queries[q] =
           IF q \in Removed THEN [st |-> "deleted", at |-> task.version]
           ELSE IF q \in task.executed \ Got THEN [st |-> "got", at |-> task.version]
           ELSE cvr.queries[q]
      /\ \A r \in Rows : RowStays(r) => /\ Shown(RowKey(r)).value' = Shown(RowKey(r)).value
                                        /\ Shown(RowKey(r)).at' = Shown(RowKey(r)).at
      /\ \A d \in Clients, q \in Queries :
           /\ Shown(DesiredKey(d, q)).value' = Shown(DesiredKey(d, q)).value
           /\ Shown(DesiredKey(d, q)).at' = Shown(DesiredKey(d, q)).at
  BY <1>2, FlushShows
\* What did not change is shown, unless the catchup is to send it.
<1>4. ASSUME k \notin Undated, Shown(k).value' = Shown(k).value, Shown(k).at' = Shown(k).at,
             ~ \E r \in Rows : k = RowKey(r) /\ cvr'.rows[r].refs \cap task.executed # {}
      PROVE  tabs[c].view[k] = Shown(k).value'
  <2>1. ~Less(task.orig, Shown(k).at)
    BY <1>2, ShownTyped DEF Le
  <2>2. Le(Shown(k).at, tabs[c].cookie)
    BY <1>2, <1>4, <2>1
  <2> QED
    BY <1>4, <2>2, ViewCurrent
<1>5. ASSUME NEW r \in Rows, k = RowKey(r)
      PROVE  draft[k] = Shown(k).value'
  <2>1. /\ Done(r) = task.executed \cap In(pipes.snap, r)
        /\ Retained(r) \cup Done(r) = In(pipes.snap, r) \cap pipes.hydrated
        /\ r \in Unreceived <=> cvr.rows[r].refs \cap task.tracked # {} /\ Done(r) = {}
    BY <1>1, <1>2, PrunedRows, Zenon
  <2>2. Shown(k).value' = IF cvr'.rows[r].refs # {} THEN cvr'.rows[r].ver ELSE 0
    BY <1>5, ShownNext
  <2>3. handlers[c].poke.draft[k] =
          IF task.last[r] # None /\ Less(handlers[c].base, task.last[r].to) THEN task.last[r].ver
          ELSE tabs[c].view[k]
    BY <1>2, <1>5 DEF DraftSoFar
  <2>4. (\E s \in Unreferenced : k = RowKey(s)) <=> r \in Unreferenced
    BY <1>5 DEF RowKey, Unreferenced, Unreceived
  <2>5. CASE r \in Unreferenced
    <3>1. Retained(r) = {} /\ Done(r) = {}
      BY <2>1, <2>5 DEF Unreferenced
    <3>2. cvr'.rows[r].refs = {}
      BY <1>1, <2>1, <3>1
    <3> QED
      BY <2>2, <2>4, <2>5, <3>2
  <2>6. CASE r \notin Unreferenced /\ Done(r) # {}
    <3>1. draft[k] = handlers[c].poke.draft[k]
      BY <2>4, <2>6
    <3>2. Shown(k).value' = Ver(pipes.snap, r)
      BY <1>1, <2>1, <2>2, <2>6
    <3>3. task.last[r] = [ver |-> Ver(pipes.snap, r), to |-> SentAt(r)]
      BY <1>1, <2>6 DEF Executing, ReceivedSoFar
    <3>4. task.last[r].ver = Ver(pipes.snap, r) /\ task.last[r].to = SentAt(r)
      BY <3>3
    <3>5. CASE Less(handlers[c].base, SentAt(r))
      <4>1. SentAt(r) \in Version /\ Ver(pipes.snap, r) \in Nat
        <5>1. pipes.snap \in 1 .. Len(Replica)
          <6>1. pipes.snap >= 1 /\ pipes.snap \in 0 .. Len(Replica)
            BY <1>1, <1>2, PipesFields DEF ServerInv, Ahead, At
          <6> QED
            BY <6>1
        <5> QED
          BY <1>1, <1>2, <5>1, CVRFields, TaskFields, ReplicaStates DEF SentAt
      <4>2. task.last[r] \in RowPatchInfo
        BY <3>3, <4>1 DEF RowPatchInfo
      <4>3. task.last[r] # None
        BY <4>2, NoneAssumption
      <4> QED
        BY <2>3, <3>1, <3>2, <3>4, <3>5, <4>3
    <3>6. CASE ~Less(handlers[c].base, SentAt(r))
      <4>1. SameVersion(r) /\ Le(cvr.rows[r].at, tabs[c].cookie)
        BY <1>2, <3>6 DEF SentAt, Le
      <4>2. Shown(k).value = Ver(pipes.snap, r) /\ Shown(k).at = cvr.rows[r].at /\ k \notin Undated
        BY <1>5, <4>1, ShownOf, UndatedKeys DEF SameVersion
      <4>3. tabs[c].view[k] = Ver(pipes.snap, r)
        BY <4>1, <4>2, ViewCurrent
      <4> QED
        BY <2>3, <3>1, <3>2, <3>4, <3>6, <4>3
    <3> QED
      BY <3>5, <3>6
  <2>7. CASE r \notin Unreferenced /\ Done(r) = {}
    <3>1. draft[k] = handlers[c].poke.draft[k] /\ task.last[r] = None
      BY <1>1, <2>4, <2>7 DEF Executing, ReceivedSoFar
    <3>2. RowStays(r)
      BY <1>1, <2>7
    <3>3. Shown(k).value' = Shown(k).value /\ Shown(k).at' = Shown(k).at /\ k \notin Undated
      BY <1>3, <1>5, <3>2, UndatedKeys
    <3>4. \A s \in Rows : k = RowKey(s) => s = r
      BY <1>5 DEF RowKey
    <3>5. cvr'.rows[r].refs \cap task.executed = {}
      BY <1>1, <2>1, <2>7
    <3> QED
      BY <1>4, <2>3, <3>1, <3>3, <3>4, <3>5
  <2> QED
    BY <2>5, <2>6, <2>7
<1>6. ASSUME NEW q \in Queries, k = GotKey(q)
      PROVE  draft[k] = Shown(k).value'
  <2>1. \A r : k # RowKey(r)
    BY <1>6 DEF GotKey, RowKey
  <2>2. draft[k] = IF q \in task.executed \ Got THEN 1 ELSE IF q \in Removed THEN 0 ELSE tabs[c].view[k]
    BY <1>2, <1>6, <2>1 DEF DraftSoFar
  <2>3. Shown(k).value' = IF cvr'.queries[q].st = "got" THEN 1 ELSE 0
    BY <1>6, ShownNext
  <2>4. CASE q \in Removed
    <3>1. cvr'.queries[q] = [st |-> "deleted", at |-> task.version] /\ q \notin task.executed
      BY <1>3, <2>4 DEF Removed
    <3>2. cvr'.queries[q].st = "deleted"
      BY <3>1
    <3> QED
      BY <2>2, <2>3, <2>4, <3>1, <3>2
  <2>5. CASE q \notin Removed /\ q \in task.executed \ Got
    <3>1. cvr'.queries[q] = [st |-> "got", at |-> task.version]
      BY <1>3, <2>5
    <3>2. cvr'.queries[q].st = "got"
      BY <3>1
    <3> QED
      BY <2>2, <2>3, <2>5, <3>2
  <2>6. CASE q \notin Removed /\ q \notin task.executed \ Got
    <3>1. cvr'.queries[q] = cvr.queries[q]
      BY <1>3, <2>6
    <3>2. k \notin Undated /\ Shown(k).value' = Shown(k).value /\ Shown(k).at' = Shown(k).at
      BY <1>6, <3>1, ShownOf, ShownNext, UndatedKeys
    <3> QED
      BY <1>4, <2>1, <2>2, <2>6, <3>2
  <2> QED
    BY <2>4, <2>5, <2>6
<1>7. ASSUME NEW d \in Clients, NEW q \in Queries, k = DesiredKey(d, q)
      PROVE  draft[k] = Shown(k).value'
  <2>1. \A r : k # RowKey(r)
    BY <1>7 DEF DesiredKey, RowKey
  <2>2. draft[k] = tabs[c].view[k]
    BY <1>2, <1>7, <2>1 DEF DraftSoFar
  <2>3. k \notin Undated /\ Shown(k).value' = Shown(k).value /\ Shown(k).at' = Shown(k).at
    BY <1>3, <1>7, UndatedKeys
  <2> QED
    BY <1>4, <2>1, <2>2, <2>3
<1> QED
  BY <1>5, <1>6, <1>7, KeysDiffer

\* A flush: the clients of the execution are to be caught up with what was before it.
LEMMA FlushView ==
  ASSUME ViewInv, Flush
  PROVE  ViewInv'
<1> DEFINE patches == {Patch(RowKey(r), 0, task.version) : r \in Unreferenced}
<1>1. /\ At("execute") /\ task.changes = {} /\ Executing
      /\ cvr' = cvr \/ cvr'.version = task.version
      /\ cvr'.queries = task.queries
      /\ \A r \in Rows :
           /\ cvr'.rows[r].refs = In(pipes.snap, r) \cap pipes.hydrated
           /\ cvr'.rows[r].refs # {} => cvr'.rows[r].ver = Ver(pipes.snap, r)
      /\ task' \in UpdateTask /\ task'.at = "catchup" /\ task'.orig = task.orig
      /\ task'.version = task.version /\ task'.executed = task.executed
  BY FlushedRows, Zenon DEF ViewInv
<1>2. /\ ServerInv /\ ServerType /\ ClientType /\ Followed /\ DraftInv
      /\ cvr.version \in Version /\ task.orig = cvr.version
      /\ handlers' = AddPatches(handlers, patches) /\ UNCHANGED tabs
      /\ ServerInv' /\ Le(cvr.version, cvr'.version) /\ cvr'.version \in Version
  <2>1. ServerInv' /\ Le(cvr.version, cvr'.version)
    BY FlushServer DEF ViewInv
  <2>2. cvr'.version \in Version
    BY <2>1 DEF ServerInv, ServerType, CVRType
  <2> QED
    BY <1>1, <2>1, <2>2, CVRFields DEF ViewInv, ServerInv, Executing, Flush
<1>3. /\ \A p \in patches : p.at = task.version /\ p.value = 0 /\ \E r \in Unreferenced : p.key = RowKey(r)
      /\ \A r \in Unreferenced : \E p \in patches : p.key = RowKey(r)
  <2>1. \A r : /\ Patch(RowKey(r), 0, task.version).at = task.version
               /\ Patch(RowKey(r), 0, task.version).value = 0
               /\ Patch(RowKey(r), 0, task.version).key = RowKey(r)
    BY DEF Patch
  <2> QED
    BY <2>1
<1> HIDE DEF patches
<1>4. /\ HandlersType(handlers') /\ SameBases(handlers', handlers)
      /\ \A c \in Clients : Poked(handlers', c) =>
           /\ Poked(handlers, c)
           /\ \A k \in Keys : handlers'[c].poke.draft[k]
                                = Apply(handlers[c].poke.draft, News(handlers[c], patches))[k]
           /\ handlers'[c].poke.started => handlers[c].poke.started \/ News(handlers[c], patches) # {}
  <2>1. \A p \in patches : p.value \in Nat
    BY <1>3
  <2>2. HandlersType(handlers)
    BY <1>2 DEF ClientType, HandlersType
  <2> QED
    BY <1>2, <2>1, <2>2, AddedPatches
<1>5. /\ At("catchup")' /\ ~At("advance")' /\ ~At("execute")'
  BY <1>1, NoneAssumption DEF At
<1>6. ASSUME NEW c \in Clients, Poked(handlers', c)
      PROVE  /\ Poked(handlers, c) /\ handlers'[c].base = handlers[c].base
             /\ handlers[c].base \in Version /\ Less(handlers[c].base, task.version)
             /\ \A k \in Keys : handlers'[c].poke.draft[k] =
                  IF \E r \in Unreferenced : k = RowKey(r) THEN 0 ELSE handlers[c].poke.draft[k]
  <2>1. Poked(handlers, c) /\ handlers'[c].base = handlers[c].base
    BY <1>4, <1>6 DEF SameBases, Poked
  <2>2. handlers[c].base \in Version /\ Less(handlers[c].base, task.version)
    BY <1>1, <1>2, <2>1, ClientFields DEF Poked, DraftInv
  <2>3. News(handlers[c], patches) = patches
    BY <1>3, <2>2 DEF News
  <2>4. ASSUME NEW k \in Keys
        PROVE  handlers'[c].poke.draft[k] =
                 IF \E r \in Unreferenced : k = RowKey(r) THEN 0 ELSE handlers[c].poke.draft[k]
    <3>1. handlers'[c].poke.draft[k] = Apply(handlers[c].poke.draft, patches)[k]
      BY <1>4, <1>6, <2>3
    <3>2. CASE \E r \in Unreferenced : k = RowKey(r)
      <4>1. PICK p \in patches : p.key = k
        BY <1>3, <3>2
      <4>2. \A o \in patches : o.key = k => o.value = p.value
        BY <1>3
      <4> QED
        BY <1>3, <3>1, <3>2, <4>1, <4>2, Applied
    <3>3. CASE ~ \E r \in Unreferenced : k = RowKey(r)
      <4>1. \A p \in patches : p.key # k
        BY <1>3, <3>3
      <4> QED
        BY <3>1, <3>3, <4>1, Applied
    <3> QED
      BY <3>2, <3>3
  <2> QED
    BY <2>1, <2>2, <2>4
<1>7. Changing => cvr' # cvr
  <2>1. ASSUME NEW r \in Rows, Done(r) # {}, ~SameVersion(r), cvr' = cvr
        PROVE  FALSE
    <3>1. Retained(r) \cup Done(r) = In(pipes.snap, r) \cap pipes.hydrated
      BY <1>1, <1>2, PrunedRows, Zenon
    <3>2. cvr.rows[r].refs # {} /\ cvr.rows[r].ver = Ver(pipes.snap, r)
      BY <1>1, <2>1, <3>1
    <3> QED
      BY <2>1, <3>2 DEF SameVersion, Live
  <2> QED
    BY <1>1, <2>1 DEF Changing
<1>8. Unreferenced # {} => cvr' # cvr
  <2> SUFFICES ASSUME NEW r \in Unreferenced, cvr' = cvr PROVE FALSE
    OBVIOUS
  <2>1. r \in Rows /\ r \in Unreceived /\ Retained(r) = {} /\ cvr.rows[r].refs \cap task.tracked # {}
    BY DEF Unreferenced, Unreceived
  <2>2. /\ Retained(r) \cup Done(r) = In(pipes.snap, r) \cap pipes.hydrated
        /\ Done(r) = {}
    BY <1>1, <1>2, <2>1, PrunedRows, Zenon
  <2>3. cvr.rows[r].refs = {}
    BY <1>1, <2>1, <2>2
  <2> QED
    BY <2>1, <2>3
<1>9. ASSUME NEW c \in Clients, Poked(handlers', c), handlers'[c].poke.started
      PROVE  Less(handlers[c].base, cvr'.version)
  <2>1. CASE cvr' # cvr
    BY <1>1, <1>6, <1>9, <2>1
  <2>2. CASE cvr' = cvr
    <3>1. ~Changing /\ patches = {}
      BY <1>3, <1>7, <1>8, <2>2
    <3>2. handlers[c].poke.started
      BY <1>4, <1>9, <3>1 DEF News
    <3>3. Less(handlers[c].base, task.orig)
      BY <1>1, <1>2, <1>6, <1>9, <3>1, <3>2 DEF DraftInv
    <3> QED
      BY <1>2, <2>2, <3>3
  <2> QED
    BY <2>1, <2>2
<1>10. ASSUME NEW c \in Clients, Poked(handlers', c), ~tabs[c].deaf
       PROVE  DraftToCatchUp(handlers[c])'
  <2>1. \A k : Excluded(k)' <=> \E r \in Rows : k = RowKey(r) /\ cvr'.rows[r].refs \cap task.executed # {}
    BY <1>1 DEF Excluded
  <2> SUFFICES ASSUME NEW k \in Keys \ Undated',
                      \/ Le(Shown(k).at', handlers[c].base) \/ Less(task.orig, Shown(k).at')
                      \/ \E r \in Rows : k = RowKey(r) /\ cvr'.rows[r].refs \cap task.executed # {}
               PROVE  handlers'[c].poke.draft[k] = Shown(k).value'
    BY <1>1, <1>6, <1>10, <2>1 DEF DraftToCatchUp, Le
  <2> DEFINE draft == handlers'[c].poke.draft
  <2>2. \A x \in Keys : draft[x] = IF \E r \in Unreferenced : x = RowKey(r) THEN 0
                                   ELSE handlers[c].poke.draft[x]
    BY <1>6, <1>10
  <2> HIDE DEF draft
  <2>3. draft[k] = Shown(k).value'
    BY <1>2, <1>6, <1>10, <2>2, FlushDraft
  <2> QED
    BY <2>3 DEF draft
<1>11. DraftInv'
  BY <1>2, <1>5, <1>6, <1>9, <1>10 DEF DraftInv
<1>12. Followed'
  <2> SUFFICES ASSUME NEW c \in Clients
               PROVE  /\ Le(tabs'[c].cookie, cvr'.version)
                      /\ handlers'[c] # None => /\ Le(handlers'[c].base, cvr'.version)
                                                /\ ~tabs'[c].deaf => handlers'[c].base = tabs'[c].cookie
    BY <1>5 DEF Followed, Connected
  <2>1. handlers'[c] # None => /\ handlers[c] # None /\ handlers'[c].base = handlers[c].base
                               /\ handlers[c].base \in Version
    BY <1>2, <1>4, ClientFields DEF SameBases
  <2>2. Le(tabs[c].cookie, cvr.version) /\ tabs[c].cookie \in Version
    BY <1>2, ClientFields DEF Followed
  <2>3. handlers'[c] # None => Le(handlers[c].base, cvr.version)
                               /\ (~tabs[c].deaf => handlers[c].base = tabs[c].cookie)
    BY <1>2, <2>1 DEF Followed, Connected
  <2> QED
    BY <1>2, <2>1, <2>2, <2>3, VersionOrder
<1>13. ViewsMatch'
  <2>1. ShownSteps
    BY <1>2, FlushShows
  <2> QED
    BY <1>2, <2>1, ViewKept DEF ViewsMatch
<1>14. ClientType'
  BY <1>2, <1>4 DEF ClientType, HandlersType
<1> QED
  BY <1>2, <1>11, <1>12, <1>13, <1>14 DEF ViewInv

\* What the clients lack when an execution is flushed, the catchup sends.
LEMMA CatchUpView ==
  ASSUME ViewInv, CatchUp
  PROVE  ViewInv'
<1> DEFINE gs == AddPatches(handlers, CatchupPatches(task.orig, task.executed))
<1>1. /\ At("catchup") /\ UNCHANGED cvr /\ EndPokes(gs, cvr'.version)
  BY DEF CatchUp, At
<1>2. /\ ServerInv /\ ServerType /\ ClientType /\ DraftInv /\ InLine /\ ServerInv'
      /\ cvr.version \in Version /\ task.orig \in Version /\ Le(task.orig, cvr.version)
  <2>1. /\ ServerInv /\ ServerType /\ ClientType /\ DraftInv /\ InLine /\ Le(task.orig, cvr.version)
    BY <1>1 DEF ViewInv, ServerInv, PipelineInv
  <2> QED
    BY <1>1, <2>1, CatchUpServer, CVRFields, TaskFields
<1>3. gs = AddPatches(handlers, CatchupPatches(task.orig, task.executed))
  OBVIOUS
<1> HIDE DEF gs
<1>4. /\ HandlersType(gs) /\ SameBases(gs, handlers)
      /\ \A c \in Clients : Poked(gs, c) => Poked(handlers, c)
      /\ \A c \in Clients, k \in Keys : Poked(gs, c) =>
           \/ gs[c].poke.draft[k] = Shown(k).value
           \/ /\ gs[c].poke.draft[k] = handlers[c].poke.draft[k]
              /\ \/ Le(Shown(k).at, handlers[c].base) \/ Less(task.orig, Shown(k).at)
                 \/ \E r \in Rows : k = RowKey(r) /\ cvr.rows[r].refs \cap task.executed # {}
  <2>1. HandlersType(handlers) /\ SameBases(handlers, handlers)
    BY <1>2 DEF ClientType, HandlersType, SameBases
  <2> QED
    BY <1>2, <1>3, <2>1, CaughtUp
<1>5. /\ \A k : Shown(k)' = Shown(k)
      /\ Undated' = Undated
  BY <1>1 DEF Shown, Live, Undated
<1>6. \A k : Shown(k).value' = Shown(k).value /\ Shown(k).at' = Shown(k).at
  BY <1>5
<1>7. ShownSteps
  BY <1>5, <1>6 DEF ShownSteps
<1>8. ASSUME NEW c \in Clients, Ends(gs, c, cvr'.version), ~tabs[c].deaf, NEW k \in Keys \ Undated'
      PROVE  gs[c].poke.draft[k] = Shown(k).value'
  <2>1. Poked(gs, c) /\ Poked(handlers, c)
    BY <1>4, <1>8 DEF Ends
  <2>2. DraftToCatchUp(handlers[c])
    BY <1>1, <1>2, <1>8, <2>1 DEF DraftInv
  <2>3. k \in Keys \ Undated
    BY <1>5
  <2>4. \/ gs[c].poke.draft[k] = Shown(k).value
        \/ /\ gs[c].poke.draft[k] = handlers[c].poke.draft[k]
           /\ \/ Le(Shown(k).at, handlers[c].base) \/ Less(task.orig, Shown(k).at) \/ Excluded(k)
    BY <1>4, <2>1, <2>3 DEF Excluded
  <2>5. gs[c].poke.draft[k] = Shown(k).value
    BY <2>2, <2>3, <2>4 DEF DraftToCatchUp
  <2> QED
    BY <1>6, <2>5
<1>9. Le(cvr.version, cvr'.version)
  BY <1>1, <1>2, VersionOrder
<1>10. (ClientType /\ Followed /\ DraftInv /\ ViewsMatch)'
  BY <1>1, <1>2, <1>4, <1>7, <1>8, <1>9, Ended
<1> QED
  BY <1>2, <1>10 DEF ViewInv

-----------------------------------------------------------------------------
(* The clients of an advancement *)

LEMMA AdvanceView ==
  ASSUME ViewInv, Advance
  PROVE  ViewInv'
<1> DEFINE t == Updater("advance", db, {}, {}, Diff(pipes.snap, db))
<1>1. /\ task = None /\ UNCHANGED <<cvr, tabs>>
      /\ task' = t /\ handlers' = StartPoke(ClientsAt(cvr.version), t.version)
  BY DEF Advance, UpToDate
<1>2. t.at = "advance" /\ t.orig = cvr.version
  BY DEF Updater
<1> HIDE DEF t
<1>3. /\ ServerInv /\ ServerType /\ ClientType /\ Followed /\ ViewsMatch
      /\ ServerInv' /\ cvr.version \in Version /\ task' # None
  BY AdvanceServer, CVRFields DEF ViewInv, ServerInv
<1>4. /\ HandlersType(handlers') /\ SameBases(handlers', handlers)
      /\ \A c \in Clients : Poked(handlers', c) =>
           \/ Poked(handlers, c) /\ handlers'[c] = handlers[c]
           \/ /\ c \in ClientsAt(cvr.version)
              /\ handlers'[c].poke = [started |-> FALSE, draft |-> tabs[c].view]
  <2>1. ClientsAt(cvr.version) \in SUBSET AllClients
    BY DEF ClientsAt
  <2> QED
    BY <1>1, <1>3, <2>1, StartedPokes
<1>5. ~At("execute")' /\ ~At("catchup")'
  BY <1>1, <1>2 DEF At
<1>6. ASSUME NEW c \in Clients, Poked(handlers', c)
      PROVE  handlers'[c].base = task'.orig /\ handlers'[c].poke.draft = tabs'[c].view
  <2>1. ~Poked(handlers, c)
    BY <1>1, NotPoked
  <2>2. /\ c \in ClientsAt(cvr.version)
        /\ handlers'[c].poke = [started |-> FALSE, draft |-> tabs[c].view]
    BY <1>4, <1>6, <2>1
  <2>3. handlers[c] # None /\ handlers[c].base = cvr.version
    BY <2>2 DEF ClientsAt, AllClients, Connected
  <2>4. handlers'[c].poke.draft = tabs[c].view
    BY <2>2
  <2> QED
    BY <1>1, <1>2, <1>4, <1>6, <2>3, <2>4 DEF SameBases, Poked
<1>7. At("advance")'
  BY <1>1, <1>2, <1>3 DEF At
<1>8. DraftInv'
  BY <1>5, <1>6 DEF DraftInv
<1>9. Followed'
  <2> SUFFICES ASSUME NEW c \in Clients
               PROVE  /\ Le(tabs'[c].cookie, cvr'.version)
                      /\ handlers'[c] # None => /\ Le(handlers'[c].base, cvr'.version)
                                                /\ ~tabs'[c].deaf => handlers'[c].base = tabs'[c].cookie
    BY <1>7 DEF Followed, Connected
  <2>1. handlers'[c] # None => handlers[c] # None /\ handlers'[c].base = handlers[c].base
    BY <1>4 DEF SameBases
  <2> QED
    BY <1>1, <1>3, <2>1 DEF Followed, Connected
<1>10. ClientType' /\ ViewsMatch'
  BY <1>1, <1>3, <1>4, ViewStays DEF ClientType, HandlersType
<1> QED
  BY <1>3, <1>8, <1>9, <1>10 DEF ViewInv

\* Those that were at the version of the CVR are shown what it shows after the advancement.
LEMMA FinishAdvanceView ==
  ASSUME ViewInv, FinishAdvance
  PROVE  ViewInv'
<1> DEFINE patches == RowPatches(task.changes)
           gs == AddPatches(handlers, patches)
<1>1. /\ At("advance") /\ Advancing
      /\ cvr'.desires = cvr.desires /\ cvr'.queries = cvr.queries
      /\ \A r \in Rows :
           /\ cvr'.rows[r].refs = In(pipes.snap, r) \cap Got
           /\ cvr'.rows[r].refs # {} => cvr'.rows[r].ver = Ver(pipes.snap, r)
           /\ RowStays(r) \/ RowRenewed(r, task.version)
      /\ \A p \in patches :
           /\ p.value \in Nat
           /\ \E r \in Rows : p.key = RowKey(r)
           /\ \A r \in Rows : p.key = RowKey(r) => p.value = Latest(r)
      /\ \A r \in Rows : \/ ShownNow(r) = Latest(r)
                         \/ \E p \in patches : p.key = RowKey(r) /\ Less(task.orig, p.at)
  BY AdvancedRows, Zenon DEF ViewInv
<1>2. /\ ServerInv /\ ServerType /\ ClientType /\ Followed /\ DraftInv /\ ServerInv'
      /\ Le(cvr.version, cvr'.version) /\ task.orig = cvr.version
      /\ EndPokes(gs, cvr'.version)
  BY <1>1, FinishAdvanceServer DEF ViewInv, ServerInv, Advancing, FinishAdvance
<1> HIDE DEF patches
<1>3. gs = AddPatches(handlers, patches)
  OBVIOUS
<1> HIDE DEF gs
<1>4. /\ HandlersType(gs) /\ SameBases(gs, handlers)
      /\ \A c \in Clients : Poked(gs, c) =>
           /\ Poked(handlers, c)
           /\ \A k \in Keys : gs[c].poke.draft[k]
                                = Apply(handlers[c].poke.draft, News(handlers[c], patches))[k]
  <2>1. HandlersType(handlers) /\ \A p \in patches : p.value \in Nat
    BY <1>1, <1>2 DEF ClientType, HandlersType
  <2> QED
    BY <1>3, <2>1, AddedPatches
<1>5. ASSUME NEW r \in Rows
      PROVE  /\ Shown(RowKey(r)).value' = Latest(r) /\ Shown(RowKey(r)).value = ShownNow(r)
             /\ \/ /\ Shown(RowKey(r)).value' = Shown(RowKey(r)).value
                   /\ Shown(RowKey(r)).at' = Shown(RowKey(r)).at
                \/ Less(cvr.version, Shown(RowKey(r)).at')
  <2>1. Shown(RowKey(r)).value' = Latest(r) /\ Shown(RowKey(r)).value = ShownNow(r)
    BY <1>1, ShownOf, ShownNext DEF Latest, ShownNow
  <2>2. CASE RowStays(r)
    BY <2>1, <2>2, ShownOf, ShownNext DEF RowStays, Live
  <2>3. CASE RowRenewed(r, task.version)
    BY <2>1, <2>3, ShownNext DEF RowRenewed
  <2> QED
    BY <1>1, <2>1, <2>2, <2>3
<1>6. /\ \A q \in Queries : /\ Shown(GotKey(q)).value' = Shown(GotKey(q)).value
                            /\ Shown(GotKey(q)).at' = Shown(GotKey(q)).at
      /\ \A d \in Clients, q \in Queries :
           /\ Shown(DesiredKey(d, q)).value' = Shown(DesiredKey(d, q)).value
           /\ Shown(DesiredKey(d, q)).at' = Shown(DesiredKey(d, q)).at
      /\ Undated' = Undated
  BY <1>1, ShownOf, ShownNext DEF Undated
<1>7. ShownSteps
  <2> SUFFICES ASSUME NEW k \in Keys \ Undated'
      PROVE  \/ k \notin Undated /\ Shown(k).value' = Shown(k).value /\ Shown(k).at' = Shown(k).at
             \/ Less(cvr.version, Shown(k).at')
    BY DEF ShownSteps
  <2> QED
    BY <1>5, <1>6, KeysDiffer
<1>8. ASSUME NEW c \in Clients, Ends(gs, c, cvr'.version), ~tabs[c].deaf, NEW k \in Keys \ Undated'
      PROVE  gs[c].poke.draft[k] = Shown(k).value'
  <2>1. Poked(gs, c) /\ Poked(handlers, c)
    BY <1>4, <1>8 DEF Ends
  <2>2. handlers[c].base = task.orig /\ handlers[c].poke.draft = tabs[c].view
    BY <1>1, <1>2, <1>8, <2>1 DEF DraftInv
  <2>3. tabs[c].cookie = cvr.version
    BY <1>2, <1>8, <2>1, <2>2 DEF Followed, Connected, Poked
  <2>4. tabs[c].view[k] = Shown(k).value
    BY <1>2, <1>6, <2>3, ShownTyped, ViewCurrent
  <2>5. gs[c].poke.draft[k] = Apply(tabs[c].view, News(handlers[c], patches))[k]
    BY <1>4, <2>1, <2>2
  <2>6. ASSUME NEW r \in Rows, k = RowKey(r)
        PROVE  gs[c].poke.draft[k] = Shown(k).value'
    <3>1. CASE \E p \in News(handlers[c], patches) : p.key = k
      <4>1. PICK p \in News(handlers[c], patches) : p.key = k
        BY <3>1
      <4>2. \A o \in News(handlers[c], patches) : o.key = k => o.value = Latest(r)
        BY <1>1, <2>6 DEF News
      <4>3. Apply(tabs[c].view, News(handlers[c], patches))[k] = Latest(r)
        BY <4>1, <4>2, Applied
      <4> QED
        BY <1>5, <2>5, <2>6, <4>3
    <3>2. CASE ~ \E p \in News(handlers[c], patches) : p.key = k
      <4>1. gs[c].poke.draft[k] = tabs[c].view[k]
        BY <2>5, <3>2, Applied
      <4>2. ShownNow(r) = Latest(r)
        BY <1>1, <2>2, <2>6, <3>2 DEF News
      <4> QED
        BY <1>5, <2>4, <2>6, <4>1, <4>2
    <3> QED
      BY <3>1, <3>2
  <2>7. ASSUME \A r \in Rows : k # RowKey(r)
        PROVE  gs[c].poke.draft[k] = Shown(k).value'
    <3>1. \A p \in News(handlers[c], patches) : p.key # k
      BY <1>1, <2>7 DEF News
    <3>2. gs[c].poke.draft[k] = tabs[c].view[k]
      BY <2>5, <3>1, Applied
    <3>3. Shown(k).value' = Shown(k).value
      BY <1>6, <2>7, KeysDiffer
    <3> QED
      BY <2>4, <3>2, <3>3
  <2> QED
    BY <2>6, <2>7
<1>9. (ClientType /\ Followed /\ DraftInv /\ ViewsMatch)'
  BY <1>2, <1>4, <1>7, <1>8, Ended
<1> QED
  BY <1>2, <1>9 DEF ViewInv

-----------------------------------------------------------------------------
(* The theorems about the clients *)

LEMMA ViewInit ==
  ASSUME Init
  PROVE  ViewInv
<1>1. /\ handlers = [c \in Clients |-> None]
      /\ cvr.version = ZeroVersion /\ ZeroVersion \in Version
      /\ tabs = [c \in Clients |-> [wants |-> InitialWants[c], cookie |-> ZeroVersion,
                                    view |-> [k \in Keys |-> 0], deaf |-> FALSE]]
  BY DEF Init, NoHandlers, ZeroVersion, Version
<1>2. ASSUME NEW c \in Clients
      PROVE  /\ tabs[c] \in Tab /\ tabs[c].cookie = ZeroVersion
             /\ \A k \in Keys : tabs[c].view[k] = 0
  <2> DEFINE view == [k \in Keys |-> 0]
  <2>1. view \in [Keys -> Nat] /\ \A k \in Keys : view[k] = 0
    OBVIOUS
  <2>2. tabs[c] = [wants |-> InitialWants[c], cookie |-> ZeroVersion, view |-> view, deaf |-> FALSE]
    BY <1>1
  <2> HIDE DEF view
  <2>3. InitialWants[c] \in SUBSET Queries
    BY ViewSyncerAssumption
  <2>4. tabs[c].view = view /\ tabs[c].cookie = ZeroVersion
    BY <2>2
  <2> QED
    BY <1>1, <2>1, <2>2, <2>3, <2>4 DEF Tab
<1>3. ClientType
  BY <1>1, <1>2 DEF ClientType
<1>4. \A c \in Clients : ~Connected(c) /\ ~Poked(handlers, c)
  BY <1>1 DEF Connected, Poked
<1>5. Followed
  BY <1>1, <1>2, <1>4, VersionOrder DEF Followed
<1>6. DraftInv
  BY <1>4 DEF DraftInv
<1>7. \A k \in Keys : Shown(k).value = 0
  <2>1. /\ \A r \in Rows : ~Live(r)
        /\ \A q \in Queries : cvr.queries[q].st = "unknown"
        /\ \A c \in Clients, q \in Queries : cvr.desires[c][q].st = "none"
    BY DEF Init, Live, NoRow
  <2> QED
    BY <2>1, ShownOf, KeysDiffer
<1>8. ViewsMatch
  BY <1>2, <1>7 DEF ViewsMatch
<1> QED
  BY <1>3, <1>5, <1>6, <1>8, ServerInit DEF ViewInv

LEMMA ViewStep ==
  ASSUME ViewInv, "earlyExpiry" \notin Environment, [Next]_vars
  PROVE  ViewInv'
<1>1. ServerInv' /\ ServerInv
  BY ServerStep DEF ViewInv
<1>2. ASSUME NEW c \in Clients, Connect(c) \/ LoseConnection(c) \/ Disconnect(c)
      PROVE  ViewInv'
  BY <1>2, ConnectView, LoseConnectionView, DisconnectView
<1>3. ASSUME NEW c \in Clients, HandleMessage(c)
      PROVE  ViewInv'
  BY <1>3, HandleMessageView
<1>4. ASSUME NEW c \in Clients, NEW q \in Queries, ChangeDesiredQueries(c, q)
      PROVE  ViewInv'
  BY <1>4, ChangeDesiredQueriesView
<1>5. CASE ReplicaAdvances
  BY <1>1, <1>5, NoClientChange DEF ReplicaAdvances
<1>6. CASE UNCHANGED vars
  BY <1>1, <1>6, NoClientChange DEF vars
<1>7. CASE Sync
  BY <1>7, SyncView
<1>8. CASE ExpireQueries
  BY <1>8, ExpireView
<1>9. CASE Execute
  BY <1>9, ExecuteView
<1>10. CASE Flush
  BY <1>10, FlushView
<1>11. CASE CatchUp
  BY <1>11, CatchUpView
<1>12. CASE StartPipelines
  BY <1>1, <1>12, NoClientChange DEF StartPipelines
<1>13. CASE Advance
  BY <1>13, AdvanceView
<1>14. CASE FinishAdvance
  BY <1>14, FinishAdvanceView
<1>15. CASE ResetPipelines
  BY <1>15, ResetPipelinesView
<1>16. CASE Restart
  BY <1>16, RestartView
<1> QED
  BY <1>2, <1>3, <1>4, <1>5, <1>6, <1>7, <1>8, <1>9, <1>10, <1>11, <1>12, <1>13, <1>14, <1>15, <1>16
     DEF Next

\* Whatever a client has been poked with, however often it lost its connection, and whenever
\* the view syncer was run anew: it is shown all that the CVR says it was shown by the version
\* of its cookie.  A poke is for clients of different versions at once (startPoke()), sends to
\* each what is later than its own (addPatch()), and leaves to the catchup what was there
\* before, but for the rows of the queries that are executed.
THEOREM ViewsAreCurrent ==
  ASSUME "earlyExpiry" \notin Environment
  PROVE  Spec => []ViewsMatch
<1>1. ViewInv /\ [Next]_vars => ViewInv'
  BY ViewStep
<1>2. ViewInv => ViewsMatch
  BY DEF ViewInv
<1> QED
  BY <1>1, <1>2, ViewInit, PTL DEF Spec

LEMMA ExecutionAsserts ==
  ASSUME ServerInv, At("execute")
  PROVE  /\ \A r \in RowsOf(task.changes) :
              ~Unchanged(task.changes, r) => Less(task.orig, task.version)
         /\ task.changes = {} /\ Unreferenced # {} => Less(task.orig, task.version)
<1>1. ASSUME NEW r \in RowsOf(task.changes), ~Unchanged(task.changes, r)
      PROVE  Less(task.orig, task.version)
  <2>1. r \in Rows /\ ~SameVersion(r) /\ Having(task.changes, r, {"add"}) # {}
    BY <1>1, Batch
  <2>2. PICK q \in Queries : <<q, r, "add">> \in task.changes
    BY <2>1 DEF Having
  <2>3. \A x \in task.changes : x[1] \in task.executed /\ x[1] \in In(pipes.snap, x[2])
    BY DEF ServerInv, PipelineInv, Executing
  <2>4. q \in task.executed \cap In(pipes.snap, r)
    BY <2>2, <2>3
  <2> QED
    BY <2>1, <2>4, ExecutionVersion
<1>2. ASSUME task.changes = {}, NEW r \in Unreferenced
      PROVE  Less(task.orig, task.version)
  <2>1. r \in Rows /\ r \in Unreceived
    BY DEF Unreferenced, Unreceived
  <2>2. cvr.rows[r].refs \cap task.tracked # {} /\ task.executed \cap In(pipes.snap, r) = {}
    BY <1>2, <2>1, PrunedRows, Zenon
  <2> QED
    BY <2>1, <2>2, ExecutionVersion
<1> QED
  BY <1>1, <1>2

LEMMA CatchupAsserts ==
  ASSUME ServerInv, At("catchup"), NEW r \in Rows, Live(r)
  PROVE  Replica[pipes.snap][r].version # 0
<1>1. /\ Matches(Got) /\ cvr.rows[r].refs \subseteq Got /\ ServerType /\ pipes.snap >= 1
  BY DEF ServerInv, PipelineInv, InLine, Recorded, Ahead, At
<1>2. pipes.snap \in 1 .. Len(Replica)
  <2>1. pipes.snap \in 0 .. Len(Replica)
    BY <1>1, PipesFields
  <2> QED
    BY <1>1, <2>1
<1>3. In(pipes.snap, r) # {}
  BY <1>1 DEF Matches, Live
<1> QED
  BY <1>2, <1>3, ReplicaStates DEF Ver

\* The assertions of the code do not fail: received() and deleteUnreferencedRows() have a new
\* version for what they change (assertNewVersion()), the pipelines of an advancement are of
\* queries the CVR has got, #catchupClients() finds the rows that it sends, and end() never
\* ends a poke that was started at the version it began with.
THEOREM NoAssertionFails ==
  ASSUME "earlyExpiry" \notin Environment
  PROVE  Spec => []AssertionsHold
<1>1. ViewInv /\ [Next]_vars => ViewInv'
  BY ViewStep
<1>2. ViewInv => AssertionsHold
  <2> SUFFICES ASSUME ViewInv PROVE AssertionsHold
    OBVIOUS
  <2>1. ServerInv /\ DraftInv
    BY DEF ViewInv
  <2>2. ASSUME At("execute")
        PROVE  /\ \A r \in RowsOf(task.changes) :
                    ~Unchanged(task.changes, r) => Less(task.orig, task.version)
               /\ task.changes = {} /\ Unreferenced # {} => Less(task.orig, task.version)
    BY <2>1, <2>2, ExecutionAsserts
  <2>3. ASSUME At("advance")
        PROVE  /\ \A r \in RowsOf(task.changes) : Less(task.orig, task.version)
               /\ pipes.hydrated \subseteq Got
    <3>1. \A r \in RowsOf(task.changes) : Less(task.orig, task.version)
      BY <2>1, <2>3, AdvanceBatch, Zenon
    <3>2. pipes.hydrated \subseteq Got
      BY <2>1, <2>3 DEF ServerInv, PipelineInv, Advancing
    <3> QED
      BY <3>1, <3>2
  <2>4. ASSUME At("catchup")
        PROVE  /\ \A r \in CaughtUpRows(CatchupFrom(task.orig), task.orig, task.executed) :
                    Live(r) => Replica[pipes.snap][r].version # 0
               /\ \A c \in Clients : Poked(handlers, c) /\ handlers[c].poke.started =>
                    Less(handlers[c].base, cvr.version)
    <3>1. \A r \in Rows : Live(r) => Replica[pipes.snap][r].version # 0
      BY <2>1, <2>4, CatchupAsserts
    <3>2. \A c \in Clients : Poked(handlers, c) /\ handlers[c].poke.started =>
            Less(handlers[c].base, cvr.version)
      BY <2>1, <2>4 DEF DraftInv
    <3>3. CaughtUpRows(CatchupFrom(task.orig), task.orig, task.executed) \subseteq Rows
      BY DEF CaughtUpRows
    <3> QED
      BY <3>1, <3>2, <3>3
  <2> QED
    BY <2>2, <2>3, <2>4 DEF AssertionsHold, At
<1> QED
  BY <1>1, <1>2, ViewInit, PTL DEF Spec

\* The state of the view syncer and of its clients is what it is declared to be.
THEOREM TypesCorrect ==
  ASSUME "earlyExpiry" \notin Environment
  PROVE  Spec => []TypeOK
<1>1. ViewInv => TypeOK
  BY DEF ViewInv, ServerInv, TypeOK
<1>2. ViewInv /\ [Next]_vars => ViewInv'
  BY ViewStep
<1> QED
  BY <1>1, <1>2, ViewInit, PTL DEF Spec
===============================================================================
