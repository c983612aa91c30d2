-------------------------- MODULE LazyStore_proofs --------------------------
(***************************************************************************)
(* The perdag holds what its roots reach with exact counts, the memdag's   *)
(* counts are those of its heads and of the refs it knows, and no chunk    *)
(* that is needed is lost or that is not is kept, for all graphs of        *)
(* chunks, when no read comes while deletions are suspended.               *)
(* Before: the walk of gc.ts comes to the counts that the model gives.     *)
(***************************************************************************)
EXTENDS LazyStore, TLAPS, FiniteSetTheorems, WellFoundedInduction

------------------------------------------------------------------------------
(* The inductive invariant *)

\* What was there before the tab and its peers made anything.
Past == Chunks \ (Own \cup Foreign)

\* The chunks whose refs the memdag has counted.
Counted == {p \in known : counts[p] > 0}

\* The heads whose chunks the tab needs: a sync head counts as long as it can become main.
Needed == {main} \cup IF syncBase = base THEN Hashes(sync) ELSE {}

\* The refreshHashes that are left when the refresh is over.
Surviving ==
  IF refreshing = None THEN retained
  ELSE IF refreshing.done THEN {refreshing.head} ELSE refreshing.before

\* What the perdag holds on to for this client, whatever others do.
Held == Reach(Hashes(persisted) \cup Surviving)

StoreTypes ==
  /\ stored \in SUBSET Chunks /\ refCounts \in [Chunks -> Nat]
  /\ group \in Chunks /\ persisted \in Chunks \cup {None} /\ retained \in SUBSET Chunks
  /\ main \in Chunks /\ sync \in Chunks \cup {None}
  /\ base \in Chunks /\ syncBase \in Chunks \cup {None}
  /\ memOnly \in SUBSET Chunks /\ cache \in SUBSET Chunks /\ known \in SUBSET Chunks
  /\ counts \in [Chunks -> Nat] /\ suspended \in BOOLEAN /\ made \in SUBSET Chunks
  /\ persisting # None => persisting \in [head : Chunks, chunks : SUBSET Chunks, written : BOOLEAN]
  /\ refreshing # None =>
       refreshing \in [head : Chunks, before : SUBSET Chunks, done : BOOLEAN, chunks : SUBSET Chunks]

CountsExact ==
  /\ counts = CountsOf(Counted, Heads)
  /\ memOnly \subseteq Counted
  /\ ~suspended => /\ \A h \in known \cup cache : counts[h] > 0
                   /\ Cardinality(cache) <= CacheLimit

\* The sync head is a chunk of the memdag's own that nothing else reaches.
SyncApart ==
  /\ sync # None =>
       /\ sync \in Own \cap made
       /\ sync \notin stored \cup Reach({main})
       /\ persisting # None => sync \notin persisting.chunks
       /\ syncBase # None /\ Cookie[syncBase] <= Cookie[base] /\ Cookie[syncBase] < Cookie[sync]
  /\ stored \subseteq Past \cup made
  /\ Reach(Heads) \subseteq Past \cup made
  /\ base \in Reach({main})

RefreshKept ==
  /\ suspended => refreshing # None
  /\ refreshing # None =>
       /\ retained = refreshing.before \cup {refreshing.head}
       /\ Cookie[refreshing.head] <= Cookie[group]

\* Until it is written, what the snapshot that is persisted does not take along is held, and
\* what is above it is in memory.
PersistKept ==
  persisting # None =>
    /\ persisting.chunks \subseteq Reach({persisting.head})
    /\ persisting.chunks \subseteq Past \cup made
    /\ Cookie[persisting.head] <= Cookie[base]
    /\ persisting.chunks \cap Reach(Needed) \subseteq Reach({base})
    /\ persisting.written => persisted = persisting.head
    /\ ~persisting.written /\ StillNewer =>
         /\ Reach({persisting.head}) \subseteq persisting.chunks \cup Held
         /\ Reach(Needed) \subseteq memOnly \cup Reach({persisting.head} \cup Surviving)

NeededKept ==
  /\ Reach(Needed) \subseteq memOnly \cup Held
  /\ Reach(Needed) \subseteq memOnly \cup Reach({base})

StoreInv ==
  /\ StoreTypes /\ StoredIsReachable /\ CountsExact
  /\ SyncApart /\ RefreshKept /\ PersistKept /\ NeededKept

------------------------------------------------------------------------------
(* Finite graphs without cycles *)

\* A set of subsets of a finite set has one that includes no other.
LEMMA SmallestSubset ==
  ASSUME NEW C, IsFiniteSet(C), NEW Family \in SUBSET (SUBSET C), Family # {}
  PROVE  \E some \in Family : \A other \in Family : ~(other \subseteq some /\ other # some)
<1>1. IsFiniteSet(C)
  OBVIOUS
<1>2. IsWellFoundedOn(StrictSubsetOrdering(C), FiniteSubsetsOf(C))
  BY FS_StrictSubsetOrderingWellFounded, Zenon
<1>3. Family \subseteq FiniteSubsetsOf(C)
  <2>1. \A some \in SUBSET C : IsFiniteSet(some)
    BY <1>1, FS_Subset
  <2> QED
    BY <2>1 DEF FiniteSubsetsOf
<1>4. PICK some \in Family : \A other \in Family : ~(<<other, some>> \in StrictSubsetOrdering(C))
  BY <1>2, <1>3, WFMin, Zenon
<1> QED
  BY <1>3, <1>4 DEF StrictSubsetOrdering, FiniteSubsetsOf

\* In each set of nodes there is one that refers to none of them.
WellFounded(nodes, next) ==
  \A some \in SUBSET nodes : some # {} => \E h \in some : next[h] \cap some = {}

\* What comes next at a node depends on the values at the nodes that it refers to.
StepsBy(nodes, next, V, step) ==
  /\ step \in [nodes -> [[nodes -> V] -> V]]
  /\ \A h \in nodes : \A f, g \in [nodes -> V] :
       (\A p \in next[h] : f[p] = g[p]) => step[h][f] = step[h][g]

\* A recursive function exists.
LEMMA RecursiveFunction ==
  ASSUME NEW C, IsFiniteSet(C), NEW next \in [C -> SUBSET C], WellFounded(C, next),
         NEW V, NEW v \in V, NEW step, StepsBy(C, next, V, step)
  PROVE  \E f \in [C -> V] : \A h \in C : f[h] = step[h][f]
<1> DEFINE Closed(some) == \A h \in some : next[h] \subseteq some
           Fits(f, some) == \A h \in some : f[h] = step[h][f]
           Fitted == {x \in SUBSET C : Closed(x) /\ \E f \in [C -> V] : Fits(f, x)}
           Family == {C \ some : some \in Fitted}
<1>1. [h \in C |-> v] \in [C -> V] /\ Closed({}) /\ Fits([h \in C |-> v], {})
  OBVIOUS
<1>2. Family \in SUBSET (SUBSET C) /\ Family # {}
  <2>1. {} \in Fitted
    BY <1>1
  <2> HIDE DEF Fitted
  <2> QED
    BY <2>1
<1>0. \A x \in Fitted : C \ x \in Family
  OBVIOUS
<1> HIDE DEF Family
<1>3. PICK rest \in Family : \A other \in Family : ~(other \subseteq rest /\ other # rest)
  BY <1>2, SmallestSubset
<1>4. PICK some \in SUBSET C : Closed(some) /\ rest = C \ some /\ \E f \in [C -> V] : Fits(f, some)
  BY <1>3 DEF Family
<1>5. PICK f \in [C -> V] : Fits(f, some)
  BY <1>4
<1>6. CASE rest = {}
  <2>1. some = C
    BY <1>4, <1>6
  <2>2. \A h \in C : f[h] = step[h][f]
    BY <1>5, <2>1
  <2> HIDE DEF Fits
  <2> QED
    BY <2>2
<1>7. CASE rest # {}
  <2>1. rest \in SUBSET C
    BY <1>4
  <2>2. PICK h \in rest : next[h] \cap rest = {}
    BY <1>7, <2>1 DEF WellFounded
  <2>3. h \in C /\ h \notin some /\ next[h] \in SUBSET C
    BY <1>4, <2>2
  <2>4. next[h] \subseteq some
    BY <1>4, <2>2, <2>3
  <2> DEFINE g == [f EXCEPT ![h] = step[h][f]]
             more == some \cup {h}
  <2>5. step[h] \in [[C -> V] -> V]
    BY <2>3 DEF StepsBy
  <2>6. step[h][f] \in V
    BY <2>5
  <2>7. g \in [C -> V]
    BY <2>6
  <2>8. \A k \in more : \A p \in next[k] : f[p] = g[p]
    <3>1. \A k \in more : next[k] \subseteq some
      BY <1>4, <2>4
    <3>2. \A p \in some : p # h /\ p \in C
      BY <1>4, <2>3
    <3>3. \A p \in some : f[p] = g[p]
      BY <3>2
    <3> QED
      BY <3>1, <3>3
  <2>9. g[h] = step[h][f]
    BY <2>3
  <2>10. \A k \in some : g[k] = f[k]
    BY <2>3
  <2> HIDE DEF g
  <2>11. \A k \in more : step[k][f] = step[k][g]
    BY <2>3, <2>7, <2>8 DEF StepsBy
  <2>12. Fits(g, more)
    BY <1>5, <2>9, <2>10, <2>11
  <2>13. more \in SUBSET C /\ Closed(more)
    BY <1>4, <2>3, <2>4
  <2>16. more \in Fitted
    BY <2>7, <2>12, <2>13
  <2> HIDE DEF more, Closed, Fits, Fitted
  <2>14. C \ more \in Family
    BY <1>0, <2>16
  <2>15. C \ more \subseteq rest /\ C \ more # rest
    BY <1>4, <2>2, <2>3 DEF more
  <2> QED
    BY <1>3, <2>14, <2>15
<1> QED
  BY <1>6, <1>7

------------------------------------------------------------------------------
(* The graph of chunks *)

LEMMA ChunksFinite == IsFiniteSet(Chunks) /\ None \notin Chunks
BY ChunksAssumption

LEMMA RefsBelow == Refs \in [Chunks -> SUBSET Chunks] /\ WellFounded(Chunks, Refs)
BY ChunksAssumption DEF WellFounded

LEMMA AboveOf ==
  /\ Above \in [Chunks -> SUBSET Chunks]
  /\ \A h \in Chunks : Above[h] = {p \in Chunks : h \in Refs[p]}
BY DEF Above

\* There is always a chunk that none of the others refers to.
LEMMA AboveWellFounded == WellFounded(Chunks, Above)
<1> DEFINE Bad == {x \in SUBSET Chunks : x # {} /\ \A h \in x : Above[h] \cap x # {}}
<1>1. Bad \in SUBSET (SUBSET Chunks)
  OBVIOUS
<1> SUFFICES ASSUME Bad # {} PROVE FALSE
  BY DEF WellFounded
<1> HIDE DEF Bad
<1>2. PICK some \in Bad : \A other \in Bad : ~(other \subseteq some /\ other # some)
  BY <1>1, ChunksFinite, SmallestSubset
<1> USE DEF Bad
<1>3. PICK h \in some : Refs[h] \cap some = {}
  BY <1>2, RefsBelow DEF WellFounded
<1> DEFINE rest == some \ {h}
<1>4. h \in Chunks /\ Above[h] \cap some # {}
  BY <1>2, <1>3
<1>5. PICK p \in Above[h] : p \in some
  BY <1>4
<1>6. p # h /\ p \in rest
  BY <1>3, <1>4, <1>5, AboveOf
<1>7. rest \in SUBSET Chunks /\ rest # {} /\ rest # some
  BY <1>2, <1>3, <1>6
<1>8. rest \notin Bad
  BY <1>2, <1>7
<1>9. PICK x \in rest : Above[x] \cap rest = {}
  BY <1>7, <1>8
<1>10. x \in Chunks /\ x \in some /\ h \notin Above[x]
  BY <1>2, <1>3, <1>9, AboveOf
<1>11. Above[x] \cap some = {}
  BY <1>9, <1>10
<1> QED
  BY <1>2, <1>10, <1>11

\* Below is what its definition says.
LEMMA BelowOf ==
  /\ Below \in [Chunks -> SUBSET Chunks]
  /\ \A h \in Chunks : Below[h] = {h} \cup UNION {Below[ref] : ref \in Refs[h]}
<1> DEFINE V == SUBSET Chunks
           step == [h \in Chunks |-> [f \in [Chunks -> V] |-> {h} \cup UNION {f[ref] : ref \in Refs[h]}]]
           Eq(f) == f = [h \in Chunks |-> {h} \cup UNION {f[ref] : ref \in Refs[h]}]
<1>1. \A h \in Chunks : \A f \in [Chunks -> V] : {h} \cup UNION {f[ref] : ref \in Refs[h]} \in V
  <2> TAKE h \in Chunks
  <2> TAKE f \in [Chunks -> V]
  <2>1. \A ref \in Refs[h] : f[ref] \in SUBSET Chunks
    BY RefsBelow
  <2> QED
    BY <2>1
<1>2. step \in [Chunks -> [[Chunks -> V] -> V]]
  BY <1>1
<1>3. \A h \in Chunks : \A f \in [Chunks -> V] : step[h][f] = {h} \cup UNION {f[ref] : ref \in Refs[h]}
  OBVIOUS
<1> HIDE DEF step
<1>4. StepsBy(Chunks, Refs, V, step)
  <2>1. ASSUME NEW h \in Chunks, NEW f \in [Chunks -> V], NEW g \in [Chunks -> V],
               \A p \in Refs[h] : f[p] = g[p]
        PROVE  step[h][f] = step[h][g]
    <3>1. {f[ref] : ref \in Refs[h]} = {g[ref] : ref \in Refs[h]}
      BY <2>1
    <3>2. step[h][f] = {h} \cup UNION {f[ref] : ref \in Refs[h]}
      BY <1>3
    <3>3. step[h][g] = {h} \cup UNION {g[ref] : ref \in Refs[h]}
      BY <1>3
    <3> QED
      BY <3>1, <3>2, <3>3, Zenon
  <2> QED
    BY <1>2, <2>1 DEF StepsBy
<1>5. {} \in V
  OBVIOUS
<1>6. \E f \in [Chunks -> V] : \A h \in Chunks : f[h] = step[h][f]
  <2> HIDE DEF V
  <2>1. IsFiniteSet(Chunks) /\ Refs \in [Chunks -> SUBSET Chunks] /\ WellFounded(Chunks, Refs)
    BY ChunksFinite, RefsBelow
  <2> QED
    BY <1>4, <1>5, <2>1, RecursiveFunction
<1>7. PICK f \in [Chunks -> V] : \A h \in Chunks : f[h] = {h} \cup UNION {f[ref] : ref \in Refs[h]}
  BY <1>3, <1>6
<1>8. Eq(f)
  BY <1>7
<1>9. Below = CHOOSE g : Eq(g)
  BY DEF Below
<1>10. Eq(Below)
  <2> HIDE DEF Eq
  <2> QED
    BY <1>8, <1>9, Zenon
<1>11. \A h \in Chunks : Below[h] = {h} \cup UNION {Below[ref] : ref \in Refs[h]}
  BY <1>10
<1> DEFINE Bad == {h \in Chunks : ~(Below[h] \subseteq Chunks)}
<1>12. Bad = {}
  <2> SUFFICES ASSUME Bad # {} PROVE FALSE
    OBVIOUS
  <2>1. PICK h \in Bad : Refs[h] \cap Bad = {}
    BY RefsBelow DEF WellFounded
  <2>2. \A ref \in Refs[h] : Below[ref] \subseteq Chunks
    BY <2>1, RefsBelow
  <2> QED
    BY <1>11, <2>1, <2>2
<1>13. Below = [h \in Chunks |-> Below[h]]
  BY <1>10
<1> QED
  BY <1>11, <1>12, <1>13

------------------------------------------------------------------------------
(* What is reached *)

\* A set that has what its chunks refer to.
Closed(chunks) == \A p \in chunks : Refs[p] \subseteq chunks

\* Heads reach themselves, and what is referred to by what they reach.
LEMMA ReachIsClosed ==
  ASSUME NEW hashes \in SUBSET Chunks
  PROVE  Reach(hashes) \in SUBSET Chunks /\ hashes \subseteq Reach(hashes) /\ Closed(Reach(hashes))
<1>1. Reach(hashes) \in SUBSET Chunks
  BY BelowOf DEF Reach
<1>2. hashes \subseteq Reach(hashes)
  <2> SUFFICES ASSUME NEW h \in hashes PROVE h \in Reach(hashes)
    OBVIOUS
  <2>1. h \in Below[h]
    BY BelowOf
  <2> QED
    BY <2>1 DEF Reach
<1> DEFINE Down == {h \in Chunks : \A p \in Below[h] : Refs[p] \subseteq Below[h]}
<1>3. Down = Chunks
  <2> SUFFICES ASSUME Chunks \ Down # {} PROVE FALSE
    OBVIOUS
  <2>1. PICK h \in Chunks \ Down : Refs[h] \cap (Chunks \ Down) = {}
    BY RefsBelow DEF WellFounded
  <2>2. PICK p \in Below[h] : ~(Refs[p] \subseteq Below[h])
    BY <2>1
  <2>3. \A ref \in Refs[h] : Below[ref] \subseteq Below[h]
    BY <2>1, BelowOf
  <2>4. \A ref \in Refs[h] : ref \in Below[ref]
    BY <2>1, BelowOf, RefsBelow
  <2>5. p # h
    BY <2>2, <2>3, <2>4
  <2>6. PICK ref \in Refs[h] : p \in Below[ref]
    BY <2>1, <2>2, <2>5, BelowOf
  <2>7. ref \in Down
    BY <2>1, <2>6, RefsBelow
  <2> QED
    BY <2>2, <2>3, <2>6, <2>7
<1>4. Closed(Reach(hashes))
  <2> SUFFICES ASSUME NEW p \in Reach(hashes), NEW ref \in Refs[p] PROVE ref \in Reach(hashes)
    BY DEF Closed
  <2>1. PICK h \in hashes : p \in Below[h]
    BY DEF Reach
  <2>2. ref \in Below[h]
    BY <1>3, <2>1
  <2> QED
    BY <2>2 DEF Reach
<1> QED
  BY <1>1, <1>2, <1>4

\* They reach no more than any such set has.
LEMMA ReachIsLeast ==
  ASSUME NEW hashes \in SUBSET Chunks, NEW chunks \in SUBSET Chunks,
         hashes \subseteq chunks, Closed(chunks)
  PROVE  Reach(hashes) \subseteq chunks
<1> DEFINE Bad == {h \in chunks : ~(Below[h] \subseteq chunks)}
<1>1. Bad = {}
  <2> SUFFICES ASSUME Bad # {} PROVE FALSE
    OBVIOUS
  <2>1. PICK h \in Bad : Refs[h] \cap Bad = {}
    BY RefsBelow DEF WellFounded
  <2>2. \A ref \in Refs[h] : Below[ref] \subseteq chunks
    BY <2>1 DEF Closed
  <2> QED
    BY <2>1, <2>2, BelowOf
<1> QED
  BY <1>1 DEF Reach

LEMMA ReachOfUnion ==
  ASSUME NEW some, NEW others
  PROVE  Reach(some \cup others) = Reach(some) \cup Reach(others)
BY DEF Reach

LEMMA ReachOfNone == Reach({}) = {}
BY DEF Reach

LEMMA ReachGrows ==
  ASSUME NEW some \in SUBSET Chunks, NEW others \in SUBSET Chunks, some \subseteq Reach(others)
  PROVE  Reach(some) \subseteq Reach(others)
BY ReachIsClosed, ReachIsLeast

\* What is reached is a head, or is referred to by what is reached.
LEMMA ReachFromAbove ==
  ASSUME NEW hashes \in SUBSET Chunks, NEW h \in Reach(hashes)
  PROVE  h \in hashes \/ \E p \in Reach(hashes) : h \in Refs[p]
<1> DEFINE From == {k \in Reach(hashes) : k \in hashes \/ \E p \in Reach(hashes) : k \in Refs[p]}
<1>1. From \in SUBSET Chunks /\ hashes \subseteq From
  BY ReachIsClosed
<1>2. Closed(From)
  BY ReachIsClosed DEF Closed
<1> HIDE DEF From
<1>3. Reach(hashes) \subseteq From
  BY <1>1, <1>2, ReachIsLeast
<1> QED
  BY <1>3 DEF From

\* Induction from the heads down: what has all that refers to it.
LEMMA ReachDown ==
  ASSUME NEW hashes \in SUBSET Chunks, NEW chunks,
         \A h \in Reach(hashes) :
           (\A p \in Reach(hashes) : h \in Refs[p] => p \in chunks) => h \in chunks
  PROVE  Reach(hashes) \subseteq chunks
<1> DEFINE Bad == Reach(hashes) \ chunks
<1> SUFFICES ASSUME Bad # {} PROVE FALSE
  OBVIOUS
<1>1. Bad \in SUBSET Chunks
  BY ReachIsClosed
<1>2. PICK h \in Bad : Above[h] \cap Bad = {}
  BY <1>1, AboveWellFounded DEF WellFounded
<1>3. \A p \in Reach(hashes) : h \in Refs[p] => p \in chunks
  BY <1>1, <1>2, AboveOf, ReachIsClosed
<1> QED
  BY <1>2, <1>3

------------------------------------------------------------------------------
(* What computeRefCountUpdates() and the gathering come to, as sets of chunks *)

\* A set is determined by which of the nodes that a node refers to must be in it for the node
\* to be in it.
LEMMA RecursiveSet ==
  ASSUME NEW C, IsFiniteSet(C), NEW next \in [C -> SUBSET C], WellFounded(C, next),
         NEW allowed \in [C -> SUBSET (SUBSET C)]
  PROVE  \E T \in SUBSET C : \A h \in C : h \in T <=> (T \cap next[h]) \in allowed[h]
<1> DEFINE V == SUBSET C
           Seen(f, h) == {p \in next[h] : f[p] # {}}
           Value(f, h) == IF Seen(f, h) \in allowed[h] THEN {h} ELSE {}
           step == [h \in C |-> [f \in [C -> V] |-> Value(f, h)]]
<1>1. StepsBy(C, next, V, step)
  <2>1. \A h \in C : \A f \in [C -> V] : step[h][f] = Value(f, h)
    OBVIOUS
  <2>2. step \in [C -> [[C -> V] -> V]]
    OBVIOUS
  <2>3. ASSUME NEW h \in C, NEW f \in [C -> V], NEW g \in [C -> V], \A p \in next[h] : f[p] = g[p]
        PROVE  Value(f, h) = Value(g, h)
    <3>1. Seen(f, h) = Seen(g, h)
      BY <2>3
    <3> HIDE DEF Seen
    <3> QED
      BY <3>1
  <2> HIDE DEF step, Value, V
  <2>4. \A h \in C : \A f, g \in [C -> V] :
          (\A p \in next[h] : f[p] = g[p]) => step[h][f] = step[h][g]
    BY <2>1, <2>3
  <2> QED
    BY <2>2, <2>4 DEF StepsBy
<1>2. {} \in V
  OBVIOUS
<1>3. \E f \in [C -> V] : \A h \in C : f[h] = step[h][f]
  <2> HIDE DEF step, V
  <2> QED
    BY <1>1, <1>2, RecursiveFunction
<1>4. PICK f \in [C -> V] : \A h \in C : f[h] = Value(f, h)
  BY <1>3
<1> DEFINE T == {h \in C : f[h] # {}}
<1>5. \A h \in C : Seen(f, h) = T \cap next[h]
  OBVIOUS
<1>6. \A h \in C : h \in T <=> Seen(f, h) \in allowed[h]
  <2> HIDE DEF Seen
  <2> QED
    BY <1>4
<1>7. \A h \in C : h \in T <=> (T \cap next[h]) \in allowed[h]
  <2> HIDE DEF Seen, T
  <2> QED
    BY <1>5, <1>6
<1>8. T \in SUBSET C
  OBVIOUS
<1> HIDE DEF T
<1> QED
  BY <1>7, <1>8

LEMMA ChunkSet ==
  ASSUME NEW allowed \in [Chunks -> SUBSET (SUBSET Chunks)]
  PROVE  \E T \in SUBSET Chunks : \A h \in Chunks : h \in T <=> (T \cap Above[h]) \in allowed[h]
<1>1. IsFiniteSet(Chunks) /\ Above \in [Chunks -> SUBSET Chunks] /\ WellFounded(Chunks, Above)
  BY ChunksFinite, AboveOf, AboveWellFounded
<1> QED
  BY ZenonT(60), <1>1, RecursiveSet

\* A walk down that visits what is a head or is referred to by what it has visited.
LEMMA Gathered ==
  ASSUME NEW hashes, NEW inside
  PROVE  /\ Gather(hashes, inside) \in SUBSET Chunks
         /\ \A h \in Chunks : h \in Gather(hashes, inside) <=>
              h \in hashes \/ (h \in inside /\ \E p \in Gather(hashes, inside) : h \in Refs[p])
<1> DEFINE allowed == [h \in Chunks |->
                        {some \in SUBSET Chunks : h \in hashes \/ (h \in inside /\ some # {})}]
           Value(f, h) == h \in hashes \/ (h \in inside /\ \E p \in Above[h] : f[p])
           Eq(f) == f = [h \in Chunks |-> Value(f, h)]
           gathered == CHOOSE f : Eq(f)
<1>1. allowed \in [Chunks -> SUBSET (SUBSET Chunks)]
  OBVIOUS
<1>2. \E T \in SUBSET Chunks : \A h \in Chunks : h \in T <=> (T \cap Above[h]) \in allowed[h]
  <2> HIDE DEF allowed
  <2> QED
    BY <1>1, ChunkSet
<1>3. PICK T \in SUBSET Chunks :
        \A h \in Chunks : h \in T <=> h \in hashes \/ (h \in inside /\ T \cap Above[h] # {})
  BY <1>2
<1> DEFINE member == [h \in Chunks |-> h \in T]
<1>4. Eq(member)
  <2>1. \A h \in Chunks : (\E p \in Above[h] : member[p]) <=> T \cap Above[h] # {}
    BY AboveOf
  <2>2. \A h \in Chunks : (h \in T) <=> Value(member, h)
    <3> HIDE DEF member
    <3> QED
      BY <1>3, <2>1
  <2>3. \A h \in Chunks : (h \in T) = Value(member, h)
    <3> HIDE DEF member
    <3>1. \A h \in Chunks : Value(member, h) \in BOOLEAN
      OBVIOUS
    <3> HIDE DEF Value
    <3> QED
      BY <2>2, <3>1
  <2> HIDE DEF Value
  <2> QED
    BY <2>3, Zenon
<1>5. Eq(gathered)
  <2> HIDE DEF Eq
  <2> QED
    BY <1>4, Zenon
<1>6. Gather(hashes, inside) = {h \in Chunks : gathered[h]}
  BY DEF Gather
<1>7. \A h \in Chunks : gathered[h] = Value(gathered, h)
  BY <1>5
<1> HIDE DEF gathered
<1>8. \A h \in Chunks : h \in Gather(hashes, inside) <=> Value(gathered, h)
  BY <1>6, <1>7
<1>9. \A h \in Chunks : (\E p \in Above[h] : gathered[p])
                          <=> \E p \in Gather(hashes, inside) : h \in Refs[p]
  BY <1>6, AboveOf
<1> QED
  BY <1>6, <1>8, <1>9

\* The references to a chunk from other chunks, and from the heads.
Froms(sources, h) == Cardinality(sources \cap Above[h])
AsHead(h, heads) == IF h \in heads THEN 1 ELSE 0

CountingIs(counting, n, added, uncounted, readable) ==
  /\ counting \in SUBSET Chunks
  /\ \A h \in Chunks : h \in counting <=>
       /\ h \in readable
       /\ n[h] = 0 \/ h \in uncounted
       /\ n[h] # 0 \/ h \in added \/ \E p \in counting : h \in Refs[p]

FreedIs(freed, n, removed, readable) ==
  /\ freed \in SUBSET Chunks
  /\ \A h \in Chunks : h \in freed <=>
       h \in readable /\ n[h] > 0 /\ n[h] = Froms(freed, h) + AsHead(h, removed)

\* The walk that counts.
LEMMA CountingOf ==
  ASSUME NEW n, NEW added, NEW uncounted, NEW readable
  PROVE  CountingIs(Counting(n, added, uncounted, readable), n, added, uncounted, readable)
<1> DEFINE Turns(h) == h \in readable /\ (n[h] = 0 \/ h \in uncounted)
           allowed == [h \in Chunks |->
             {some \in SUBSET Chunks : Turns(h) /\ (n[h] # 0 \/ h \in added \/ some # {})}]
           Value(f, h) == /\ h \in readable
                          /\ n[h] = 0 \/ h \in uncounted
                          /\ n[h] # 0 \/ h \in added \/ \E p \in Above[h] : f[p]
           Eq(f) == f = [h \in Chunks |-> Value(f, h)]
           counting == CHOOSE f : Eq(f)
<1>1. allowed \in [Chunks -> SUBSET (SUBSET Chunks)]
  OBVIOUS
<1>2. \E T \in SUBSET Chunks : \A h \in Chunks : h \in T <=> (T \cap Above[h]) \in allowed[h]
  <2> HIDE DEF allowed
  <2> QED
    BY <1>1, ChunkSet
<1>3. PICK T \in SUBSET Chunks :
        \A h \in Chunks : h \in T <=>
          Turns(h) /\ (n[h] # 0 \/ h \in added \/ T \cap Above[h] # {})
  BY <1>2
<1> DEFINE member == [h \in Chunks |-> h \in T]
<1>4. Eq(member)
  <2>1. \A h \in Chunks : (\E p \in Above[h] : member[p]) <=> T \cap Above[h] # {}
    BY AboveOf
  <2>2. \A h \in Chunks : (h \in T) <=> Value(member, h)
    <3> HIDE DEF member
    <3> QED
      BY <1>3, <2>1
  <2>3. \A h \in Chunks : (h \in T) = Value(member, h)
    <3> HIDE DEF member
    <3>1. \A h \in Chunks : Value(member, h) \in BOOLEAN
      OBVIOUS
    <3> HIDE DEF Value
    <3> QED
      BY <2>2, <3>1
  <2> HIDE DEF Value
  <2> QED
    BY <2>3, Zenon
<1>5. Eq(counting)
  <2> HIDE DEF Eq
  <2> QED
    BY <1>4, Zenon
<1>6. Counting(n, added, uncounted, readable) = {h \in Chunks : counting[h]}
  BY DEF Counting
<1>7. \A h \in Chunks : counting[h] = Value(counting, h)
  BY <1>5
<1> HIDE DEF counting
<1>8. \A h \in Chunks : h \in Counting(n, added, uncounted, readable) <=> Value(counting, h)
  BY <1>6, <1>7
<1>9. \A h \in Chunks : (\E p \in Above[h] : counting[p])
                          <=> \E p \in Counting(n, added, uncounted, readable) : h \in Refs[p]
  BY <1>6, AboveOf
<1> QED
  BY <1>6, <1>8, <1>9 DEF CountingIs

\* The walk that frees.
LEMMA FreedOf ==
  ASSUME NEW n, NEW removed, NEW readable
  PROVE  FreedIs(Freed(n, removed, readable), n, removed, readable)
<1> DEFINE Falls(h, some) ==
             /\ h \in readable /\ n[h] > 0
             /\ n[h] = Cardinality(some) + IF h \in removed THEN 1 ELSE 0
           allowed == [h \in Chunks |-> {some \in SUBSET Chunks : Falls(h, some)}]
           Seen(f, h) == {p \in Above[h] : f[p]}
           Value(f, h) == Falls(h, Seen(f, h))
           Eq(f) == f = [h \in Chunks |-> Value(f, h)]
           freed == CHOOSE f : Eq(f)
<1>1. allowed \in [Chunks -> SUBSET (SUBSET Chunks)]
  OBVIOUS
<1>2. \E T \in SUBSET Chunks : \A h \in Chunks : h \in T <=> (T \cap Above[h]) \in allowed[h]
  <2> HIDE DEF allowed
  <2> QED
    BY <1>1, ChunkSet
<1>3. PICK T \in SUBSET Chunks : \A h \in Chunks : h \in T <=> Falls(h, T \cap Above[h])
  <2> HIDE DEF Falls
  <2> QED
    BY <1>2
<1> DEFINE member == [h \in Chunks |-> h \in T]
<1>4. Eq(member)
  <2>1. \A h \in Chunks : Seen(member, h) = T \cap Above[h]
    BY AboveOf
  <2>2. \A h \in Chunks : (h \in T) <=> Value(member, h)
    <3> HIDE DEF member, Falls, Seen
    <3> QED
      BY <1>3, <2>1
  <2>3. \A h \in Chunks : (h \in T) = Value(member, h)
    <3>1. \A h \in Chunks : Value(member, h) \in BOOLEAN
      <4> HIDE DEF member, Seen
      <4> QED
        OBVIOUS
    <3> HIDE DEF Value, member
    <3> QED
      BY <2>2, <3>1
  <2> HIDE DEF Value
  <2> QED
    BY <2>3, Zenon
<1>5. Eq(freed)
  <2> HIDE DEF Eq
  <2> QED
    BY <1>4, Zenon
<1>6. Freed(n, removed, readable) = {h \in Chunks : freed[h]}
  BY DEF Freed
<1>7. \A h \in Chunks : freed[h] = Value(freed, h)
  <2> HIDE DEF Value
  <2> QED
    BY <1>5
<1> HIDE DEF freed
<1>8. \A h \in Chunks : h \in Freed(n, removed, readable) <=> Value(freed, h)
  <2> HIDE DEF Value
  <2> QED
    BY <1>6, <1>7
<1>9. \A h \in Chunks : Seen(freed, h) = Freed(n, removed, readable) \cap Above[h]
  BY <1>6, AboveOf
<1>10. \A h \in Chunks :
         h \in Freed(n, removed, readable) <=> Falls(h, Freed(n, removed, readable) \cap Above[h])
  <2> HIDE DEF Seen, Falls
  <2> QED
    BY <1>8, <1>9
<1>11. Freed(n, removed, readable) \in SUBSET Chunks
  BY <1>6
<1> QED
  BY <1>10, <1>11 DEF FreedIs, Froms, AsHead

------------------------------------------------------------------------------
(* Reference counts *)

LEMMA CountsAt ==
  ASSUME NEW sources \in SUBSET Chunks, NEW heads, NEW h \in Chunks
  PROVE  /\ CountsOf(sources, heads)[h] \in Nat
         /\ CountsOf(sources, heads)[h] = Froms(sources, h) + AsHead(h, heads)
         /\ CountsOf(sources, heads)[h] > 0 <=> h \in heads \/ \E p \in sources : h \in Refs[p]
<1> DEFINE from == sources \cap Above[h]
           k == Cardinality(from)
           one == IF h \in heads THEN 1 ELSE 0
<1>1. IsFiniteSet(from)
  BY ChunksFinite, AboveOf, FS_Subset
<1>2. from # {} <=> \E p \in sources : h \in Refs[p]
  BY AboveOf
<1> HIDE DEF from
<1>3. k \in Nat /\ (k = 0 <=> from = {})
  BY <1>1, FS_EmptySet, FS_CardinalityType
<1>4. one \in Nat /\ (one > 0 <=> h \in heads)
  OBVIOUS
<1>5. CountsOf(sources, heads)[h] = k + one
  BY DEF CountsOf, from
<1> HIDE DEF k, one
<1>6. k + one \in Nat /\ (k + one > 0 <=> one > 0 \/ k # 0)
  BY <1>3, <1>4
<1>7. k + one > 0 <=> h \in heads \/ \E p \in sources : h \in Refs[p]
  BY <1>2, <1>3, <1>4, <1>6
<1>8. CountsOf(sources, heads)[h] = Froms(sources, h) + AsHead(h, heads)
  BY <1>5 DEF k, one, from, Froms, AsHead
<1> QED
  BY <1>5, <1>6, <1>7, <1>8, Zenon

LEMMA CountsOfIs ==
  ASSUME NEW sources \in SUBSET Chunks, NEW heads
  PROVE  /\ CountsOf(sources, heads) \in [Chunks -> Nat]
         /\ \A h \in Chunks : CountsOf(sources, heads)[h] > 0
                                <=> h \in heads \/ \E p \in sources : h \in Refs[p]
<1>1. CountsOf(sources, heads) = [h \in Chunks |-> CountsOf(sources, heads)[h]]
  BY DEF CountsOf
<1>2. \A h \in Chunks : CountsOf(sources, heads)[h] \in Nat
  BY CountsAt
<1>3. CountsOf(sources, heads) \in [Chunks -> Nat]
  BY <1>1, <1>2
<1>4. ASSUME NEW h \in Chunks
      PROVE  CountsOf(sources, heads)[h] > 0 <=> h \in heads \/ \E p \in sources : h \in Refs[p]
  BY CountsAt, Zenon
<1> QED
  BY <1>3, <1>4, Zenon

\* What is counted for disjoint sources and heads adds up.
LEMMA CountsAddUp ==
  ASSUME NEW some \in SUBSET Chunks, NEW others \in SUBSET Chunks, some \cap others = {},
         NEW heads, NEW more, heads \cap more = {}, NEW h \in Chunks
  PROVE  CountsOf(some \cup others, heads \cup more)[h]
           = CountsOf(some, heads)[h] + CountsOf(others, more)[h]
<1> DEFINE A == some \cap Above[h]
           B == others \cap Above[h]
<1>1. IsFiniteSet(A) /\ IsFiniteSet(B) /\ A \cap B = {}
  BY ChunksFinite, AboveOf, FS_Subset
<1>2. (some \cup others) \cap Above[h] = A \cup B
  OBVIOUS
<1>3. AsHead(h, heads \cup more) = AsHead(h, heads) + AsHead(h, more)
  BY DEF AsHead
<1>4. AsHead(h, heads) \in Nat /\ AsHead(h, more) \in Nat
  BY DEF AsHead
<1>5. some \cup others \in SUBSET Chunks
  OBVIOUS
<1>6. /\ CountsOf(some, heads)[h] = Froms(some, h) + AsHead(h, heads)
      /\ CountsOf(others, more)[h] = Froms(others, h) + AsHead(h, more)
  BY CountsAt
<1>7. CountsOf(some \cup others, heads \cup more)[h]
        = Froms(some \cup others, h) + AsHead(h, heads \cup more)
  BY <1>5, CountsAt
<1> HIDE DEF A, B
<1>9. Cardinality(A \cup B) = Cardinality(A) + Cardinality(B) - Cardinality(A \cap B)
  BY <1>1, FS_Union
<1>10. Cardinality(A \cap B) = 0
  BY <1>1, FS_EmptySet
<1>11. Cardinality(A) \in Nat /\ Cardinality(B) \in Nat
  BY <1>1, FS_CardinalityType
<1>12. Froms(some \cup others, h) = Froms(some, h) + Froms(others, h)
  <2>1. Cardinality(A \cup B) = Cardinality(A) + Cardinality(B)
    BY <1>9, <1>10, <1>11
  <2>2. Froms(some, h) = Cardinality(A) /\ Froms(others, h) = Cardinality(B)
    BY DEF Froms, A, B
  <2>3. Froms(some \cup others, h) = Cardinality(A \cup B)
    BY <1>2 DEF Froms
  <2> QED
    BY <2>1, <2>2, <2>3
<1>13. Froms(some, h) \in Nat /\ Froms(others, h) \in Nat
  BY <1>11 DEF Froms, A, B
<1> QED
  BY <1>3, <1>4, <1>6, <1>7, <1>12, <1>13

\* The counts are those of the heads and of the chunks that have one, among some.
Exact(n, sources, heads) == n = CountsOf({p \in sources : n[p] > 0}, heads)

\* When the counts are those of the old heads and of the chunks counted before, the ones that
\* computeRefCountUpdates() makes are those of the new heads and of what is counted then: none
\* is negative, as gc.ts:130 asserts, no reference is counted twice and none is forgotten,
\* whatever the graph, the order of the walk and the chunks whose refs are not known yet.
THEOREM UpdatesExact ==
  ASSUME NEW n, NEW new \in SUBSET Chunks, NEW old \in SUBSET Chunks, NEW puts \in SUBSET Chunks,
         NEW before \in SUBSET Chunks, NEW readable \in SUBSET Chunks,
         before \subseteq readable, puts \subseteq readable, readable \subseteq before \cup puts,
         Exact(n, before, old)
  PROVE  LET r == RefCountUpdates(n, new, old, puts, before, readable)
         IN  r \in [Chunks -> Nat] /\ Exact(r, readable, new)
<1> DEFINE K == {p \in before : n[p] > 0}
           C == Counting(n, new \ old, puts \ before, readable)
           all == [h \in Chunks |-> n[h] + CountsOf(C, new \ old)[h]]
           F == Freed(all, old \ new, readable)
           r == [h \in Chunks |-> all[h] - CountsOf(F, old \ new)[h]]
<1>1. RefCountUpdates(n, new, old, puts, before, readable) = r
  BY DEF RefCountUpdates
<1>2. K \in SUBSET Chunks /\ n = CountsOf(K, old)
  BY DEF Exact
<1>20. \A h \in Chunks : h \in K <=> h \in before /\ n[h] > 0
  OBVIOUS
<1> HIDE DEF K
<1>3. n \in [Chunks -> Nat] /\ \A h \in Chunks : n[h] = CountsOf(K, old)[h]
  BY <1>2, CountsOfIs
<1>4. CountingIs(C, n, new \ old, puts \ before, readable)
  BY CountingOf
<1> HIDE DEF C
<1>4a. C \in SUBSET Chunks
  BY <1>4 DEF CountingIs
<1>4b. \A h \in C : h \in readable /\ (n[h] = 0 \/ h \in puts \ before)
                    /\ (n[h] # 0 \/ h \in new \ old \/ \E p \in C : h \in Refs[p])
  BY <1>4 DEF CountingIs
<1>5. /\ CountsOf(C, new \ old) \in [Chunks -> Nat]
      /\ \A h \in Chunks : CountsOf(C, new \ old)[h] > 0 <=> h \in new \ old \/ \E p \in C : h \in Refs[p]
  BY <1>4a, CountsOfIs
<1>6. K \cap C = {}
  <2> SUFFICES ASSUME NEW h \in K, h \in C PROVE FALSE
    OBVIOUS
  <2>1. h \in Chunks /\ h \in before /\ n[h] > 0 /\ n[h] \in Nat
    BY <1>2, <1>3, <1>20
  <2>2. n[h] = 0 \/ h \in puts \ before
    BY <1>4b, <2>1
  <2> QED
    BY <2>1, <2>2
<1>7. \A h \in Chunks : all[h] = CountsOf(K \cup C, old \cup (new \ old))[h]
  <2> TAKE h \in Chunks
  <2>1. old \cap (new \ old) = {}
    OBVIOUS
  <2>2. CountsOf(K \cup C, old \cup (new \ old))[h] = CountsOf(K, old)[h] + CountsOf(C, new \ old)[h]
    <3>1. K \in SUBSET Chunks
      BY <1>2
    <3> QED
      BY <1>4a, <1>6, <2>1, <3>1, CountsAddUp
  <2> QED
    BY <1>3, <2>2
<1> DEFINE c == CountsOf(C, new \ old)
<1>5a. c \in [Chunks -> Nat]
  BY <1>5
<1>8. all \in [Chunks -> Nat] /\ \A h \in Chunks : all[h] = n[h] + c[h]
  <2>1. all = [h \in Chunks |-> n[h] + c[h]]
    OBVIOUS
  <2> HIDE DEF c, all
  <2> QED
    BY <1>3, <1>5a, <2>1
<1> HIDE DEF all
<1>9. K \cup C = {h \in readable : all[h] > 0}
  <2>1. ASSUME NEW h \in K \cup C PROVE h \in readable /\ all[h] > 0
    <3>1. h \in Chunks /\ h \in readable
      BY <1>2, <1>4a, <1>4b, <1>20
    <3>2. n[h] > 0 \/ c[h] > 0
      <4>1. h \in K => n[h] > 0
        BY <1>20, <3>1
      <4>2. h \in C => n[h] # 0 \/ c[h] > 0
        BY <1>4b, <1>5, <3>1
      <4>3. n[h] \in Nat
        BY <1>3, <3>1
      <4> HIDE DEF c
      <4> QED
        BY <4>1, <4>2, <4>3
    <3>3. n[h] \in Nat /\ c[h] \in Nat /\ all[h] = n[h] + c[h]
      BY <1>3, <1>5a, <1>8, <3>1
    <3> HIDE DEF c
    <3> QED
      BY <3>1, <3>2, <3>3
  <2>2. ASSUME NEW h \in readable, all[h] > 0, h \notin K PROVE h \in C
    <3>1. n[h] \in Nat /\ c[h] \in Nat /\ all[h] = n[h] + c[h]
      BY <1>3, <1>5a, <1>8
    <3>4. h \in Chunks
      OBVIOUS
    <3>2. n[h] = 0 \/ h \in puts \ before
      BY <1>20, <2>2, <3>1, <3>4
    <3>3. n[h] # 0 \/ c[h] > 0
      <4> HIDE DEF c
      <4> QED
        BY <2>2, <3>1
    <3> QED
      BY <1>4, <1>5, <2>2, <3>2, <3>3, <3>4 DEF CountingIs
  <2> QED
    BY <2>1, <2>2
<1>10. FreedIs(F, all, old \ new, readable)
  BY FreedOf
<1> HIDE DEF F
<1>10b. F \in SUBSET Chunks
  BY <1>10 DEF FreedIs
<1> DEFINE g == CountsOf(F, old \ new)
<1>10a. \A h \in Chunks :
          g[h] = Froms(F, h) + AsHead(h, old \ new)
  BY <1>10b, CountsAt
<1>11. g \in [Chunks -> Nat] /\ \A h \in Chunks : h \in F <=> h \in readable /\ all[h] > 0 /\ all[h] = g[h]
  <2>1. g \in [Chunks -> Nat]
    BY <1>10b, CountsOfIs
  <2> HIDE DEF g
  <2>2. \A h \in Chunks : h \in F <=> h \in readable /\ all[h] > 0 /\ all[h] = g[h]
    BY <1>10, <1>10a DEF FreedIs
  <2> QED
    BY <2>1, <2>2
<1> DEFINE L == (K \cup C) \ F
<1>10c. \A h \in F : h \in readable /\ all[h] > 0
  BY <1>10 DEF FreedIs
<1>12. L \in SUBSET Chunks /\ F \subseteq K \cup C /\ L \cap F = {} /\ L \cup F = K \cup C
  BY <1>2, <1>4a, <1>9, <1>10c
<1> DEFINE l == CountsOf(L, new)
<1>13. \A h \in Chunks : all[h] = l[h] + g[h]
  <2> TAKE h \in Chunks
  <2>1. new \cap (old \ new) = {} /\ new \cup (old \ new) = old \cup (new \ old)
    OBVIOUS
  <2> HIDE DEF L
  <2>2. CountsOf(L \cup F, new \cup (old \ new))[h] = CountsOf(L, new)[h] + CountsOf(F, old \ new)[h]
    BY <1>10b, <1>12, <2>1, CountsAddUp
  <2> QED
    BY <1>7, <1>12, <2>1, <2>2
<1>14. l \in [Chunks -> Nat]
  BY <1>12, CountsOfIs
<1>15. \A h \in Chunks : r[h] = all[h] - g[h]
  OBVIOUS
<1>16. r = l
  <2>1. r = [h \in Chunks |-> r[h]]
    OBVIOUS
  <2> HIDE DEF l, g, r
  <2>2. \A h \in Chunks : r[h] = l[h]
    BY <1>8, <1>11, <1>13, <1>14, <1>15
  <2> QED
    BY <1>14, <2>1, <2>2
<1> HIDE DEF g, r, l
<1>17. \A h \in Chunks : r[h] \in Nat /\ all[h] \in Nat /\ g[h] \in Nat /\ all[h] = r[h] + g[h]
  BY <1>8, <1>11, <1>13, <1>14, <1>16
<1>18. \A h \in Chunks : h \in F <=> h \in readable /\ all[h] > 0 /\ r[h] = 0
  BY <1>11, <1>17
<1>19. L = {p \in readable : r[p] > 0}
  <2>1. \A h \in readable : all[h] > 0 /\ r[h] # 0 <=> r[h] > 0
    BY <1>17
  <2>2. \A h \in L : h \in readable /\ r[h] > 0
    BY <1>9, <1>18, <2>1
  <2>3. \A h \in readable : r[h] > 0 => h \in L
    BY <1>9, <1>18, <2>1
  <2> HIDE DEF L
  <2> QED
    BY <1>12, <2>2, <2>3
<1> HIDE DEF L
<1> QED
  BY <1>1, <1>14, <1>16, <1>19 DEF l, Exact

\* A chunk whose refs become known is counted for each of them.
LEMMA OneMoreCounted ==
  ASSUME NEW sources \in SUBSET Chunks, NEW heads, NEW h \in Chunks \ sources, NEW k \in Chunks
  PROVE  CountsOf(sources \cup {h}, heads)[k]
           = CountsOf(sources, heads)[k] + AsHead(k, Refs[h])
<1>1. {h} \in SUBSET Chunks /\ sources \cap {h} = {} /\ heads \cap {} = {} /\ heads \cup {} = heads
  OBVIOUS
<1>2. CountsOf(sources \cup {h}, heads \cup {})[k] = CountsOf(sources, heads)[k] + CountsOf({h}, {})[k]
  BY <1>1, CountsAddUp
<1>3. CountsOf({h}, {})[k] = Froms({h}, k) + AsHead(k, {})
  BY <1>1, CountsAt
<1>4. AsHead(k, {}) = 0
  BY DEF AsHead
<1>4a. AsHead(k, Refs[h]) = IF k \in Refs[h] THEN 1 ELSE 0
  BY DEF AsHead
<1>5. CASE k \in Refs[h]
  <2>1. {h} \cap Above[k] = {h}
    BY <1>5, AboveOf
  <2>2. Froms({h}, k) = 1
    BY <2>1, FS_Singleton DEF Froms
  <2> QED
    BY <1>1, <1>2, <1>3, <1>4, <1>4a, <1>5, <2>2
<1>6. CASE k \notin Refs[h]
  <2>1. {h} \cap Above[k] = {}
    BY <1>6, AboveOf
  <2>2. Froms({h}, k) = 0
    BY <2>1, FS_EmptySet DEF Froms
  <2> QED
    BY <1>1, <1>2, <1>3, <1>4, <1>4a, <1>6, <2>2
<1> QED
  BY <1>5, <1>6

\* The counts of fewer chunks and heads are no greater.
LEMMA CountsGrow ==
  ASSUME NEW some \in SUBSET Chunks, NEW more \in SUBSET Chunks, some \subseteq more,
         NEW heads \in SUBSET Chunks, NEW all \in SUBSET Chunks, heads \subseteq all,
         NEW h \in Chunks
  PROVE  CountsOf(some, heads)[h] <= CountsOf(more, all)[h]
<1> DEFINE rest == more \ some
           left == all \ heads
<1>1. some \cup rest = more /\ heads \cup left = all
  OBVIOUS
<1>2. rest \in SUBSET Chunks /\ some \cap rest = {} /\ heads \cap left = {}
  OBVIOUS
<1> HIDE DEF rest, left
<1>3. CountsOf(some \cup rest, heads \cup left)[h] = CountsOf(some, heads)[h] + CountsOf(rest, left)[h]
  BY <1>2, CountsAddUp
<1>4. CountsOf(some, heads)[h] \in Nat /\ CountsOf(rest, left)[h] \in Nat
  BY <1>2, CountsAt
<1>5. CountsOf(more, all)[h] = CountsOf(some, heads)[h] + CountsOf(rest, left)[h]
  BY <1>1, <1>3
<1> QED
  BY <1>4, <1>5

\* A head whose turn it is is counted.
LEMMA OneMoreHead ==
  ASSUME NEW sources \in SUBSET Chunks, NEW heads \in SUBSET Chunks,
         NEW h \in Chunks \ heads, NEW k \in Chunks
  PROVE  CountsOf(sources, heads \cup {h})[k]
           = CountsOf(sources, heads)[k] + AsHead(k, {h})
<1>1. {} \in SUBSET Chunks /\ sources \cap {} = {} /\ heads \cap {h} = {} /\ sources \cup {} = sources
  OBVIOUS
<1>2. CountsOf(sources \cup {}, heads \cup {h})[k] = CountsOf(sources, heads)[k] + CountsOf({}, {h})[k]
  BY <1>1, CountsAddUp
<1>3. CountsOf({}, {h})[k] = Froms({}, k) + AsHead(k, {h})
  BY <1>1, CountsAt
<1>4. Froms({}, k) = 0
  <2>1. {} \cap Above[k] = {}
    OBVIOUS
  <2> QED
    BY <2>1, FS_EmptySet DEF Froms
<1>5. AsHead(k, {h}) \in Nat
  BY DEF AsHead
<1> QED
  BY <1>1, <1>2, <1>3, <1>4, <1>5

------------------------------------------------------------------------------
(* compute() of gc.ts, as it walks *)

VARIABLE walk

WalkSpec(job) == walk = Begun(job) /\ [][walk' \in Steps(job, walk)]_walk

\* The counts are those of the old heads and of the chunks counted before, and the refs of
\* what is put can be read.
IsJob(job) ==
  /\ job.new \in SUBSET Chunks /\ job.old \in SUBSET Chunks /\ job.puts \in SUBSET Chunks
  /\ job.before \in SUBSET Chunks /\ job.readable \in SUBSET Chunks
  /\ job.before \subseteq job.readable /\ job.puts \subseteq job.readable
  /\ job.readable \subseteq job.before \cup job.puts
  /\ Exact(job.n, job.before, job.old)

Added(job) == job.new \ job.old
Removed(job) == job.old \ job.new
ToCount(job) == Counting(job.n, Added(job), job.puts \ job.before, job.readable)
All(job) == [h \in Chunks |-> job.n[h] + CountsOf(ToCount(job), Added(job))[h]]
ToFree(job) == Freed(All(job), Removed(job), job.readable)

WalkTypes(w) ==
  w \in [doing : {"add", "put", "remove"}, heads : SUBSET Chunks, n : [Chunks -> Nat],
         calls : [Chunks -> Nat], turned : SUBSET Chunks, counted : SUBSET Chunks]

\* Each call that waits is for a ref of a chunk that was counted, or for a head.
Adding(job, w) ==
  /\ w.heads \subseteq Added(job)
  /\ w.doing = "put" => w.heads = {}
  /\ \A h \in Chunks :
       /\ w.n[h] + w.calls[h] = job.n[h] + CountsOf(w.counted, Added(job) \ w.heads)[h]
       /\ w.n[h] >= job.n[h]
  /\ w.counted \subseteq ToCount(job) /\ w.turned \cap job.readable \subseteq ToCount(job)
  /\ w.turned \cap w.counted = {}
  /\ \A h \in w.turned \cup w.counted : w.n[h] > 0
  /\ \A h \in job.readable : job.n[h] = 0 /\ w.n[h] > 0 => h \in w.turned \cup w.counted

\* The chunks whose refs have been uncounted.
Released(job, w) == {h \in job.readable : All(job)[h] > 0 /\ w.n[h] = 0 /\ h \notin w.turned}

Removing(job, w) ==
  /\ w.heads \subseteq Removed(job)
  /\ \A h \in Chunks :
       /\ w.n[h] + CountsOf(Released(job, w), Removed(job) \ w.heads)[h]
            = All(job)[h] + w.calls[h]
       /\ w.n[h] <= All(job)[h]
  /\ Released(job, w) \subseteq ToFree(job) /\ w.turned \cap job.readable \subseteq ToFree(job)
  /\ \A h \in w.turned : w.n[h] = 0 /\ All(job)[h] > 0

WalkInv(job, w) ==
  /\ WalkTypes(w)
  /\ w.doing # "remove" => Adding(job, w)
  /\ w.doing = "remove" => Removing(job, w)

\* What the walk of a job has to come to.
LEMMA JobCounts ==
  ASSUME NEW job, IsJob(job)
  PROVE  /\ job.n \in [Chunks -> Nat] /\ All(job) \in [Chunks -> Nat]
         /\ Added(job) \in SUBSET Chunks /\ Removed(job) \in SUBSET Chunks
         /\ \A h \in Chunks : All(job)[h] = job.n[h] + CountsOf(ToCount(job), Added(job))[h]
         /\ CountingIs(ToCount(job), job.n, Added(job), job.puts \ job.before, job.readable)
         /\ FreedIs(ToFree(job), All(job), Removed(job), job.readable)
         /\ \A h \in Chunks : CountsOf(ToFree(job), Removed(job))[h] <= All(job)[h]
         /\ RefCountUpdates(job.n, job.new, job.old, job.puts, job.before, job.readable)
              = [h \in Chunks |-> All(job)[h] - CountsOf(ToFree(job), Removed(job))[h]]
<1> DEFINE C == ToCount(job)
           F == ToFree(job)
           r == RefCountUpdates(job.n, job.new, job.old, job.puts, job.before, job.readable)
<1>1. CountingIs(C, job.n, Added(job), job.puts \ job.before, job.readable)
  BY CountingOf DEF ToCount
<1>2. FreedIs(F, All(job), Removed(job), job.readable)
  BY FreedOf DEF ToFree
<1>3. r = [h \in Chunks |-> All(job)[h] - CountsOf(F, Removed(job))[h]]
  BY DEF RefCountUpdates, ToCount, ToFree, All, Added, Removed
<1>4. r \in [Chunks -> Nat]
  <2>1. /\ job.new \in SUBSET Chunks /\ job.old \in SUBSET Chunks /\ job.puts \in SUBSET Chunks
        /\ job.before \in SUBSET Chunks /\ job.readable \in SUBSET Chunks
        /\ job.before \subseteq job.readable /\ job.puts \subseteq job.readable
        /\ job.readable \subseteq job.before \cup job.puts
        /\ Exact(job.n, job.before, job.old)
    BY DEF IsJob
  <2> QED
    BY <2>1, UpdatesExact
<1> HIDE DEF C, F, r
<1>5. C \in SUBSET Chunks /\ F \in SUBSET Chunks
  BY <1>1, <1>2 DEF CountingIs, FreedIs
<1>6. job.n \in [Chunks -> Nat]
  <2>1. {p \in job.before : job.n[p] > 0} \in SUBSET Chunks
    BY DEF IsJob
  <2> QED
    BY <2>1, CountsOfIs DEF IsJob, Exact
<1>7. CountsOf(C, Added(job)) \in [Chunks -> Nat] /\ CountsOf(F, Removed(job)) \in [Chunks -> Nat]
  BY <1>5, CountsOfIs
<1>8. All(job) \in [Chunks -> Nat]
      /\ \A h \in Chunks : All(job)[h] = job.n[h] + CountsOf(C, Added(job))[h]
  <2> DEFINE c == CountsOf(C, Added(job))
  <2>1. c \in [Chunks -> Nat] /\ All(job) = [h \in Chunks |-> job.n[h] + c[h]]
    BY <1>7 DEF All, C
  <2> HIDE DEF c
  <2>2. All(job) \in [Chunks -> Nat] /\ \A h \in Chunks : All(job)[h] = job.n[h] + c[h]
    BY <1>6, <2>1
  <2> QED
    BY <2>2 DEF c
<1>9. \A h \in Chunks : CountsOf(F, Removed(job))[h] <= All(job)[h]
  <2> DEFINE g == CountsOf(F, Removed(job))
  <2>1. g \in [Chunks -> Nat] /\ r = [h \in Chunks |-> All(job)[h] - g[h]]
    BY <1>3, <1>7
  <2> HIDE DEF g
  <2>2. \A h \in Chunks : g[h] <= All(job)[h]
    BY <1>4, <1>8, <2>1
  <2> QED
    BY <2>2 DEF g
<1>10. Added(job) \in SUBSET Chunks /\ Removed(job) \in SUBSET Chunks
  BY DEF Added, Removed, IsJob
<1>11. /\ \A h \in Chunks : All(job)[h] = job.n[h] + CountsOf(ToCount(job), Added(job))[h]
       /\ CountingIs(ToCount(job), job.n, Added(job), job.puts \ job.before, job.readable)
       /\ FreedIs(ToFree(job), All(job), Removed(job), job.readable)
       /\ \A h \in Chunks : CountsOf(ToFree(job), Removed(job))[h] <= All(job)[h]
  BY <1>1, <1>2, <1>8, <1>9 DEF C, F
<1>12. RefCountUpdates(job.n, job.new, job.old, job.puts, job.before, job.readable)
         = [h \in Chunks |-> All(job)[h] - CountsOf(ToFree(job), Removed(job))[h]]
  BY <1>3 DEF r, F
<1> QED
  BY <1>6, <1>8, <1>10, <1>11, <1>12

------------------------------------------------------------------------------
(* What the steps of the walk change *)

LEMMA ChangedFields ==
  ASSUME NEW w, WalkTypes(w), NEW h \in Chunks, w.calls[h] > 0,
         w.doing = "remove" => w.n[h] > 0
  PROVE  /\ WalkTypes(Changed(w, h))
         /\ Changed(w, h).doing = w.doing /\ Changed(w, h).heads = w.heads
         /\ Changed(w, h).counted = w.counted
         /\ Changed(w, h).calls = [w.calls EXCEPT ![h] = @ - 1]
         /\ Changed(w, h).n = [w.n EXCEPT ![h] = IF w.doing = "remove" THEN @ - 1 ELSE @ + 1]
         /\ Changed(w, h).turned = IF w.n[h] = (IF w.doing = "remove" THEN 1 ELSE 0)
                                   THEN w.turned \cup {h} ELSE w.turned
<1> DEFINE calls == [w.calls EXCEPT ![h] = @ - 1]
           n == [w.n EXCEPT ![h] = IF w.doing = "remove" THEN @ - 1 ELSE @ + 1]
           turned == IF w.n[h] = (IF w.doing = "remove" THEN 1 ELSE 0)
                     THEN w.turned \cup {h} ELSE w.turned
<1>1. calls \in [Chunks -> Nat]
  BY DEF WalkTypes
<1>2. turned \in SUBSET Chunks
  BY DEF WalkTypes
<1>3. n \in [Chunks -> Nat]
  <2>1. CASE w.doing = "remove"
    BY <2>1 DEF WalkTypes
  <2>2. CASE w.doing # "remove"
    BY <2>2 DEF WalkTypes
  <2> QED
    BY <2>1, <2>2
<1>4. Changed(w, h) = [w EXCEPT !.calls = calls, !.n = n, !.turned = turned]
  BY DEF Changed
<1> HIDE DEF calls, n, turned
<1>5. WalkTypes(Changed(w, h))
  BY <1>1, <1>2, <1>3, <1>4 DEF WalkTypes
<1>6. /\ Changed(w, h).doing = w.doing /\ Changed(w, h).heads = w.heads
      /\ Changed(w, h).counted = w.counted /\ Changed(w, h).calls = calls
      /\ Changed(w, h).n = n /\ Changed(w, h).turned = turned
  BY <1>4 DEF WalkTypes
<1> QED
  BY <1>5, <1>6 DEF calls, n, turned

LEMMA NextHeadFields ==
  ASSUME NEW w, WalkTypes(w), NEW h \in Chunks
  PROVE  /\ WalkTypes(NextHead(w, h))
         /\ NextHead(w, h).doing = w.doing /\ NextHead(w, h).heads = w.heads \ {h}
         /\ NextHead(w, h).counted = w.counted /\ NextHead(w, h).turned = w.turned
         /\ NextHead(w, h).n = w.n /\ NextHead(w, h).calls = [w.calls EXCEPT ![h] = @ + 1]
<1>1. [w.calls EXCEPT ![h] = w.calls[h] + 1] \in [Chunks -> Nat]
  BY DEF WalkTypes
<1>2. w.heads \ {h} \in SUBSET Chunks
  BY DEF WalkTypes
<1>3. WalkTypes(NextHead(w, h))
  BY <1>1, <1>2 DEF NextHead, WalkTypes
<1> QED
  BY <1>3 DEF NextHead, WalkTypes

\* One more call for each of its refs.
CalledBelow(w, h) == [k \in Chunks |-> w.calls[k] + IF k \in Refs[h] THEN 1 ELSE 0]

LoadedFields(job, w, h, v) ==
  /\ WalkTypes(v)
  /\ v.doing = w.doing /\ v.heads = w.heads /\ v.turned = w.turned \ {h} /\ v.n = w.n
  /\ h \in job.readable => v.counted = w.counted \cup {h} /\ v.calls = CalledBelow(w, h)
  /\ h \notin job.readable => v.counted = w.counted /\ v.calls = w.calls

LEMMA RefsLoadedFields ==
  ASSUME NEW job, NEW w, WalkTypes(w), NEW h \in Chunks
  PROVE  LoadedFields(job, w, h, RefsLoaded(job, w, h))
<1>1. CalledBelow(w, h) \in [Chunks -> Nat]
  <2>1. \A k \in Chunks : (w.calls[k] + IF k \in Refs[h] THEN 1 ELSE 0) \in Nat
    BY DEF WalkTypes
  <2> QED
    BY <2>1 DEF CalledBelow
<1>2. CASE h \in job.readable
  <2>1. RefsLoaded(job, w, h)
          = [w EXCEPT !.turned = w.turned \ {h}, !.counted = w.counted \cup {h},
                      !.calls = CalledBelow(w, h)]
    BY <1>2 DEF RefsLoaded, CalledBelow
  <2>2. w.turned \ {h} \in SUBSET Chunks /\ w.counted \cup {h} \in SUBSET Chunks
    BY DEF WalkTypes
  <2>3. WalkTypes(RefsLoaded(job, w, h))
    BY <1>1, <2>1, <2>2 DEF WalkTypes
  <2> QED
    BY <1>2, <2>1, <2>3 DEF WalkTypes, LoadedFields
<1>3. CASE h \notin job.readable
  <2>1. RefsLoaded(job, w, h) = [w EXCEPT !.turned = w.turned \ {h}]
    BY <1>3 DEF RefsLoaded
  <2>2. w.turned \ {h} \in SUBSET Chunks
    BY DEF WalkTypes
  <2>3. WalkTypes(RefsLoaded(job, w, h))
    BY <2>1, <2>2 DEF WalkTypes
  <2> QED
    BY <1>3, <2>1, <2>3 DEF WalkTypes, LoadedFields
<1> QED
  BY <1>2, <1>3

LEMMA CountPutFields ==
  ASSUME NEW w, WalkTypes(w), NEW h \in Chunks
  PROVE  /\ WalkTypes(CountPut(w, h))
         /\ CountPut(w, h).doing = w.doing /\ CountPut(w, h).heads = w.heads
         /\ CountPut(w, h).counted = w.counted /\ CountPut(w, h).turned = {h}
         /\ CountPut(w, h).n = w.n /\ CountPut(w, h).calls = w.calls
BY DEF CountPut, WalkTypes

------------------------------------------------------------------------------
(* While it counts *)

LEMMA BegunInv ==
  ASSUME NEW job, IsJob(job)
  PROVE  WalkInv(job, Begun(job))
<1> DEFINE w == Begun(job)
<1>1. /\ w.doing = "add" /\ w.heads = Added(job) /\ w.n = job.n
      /\ w.calls = [h \in Chunks |-> 0] /\ w.turned = {} /\ w.counted = {}
  BY DEF Begun, Added
<1>2. job.n \in [Chunks -> Nat] /\ Added(job) \in SUBSET Chunks
  BY JobCounts
<1>3. WalkTypes(w)
  BY <1>1, <1>2 DEF WalkTypes, Begun, Added
<1>4. \A h \in Chunks : CountsOf({}, {})[h] = 0
  <2> TAKE h \in Chunks
  <2>1. CountsOf({}, {})[h] \in Nat /\ (CountsOf({}, {})[h] > 0 <=> h \in {} \/ \E p \in {} : h \in Refs[p])
    BY CountsAt
  <2> QED
    BY <2>1
<1> HIDE DEF w
<1>5. Adding(job, w)
  <2>1. Added(job) \ w.heads = {}
    BY <1>1
  <2>2. \A h \in Chunks : w.n[h] + w.calls[h] = job.n[h] + CountsOf(w.counted, Added(job) \ w.heads)[h]
                          /\ w.n[h] >= job.n[h]
    <3> TAKE h \in Chunks
    <3>1. w.calls[h] = 0 /\ w.n[h] = job.n[h] /\ job.n[h] \in Nat
      BY <1>1, <1>2
    <3>2. CountsOf(w.counted, Added(job) \ w.heads)[h] = 0
      BY <1>1, <1>4, <2>1
    <3> QED
      BY <3>1, <3>2
  <2>3. \A h \in job.readable : ~(job.n[h] = 0 /\ w.n[h] > 0)
    BY <1>1
  <2> QED
    BY <1>1, <2>2, <2>3 DEF Adding
<1> QED
  BY <1>1, <1>3, <1>5 DEF WalkInv, w

\* A reference from a chunk that is counted, or as a head.
LEMMA ToBeCounted ==
  ASSUME NEW job, IsJob(job), NEW some \in SUBSET Chunks, some \subseteq ToCount(job),
         NEW heads, heads \subseteq Added(job), NEW h \in job.readable,
         job.n[h] = 0, CountsOf(some, heads)[h] > 0
  PROVE  h \in ToCount(job)
<1>1. h \in Chunks
  BY DEF IsJob
<1>2. h \in heads \/ \E p \in some : h \in Refs[p]
  BY <1>1, CountsOfIs
<1>3. CountingIs(ToCount(job), job.n, Added(job), job.puts \ job.before, job.readable)
  BY JobCounts
<1> QED
  BY <1>1, <1>2, <1>3 DEF CountingIs

LEMMA ChangedAdds ==
  ASSUME NEW job, IsJob(job), NEW w, WalkInv(job, w), w.doing # "remove",
         NEW h \in Chunks, w.calls[h] > 0
  PROVE  WalkInv(job, Changed(w, h))
<1> DEFINE v == Changed(w, h)
<1>1. WalkTypes(w) /\ Adding(job, w)
  BY DEF WalkInv
<1>2. /\ v.doing = w.doing /\ v.heads = w.heads /\ v.counted = w.counted
      /\ v.n = [w.n EXCEPT ![h] = @ + 1] /\ v.calls = [w.calls EXCEPT ![h] = @ - 1]
      /\ v.turned = IF w.n[h] = 0 THEN w.turned \cup {h} ELSE w.turned
  BY <1>1, ChangedFields
<1>5. WalkTypes(v)
  BY <1>1, ChangedFields
<1> HIDE DEF v
<1>4. w.n \in [Chunks -> Nat] /\ w.calls \in [Chunks -> Nat] /\ w.turned \in SUBSET Chunks
      /\ w.counted \in SUBSET Chunks /\ w.heads \in SUBSET Chunks
  BY <1>1 DEF WalkTypes
<1>6. \A k \in Chunks : /\ v.n[k] = w.n[k] + (IF k = h THEN 1 ELSE 0)
                        /\ v.calls[k] = w.calls[k] - (IF k = h THEN 1 ELSE 0)
                        /\ w.n[k] \in Nat /\ w.calls[k] \in Nat
  BY <1>2, <1>4
<1>7. job.n \in [Chunks -> Nat] /\ job.readable \in SUBSET Chunks
  BY JobCounts DEF IsJob
<1>8. \A k \in Chunks : /\ w.n[k] + w.calls[k] = job.n[k] + CountsOf(w.counted, Added(job) \ w.heads)[k]
                        /\ w.n[k] >= job.n[k]
  BY <1>1 DEF Adding
<1>9. \A k \in Chunks : CountsOf(w.counted, Added(job) \ w.heads)[k] \in Nat
  BY <1>4, CountsAt
<1>10. w.n[h] = 0 => job.n[h] = 0 /\ CountsOf(w.counted, Added(job) \ w.heads)[h] > 0
  <2> DEFINE c == CountsOf(w.counted, Added(job) \ w.heads)[h]
  <2>1. w.n[h] + w.calls[h] = job.n[h] + c /\ w.n[h] >= job.n[h] /\ c \in Nat
        /\ job.n[h] \in Nat
    BY <1>7, <1>8, <1>9
  <2> HIDE DEF c
  <2>2. w.n[h] = 0 => job.n[h] = 0 /\ c > 0
    BY <1>6, <2>1
  <2> QED
    BY <2>2 DEF c
<1>11. h \in v.turned \cap job.readable => h \in ToCount(job)
  <2> SUFFICES ASSUME h \in v.turned, h \in job.readable PROVE h \in ToCount(job)
    OBVIOUS
  <2>1. CASE w.n[h] = 0
    <3>1. w.counted \subseteq ToCount(job) /\ (Added(job) \ w.heads) \subseteq Added(job)
      BY <1>1 DEF Adding
    <3>2. w.counted \in SUBSET Chunks /\ job.n[h] = 0 /\ CountsOf(w.counted, Added(job) \ w.heads)[h] > 0
      BY <1>4, <1>10, <2>1
    <3> QED
      BY <3>1, <3>2, ToBeCounted
  <2>2. CASE w.n[h] # 0
    BY <1>1, <1>2, <2>2 DEF Adding
  <2> QED
    BY <2>1, <2>2
<1>12. \A k \in v.turned : k \in w.turned \/ (k = h /\ w.n[h] = 0)
  BY <1>2
<1>13. w.turned \subseteq v.turned /\ (w.n[h] = 0 => h \in v.turned)
  BY <1>2
<1>14. Adding(job, v)
  <2>1. v.heads \subseteq Added(job) /\ (v.doing = "put" => v.heads = {}) /\ v.counted \subseteq ToCount(job)
    BY <1>1, <1>2 DEF Adding
  <2>2. ASSUME NEW k \in Chunks
        PROVE  /\ v.n[k] + v.calls[k] = job.n[k] + CountsOf(v.counted, Added(job) \ v.heads)[k]
               /\ v.n[k] >= job.n[k]
    <3> DEFINE c == CountsOf(w.counted, Added(job) \ w.heads)[k]
    <3>1. w.n[k] + w.calls[k] = job.n[k] + c /\ w.n[k] >= job.n[k] /\ c \in Nat
          /\ job.n[k] \in Nat
      BY <1>7, <1>8, <1>9
    <3>2. CountsOf(v.counted, Added(job) \ v.heads)[k] = c
      BY <1>2
    <3> HIDE DEF c
    <3> QED
      BY <1>6, <3>1, <3>2
  <2>3. v.turned \cap job.readable \subseteq ToCount(job)
    BY <1>1, <1>11, <1>12 DEF Adding
  <2>4. v.turned \cap v.counted = {}
    <3>1. w.n[h] = 0 => h \notin w.counted
      BY <1>1 DEF Adding
    <3> QED
      BY <1>1, <1>2, <1>12, <3>1 DEF Adding
  <2>5. \A k \in v.turned \cup v.counted : v.n[k] > 0
    <3> SUFFICES ASSUME NEW k \in v.turned \cup v.counted PROVE v.n[k] > 0
      OBVIOUS
    <3>1. k \in Chunks
      BY <1>2, <1>4, <1>12
    <3>2. k = h \/ w.n[k] > 0
      BY <1>1, <1>2, <1>12 DEF Adding
    <3> QED
      BY <1>6, <3>1, <3>2
  <2>6. \A k \in job.readable : job.n[k] = 0 /\ v.n[k] > 0 => k \in v.turned \cup v.counted
    <3> SUFFICES ASSUME NEW k \in job.readable, job.n[k] = 0, v.n[k] > 0
                 PROVE  k \in v.turned \cup v.counted
      OBVIOUS
    <3>1. k \in Chunks
      BY <1>7
    <3>2. w.n[k] > 0 \/ (k = h /\ w.n[h] = 0)
      BY <1>6, <3>1
    <3>3. w.n[k] > 0 => k \in w.turned \cup w.counted
      BY <1>1 DEF Adding
    <3> QED
      BY <1>2, <1>13, <3>2, <3>3
  <2> QED
    BY <2>1, <2>2, <2>3, <2>4, <2>5, <2>6 DEF Adding
<1>15. v.doing # "remove"
  BY <1>2
<1>16. WalkInv(job, v)
  BY <1>5, <1>14, <1>15 DEF WalkInv
<1> QED
  BY <1>16 DEF v

LEMMA NextHeadAdds ==
  ASSUME NEW job, IsJob(job), NEW w, WalkInv(job, w), w.doing # "remove", NEW h \in w.heads
  PROVE  WalkInv(job, NextHead(w, h))
<1> DEFINE v == NextHead(w, h)
<1>1. WalkTypes(w) /\ Adding(job, w)
  BY DEF WalkInv
<1>4. w.n \in [Chunks -> Nat] /\ w.calls \in [Chunks -> Nat] /\ w.turned \in SUBSET Chunks
      /\ w.counted \in SUBSET Chunks /\ w.heads \in SUBSET Chunks /\ h \in Chunks
  BY <1>1 DEF WalkTypes
<1>2. /\ v.doing = w.doing /\ v.heads = w.heads \ {h} /\ v.counted = w.counted
      /\ v.n = w.n /\ v.calls = [w.calls EXCEPT ![h] = @ + 1] /\ v.turned = w.turned
  BY <1>1, <1>4, NextHeadFields
<1>5. WalkTypes(v)
  BY <1>1, <1>4, NextHeadFields
<1> HIDE DEF v
<1>6. job.n \in [Chunks -> Nat] /\ Added(job) \in SUBSET Chunks
  BY JobCounts
<1>7. w.heads \subseteq Added(job)
  BY <1>1 DEF Adding
<1>8. ASSUME NEW k \in Chunks
      PROVE  v.n[k] + v.calls[k] = job.n[k] + CountsOf(v.counted, Added(job) \ v.heads)[k]
  <2> DEFINE c == CountsOf(w.counted, Added(job) \ w.heads)[k]
             one == AsHead(k, {h})
  <2>1. Added(job) \ v.heads = (Added(job) \ w.heads) \cup {h}
    BY <1>2, <1>7
  <2>2. Added(job) \ w.heads \in SUBSET Chunks /\ h \in Chunks \ (Added(job) \ w.heads)
    BY <1>4, <1>6
  <2>3. CountsOf(w.counted, (Added(job) \ w.heads) \cup {h})[k] = c + one
    <3> DEFINE rest == Added(job) \ w.heads
    <3>1. rest \in SUBSET Chunks /\ h \in Chunks \ rest /\ w.counted \in SUBSET Chunks
      BY <1>4, <2>2
    <3> HIDE DEF rest
    <3>2. CountsOf(w.counted, rest \cup {h})[k] = CountsOf(w.counted, rest)[k] + AsHead(k, {h})
      BY <3>1, OneMoreHead
    <3> QED
      BY <3>2 DEF rest
  <2>4. CountsOf(v.counted, Added(job) \ v.heads)[k] = c + one
    BY <1>2, <2>1, <2>3
  <2>5. w.n[k] + w.calls[k] = job.n[k] + c
    BY <1>1 DEF Adding
  <2>6. v.calls[k] = w.calls[k] + one /\ one \in Nat
    BY <1>2, <1>4 DEF AsHead
  <2>7. c \in Nat /\ w.n[k] \in Nat /\ w.calls[k] \in Nat /\ job.n[k] \in Nat
    BY <1>4, <1>6, CountsAt
  <2> HIDE DEF c, one
  <2> QED
    BY <1>2, <2>4, <2>5, <2>6, <2>7
<1>9. Adding(job, v)
  <2>1. v.heads \subseteq Added(job) /\ (v.doing = "put" => v.heads = {})
    BY <1>1, <1>2 DEF Adding
  <2>2. \A k \in Chunks : v.n[k] >= job.n[k]
    BY <1>1, <1>2 DEF Adding
  <2>3. /\ v.counted \subseteq ToCount(job) /\ v.turned \cap job.readable \subseteq ToCount(job)
        /\ v.turned \cap v.counted = {}
        /\ \A k \in v.turned \cup v.counted : v.n[k] > 0
        /\ \A k \in job.readable : job.n[k] = 0 /\ v.n[k] > 0 => k \in v.turned \cup v.counted
    BY <1>1, <1>2 DEF Adding
  <2> QED
    BY <1>8, <2>1, <2>2, <2>3 DEF Adding
<1>10. WalkInv(job, v)
  BY <1>2, <1>5, <1>9 DEF WalkInv
<1> QED
  BY <1>10 DEF v

LEMMA RefsLoadedAdds ==
  ASSUME NEW job, IsJob(job), NEW w, WalkInv(job, w), w.doing # "remove", NEW h \in w.turned
  PROVE  WalkInv(job, RefsLoaded(job, w, h))
<1> DEFINE v == RefsLoaded(job, w, h)
           rest == Added(job) \ w.heads
<1>1. WalkTypes(w) /\ Adding(job, w)
  BY DEF WalkInv
<1>2. w.n \in [Chunks -> Nat] /\ w.calls \in [Chunks -> Nat] /\ w.counted \in SUBSET Chunks /\ h \in Chunks
  BY <1>1 DEF WalkTypes
<1>3. /\ WalkTypes(v) /\ v.doing = w.doing /\ v.heads = w.heads
      /\ v.turned = w.turned \ {h} /\ v.n = w.n
      /\ h \in job.readable => v.counted = w.counted \cup {h} /\ v.calls = CalledBelow(w, h)
      /\ h \notin job.readable => v.counted = w.counted /\ v.calls = w.calls
  <2>1. WalkTypes(w) /\ h \in Chunks
    BY <1>1, <1>2
  <2>2. LoadedFields(job, w, h, v)
    BY <2>1, RefsLoadedFields
  <2> HIDE DEF v
  <2> QED
    BY <2>2 DEF LoadedFields
<1> HIDE DEF v
<1>4. h \notin w.counted /\ w.n[h] > 0 /\ (h \in job.readable => h \in ToCount(job))
  BY <1>1 DEF Adding
<1>5. job.n \in [Chunks -> Nat]
  BY JobCounts
<1>6. ASSUME NEW k \in Chunks
      PROVE  v.n[k] + v.calls[k] = job.n[k] + CountsOf(v.counted, rest)[k]
  <2>1. w.n[k] + w.calls[k] = job.n[k] + CountsOf(w.counted, rest)[k]
    BY <1>1 DEF Adding
  <2>2. CASE h \notin job.readable
    BY <1>3, <2>1, <2>2
  <2>3. CASE h \in job.readable
    <3> DEFINE one == AsHead(k, Refs[h])
               c == CountsOf(w.counted, rest)[k]
    <3>1. CountsOf(w.counted \cup {h}, rest)[k] = c + one
      <4>1. h \in Chunks \ w.counted /\ w.counted \in SUBSET Chunks
        BY <1>2, <1>4
      <4>2. CountsOf(w.counted \cup {h}, rest)[k]
              = CountsOf(w.counted, rest)[k] + AsHead(k, Refs[h])
        <5> DEFINE some == w.counted
        <5>1. some \in SUBSET Chunks /\ h \in Chunks \ some
          BY <4>1
        <5> HIDE DEF rest, one, c, some
        <5>2. CountsOf(some \cup {h}, rest)[k]
                = CountsOf(some, rest)[k] + AsHead(k, Refs[h])
          BY <5>1, OneMoreCounted
        <5> QED
          BY <5>2 DEF some
      <4> QED
        BY <4>2
    <3>2. v.calls[k] = w.calls[k] + one /\ one \in Nat
      BY <1>3, <2>3 DEF CalledBelow, AsHead
    <3>3. c \in Nat /\ w.n[k] \in Nat /\ w.calls[k] \in Nat /\ job.n[k] \in Nat
      BY <1>2, <1>5, CountsAt
    <3>4. CountsOf(v.counted, rest)[k] = c + one
      BY <1>3, <2>3, <3>1
    <3> HIDE DEF c, one
    <3>5. w.n[k] + w.calls[k] = job.n[k] + c
      BY <2>1 DEF c
    <3> QED
      BY <1>3, <3>2, <3>3, <3>4, <3>5
  <2> QED
    BY <2>2, <2>3
<1>7. Adding(job, v)
  <2>1. v.heads \subseteq Added(job) /\ (v.doing = "put" => v.heads = {})
    BY <1>1, <1>3 DEF Adding
  <2>2. \A k \in Chunks : v.n[k] >= job.n[k]
    BY <1>1, <1>3 DEF Adding
  <2>3. \A k \in v.counted : k \in w.counted \/ (k = h /\ h \in job.readable)
    BY <1>3
  <2>4. v.counted \subseteq ToCount(job) /\ v.turned \cap job.readable \subseteq ToCount(job)
    BY <1>1, <1>3, <1>4, <2>3 DEF Adding
  <2>5. v.turned \cap v.counted = {}
    BY <1>1, <1>3, <2>3 DEF Adding
  <2>6. \A k \in v.turned \cup v.counted : v.n[k] > 0
    BY <1>1, <1>3, <1>4, <2>3 DEF Adding
  <2>7. \A k \in job.readable : job.n[k] = 0 /\ v.n[k] > 0 => k \in v.turned \cup v.counted
    <3> SUFFICES ASSUME NEW k \in job.readable, job.n[k] = 0, v.n[k] > 0
                 PROVE  k \in v.turned \cup v.counted
      OBVIOUS
    <3>1. k \in w.turned \cup w.counted
      BY <1>1, <1>3 DEF Adding
    <3> QED
      BY <1>3, <3>1
  <2>8. Added(job) \ v.heads = rest
    BY <1>3
  <2>9. \A k \in Chunks :
          /\ v.n[k] + v.calls[k] = job.n[k] + CountsOf(v.counted, Added(job) \ v.heads)[k]
          /\ v.n[k] >= job.n[k]
    BY <1>6, <2>2, <2>8
  <2> QED
    BY <2>1, <2>9, <2>4, <2>5, <2>6, <2>7 DEF Adding
<1>8. WalkInv(job, v)
  BY <1>3, <1>7 DEF WalkInv
<1> QED
  BY <1>8 DEF v

\* A chunk that the write has put, and that is referred to from somewhere, is counted.
LEMMA CountPutAdds ==
  ASSUME NEW job, IsJob(job), NEW w, WalkInv(job, w), w.doing # "remove", Idle(w),
         NEW h \in Uncounted(job, w)
  PROVE  WalkInv(job, CountPut(w, h))
<1> DEFINE v == CountPut(w, h)
<1>1. WalkTypes(w) /\ Adding(job, w)
  BY DEF WalkInv
<1>2. h \in Chunks /\ h \in job.readable /\ h \in job.puts \ job.before /\ h \notin w.counted
      /\ w.n[h] # 0
  BY DEF Uncounted, IsJob
<1>3. /\ WalkTypes(v) /\ v.doing = w.doing /\ v.heads = w.heads /\ v.counted = w.counted
      /\ v.turned = {h} /\ v.n = w.n /\ v.calls = w.calls
  BY <1>1, <1>2, CountPutFields
<1> HIDE DEF v
<1>4. w.n[h] > 0
  BY <1>1, <1>2 DEF WalkTypes
<1>5. w.turned = {}
  BY DEF Idle
<1>6. job.n[h] # 0
  BY <1>1, <1>2, <1>4, <1>5 DEF Adding
<1>7. h \in ToCount(job)
  <2>1. CountingIs(ToCount(job), job.n, Added(job), job.puts \ job.before, job.readable)
    BY JobCounts
  <2> QED
    BY <1>2, <1>6, <2>1 DEF CountingIs
<1>8. Adding(job, v)
  <2>1. v.heads \subseteq Added(job) /\ (v.doing = "put" => v.heads = {})
    BY <1>1, <1>3 DEF Adding
  <2>2. \A k \in Chunks :
          /\ v.n[k] + v.calls[k] = job.n[k] + CountsOf(v.counted, Added(job) \ v.heads)[k]
          /\ v.n[k] >= job.n[k]
    BY <1>1, <1>3 DEF Adding
  <2>3. v.counted \subseteq ToCount(job) /\ v.turned \cap job.readable \subseteq ToCount(job)
    BY <1>1, <1>3, <1>7 DEF Adding
  <2>4. v.turned \cap v.counted = {}
    BY <1>2, <1>3
  <2>5. \A k \in v.turned \cup v.counted : v.n[k] > 0
    BY <1>1, <1>3, <1>4 DEF Adding
  <2>6. \A k \in job.readable : job.n[k] = 0 /\ v.n[k] > 0 => k \in v.turned \cup v.counted
    BY <1>1, <1>3, <1>5 DEF Adding
  <2> QED
    BY <2>1, <2>2, <2>3, <2>4, <2>5, <2>6 DEF Adding
<1>9. WalkInv(job, v)
  BY <1>3, <1>8 DEF WalkInv
<1> QED
  BY <1>9 DEF v

------------------------------------------------------------------------------
(* The counts when all is counted, and when all is freed *)

\* When nothing is left to count, every chunk that is to be counted has been.
LEMMA AllCounted ==
  ASSUME NEW job, IsJob(job), NEW w, WalkInv(job, w), w.doing = "put", Idle(w),
         Uncounted(job, w) = {}
  PROVE  w.n = All(job)
<1> DEFINE C == ToCount(job)
           A == Added(job)
<1>1. WalkTypes(w) /\ Adding(job, w)
  BY DEF WalkInv
<1>2. w.turned = {} /\ w.heads = {} /\ \A h \in Chunks : w.calls[h] = 0
  BY <1>1 DEF Idle, Adding
<1>3. w.n \in [Chunks -> Nat] /\ w.counted \in SUBSET Chunks
  BY <1>1 DEF WalkTypes
<1>4. /\ job.n \in [Chunks -> Nat] /\ All(job) \in [Chunks -> Nat] /\ A \in SUBSET Chunks
      /\ \A h \in Chunks : All(job)[h] = job.n[h] + CountsOf(C, A)[h]
  BY JobCounts
<1>5. CountingIs(C, job.n, A, job.puts \ job.before, job.readable)
  BY JobCounts
<1> HIDE DEF C, A
<1>6. A \ w.heads = A
  BY <1>2
<1>7. \A h \in Chunks : w.n[h] = job.n[h] + CountsOf(w.counted, A)[h]
  <2> TAKE h \in Chunks
  <2>1. w.n[h] + w.calls[h] = job.n[h] + CountsOf(w.counted, A)[h]
    BY <1>1, <1>6 DEF Adding, A
  <2> QED
    BY <1>2, <1>3, <2>1
<1>8. w.counted \subseteq C /\ C \in SUBSET Chunks
  BY <1>1, <1>5 DEF Adding, CountingIs, C
<1>9. C \subseteq w.counted
  <2> DEFINE rest == C \ w.counted
  <2> SUFFICES ASSUME rest # {} PROVE FALSE
    OBVIOUS
  <2>1. rest \in SUBSET Chunks
    BY <1>8
  <2>2. PICK h \in rest : Above[h] \cap rest = {}
    BY <2>1, AboveWellFounded DEF WellFounded
  <2>3. h \in Chunks /\ h \in job.readable /\ (job.n[h] = 0 \/ h \in job.puts \ job.before)
        /\ (job.n[h] # 0 \/ h \in A \/ \E p \in C : h \in Refs[p])
    BY <1>5, <1>8, <2>2 DEF CountingIs
  <2>4. \A p \in C : h \in Refs[p] => p \in w.counted
    BY <1>8, <2>2, <2>3, AboveOf
  <2>5. CountsOf(w.counted, A)[h] \in Nat
        /\ (CountsOf(w.counted, A)[h] > 0 <=> h \in A \/ \E p \in w.counted : h \in Refs[p])
    <3> DEFINE some == w.counted
    <3>1. some \in SUBSET Chunks
      BY <1>3
    <3> HIDE DEF some
    <3>2. CountsOf(some, A)[h] \in Nat
          /\ (CountsOf(some, A)[h] > 0 <=> h \in A \/ \E p \in some : h \in Refs[p])
      <4>1. CountsOf(some, A) \in [Chunks -> Nat]
            /\ \A k \in Chunks : CountsOf(some, A)[k] > 0 <=> k \in A \/ \E p \in some : k \in Refs[p]
        BY <3>1, CountsOfIs
      <4> QED
        BY <2>3, <4>1
    <3> QED
      BY <3>2 DEF some
  <2>6. job.n[h] # 0 \/ CountsOf(w.counted, A)[h] > 0
    BY <2>3, <2>4, <2>5
  <2>7. w.n[h] > 0
    <3> DEFINE c == CountsOf(w.counted, A)[h]
    <3>1. w.n[h] = job.n[h] + c /\ job.n[h] \in Nat /\ c \in Nat /\ (job.n[h] # 0 \/ c > 0)
      BY <1>4, <1>7, <2>3, <2>5, <2>6
    <3> HIDE DEF c
    <3> QED
      BY <3>1
  <2>8. job.n[h] # 0
    BY <1>1, <1>2, <2>2, <2>3, <2>7 DEF Adding
  <2>9. h \in Uncounted(job, w)
    BY <2>2, <2>3, <2>7, <2>8 DEF Uncounted
  <2> QED
    BY <2>9
<1>10. w.counted = C
  BY <1>8, <1>9
<1>11. \A h \in Chunks : w.n[h] = All(job)[h]
  BY <1>4, <1>7, <1>10
<1> QED
  BY <1>3, <1>4, <1>11

\* When nothing is left to uncount, every chunk that is to be freed has been.
LEMMA AllReleased ==
  ASSUME NEW job, IsJob(job), NEW w, WalkInv(job, w), Done(w)
  PROVE  w.n = RefCountUpdates(job.n, job.new, job.old, job.puts, job.before, job.readable)
<1> DEFINE F == ToFree(job)
           B == Removed(job)
           R == Released(job, w)
<1>1. WalkTypes(w) /\ Removing(job, w) /\ w.heads = {} /\ Idle(w)
  BY DEF WalkInv, Done
<1>2. w.turned = {} /\ \A h \in Chunks : w.calls[h] = 0
  BY <1>1 DEF Idle
<1>3. w.n \in [Chunks -> Nat]
  BY <1>1 DEF WalkTypes
<1>4. /\ All(job) \in [Chunks -> Nat] /\ B \in SUBSET Chunks
      /\ RefCountUpdates(job.n, job.new, job.old, job.puts, job.before, job.readable)
           = [h \in Chunks |-> All(job)[h] - CountsOf(F, B)[h]]
  BY JobCounts
<1>5. FreedIs(F, All(job), B, job.readable)
  BY JobCounts
<1>6. R \subseteq F
  BY <1>1 DEF Removing
<1>7. \A h \in job.readable : All(job)[h] > 0 /\ w.n[h] = 0 => h \in R
  BY <1>2 DEF Released
<1>8. B \ w.heads = B
  BY <1>1
<1>9. \A h \in Chunks : w.n[h] + CountsOf(R, B)[h] = All(job)[h] + w.calls[h]
  BY <1>1, <1>8 DEF Removing
<1> HIDE DEF F, B, R
<1>10. F \in SUBSET Chunks
  BY <1>5 DEF FreedIs
<1>11. \A h \in Chunks : CountsOf(R, B)[h] \in Nat /\ w.n[h] = All(job)[h] - CountsOf(R, B)[h]
  <2> TAKE h \in Chunks
  <2>1. R \in SUBSET Chunks
    BY <1>6, <1>10
  <2> DEFINE g == CountsOf(R, B)[h]
  <2>2. g \in Nat /\ w.n[h] + g = All(job)[h] + w.calls[h] /\ w.calls[h] = 0
    BY <1>2, <1>9, <2>1, CountsAt
  <2> HIDE DEF g
  <2>3. w.n[h] = All(job)[h] - g
    BY <1>3, <1>4, <2>2
  <2> QED
    BY <2>2, <2>3 DEF g
<1>12. F \subseteq R
  <2> DEFINE rest == F \ R
  <2> SUFFICES ASSUME rest # {} PROVE FALSE
    OBVIOUS
  <2>1. rest \in SUBSET Chunks
    BY <1>10
  <2>2. PICK h \in rest : Above[h] \cap rest = {}
    BY <2>1, AboveWellFounded DEF WellFounded
  <2>3. h \in Chunks /\ h \in job.readable /\ All(job)[h] > 0
        /\ All(job)[h] = Froms(F, h) + AsHead(h, B)
    BY <1>5, <1>10, <2>2 DEF FreedIs
  <2>4. R \cap Above[h] = F \cap Above[h]
    BY <1>6, <2>2
  <2>5. Froms(R, h) = Froms(F, h)
    BY <2>4 DEF Froms
  <2>6. CountsOf(R, B)[h] = Froms(R, h) + AsHead(h, B)
    <3>1. R \in SUBSET Chunks
      BY <1>6, <1>10
    <3> QED
      BY <2>3, <3>1, CountsAt
  <2>7. w.n[h] = 0
    <3>1. CountsOf(R, B)[h] = All(job)[h] /\ All(job)[h] \in Nat
      BY <1>4, <2>3, <2>5, <2>6
    <3>2. w.n[h] = All(job)[h] - CountsOf(R, B)[h]
      BY <1>11, <2>3
    <3> QED
      BY <3>1, <3>2
  <2> QED
    BY <1>7, <2>2, <2>3, <2>7
<1>13. F = R
  BY <1>6, <1>12
<1>14. \A h \in Chunks : w.n[h] = All(job)[h] - CountsOf(F, B)[h]
  BY <1>11, <1>13
<1>15. w.n = [h \in Chunks |-> All(job)[h] - CountsOf(F, B)[h]]
  BY <1>3, <1>14
<1> QED
  BY <1>4, <1>15

------------------------------------------------------------------------------
(* While it frees *)

LEMMA RemovalBegins ==
  ASSUME NEW job, IsJob(job), NEW w, WalkInv(job, w), w.doing = "put", Idle(w),
         Uncounted(job, w) = {}
  PROVE  WalkInv(job, [w EXCEPT !.doing = "remove", !.heads = job.old \ job.new])
<1> DEFINE v == [w EXCEPT !.doing = "remove", !.heads = job.old \ job.new]
<1>1. WalkTypes(w) /\ Removed(job) \in SUBSET Chunks
  BY JobCounts DEF WalkInv
<1>2. WalkTypes(v)
  BY <1>1 DEF WalkTypes, Removed
<1>3. v.doing = "remove" /\ v.heads = Removed(job) /\ v.n = w.n /\ v.calls = w.calls
      /\ v.turned = w.turned
  BY <1>1 DEF WalkTypes, Removed
<1> HIDE DEF v
<1>4. w.n = All(job)
  BY AllCounted
<1>5. v.turned = {} /\ \A h \in Chunks : v.calls[h] = 0
  BY <1>3 DEF Idle
<1>6. All(job) \in [Chunks -> Nat] /\ job.readable \in SUBSET Chunks
  BY JobCounts DEF IsJob
<1>7. Released(job, v) = {}
  BY <1>3, <1>4, <1>6 DEF Released
<1>8. \A h \in Chunks : CountsOf({}, {})[h] = 0
  <2> TAKE h \in Chunks
  <2>1. CountsOf({}, {})[h] \in Nat /\ (CountsOf({}, {})[h] > 0 <=> h \in {} \/ \E p \in {} : h \in Refs[p])
    BY CountsAt
  <2> QED
    BY <2>1
<1>9. Removed(job) \ v.heads = {}
  BY <1>3
<1>10. ASSUME NEW h \in Chunks
       PROVE  /\ v.n[h] + CountsOf(Released(job, v), Removed(job) \ v.heads)[h]
                   = All(job)[h] + v.calls[h]
              /\ v.n[h] <= All(job)[h]
  <2>1. v.n[h] = All(job)[h] /\ All(job)[h] \in Nat
    BY <1>3, <1>4, <1>6
  <2>2. v.calls[h] = 0
    BY <1>5
  <2>3. CountsOf(Released(job, v), Removed(job) \ v.heads) = CountsOf({}, {})
    BY <1>7, <1>9
  <2>4. CountsOf(Released(job, v), Removed(job) \ v.heads)[h] = 0
    BY <1>8, <2>3
  <2> QED
    BY <2>1, <2>2, <2>4
<1>11. Removing(job, v)
  BY <1>3, <1>5, <1>7, <1>10 DEF Removing
<1>12. WalkInv(job, v)
  BY <1>2, <1>3, <1>11 DEF WalkInv
<1> QED
  BY <1>12 DEF v

\* What is released so far is not more than the counts.
LEMMA ReleasedFits ==
  ASSUME NEW job, IsJob(job), NEW w, WalkTypes(w), Removing(job, w), NEW h \in Chunks
  PROVE  LET R == Released(job, w)
             g == CountsOf(R, Removed(job) \ w.heads)[h]
             free == CountsOf(ToFree(job), Removed(job))[h]
         IN  /\ R \in SUBSET Chunks /\ g \in Nat /\ free \in Nat
             /\ g <= free /\ free <= All(job)[h] /\ w.n[h] + g = All(job)[h] + w.calls[h]
<1> DEFINE R == Released(job, w)
           heads == Removed(job) \ w.heads
           F == ToFree(job)
<1>1. R \in SUBSET Chunks
  BY DEF Released, IsJob
<1>2. F \in SUBSET Chunks /\ Removed(job) \in SUBSET Chunks
  BY JobCounts DEF FreedIs
<1>3. R \subseteq F /\ w.n[h] + CountsOf(R, heads)[h] = All(job)[h] + w.calls[h]
  BY DEF Removing
<1>4. CountsOf(F, Removed(job))[h] <= All(job)[h]
  BY JobCounts
<1>5. heads \in SUBSET Chunks /\ heads \subseteq Removed(job)
  BY <1>2
<1> HIDE DEF R, heads, F
<1>6. CountsOf(R, heads)[h] <= CountsOf(F, Removed(job))[h]
  BY <1>1, <1>2, <1>3, <1>5, CountsGrow
<1>7. CountsOf(R, heads)[h] \in Nat /\ CountsOf(F, Removed(job))[h] \in Nat
  BY <1>1, <1>2, CountsAt
<1>8. /\ R \in SUBSET Chunks /\ CountsOf(R, heads)[h] \in Nat
      /\ CountsOf(F, Removed(job))[h] \in Nat
      /\ CountsOf(R, heads)[h] <= CountsOf(F, Removed(job))[h]
      /\ CountsOf(F, Removed(job))[h] <= All(job)[h]
      /\ w.n[h] + CountsOf(R, heads)[h] = All(job)[h] + w.calls[h]
  BY <1>1, <1>3, <1>4, <1>6, <1>7
<1> QED
  BY <1>8 DEF R, heads, F

LEMMA ChangedRemoves ==
  ASSUME NEW job, IsJob(job), NEW w, WalkInv(job, w), w.doing = "remove",
         NEW h \in Chunks, w.calls[h] > 0
  PROVE  WalkInv(job, Changed(w, h))
<1> DEFINE v == Changed(w, h)
           g == CountsOf(Released(job, w), Removed(job) \ w.heads)
           free == CountsOf(ToFree(job), Removed(job))
<1>1. WalkTypes(w) /\ Removing(job, w)
  BY DEF WalkInv
<1>2. w.n \in [Chunks -> Nat] /\ w.calls \in [Chunks -> Nat] /\ All(job) \in [Chunks -> Nat]
  BY <1>1, JobCounts DEF WalkTypes
<1>3. \A k \in Chunks : /\ g[k] \in Nat /\ free[k] \in Nat /\ g[k] <= free[k] /\ free[k] <= All(job)[k]
                        /\ w.n[k] + g[k] = All(job)[k] + w.calls[k] /\ w.n[k] <= All(job)[k]
  BY <1>1, ReleasedFits DEF Removing
<1> HIDE DEF g, free
<1>4. w.n[h] > 0 /\ (w.n[h] = 1 => All(job)[h] > 0 /\ All(job)[h] = free[h])
  BY <1>2, <1>3
<1>5. WalkTypes(v)
  BY <1>1, <1>4, ChangedFields
<1>6. /\ v.doing = "remove" /\ v.heads = w.heads
      /\ v.calls = [w.calls EXCEPT ![h] = @ - 1] /\ v.n = [w.n EXCEPT ![h] = @ - 1]
      /\ v.turned = IF w.n[h] = 1 THEN w.turned \cup {h} ELSE w.turned
  BY <1>1, <1>4, ChangedFields
<1> HIDE DEF v
<1>7. \A k \in Chunks : /\ v.n[k] = w.n[k] - (IF k = h THEN 1 ELSE 0)
                        /\ v.calls[k] = w.calls[k] - (IF k = h THEN 1 ELSE 0)
  BY <1>2, <1>6
<1>8. job.readable \in SUBSET Chunks
  BY DEF IsJob
<1>9. Released(job, v) = Released(job, w)
  <2>1. \A k \in job.readable : v.n[k] = 0 /\ k \notin v.turned <=> w.n[k] = 0 /\ k \notin w.turned
    <3> TAKE k \in job.readable
    <3>1. k \in Chunks
      BY <1>8
    <3>2. CASE k # h
      BY <1>6, <1>7, <1>2, <3>1, <3>2
    <3>3. CASE k = h
      <4>1. v.n[h] = w.n[h] - 1 /\ w.n[h] \in Nat
        BY <1>2, <1>7
      <4>2. w.n[h] = 1 => h \in v.turned
        BY <1>6
      <4> QED
        BY <1>4, <3>3, <4>1, <4>2
    <3> QED
      BY <3>2, <3>3
  <2> QED
    BY <2>1 DEF Released
<1>10. h \in job.readable /\ w.n[h] = 1 => h \in ToFree(job)
  <2> SUFFICES ASSUME h \in job.readable, w.n[h] = 1 PROVE h \in ToFree(job)
    OBVIOUS
  <2>1. FreedIs(ToFree(job), All(job), Removed(job), job.readable)
    BY JobCounts
  <2>2. ToFree(job) \in SUBSET Chunks
    BY <2>1 DEF FreedIs
  <2>3. free[h] = Froms(ToFree(job), h) + AsHead(h, Removed(job))
    BY <2>2, CountsAt DEF free
  <2> QED
    BY <1>4, <2>1, <2>3 DEF FreedIs
<1>11. \A k \in v.turned : k \in w.turned \/ (k = h /\ w.n[h] = 1)
  BY <1>6
<1>12. Removing(job, v)
  <2>1. v.heads \subseteq Removed(job) /\ Released(job, v) \subseteq ToFree(job)
    BY <1>1, <1>6, <1>9 DEF Removing
  <2>2. \A k \in Chunks :
         /\ v.n[k] + CountsOf(Released(job, v), Removed(job) \ v.heads)[k]
              = All(job)[k] + v.calls[k]
         /\ v.n[k] <= All(job)[k]
    <3> TAKE k \in Chunks
    <3>1. CountsOf(Released(job, v), Removed(job) \ v.heads)[k] = g[k]
      BY <1>6, <1>9 DEF g
    <3>2. w.n[k] \in Nat /\ w.calls[k] \in Nat /\ All(job)[k] \in Nat /\ g[k] \in Nat
      BY <1>2, <1>3
    <3> QED
      BY <1>3, <1>7, <3>1, <3>2
  <2>3. v.turned \cap job.readable \subseteq ToFree(job)
    BY <1>1, <1>10, <1>11 DEF Removing
  <2>4. \A k \in v.turned : v.n[k] = 0 /\ All(job)[k] > 0
    <3> SUFFICES ASSUME NEW k \in v.turned PROVE v.n[k] = 0 /\ All(job)[k] > 0
      OBVIOUS
    <3>1. CASE k = h /\ w.n[h] = 1
      BY <1>4, <1>7, <3>1
    <3>2. CASE k \in w.turned
      <4>1. k \in Chunks /\ w.n[k] = 0 /\ All(job)[k] > 0
        BY <1>1, <3>2 DEF Removing, WalkTypes
      <4>2. k # h
        BY <1>4, <4>1
      <4> QED
        BY <1>7, <4>1, <4>2
    <3> QED
      BY <1>11, <3>1, <3>2
  <2> QED
    BY <2>1, <2>2, <2>3, <2>4 DEF Removing
<1>13. WalkInv(job, v)
  BY <1>5, <1>6, <1>12 DEF WalkInv
<1> QED
  BY <1>13 DEF v

LEMMA NextHeadRemoves ==
  ASSUME NEW job, IsJob(job), NEW w, WalkInv(job, w), w.doing = "remove", NEW h \in w.heads
  PROVE  WalkInv(job, NextHead(w, h))
<1> DEFINE v == NextHead(w, h)
           R == Released(job, w)
           rest == Removed(job) \ w.heads
<1>1. WalkTypes(w) /\ Removing(job, w)
  BY DEF WalkInv
<1>2. w.n \in [Chunks -> Nat] /\ w.calls \in [Chunks -> Nat] /\ h \in Chunks /\ w.heads \subseteq Removed(job)
  BY <1>1 DEF WalkTypes, Removing
<1>3. WalkTypes(v)
  BY <1>1, <1>2, NextHeadFields
<1>4. /\ v.doing = w.doing /\ v.heads = w.heads \ {h} /\ v.turned = w.turned
      /\ v.n = w.n /\ v.calls = [w.calls EXCEPT ![h] = @ + 1]
  BY <1>1, <1>2, NextHeadFields
<1> HIDE DEF v
<1>5. Released(job, v) = R
  BY <1>4 DEF Released
<1>6. \A k \in Chunks : w.n[k] + CountsOf(R, rest)[k] = All(job)[k] + w.calls[k]
  BY <1>1 DEF Removing
<1>7. All(job) \in [Chunks -> Nat] /\ Removed(job) \in SUBSET Chunks
  BY JobCounts
<1>8. R \in SUBSET Chunks /\ rest \in SUBSET Chunks /\ h \in Chunks \ rest
  BY <1>2, <1>7 DEF Released, IsJob
<1>9. Removed(job) \ v.heads = rest \cup {h}
  BY <1>2, <1>4
<1> HIDE DEF R, rest
<1>10. \A k \in Chunks : v.n[k] + CountsOf(R, rest \cup {h})[k] = All(job)[k] + v.calls[k]
  <2> TAKE k \in Chunks
  <2> DEFINE c == CountsOf(R, rest)[k]
             one == AsHead(k, {h})
  <2>1. CountsOf(R, rest \cup {h})[k] = c + one
    BY <1>8, OneMoreHead
  <2>2. v.calls[k] = w.calls[k] + one /\ one \in Nat
    BY <1>2, <1>4 DEF AsHead
  <2>3. c \in Nat /\ w.n[k] \in Nat /\ w.calls[k] \in Nat /\ All(job)[k] \in Nat
    BY <1>2, <1>7, <1>8, CountsAt
  <2>4. w.n[k] + c = All(job)[k] + w.calls[k]
    BY <1>6
  <2> HIDE DEF c, one
  <2> QED
    BY <1>4, <2>1, <2>2, <2>3, <2>4
<1>11. Removing(job, v)
  <2>1. \A k \in Chunks :
         /\ v.n[k] + CountsOf(Released(job, v), Removed(job) \ v.heads)[k]
              = All(job)[k] + v.calls[k]
         /\ v.n[k] <= All(job)[k]
    BY <1>1, <1>4, <1>5, <1>9, <1>10 DEF Removing
  <2>2. /\ v.heads \subseteq Removed(job) /\ Released(job, v) \subseteq ToFree(job)
        /\ v.turned \cap job.readable \subseteq ToFree(job)
        /\ \A k \in v.turned : v.n[k] = 0 /\ All(job)[k] > 0
    BY <1>1, <1>4, <1>5 DEF Removing, R
  <2> QED
    BY <2>1, <2>2 DEF Removing
<1>12. WalkInv(job, v)
  BY <1>3, <1>4, <1>11 DEF WalkInv
<1> QED
  BY <1>12 DEF v

LEMMA RefsLoadedRemoves ==
  ASSUME NEW job, IsJob(job), NEW w, WalkInv(job, w), w.doing = "remove", NEW h \in w.turned
  PROVE  WalkInv(job, RefsLoaded(job, w, h))
<1> DEFINE v == RefsLoaded(job, w, h)
           R == Released(job, w)
           rest == Removed(job) \ w.heads
<1>1. WalkTypes(w) /\ Removing(job, w)
  BY DEF WalkInv
<1>2. w.n \in [Chunks -> Nat] /\ w.calls \in [Chunks -> Nat] /\ h \in Chunks
  BY <1>1 DEF WalkTypes
<1>3. LoadedFields(job, w, h, v)
  BY <1>1, <1>2, RefsLoadedFields
<1> HIDE DEF v
<1>4. WalkTypes(v) /\ v.doing = w.doing /\ v.heads = w.heads /\ v.turned = w.turned \ {h} /\ v.n = w.n
  BY <1>3 DEF LoadedFields
<1>5. w.n[h] = 0 /\ All(job)[h] > 0 /\ (h \in job.readable => h \in ToFree(job))
  BY <1>1 DEF Removing
<1>6. \A k \in Chunks : w.n[k] + CountsOf(R, rest)[k] = All(job)[k] + w.calls[k]
  BY <1>1 DEF Removing
<1>7. All(job) \in [Chunks -> Nat]
  BY JobCounts
<1>8. R \in SUBSET Chunks /\ h \notin R /\ R \subseteq ToFree(job)
  BY <1>1 DEF Released, IsJob, Removing
<1>9. Removed(job) \ v.heads = rest
  BY <1>4
<1>10. h \in job.readable => Released(job, v) = R \cup {h}
  BY <1>4, <1>5 DEF Released
<1>11. h \notin job.readable => Released(job, v) = R
  BY <1>4 DEF Released
<1> HIDE DEF R, rest
<1>12. \A k \in Chunks : v.n[k] + CountsOf(Released(job, v), rest)[k] = All(job)[k] + v.calls[k]
  <2> TAKE k \in Chunks
  <2>1. CASE h \notin job.readable
    BY <1>3, <1>6, <1>11, <2>1 DEF LoadedFields
  <2>2. CASE h \in job.readable
    <3> DEFINE c == CountsOf(R, rest)[k]
               one == AsHead(k, Refs[h])
    <3>1. CountsOf(R \cup {h}, rest)[k] = c + one
      <4>1. h \in Chunks \ R
        BY <1>2, <1>8
      <4> QED
        BY <1>8, <4>1, OneMoreCounted
    <3>2. v.calls[k] = w.calls[k] + one /\ one \in Nat
      BY <1>3, <2>2 DEF LoadedFields, CalledBelow, AsHead
    <3>3. c \in Nat /\ w.n[k] \in Nat /\ w.calls[k] \in Nat /\ All(job)[k] \in Nat
      BY <1>2, <1>7, <1>8, CountsAt
    <3>4. w.n[k] + c = All(job)[k] + w.calls[k]
      BY <1>6
    <3>5. CountsOf(Released(job, v), rest)[k] = c + one
      BY <1>10, <2>2, <3>1
    <3> HIDE DEF c, one
    <3> QED
      BY <1>4, <3>2, <3>3, <3>4, <3>5
  <2> QED
    BY <2>1, <2>2
<1>13. Removing(job, v)
  <2>1. \A k \in Chunks :
         /\ v.n[k] + CountsOf(Released(job, v), Removed(job) \ v.heads)[k]
              = All(job)[k] + v.calls[k]
         /\ v.n[k] <= All(job)[k]
    BY <1>1, <1>4, <1>9, <1>12 DEF Removing
  <2>2. Released(job, v) \subseteq ToFree(job)
    BY <1>5, <1>8, <1>10, <1>11
  <2>3. /\ v.heads \subseteq Removed(job) /\ v.turned \cap job.readable \subseteq ToFree(job)
        /\ \A k \in v.turned : v.n[k] = 0 /\ All(job)[k] > 0
    BY <1>1, <1>4 DEF Removing
  <2> QED
    BY <2>1, <2>2, <2>3 DEF Removing
<1>14. WalkInv(job, v)
  BY <1>4, <1>13 DEF WalkInv
<1> QED
  BY <1>14 DEF v

------------------------------------------------------------------------------
(* The walk *)

LEMMA WalkStep ==
  ASSUME NEW job, IsJob(job), NEW w, WalkInv(job, w), NEW v \in Steps(job, w)
  PROVE  WalkInv(job, v)
<1>1. WalkTypes(w) /\ (w.doing # "remove" => Adding(job, w)) /\ (w.doing = "remove" => Removing(job, w))
  BY DEF WalkInv
<1>2. ASSUME NEW h \in Chunks, w.calls[h] > 0 PROVE WalkInv(job, Changed(w, h))
  BY <1>2, ChangedAdds, ChangedRemoves
<1>3. ASSUME NEW h \in w.turned PROVE WalkInv(job, RefsLoaded(job, w, h))
  BY RefsLoadedAdds, RefsLoadedRemoves
<1>4. ASSUME NEW h \in w.heads PROVE WalkInv(job, NextHead(w, h))
  BY NextHeadAdds, NextHeadRemoves
<1>5. ASSUME w.heads = {}, w.doing = "add", v = [w EXCEPT !.doing = "put"]
      PROVE  WalkInv(job, v)
  <2>1. WalkTypes(v)
    BY <1>1, <1>5 DEF WalkTypes
  <2>2. /\ v.doing = "put" /\ v.heads = {} /\ v.n = w.n /\ v.calls = w.calls
        /\ v.turned = w.turned /\ v.counted = w.counted /\ w.heads = {}
    BY <1>1, <1>5 DEF WalkTypes
  <2>3. Adding(job, w)
    BY <1>1, <1>5
  <2>4. Adding(job, v)
    BY <2>2, <2>3 DEF Adding
  <2> QED
    BY <2>1, <2>2, <2>4 DEF WalkInv
<1>6. ASSUME Idle(w), w.doing = "put", NEW h \in Uncounted(job, w) PROVE WalkInv(job, CountPut(w, h))
  BY <1>6, CountPutAdds
<1>7. ASSUME Idle(w), w.doing = "put", Uncounted(job, w) = {}
      PROVE  WalkInv(job, [w EXCEPT !.doing = "remove", !.heads = job.old \ job.new])
  BY <1>7, RemovalBegins
<1>8. w.doing \in {"add", "put", "remove"}
  BY <1>1 DEF WalkTypes
<1>9. \/ \E h \in Chunks : w.calls[h] > 0 /\ v = Changed(w, h)
      \/ \E h \in w.turned : v = RefsLoaded(job, w, h)
      \/ \E h \in w.heads : v = NextHead(w, h)
      \/ w.heads = {} /\ w.doing = "add" /\ v = [w EXCEPT !.doing = "put"]
      \/ Idle(w) /\ w.doing = "put" /\ \E h \in Uncounted(job, w) : v = CountPut(w, h)
      \/ /\ Idle(w) /\ w.doing = "put" /\ Uncounted(job, w) = {}
         /\ v = [w EXCEPT !.doing = "remove", !.heads = job.old \ job.new]
  BY <1>8 DEF Steps
<1> QED
  BY <1>2, <1>3, <1>4, <1>5, <1>6, <1>7, <1>9

\* A walk that has not come to its end has a next step.
LEMMA WalkGoesOn ==
  ASSUME NEW job, NEW w, WalkTypes(w), ~Done(w)
  PROVE  Steps(job, w) # {}
<1>1. CASE w.turned # {}
  BY <1>1 DEF Steps
<1>2. CASE \E h \in Chunks : w.calls[h] # 0
  <2>1. PICK h \in Chunks : w.calls[h] # 0
    BY <1>2
  <2>2. w.calls[h] > 0
    BY <2>1 DEF WalkTypes
  <2> QED
    BY <2>1, <2>2 DEF Steps
<1>3. CASE Idle(w) /\ w.heads # {}
  BY <1>3 DEF Steps
<1>4. CASE Idle(w) /\ w.heads = {} /\ w.doing = "add"
  BY <1>4 DEF Steps
<1>5. CASE Idle(w) /\ w.heads = {} /\ w.doing = "put"
  BY <1>5 DEF Steps
<1> QED
  BY <1>1, <1>2, <1>3, <1>4, <1>5 DEF Idle, Done, WalkTypes

\* However the calls of #changeRefCount interleave, no count is ever negative, compute() of
\* gc.ts does not get stuck, and when it returns its counts are those of RefCountUpdates.
THEOREM WalksEndWithUpdates ==
  ASSUME NEW job, IsJob(job)
  PROVE  WalkSpec(job) =>
           []/\ walk.n \in [Chunks -> Nat]
             /\ Steps(job, walk) = {} => Done(walk)
             /\ Done(walk) => walk.n = RefCountUpdates(job.n, job.new, job.old, job.puts,
                                                       job.before, job.readable)
<1> DEFINE Ends == /\ walk.n \in [Chunks -> Nat]
                   /\ Steps(job, walk) = {} => Done(walk)
                   /\ Done(walk) => walk.n = RefCountUpdates(job.n, job.new, job.old, job.puts,
                                                             job.before, job.readable)
           Inv == WalkInv(job, walk)
           Start == walk = Begun(job)
           Move == walk' \in Steps(job, walk)
<1>1. Start => Inv
  <2> SUFFICES ASSUME Start PROVE Inv
    OBVIOUS
  <2> QED
    BY BegunInv
<1>2. Inv /\ [Move]_walk => Inv'
  <2> SUFFICES ASSUME Inv, [Move]_walk PROVE Inv'
    OBVIOUS
  <2>1. PICK w : w = walk
    OBVIOUS
  <2>2. PICK v : v = walk'
    OBVIOUS
  <2>3. WalkInv(job, w) /\ (v \in Steps(job, w) \/ v = w)
    BY <2>1, <2>2
  <2>4. WalkInv(job, v)
    BY <2>3, WalkStep
  <2> QED
    BY <2>2, <2>4
<1>3. Inv => Ends
  <2> SUFFICES ASSUME Inv PROVE Ends
    OBVIOUS
  <2>1. PICK w : w = walk
    OBVIOUS
  <2>2. WalkInv(job, w)
    BY <2>1
  <2>3. WalkTypes(w) /\ w.n \in [Chunks -> Nat]
    BY <2>2 DEF WalkInv, WalkTypes
  <2>4. Done(w) => w.n = RefCountUpdates(job.n, job.new, job.old, job.puts, job.before, job.readable)
    BY <2>2, AllReleased
  <2>5. Steps(job, w) = {} => Done(w)
    BY <2>3, WalkGoesOn
  <2> QED
    BY <2>1, <2>3, <2>4, <2>5
<1>4. WalkSpec(job) <=> Start /\ [][Move]_walk
  BY DEF WalkSpec
<1> HIDE DEF Inv, Ends, Start, Move
<1>5. WalkSpec(job) => []Ends
  BY <1>1, <1>2, <1>3, <1>4, PTL
<1> QED
  BY <1>5 DEF Ends

------------------------------------------------------------------------------
(* What the counts say of what is reached *)

\* A chunk with a count is reached from the heads.
LEMMA CountedIsReached ==
  ASSUME NEW n, NEW sources \in SUBSET Chunks, NEW heads \in SUBSET Chunks, Exact(n, sources, heads),
         NEW h \in Chunks, n[h] > 0
  PROVE  h \in Reach(heads)
<1> DEFINE K == {p \in sources : n[p] > 0}
           Bad == {k \in Chunks : n[k] > 0} \ Reach(heads)
<1>1. K \in SUBSET Chunks /\ n = CountsOf(K, heads)
  BY DEF Exact
<1>2. \A p \in K : n[p] > 0
  OBVIOUS
<1> HIDE DEF K
<1>3. \A k \in Chunks : n[k] > 0 <=> k \in heads \/ \E p \in K : k \in Refs[p]
  BY <1>1, CountsOfIs
<1> SUFFICES ASSUME Bad # {} PROVE FALSE
  OBVIOUS
<1>4. Bad \in SUBSET Chunks
  OBVIOUS
<1>5. PICK k \in Bad : Above[k] \cap Bad = {}
  BY <1>4, AboveWellFounded DEF WellFounded
<1>6. k \in Chunks /\ k \notin heads /\ n[k] > 0
  BY <1>5, ReachIsClosed
<1>7. PICK p \in K : k \in Refs[p]
  BY <1>3, <1>6
<1>8. p \in Chunks /\ p \in Above[k] /\ n[p] > 0
  BY <1>1, <1>2, <1>6, <1>7, AboveOf
<1>9. p \in Reach(heads)
  BY <1>5, <1>8
<1>10. k \in Reach(heads)
  BY <1>7, <1>9, ReachIsClosed DEF Closed
<1> QED
  BY <1>5, <1>10

\* When all chunks are known, the converse holds as well.
LEMMA InitCountsAreExact ==
  ASSUME NEW heads \in SUBSET Chunks
  PROVE  /\ InitCounts(heads) \in [Chunks -> Nat] /\ Exact(InitCounts(heads), Chunks, heads)
         /\ \A h \in Chunks : InitCounts(heads)[h] > 0 <=> h \in Reach(heads)
<1> DEFINE n == InitCounts(heads)
           R == Reach(heads)
<1>1. R \in SUBSET Chunks /\ heads \subseteq R /\ Closed(R)
  BY ReachIsClosed
<1>2. n = CountsOf(R, heads)
  BY DEF InitCounts
<1> HIDE DEF n
<1>3. n \in [Chunks -> Nat] /\ \A h \in Chunks : n[h] > 0 <=> h \in heads \/ \E p \in R : h \in Refs[p]
  BY <1>1, <1>2, CountsOfIs
<1>4. \A h \in Chunks : n[h] > 0 <=> h \in R
  BY <1>1, <1>3, ReachFromAbove DEF Closed
<1>5. {p \in Chunks : n[p] > 0} = R
  BY <1>1, <1>4
<1>6. Exact(n, Chunks, heads)
  BY <1>2, <1>5 DEF Exact
<1> QED
  BY <1>3, <1>4, <1>6 DEF n

LEMMA ExactAreInitCounts ==
  ASSUME NEW n, NEW heads \in SUBSET Chunks, Exact(n, Chunks, heads)
  PROVE  n = InitCounts(heads)
<1> DEFINE K == {p \in Chunks : n[p] > 0}
<1>1. K \in SUBSET Chunks /\ n = CountsOf(K, heads) /\ \A p \in Chunks : p \in K <=> n[p] > 0
  BY DEF Exact
<1> HIDE DEF K
<1>2. \A k \in Chunks : n[k] > 0 <=> k \in heads \/ \E p \in K : k \in Refs[p]
  BY <1>1, CountsOfIs
<1>3. heads \subseteq K
  BY <1>1, <1>2
<1>4. Closed(K)
  <2> SUFFICES ASSUME NEW p \in K, NEW ref \in Refs[p] PROVE ref \in K
    BY DEF Closed
  <2>1. ref \in Chunks
    BY <1>1, RefsBelow
  <2> QED
    BY <1>1, <1>2, <2>1
<1>5. Reach(heads) \subseteq K
  BY <1>1, <1>3, <1>4, ReachIsLeast
<1>6. K \subseteq Reach(heads)
  <2> SUFFICES ASSUME NEW h \in K PROVE h \in Reach(heads)
    OBVIOUS
  <2>1. h \in Chunks /\ n[h] > 0 /\ Chunks \in SUBSET Chunks
    BY <1>1
  <2> QED
    BY <2>1, CountedIsReached
<1> QED
  BY <1>1, <1>5, <1>6 DEF InitCounts

\* The perdag's update: it goes from the counts of the old roots to those of the new, and of
\* what is stored it keeps what the new roots reach.
LEMMA RootsUpdate ==
  ASSUME NEW old \in SUBSET Chunks, NEW new \in SUBSET Chunks, NEW puts \in SUBSET Chunks,
         Reach(new) \subseteq Reach(old) \cup puts
  PROVE  LET r == RefCountUpdates(InitCounts(old), new, old, puts, Chunks, Chunks)
         IN  r = InitCounts(new) /\ {h \in Reach(old) \cup puts : r[h] # 0} = Reach(new)
<1> DEFINE r == RefCountUpdates(InitCounts(old), new, old, puts, Chunks, Chunks)
<1>1. Exact(InitCounts(old), Chunks, old)
  BY InitCountsAreExact
<1>2. Exact(r, Chunks, new)
  <2>1. Chunks \in SUBSET Chunks /\ Chunks \subseteq Chunks /\ puts \subseteq Chunks
        /\ Chunks \subseteq Chunks \cup puts
    OBVIOUS
  <2> QED
    BY <1>1, <2>1, UpdatesExact
<1> HIDE DEF r
<1>3. r = InitCounts(new)
  BY <1>2, ExactAreInitCounts
<1>4. \A h \in Chunks : r[h] \in Nat /\ (r[h] > 0 <=> h \in Reach(new))
  BY <1>3, InitCountsAreExact
<1>5. \A h \in Chunks : r[h] # 0 <=> h \in Reach(new)
  BY <1>4
<1>6. Reach(old) \cup puts \in SUBSET Chunks
  BY ReachIsClosed
<1>7. {h \in Reach(old) \cup puts : r[h] # 0} = Reach(new)
  BY <1>5, <1>6
<1> QED
  BY <1>3, <1>7 DEF r

------------------------------------------------------------------------------
(* The memdag's commit *)

LEMMA EvictionsFit ==
  ASSUME NEW chunks \in SUBSET Chunks, NEW left \in Evictions(chunks)
  PROVE  left \subseteq chunks /\ Cardinality(left) <= CacheLimit
<1>1. CacheLimit \in Nat /\ IsFiniteSet(chunks)
  BY ChunksAssumption, FS_Subset
<1>2. CASE Cardinality(chunks) <= CacheLimit
  BY <1>2 DEF Evictions
<1>3. CASE ~(Cardinality(chunks) <= CacheLimit)
  BY <1>1, <1>3 DEF Evictions, kSubset
<1> QED
  BY <1>2, <1>3

LEMMA TrimmedFits ==
  ASSUME NEW chunks \in SUBSET Chunks, NEW left \in Trimmed(chunks)
  PROVE  left \subseteq chunks /\ (~suspended => Cardinality(left) <= CacheLimit)
BY EvictionsFit DEF Trimmed

\* What a commit of the memdag makes of its maps when the counts were exact.
CommitResult(mem) ==
  /\ memOnly' \in SUBSET Chunks /\ cache' \in SUBSET Chunks /\ known' \in SUBSET Chunks
  /\ counts' \in [Chunks -> Nat] /\ counts' = CountsOf(Counted', Heads')
  /\ memOnly' \subseteq Counted' /\ memOnly' \subseteq mem \cup memOnly
  /\ \A h \in mem \cup memOnly : counts'[h] > 0 => h \in memOnly'
  /\ ~suspended => /\ \A h \in known' \cup cache' : counts'[h] > 0
                   /\ Cardinality(cache') <= CacheLimit

LEMMA CommitCounts ==
  ASSUME NEW mem \in SUBSET Chunks, NEW loaded \in SUBSET Chunks,
         NEW newMain \in Chunks, NEW newSync \in Chunks \cup {None},
         StoreTypes, CountsExact, MemdagCommit(mem, loaded, newMain, newSync)
  PROVE  main' = newMain /\ sync' = newSync /\ CommitResult(mem)
<1> DEFINE heads == Hashes(newMain) \cup Hashes(newSync)
           readable == mem \cup loaded \cup memOnly \cup known
           n == RefCountUpdates(counts, heads, Heads, mem \cup loaded, known, readable)
           own == mem \cup memOnly
           gone == {h \in Chunks : n[h] = 0}
           put == loaded \ (own \cup gone)
           kept == ((known \cup (mem \ gone) \cup put) \ (own \cap gone)) \ Deleted(gone)
           held == (cache \ Deleted(gone)) \cup put
<1>1. /\ main' = newMain /\ sync' = newSync /\ counts' = n
      /\ memOnly' = own \ gone /\ known' = kept /\ cache' \in Trimmed(held)
  BY DEF MemdagCommit
<1>2. /\ known \in SUBSET Chunks /\ memOnly \in SUBSET Chunks /\ cache \in SUBSET Chunks
      /\ main \in Chunks /\ sync \in Chunks \cup {None}
  BY DEF StoreTypes
<1>3. memOnly \subseteq Counted /\ memOnly \subseteq known
  BY DEF CountsExact, Counted
<1>4. heads \in SUBSET Chunks /\ Heads \in SUBSET Chunks
  BY <1>2 DEF Hashes, Heads
<1>5. Exact(counts, known, Heads)
  BY DEF CountsExact, Counted, Exact
<1>6. n \in [Chunks -> Nat] /\ Exact(n, readable, heads)
  <2>1. readable \in SUBSET Chunks /\ mem \cup loaded \in SUBSET Chunks
    BY <1>2
  <2>2. known \subseteq readable /\ mem \cup loaded \subseteq readable
        /\ readable \subseteq known \cup (mem \cup loaded)
    BY <1>3
  <2> HIDE DEF readable, heads
  <2> QED
    BY <1>2, <1>4, <1>5, <2>1, <2>2, UpdatesExact
<1> HIDE DEF n
<1>7. \A h \in Chunks : h \in gone <=> n[h] = 0
  OBVIOUS
<1>8. \A h \in Chunks : n[h] \in Nat /\ (h \notin gone <=> n[h] > 0)
  BY <1>6
<1>9. gone \in SUBSET Chunks
  OBVIOUS
<1> HIDE DEF gone
<1>10. Deleted(gone) \subseteq gone /\ (~suspended => Deleted(gone) = gone)
  BY DEF Deleted
<1>11. own \in SUBSET Chunks /\ put \in SUBSET Chunks /\ kept \in SUBSET Chunks /\ held \in SUBSET Chunks
  BY <1>2
<1>12. \A h \in Chunks : h \in kept /\ h \notin gone <=> h \in readable /\ h \notin gone
  BY <1>2, <1>3, <1>10
<1>13. {p \in kept : n[p] > 0} = {p \in readable : n[p] > 0}
  <2>1. readable \in SUBSET Chunks
    BY <1>2
  <2> HIDE DEF kept, readable
  <2> QED
    BY <1>8, <1>11, <1>12, <2>1
<1>14. Counted' = {p \in kept : n[p] > 0}
  BY <1>1 DEF Counted
<1>15. Heads' = heads
  BY <1>1 DEF Heads, Hashes
<1>16. counts' = CountsOf(Counted', Heads')
  <2> HIDE DEF kept, readable, heads
  <2>1. n = CountsOf({p \in readable : n[p] > 0}, heads)
    BY <1>6 DEF Exact
  <2> QED
    BY <1>1, <1>13, <1>14, <1>15, <2>1
<1>17. memOnly' \subseteq Counted'
  BY <1>1, <1>8, <1>11, <1>12, <1>14
<1>18. \A h \in own : counts'[h] > 0 => h \in memOnly'
  BY <1>1, <1>8, <1>11
<1>19. cache' \subseteq held /\ (~suspended => Cardinality(cache') <= CacheLimit)
  <2> HIDE DEF held
  <2> QED
    BY <1>1, <1>11, TrimmedFits
<1>20. ~suspended => \A h \in kept : n[h] > 0
  <2> SUFFICES ASSUME ~suspended, NEW h \in kept PROVE n[h] > 0
    OBVIOUS
  <2>1. h \notin gone /\ h \in Chunks
    BY <1>10, <1>11
  <2> QED
    BY <1>8, <2>1
<1>21. ~suspended => \A h \in held : n[h] > 0
  <2> SUFFICES ASSUME ~suspended, NEW h \in held PROVE n[h] > 0
    OBVIOUS
  <2>1. h \notin gone /\ h \in Chunks
    BY <1>10, <1>11
  <2> QED
    BY <1>8, <2>1
<1> HIDE DEF kept, held, own
<1>22. ~suspended => \A h \in known' \cup cache' : counts'[h] > 0
  BY <1>1, <1>19, <1>20, <1>21
<1>23. /\ memOnly' \in SUBSET Chunks /\ cache' \in SUBSET Chunks /\ known' \in SUBSET Chunks
       /\ counts' \in [Chunks -> Nat]
  BY <1>1, <1>6, <1>11, <1>19
<1>24. memOnly' \subseteq mem \cup memOnly /\ \A h \in mem \cup memOnly : counts'[h] > 0 => h \in memOnly'
  BY <1>1, <1>18 DEF own
<1> QED
  BY <1>1, <1>16, <1>17, <1>19, <1>22, <1>23, <1>24 DEF CommitResult

\* A commit drops nothing that its heads reach in memory, unless it is below a chunk that is
\* held elsewhere: the way down to it is counted from end to end.
LEMMA CommitKeeps ==
  ASSUME NEW mem \in SUBSET Chunks, CommitResult(mem),
         NEW hashes \in SUBSET Chunks, hashes \subseteq Heads',
         NEW elsewhere \in SUBSET Chunks, Closed(elsewhere),
         Reach(hashes) \subseteq mem \cup memOnly \cup elsewhere
  PROVE  Reach(hashes) \subseteq memOnly' \cup elsewhere
<1>1. /\ Counted' \in SUBSET Chunks /\ memOnly' \subseteq Counted'
      /\ counts' = CountsOf(Counted', Heads')
      /\ \A h \in mem \cup memOnly : counts'[h] > 0 => h \in memOnly'
  BY DEF CommitResult, Counted
<1>2. PICK K, H : K = Counted' /\ H = Heads'
  OBVIOUS
<1>3. \A h \in Chunks : counts'[h] > 0 <=> h \in H \/ \E p \in K : h \in Refs[p]
  <2>1. K \in SUBSET Chunks /\ counts' = CountsOf(K, H)
    BY <1>1, <1>2
  <2> QED
    BY <2>1, CountsOfIs
<1>4. ASSUME NEW h \in Reach(hashes),
             \A p \in Reach(hashes) : h \in Refs[p] => p \in memOnly' \cup elsewhere
      PROVE  h \in memOnly' \cup elsewhere
  <2> SUFFICES ASSUME h \notin elsewhere PROVE h \in memOnly'
    OBVIOUS
  <2>1. h \in mem \cup memOnly /\ h \in Chunks
    BY ReachIsClosed
  <2>2. h \in hashes \/ \E p \in Reach(hashes) : h \in Refs[p]
    BY ReachFromAbove
  <2>3. CASE h \in hashes
    BY <1>1, <1>2, <1>3, <2>1, <2>3
  <2>4. CASE \E p \in Reach(hashes) : h \in Refs[p]
    <3>1. PICK p \in Reach(hashes) : h \in Refs[p]
      BY <2>4
    <3>2. p \in memOnly'
      BY <1>4, <3>1 DEF Closed
    <3> QED
      BY <1>1, <1>2, <1>3, <2>1, <3>1, <3>2
  <2> QED
    BY <2>2, <2>3, <2>4
<1>5. PICK left : left = memOnly' \cup elsewhere
  OBVIOUS
<1>6. \A h \in Reach(hashes) : (\A p \in Reach(hashes) : h \in Refs[p] => p \in left) => h \in left
  BY <1>4, <1>5
<1> QED
  BY <1>5, <1>6, ReachDown

------------------------------------------------------------------------------
(* What the parts of the invariant say *)

LEMMA RootsAreChunks ==
  ASSUME StoreTypes
  PROVE  /\ Roots \in SUBSET Chunks /\ Surviving \in SUBSET Chunks
         /\ Hashes(persisted) \in SUBSET Chunks
         /\ Needed \in SUBSET Chunks /\ {main} \in SUBSET Chunks /\ {base} \in SUBSET Chunks
         /\ main \in Needed
BY DEF StoreTypes, Roots, Surviving, Needed, Hashes

LEMMA HeldIsStored ==
  ASSUME StoreTypes, StoredIsReachable, RefreshKept
  PROVE  /\ Held \in SUBSET Chunks /\ Closed(Held) /\ Held \subseteq stored
         /\ stored = Reach(Roots) /\ Closed(stored) /\ refCounts = InitCounts(Roots)
         /\ Reach(Hashes(persisted)) \subseteq Held /\ Reach(Surviving) \subseteq Held
<1>1. stored = Reach(Roots) /\ refCounts = InitCounts(Roots)
  BY DEF StoredIsReachable
<1>2. Roots \in SUBSET Chunks /\ Surviving \in SUBSET Chunks /\ Hashes(persisted) \in SUBSET Chunks
  BY RootsAreChunks
<1>3. Hashes(persisted) \cup Surviving \in SUBSET Chunks
  BY <1>2
<1>4. Held \in SUBSET Chunks /\ Closed(Held)
  BY <1>3, ReachIsClosed DEF Held
<1>5. Closed(Reach(Roots)) /\ Roots \subseteq Reach(Roots)
  BY <1>2, ReachIsClosed
<1>6. Hashes(persisted) \cup Surviving \subseteq Roots
  BY DEF RefreshKept, Surviving, Roots
<1>7. Held \subseteq Reach(Roots)
  <2>1. Hashes(persisted) \cup Surviving \subseteq Reach(Roots)
    BY <1>5, <1>6
  <2> QED
    BY <1>2, <1>3, <2>1, ReachGrows DEF Held
<1>8. Held = Reach(Hashes(persisted)) \cup Reach(Surviving)
  BY ReachOfUnion DEF Held
<1> QED
  BY <1>1, <1>4, <1>5, <1>7, <1>8

LEMMA NeededReaches ==
  ASSUME StoreTypes
  PROVE  /\ Reach({main}) \subseteq Reach(Needed) /\ main \in Reach({main})
         /\ Reach({main}) \in SUBSET Chunks /\ Reach(Needed) \in SUBSET Chunks
         /\ Closed(Reach({main})) /\ Closed(Reach(Needed))
         /\ base \in Reach({base}) /\ Reach({base}) \in SUBSET Chunks /\ Closed(Reach({base}))
         /\ Needed \subseteq Reach(Needed)
         /\ Reach(Heads) = Reach({main}) \cup Reach(Hashes(sync))
<1>0. Heads = {main} \cup Hashes(sync)
  BY ChunksFinite DEF StoreTypes, Heads, Hashes
<1>1. Needed \in SUBSET Chunks /\ {main} \in SUBSET Chunks /\ {base} \in SUBSET Chunks /\ main \in Needed
  BY RootsAreChunks
<1>2. {main} \subseteq Reach(Needed)
  BY <1>1, ReachIsClosed
<1>3. Reach({main}) \subseteq Reach(Needed)
  BY <1>1, <1>2, ReachGrows
<1>4. /\ {main} \subseteq Reach({main}) /\ Reach({main}) \in SUBSET Chunks /\ Closed(Reach({main}))
  BY <1>1, ReachIsClosed
<1>5. Needed \subseteq Reach(Needed) /\ Reach(Needed) \in SUBSET Chunks /\ Closed(Reach(Needed))
  BY <1>1, ReachIsClosed
<1>6. {base} \subseteq Reach({base}) /\ Reach({base}) \in SUBSET Chunks /\ Closed(Reach({base}))
  BY <1>1, ReachIsClosed
<1> QED
  BY <1>0, <1>3, <1>4, <1>5, <1>6, ReachOfUnion

\* A write of the perdag whose roots are there, or put.
LEMMA SetRootsKeeps ==
  ASSUME NEW puts \in SUBSET Chunks, NEW g \in Chunks, NEW p \in Chunks \cup {None}, NEW r \in SUBSET Chunks,
         StoreTypes, StoredIsReachable, SetRoots(puts, g, p, r),
         Reach(Hashes(g) \cup Hashes(p) \cup r) \subseteq stored \cup puts
  PROVE  /\ group' = g /\ persisted' = p /\ retained' = r
         /\ stored' \in SUBSET Chunks /\ refCounts' \in [Chunks -> Nat]
         /\ stored' \subseteq stored \cup puts /\ StoredIsReachable'
<1> DEFINE new == Hashes(g) \cup Hashes(p) \cup r
<1>1. PICK old : old = Roots
  OBVIOUS
<1>2. old \in SUBSET Chunks /\ stored = Reach(old) /\ refCounts = InitCounts(old)
  BY <1>1, RootsAreChunks DEF StoredIsReachable
<1>3. new \in SUBSET Chunks
  BY DEF Hashes
<1>4. Roots' = new
  BY DEF SetRoots, Roots
<1> HIDE DEF new
<1>5. Reach(new) \subseteq Reach(old) \cup puts
  BY <1>2 DEF new
<1>6. PerdagCommit(puts, new, old)
  BY <1>1 DEF SetRoots, new
<1> DEFINE n == RefCountUpdates(InitCounts(old), new, old, puts, Chunks, Chunks)
<1>7. n = InitCounts(new) /\ {h \in Reach(old) \cup puts : n[h] # 0} = Reach(new)
  BY <1>2, <1>3, <1>5, RootsUpdate
<1>8. refCounts' = n /\ stored' = {h \in Reach(old) \cup puts : n[h] # 0}
  BY <1>2, <1>6 DEF PerdagCommit, Kept
<1> HIDE DEF n
<1>9. refCounts' = InitCounts(new) /\ stored' = Reach(new)
  BY <1>7, <1>8
<1>10. Reach(new) \in SUBSET Chunks /\ InitCounts(new) \in [Chunks -> Nat]
  BY <1>3, ReachIsClosed, InitCountsAreExact
<1>11. StoredIsReachable'
  BY <1>4, <1>9 DEF StoredIsReachable
<1>12. stored' \subseteq stored \cup puts
  BY <1>2, <1>8
<1> QED
  BY <1>9, <1>10, <1>11, <1>12 DEF SetRoots

\* Chunks that are made are reached from, beside what main reaches, those made with them.
LEMMA MakesReach ==
  ASSUME NEW new \in SUBSET Chunks, StoreTypes, Makes(new), NEW head \in new
  PROVE  /\ Reach({head}) \subseteq new \cup Reach({main}) /\ new \subseteq Own
         /\ new \cap (Past \cup made) = {} /\ made' = made \cup new
<1>1. /\ new \subseteq Own \ made /\ made' = made \cup new
      /\ \A h \in new : Refs[h] \subseteq new \cup Reach({main})
  BY DEF Makes
<1>2. Reach({main}) \in SUBSET Chunks /\ Closed(Reach({main}))
  BY NeededReaches
<1>3. Closed(new \cup Reach({main}))
  BY <1>1, <1>2 DEF Closed
<1>4. new \cup Reach({main}) \in SUBSET Chunks /\ {head} \in SUBSET Chunks
      /\ {head} \subseteq new \cup Reach({main})
  BY <1>2
<1>5. Reach({head}) \subseteq new \cup Reach({main})
  BY <1>3, <1>4, ReachIsLeast
<1> QED
  BY <1>1, <1>5 DEF Past

\* The gathering visits only what the heads reach, and leaves out nothing unless it leaves
\* the chunks that it is to stay inside.
LEMMA GatherReach ==
  ASSUME NEW hashes \in SUBSET Chunks, NEW inside,
         NEW elsewhere \in SUBSET Chunks, Closed(elsewhere),
         Reach(hashes) \subseteq inside \cup elsewhere
  PROVE  /\ Gather(hashes, inside) \in SUBSET Chunks
         /\ Gather(hashes, inside) \subseteq Reach(hashes)
         /\ Reach(hashes) \subseteq Gather(hashes, inside) \cup elsewhere
<1> DEFINE G == Gather(hashes, inside)
<1>1. G \in SUBSET Chunks /\ \A h \in Chunks : h \in G <=>
        h \in hashes \/ (h \in inside /\ \E p \in G : h \in Refs[p])
  BY Gathered
<1> HIDE DEF G
<1>2. G \subseteq Reach(hashes)
  <2> DEFINE Bad == G \ Reach(hashes)
  <2> SUFFICES ASSUME Bad # {} PROVE FALSE
    OBVIOUS
  <2>1. Bad \in SUBSET Chunks
    BY <1>1
  <2>2. PICK h \in Bad : Above[h] \cap Bad = {}
    BY <2>1, AboveWellFounded DEF WellFounded
  <2>3. h \in Chunks /\ h \notin hashes
    BY <2>1, <2>2, ReachIsClosed
  <2>4. PICK p \in G : h \in Refs[p]
    BY <1>1, <2>2, <2>3
  <2>5. p \in Above[h]
    BY <1>1, <2>3, <2>4, AboveOf
  <2>6. p \in Reach(hashes)
    BY <2>2, <2>4, <2>5
  <2> QED
    BY <2>2, <2>4, <2>6, ReachIsClosed DEF Closed
<1>3. ASSUME NEW h \in Reach(hashes),
             \A p \in Reach(hashes) : h \in Refs[p] => p \in G \cup elsewhere
      PROVE  h \in G \cup elsewhere
  <2> SUFFICES ASSUME h \notin elsewhere PROVE h \in G
    OBVIOUS
  <2>1. h \in inside /\ h \in Chunks
    BY ReachIsClosed
  <2>2. h \in hashes \/ \E p \in Reach(hashes) : h \in Refs[p]
    BY ReachFromAbove
  <2>3. CASE \E p \in Reach(hashes) : h \in Refs[p]
    <3>1. PICK p \in Reach(hashes) : h \in Refs[p]
      BY <2>3
    <3>2. p \in G
      BY <1>3, <3>1 DEF Closed
    <3> QED
      BY <1>1, <2>1, <3>1, <3>2
  <2> QED
    BY <1>1, <2>1, <2>2, <2>3
<1>4. Reach(hashes) \subseteq G \cup elsewhere
  BY <1>3, ReachDown
<1> QED
  BY <1>1, <1>2, <1>4 DEF G
------------------------------------------------------------------------------
(* The steps of the memdag that write nothing *)

LEMMA UnchangedKeeps ==
  ASSUME StoreInv, UNCHANGED vars
  PROVE  StoreInv'
<1>1. UNCHANGED <<stored, refCounts, group, persisted, retained, main, sync, base, syncBase, memOnly,
                  cache, counts, known, suspended, made, persisting, refreshing>>
  BY DEF vars, perdagVars, memdagVars, storeVars
<1>2. Heads' = Heads /\ Needed' = Needed /\ Roots' = Roots /\ Surviving' = Surviving
      /\ Counted' = Counted /\ Held' = Held /\ StillNewer' = StillNewer
  BY <1>1 DEF Heads, Needed, Roots, Surviving, Counted, Held, StillNewer
<1>3. StoreTypes'
  BY <1>1 DEF StoreInv, StoreTypes
<1>4. StoredIsReachable' /\ CountsExact'
  BY <1>1, <1>2 DEF StoreInv, StoredIsReachable, CountsExact
<1>5. SyncApart' /\ RefreshKept'
  BY <1>1, <1>2 DEF StoreInv, SyncApart, RefreshKept
<1>6. PersistKept' /\ NeededKept'
  BY <1>1, <1>2 DEF StoreInv, PersistKept, NeededKept
<1> QED
  BY <1>3, <1>4, <1>5, <1>6 DEF StoreInv

\* What the perdag and the heads are to the invariant stays when they do.
LEMMA SameHeads ==
  ASSUME StoreInv, UNCHANGED <<perdagVars, main, sync, base, syncBase, made, persisting, refreshing>>
  PROVE  /\ Heads' = Heads /\ Needed' = Needed /\ Surviving' = Surviving /\ Held' = Held
         /\ StillNewer' = StillNewer /\ StoredIsReachable' /\ SyncApart'
<1>1. UNCHANGED <<stored, refCounts, group, persisted, retained, main, sync, base, syncBase,
                  made, persisting, refreshing>>
  BY DEF perdagVars
<1>2. Heads' = Heads /\ Needed' = Needed /\ Roots' = Roots /\ Surviving' = Surviving
      /\ Held' = Held /\ StillNewer' = StillNewer
  BY <1>1 DEF Heads, Needed, Roots, Surviving, Held, StillNewer
<1>3. StoredIsReachable'
  BY <1>1, <1>2 DEF StoreInv, StoredIsReachable
<1>4. SyncApart'
  BY <1>1, <1>2 DEF StoreInv, SyncApart
<1> QED
  BY <1>2, <1>3, <1>4

LEMMA ReadKeeps ==
  ASSUME StoreInv, NEW h \in Chunks, Read(h), "suspendedReads" \notin Environment
  PROVE  StoreInv'
<1>1. /\ ~suspended /\ counts[h] >= 1 /\ cache' \in Trimmed(cache \cup {h}) /\ known' = known \cup {h}
      /\ counts' = [k \in Chunks |-> counts[k] + IF k \in CountedOnRead(h) THEN 1 ELSE 0]
      /\ UNCHANGED <<perdagVars, main, sync, base, syncBase, made, persisting, refreshing>>
      /\ UNCHANGED <<stored, refCounts, group, persisted, retained, memOnly, suspended>>
  BY DEF Read, perdagVars
<1>2. StoreTypes /\ StoredIsReachable /\ CountsExact /\ RefreshKept /\ PersistKept /\ NeededKept
  BY DEF StoreInv
<1>3. /\ known \in SUBSET Chunks /\ cache \in SUBSET Chunks /\ memOnly \in SUBSET Chunks
      /\ counts \in [Chunks -> Nat]
  BY <1>2 DEF StoreTypes
<1>4. /\ Heads' = Heads /\ Needed' = Needed /\ Surviving' = Surviving /\ Held' = Held
      /\ StillNewer' = StillNewer /\ StoredIsReachable' /\ SyncApart'
  BY <1>1, SameHeads
<1>5. cache' \subseteq cache \cup {h} /\ Cardinality(cache') <= CacheLimit
  BY <1>1, <1>3, TrimmedFits
<1>6. /\ counts = CountsOf(Counted, Heads) /\ memOnly \subseteq Counted
      /\ \A k \in known \cup cache : counts[k] > 0
  BY <1>1, <1>2 DEF CountsExact
<1>7. Counted = known
  BY <1>6 DEF Counted
<1>8. counts' \in [Chunks -> Nat] /\ \A k \in Chunks : counts'[k] >= counts[k]
  <2>1. \A k \in Chunks : counts[k] \in Nat
    BY <1>3
  <2> QED
    BY <1>1, <2>1
<1>9. \A k \in known' \cup cache' : counts'[k] > 0
  <2> SUFFICES ASSUME NEW k \in known' \cup cache' PROVE counts'[k] > 0
    OBVIOUS
  <2>1. k \in Chunks /\ counts[k] > 0
    <3>1. k \in known \cup cache \cup {h}
      BY <1>1, <1>5
    <3> QED
      BY <1>1, <1>3, <1>6, <3>1
  <2>2. counts[k] \in Nat /\ counts'[k] \in Nat /\ counts'[k] >= counts[k]
    BY <1>3, <1>8, <2>1
  <2> QED
    BY <2>1, <2>2
<1>10. Counted' = known'
  BY <1>9 DEF Counted
<1>11. counts' = CountsOf(Counted', Heads')
  <2>1. CASE h \in known
    <3>1. CountedOnRead(h) = {}
      BY <2>1 DEF CountedOnRead
    <3>2. \A k \in Chunks : counts'[k] = counts[k]
      BY <1>1, <1>3, <3>1
    <3>3. counts' = counts
      BY <1>3, <1>8, <3>2
    <3>4. known' = known
      BY <1>1, <2>1
    <3> QED
      BY <1>4, <1>6, <1>7, <1>10, <3>3, <3>4
  <2>2. CASE h \notin known
    <3>1. CountedOnRead(h) = Refs[h]
      BY <2>2 DEF CountedOnRead
    <3>2. PICK heads : heads = Heads
      OBVIOUS
    <3>3. CountsOf(known \cup {h}, heads) \in [Chunks -> Nat]
      BY <1>3, CountsOfIs
    <3>4. \A k \in Chunks : counts'[k] = CountsOf(known \cup {h}, heads)[k]
      <4> SUFFICES ASSUME NEW k \in Chunks PROVE counts'[k] = CountsOf(known \cup {h}, heads)[k]
        OBVIOUS
      <4>1. CountsOf(known \cup {h}, heads)[k]
              = CountsOf(known, heads)[k] + IF k \in Refs[h] THEN 1 ELSE 0
        <5>1. CountsOf(known \cup {h}, heads)[k] = CountsOf(known, heads)[k] + AsHead(k, Refs[h])
          BY <1>3, <2>2, OneMoreCounted
        <5> QED
          BY <5>1 DEF AsHead
      <4> QED
        BY <1>1, <1>6, <1>7, <3>1, <3>2, <4>1
    <3>5. counts' = CountsOf(known \cup {h}, heads)
      BY <1>8, <3>3, <3>4
    <3> QED
      BY <1>1, <1>4, <1>10, <3>2, <3>5
  <2> QED
    BY <2>1, <2>2
<1>12. CountsExact'
  BY <1>1, <1>5, <1>6, <1>7, <1>9, <1>10, <1>11 DEF CountsExact
<1>13. StoreTypes'
  BY <1>1, <1>2, <1>3, <1>5, <1>8 DEF StoreTypes
<1>14. RefreshKept'
  BY <1>1, <1>2 DEF RefreshKept
<1>15. PersistKept'
  BY <1>1, <1>2, <1>4 DEF PersistKept
<1>16. NeededKept'
  BY <1>1, <1>2, <1>4 DEF NeededKept
<1> QED
  BY <1>4, <1>12, <1>13, <1>14, <1>15, <1>16 DEF StoreInv

\* The deletes that were suspended are of chunks that are not counted.
LEMMA ResumeKeeps ==
  ASSUME StoreInv, Resume
  PROVE  StoreInv'
<1>1. /\ suspended' = FALSE /\ known' = known \ SuspendedDeletes
      /\ cache' \in Evictions(cache \ SuspendedDeletes)
      /\ UNCHANGED <<perdagVars, main, sync, base, syncBase, made, persisting, refreshing>>
      /\ UNCHANGED <<stored, refCounts, group, persisted, retained, memOnly, counts>>
  BY DEF Resume, perdagVars
<1>2. StoreTypes /\ StoredIsReachable /\ CountsExact /\ RefreshKept /\ PersistKept /\ NeededKept
  BY DEF StoreInv
<1>3. /\ known \in SUBSET Chunks /\ cache \in SUBSET Chunks /\ memOnly \in SUBSET Chunks
      /\ counts \in [Chunks -> Nat]
  BY <1>2 DEF StoreTypes
<1>4. /\ Heads' = Heads /\ Needed' = Needed /\ Surviving' = Surviving /\ Held' = Held
      /\ StillNewer' = StillNewer /\ StoredIsReachable' /\ SyncApart'
  BY <1>1, SameHeads
<1>5. cache' \subseteq cache \ SuspendedDeletes /\ Cardinality(cache') <= CacheLimit
  BY <1>1, <1>3, EvictionsFit
<1>6. counts = CountsOf(Counted, Heads) /\ memOnly \subseteq Counted
  BY <1>2 DEF CountsExact
<1>7. Counted' = Counted
  <2>1. \A p \in Chunks : counts[p] \in Nat
    BY <1>3
  <2> QED
    BY <1>1, <1>3, <2>1 DEF Counted, SuspendedDeletes
<1>8. \A k \in known' \cup cache' : counts'[k] > 0
  <2> SUFFICES ASSUME NEW k \in known' \cup cache' PROVE counts'[k] > 0
    OBVIOUS
  <2>1. k \in known \cup cache /\ k \notin SuspendedDeletes
    BY <1>1, <1>5
  <2>2. counts[k] \in Nat
    BY <1>3, <2>1
  <2>3. counts[k] # 0
    BY <2>1 DEF SuspendedDeletes
  <2> QED
    BY <1>1, <2>1, <2>2, <2>3 DEF SuspendedDeletes
<1>9. CountsExact'
  BY <1>1, <1>4, <1>5, <1>6, <1>7, <1>8 DEF CountsExact
<1>10. StoreTypes'
  BY <1>1, <1>2, <1>3, <1>5 DEF StoreTypes
<1>11. RefreshKept'
  BY <1>1, <1>2 DEF RefreshKept
<1>12. PersistKept'
  BY <1>1, <1>2, <1>4 DEF PersistKept
<1>13. NeededKept'
  BY <1>1, <1>2, <1>4 DEF NeededKept
<1> QED
  BY <1>4, <1>9, <1>10, <1>11, <1>12, <1>13 DEF StoreInv
------------------------------------------------------------------------------
(* The writes of the memdag *)

\* What a write of the memdag that makes new chunks leaves of the perdag.
LEMMA SamePerdag ==
  ASSUME UNCHANGED <<perdagVars, refreshing>>
  PROVE  /\ Roots' = Roots /\ Surviving' = Surviving /\ Held' = Held
         /\ UNCHANGED <<stored, refCounts, group, persisted, retained, refreshing>>
         /\ (StoredIsReachable => StoredIsReachable')
<1>1. UNCHANGED <<stored, refCounts, group, persisted, retained, refreshing>>
  BY DEF perdagVars
<1>2. Roots' = Roots /\ Surviving' = Surviving
  BY <1>1 DEF Roots, Surviving
<1>3. Held' = Held
  BY <1>1, <1>2 DEF Held
<1> QED
  BY <1>1, <1>2, <1>3 DEF StoredIsReachable

LEMMA CommitExact ==
  ASSUME NEW mem, CommitResult(mem), UNCHANGED suspended
  PROVE  CountsExact'
BY DEF CommitResult, CountsExact

\* When what is needed grows by no more than chunks that are new, it is kept.
LEMMA GrowthKept ==
  ASSUME StoreInv, NEW new \in SUBSET Chunks, CommitResult(new),
         new \cap (Past \cup made) = {}, made' = made \cup new,
         UNCHANGED <<perdagVars, base, persisting, refreshing>>,
         Needed' \in SUBSET Chunks, Needed' \subseteq Heads',
         Reach(Needed') \subseteq new \cup Reach(Needed)
  PROVE  NeededKept' /\ PersistKept'
<1>1. StoreTypes /\ StoredIsReachable /\ RefreshKept /\ PersistKept /\ NeededKept
  BY DEF StoreInv
<1>2. /\ Surviving' = Surviving /\ Held' = Held
      /\ UNCHANGED <<stored, refCounts, group, persisted, retained, refreshing, base, persisting>>
  BY SamePerdag
<1>3. Held \in SUBSET Chunks /\ Closed(Held)
  BY <1>1, HeldIsStored
<1>4. Reach({base}) \in SUBSET Chunks /\ Closed(Reach({base}))
  BY <1>1, NeededReaches
<1>5. PICK needed : needed = Needed'
  OBVIOUS
<1>6. ASSUME NEW elsewhere \in SUBSET Chunks, Closed(elsewhere),
             Reach(Needed) \subseteq memOnly \cup elsewhere
      PROVE  Reach(Needed') \subseteq memOnly' \cup elsewhere
  <2>1. needed \in SUBSET Chunks /\ needed \subseteq Heads'
        /\ Reach(needed) \subseteq new \cup memOnly \cup elsewhere
    BY <1>5, <1>6
  <2>2. Reach(needed) \subseteq memOnly' \cup elsewhere
    BY <1>6, <2>1, CommitKeeps
  <2> QED
    BY <1>5, <2>2
<1>7. NeededKept'
  <2>1. PICK held, below : held = Held /\ below = Reach({base})
    OBVIOUS
  <2>2. Reach(Needed') \subseteq memOnly' \cup held
    BY <1>1, <1>3, <1>6, <2>1 DEF NeededKept
  <2>3. Reach(Needed') \subseteq memOnly' \cup below
    BY <1>1, <1>4, <1>6, <2>1 DEF NeededKept
  <2> QED
    BY <1>2, <2>1, <2>2, <2>3 DEF NeededKept
<1>8. PersistKept'
  <2> SUFFICES ASSUME persisting # None PROVE PersistKept'
    BY <1>2 DEF PersistKept
  <2>1. /\ persisting.chunks \subseteq Reach({persisting.head})
        /\ persisting.chunks \subseteq Past \cup made
        /\ Cookie[persisting.head] <= Cookie[base]
        /\ persisting.chunks \cap Reach(Needed) \subseteq Reach({base})
        /\ persisting.written => persisted = persisting.head
    BY <1>1 DEF PersistKept
  <2>2. persisting.chunks \cap Reach(Needed') \subseteq Reach({base})
    BY <2>1
  <2>3. persisting.chunks \subseteq Past \cup made'
    BY <2>1
  <2>4. ASSUME ~persisting.written, StillNewer
        PROVE  /\ Reach({persisting.head}) \subseteq persisting.chunks \cup Held
               /\ Reach(Needed') \subseteq memOnly' \cup Reach({persisting.head} \cup Surviving)
    <3>1. /\ Reach({persisting.head}) \subseteq persisting.chunks \cup Held
          /\ Reach(Needed) \subseteq memOnly \cup Reach({persisting.head} \cup Surviving)
      BY <1>1, <2>4 DEF PersistKept
    <3>2. {persisting.head} \cup Surviving \in SUBSET Chunks
      BY <1>1, RootsAreChunks DEF StoreTypes
    <3>3. PICK below : below = Reach({persisting.head} \cup Surviving)
      OBVIOUS
    <3>4. below \in SUBSET Chunks /\ Closed(below)
      BY <3>2, <3>3, ReachIsClosed
    <3> QED
      BY <1>6, <3>1, <3>3, <3>4
  <2>5. StillNewer' = StillNewer
    BY <1>2 DEF StillNewer
  <2> QED
    BY <1>2, <2>1, <2>2, <2>3, <2>4, <2>5 DEF PersistKept
<1> QED
  BY <1>7, <1>8

LEMMA MutateKeeps ==
  ASSUME StoreInv, NEW head \in Own, Mutate(head)
  PROVE  StoreInv'
<1>1. /\ main \in Refs[head]
      /\ UNCHANGED <<perdagVars, base, syncBase, suspended, persisting, refreshing>>
      /\ UNCHANGED <<stored, refCounts, group, persisted, retained>>
  BY DEF Mutate, perdagVars
<1>2. PICK new \in SUBSET (Own \ made), loaded \in Loads :
        head \in new /\ Makes(new) /\ MemdagCommit(new, loaded, head, sync)
  BY DEF Mutate
<1>3. StoreTypes /\ StoredIsReachable /\ CountsExact /\ SyncApart /\ RefreshKept
  BY DEF StoreInv
<1>4. /\ main \in Chunks /\ sync \in Chunks \cup {None} /\ base \in Chunks
      /\ made \in SUBSET Chunks /\ Own \in SUBSET Chunks
  BY <1>3, ChunksAssumption DEF StoreTypes
<1>5. new \in SUBSET Chunks /\ loaded \in SUBSET Chunks /\ head \in Chunks
  <2>1. Reach({main}) \in SUBSET Chunks
    BY <1>3, NeededReaches
  <2>2. loaded \subseteq Below[main]
    BY <1>2 DEF Loads
  <2>3. Below[main] \in SUBSET Chunks
    BY <1>4, BelowOf
  <2> QED
    BY <1>2, <1>4, <2>2, <2>3
<1>6. main' = head /\ sync' = sync /\ CommitResult(new)
  <2>1. PICK newMain, newSync : newMain = head /\ newSync = sync
    OBVIOUS
  <2> QED
    BY <1>2, <1>3, <1>4, <1>5, <2>1, CommitCounts
<1>7. /\ Reach({head}) \subseteq new \cup Reach({main})
      /\ new \cap (Past \cup made) = {} /\ made' = made \cup new
  BY <1>2, <1>3, <1>5, MakesReach
<1>8. /\ Reach({main}) \in SUBSET Chunks /\ Closed(Reach({main})) /\ main \in Reach({main})
      /\ Reach({main}) \subseteq Reach(Needed)
  BY <1>3, NeededReaches
<1>9. {head} \in SUBSET Chunks /\ head \in Reach({head}) /\ Closed(Reach({head}))
  BY <1>5, ReachIsClosed
<1>10. StoreTypes'
  BY <1>1, <1>3, <1>4, <1>5, <1>6, <1>7 DEF StoreTypes, CommitResult
<1>11. StoredIsReachable'
  BY <1>1, <1>3, SamePerdag
<1>12. CountsExact'
  BY <1>1, <1>6, CommitExact
<1>13. RefreshKept'
  BY <1>1, <1>3 DEF RefreshKept
<1>14. SyncApart'
  <2>1. Reach({main'}) = Reach({head})
    BY <1>6
  <2>2. base \in Reach({head})
    <3>1. {main} \subseteq Reach({head}) /\ {main} \in SUBSET Chunks
      BY <1>1, <1>4, <1>9 DEF Closed
    <3>2. Reach({main}) \subseteq Reach({head})
      BY <1>9, <3>1, ReachGrows
    <3> QED
      BY <1>3, <3>2 DEF SyncApart
  <2>3. Reach(Heads') \subseteq Past \cup made'
    <3>1. Reach(Heads) = Reach({main}) \cup Reach(Hashes(sync))
      BY <1>3, NeededReaches
    <3>2. Heads' = {head} \cup Hashes(sync)
      BY <1>5, <1>6, ChunksFinite DEF Heads, Hashes
    <3>3. Reach(Heads') = Reach({head}) \cup Reach(Hashes(sync))
      BY <3>2, ReachOfUnion
    <3> QED
      BY <1>2, <1>3, <1>7, <3>1, <3>3 DEF SyncApart
  <2>4. stored \subseteq Past \cup made'
    BY <1>3, <1>7 DEF SyncApart
  <2>5. sync # None => sync \in Own \cap made' /\ sync \notin stored \cup Reach({head})
    BY <1>3, <1>7 DEF SyncApart
  <2> QED
    BY <1>1, <1>3, <1>6, <2>1, <2>2, <2>3, <2>4, <2>5 DEF SyncApart
<1>15. /\ Needed' \in SUBSET Chunks /\ Needed' \subseteq Heads'
       /\ Reach(Needed') \subseteq new \cup Reach(Needed)
  <2> DEFINE synced == IF syncBase = base THEN Hashes(sync) ELSE {}
  <2>1. Needed' = {head} \cup synced /\ Needed = {main} \cup synced
    BY <1>1, <1>6 DEF Needed
  <2>2. synced \in SUBSET Chunks /\ synced \subseteq Hashes(sync)
    BY <1>4 DEF Hashes
  <2>3. Heads' = Hashes(head) \cup Hashes(sync) /\ head \in Hashes(head)
    BY <1>5, <1>6, ChunksFinite DEF Heads, Hashes
  <2> HIDE DEF synced
  <2>4. Reach(Needed') = Reach({head}) \cup Reach(synced)
        /\ Reach(Needed) = Reach({main}) \cup Reach(synced)
    BY <2>1, ReachOfUnion
  <2> QED
    BY <1>5, <1>7, <2>1, <2>2, <2>3, <2>4
<1>16. NeededKept' /\ PersistKept'
  BY <1>1, <1>5, <1>6, <1>7, <1>15, GrowthKept
<1> QED
  BY <1>10, <1>11, <1>12, <1>13, <1>14, <1>16 DEF StoreInv

\* The snapshot of a pull is new, and newer than main's.
LEMMA BeginSyncKeeps ==
  ASSUME StoreInv, NEW head \in Own, BeginSync(head)
  PROVE  StoreInv'
<1>1. /\ Cookie[head] > Cookie[base] /\ syncBase' = base
      /\ UNCHANGED <<perdagVars, base, suspended, persisting, refreshing>>
      /\ UNCHANGED <<stored, refCounts, group, persisted, retained>>
  BY DEF BeginSync, perdagVars
<1>2. PICK new \in SUBSET (Own \ made), loaded \in Loads :
        head \in new /\ Makes(new) /\ MemdagCommit(new, loaded, main, head)
  BY DEF BeginSync
<1>3. StoreTypes /\ StoredIsReachable /\ CountsExact /\ SyncApart /\ RefreshKept
  BY DEF StoreInv
<1>4. /\ main \in Chunks /\ sync \in Chunks \cup {None} /\ base \in Chunks
      /\ made \in SUBSET Chunks /\ Own \in SUBSET Chunks
  BY <1>3, ChunksAssumption DEF StoreTypes
<1>5. new \in SUBSET Chunks /\ loaded \in SUBSET Chunks /\ head \in Chunks
  <2>1. Reach({main}) \in SUBSET Chunks
    BY <1>3, NeededReaches
  <2>2. loaded \subseteq Below[main]
    BY <1>2 DEF Loads
  <2>3. Below[main] \in SUBSET Chunks
    BY <1>4, BelowOf
  <2> QED
    BY <1>2, <1>4, <2>2, <2>3
<1>6. main' = main /\ sync' = head /\ CommitResult(new)
  <2>1. PICK newMain, newSync : newMain = main /\ newSync = head
    OBVIOUS
  <2> QED
    BY <1>2, <1>3, <1>4, <1>5, <2>1, CommitCounts
<1>7. /\ Reach({head}) \subseteq new \cup Reach({main})
      /\ new \cap (Past \cup made) = {} /\ made' = made \cup new
  BY <1>2, <1>3, <1>5, MakesReach
<1>8. /\ Reach({main}) \in SUBSET Chunks /\ Closed(Reach({main})) /\ main \in Reach({main})
      /\ Reach({main}) \subseteq Reach(Needed)
  BY <1>3, NeededReaches
<1>9. {head} \in SUBSET Chunks /\ head \in Reach({head}) /\ Closed(Reach({head}))
  BY <1>5, ReachIsClosed
<1>10. StoreTypes'
  BY <1>1, <1>3, <1>4, <1>5, <1>6, <1>7 DEF StoreTypes, CommitResult
<1>11. StoredIsReachable'
  BY <1>1, <1>3, SamePerdag
<1>12. CountsExact'
  BY <1>1, <1>6, CommitExact
<1>13. RefreshKept'
  BY <1>1, <1>3 DEF RefreshKept
<1>14. SyncApart'
  <2>1. Reach({main'}) = Reach({main}) /\ base' \in Reach({main'})
    BY <1>1, <1>3, <1>6 DEF SyncApart
  <2>2. /\ Reach({main}) \subseteq Past \cup made /\ stored \subseteq Past \cup made
    BY <1>3, NeededReaches DEF SyncApart
  <2>3. head \notin Past \cup made /\ head \in Own \cap made'
    BY <1>2, <1>7
  <2>4. persisting # None => head \notin persisting.chunks
    BY <2>3 DEF StoreInv, PersistKept
  <2>5. base # None
    BY <1>4, ChunksFinite
  <2>6. Cookie[base] \in Nat /\ Cookie[head] \in Nat
    BY <1>4, <1>5, ChunksAssumption
  <2>7. Reach(Heads') \subseteq Past \cup made'
    <3>1. Heads' = {main} \cup {head}
      BY <1>4, <1>5, <1>6, ChunksFinite DEF Heads, Hashes
    <3>2. Reach(Heads') = Reach({main}) \cup Reach({head})
      BY <3>1, ReachOfUnion
    <3> QED
      BY <1>2, <1>7, <2>2, <3>2
  <2> QED
    BY <1>1, <1>6, <1>7, <2>1, <2>2, <2>3, <2>4, <2>5, <2>6, <2>7 DEF SyncApart
<1>15. /\ Needed' \in SUBSET Chunks /\ Needed' \subseteq Heads'
       /\ Reach(Needed') \subseteq new \cup Reach(Needed)
  <2>1. Needed' = {main} \cup {head} /\ Heads' = {main} \cup {head}
    BY <1>1, <1>4, <1>5, <1>6, ChunksFinite DEF Needed, Heads, Hashes
  <2>2. Reach(Needed') = Reach({main}) \cup Reach({head})
    BY <2>1, ReachOfUnion
  <2> QED
    BY <1>4, <1>5, <1>7, <1>8, <2>1, <2>2
<1>16. NeededKept' /\ PersistKept'
  BY <1>1, <1>5, <1>6, <1>7, <1>15, GrowthKept
<1> QED
  BY <1>10, <1>11, <1>12, <1>13, <1>14, <1>16 DEF StoreInv

\* The sync head that becomes main was needed before: it takes the place of main.
LEMMA EndSyncKeeps ==
  ASSUME StoreInv, EndSync
  PROVE  StoreInv'
<1>1. /\ sync # None /\ syncBase = base /\ MemdagCommit({}, {}, sync, None)
      /\ base' = sync /\ syncBase' = None
      /\ UNCHANGED <<perdagVars, suspended, made, persisting, refreshing>>
      /\ UNCHANGED <<stored, refCounts, group, persisted, retained>>
  BY DEF EndSync, Overlaps, perdagVars
<1>2. /\ StoreTypes /\ StoredIsReachable /\ CountsExact /\ SyncApart /\ RefreshKept
      /\ PersistKept /\ NeededKept
  BY DEF StoreInv
<1>3. sync \in Chunks /\ base \in Chunks
  BY <1>1, <1>2 DEF StoreTypes
<1>4. main' = sync /\ sync' = None /\ CommitResult({})
  <2>1. PICK newMain : newMain = sync
    OBVIOUS
  <2>2. {} \in SUBSET Chunks /\ None \in Chunks \cup {None}
    OBVIOUS
  <2> QED
    BY <1>1, <1>2, <1>3, <2>1, <2>2, CommitCounts
<1>5. /\ Surviving' = Surviving /\ Held' = Held
  BY <1>1, SamePerdag
<1>6. Needed' = {sync} /\ Heads' = {sync} /\ Hashes(sync) = {sync}
  BY <1>1, <1>3, <1>4, ChunksFinite DEF Needed, Heads, Hashes
<1>7. /\ {sync} \in SUBSET Chunks /\ sync \in Reach({sync})
  BY <1>3, ReachIsClosed
<1>8. Reach({sync}) \subseteq Reach(Needed) /\ Reach({sync}) \subseteq Reach(Heads)
  <2>1. Needed = {main} \cup {sync}
    BY <1>1, <1>6 DEF Needed
  <2>2. Reach(Needed) = Reach({main}) \cup Reach({sync})
    BY <2>1, ReachOfUnion
  <2>3. Reach(Heads) = Reach({main}) \cup Reach({sync})
    BY <1>2, <1>6, NeededReaches
  <2> QED
    BY <2>2, <2>3
<1>9. StoreTypes'
  BY <1>1, <1>2, <1>3, <1>4 DEF StoreTypes, CommitResult
<1>10. StoredIsReachable'
  BY <1>1, <1>2, SamePerdag
<1>11. CountsExact'
  BY <1>1, <1>4, CommitExact
<1>12. RefreshKept'
  BY <1>1, <1>2 DEF RefreshKept
<1>13. SyncApart'
  <2>1. Reach(Heads') = Reach({sync}) /\ Reach({main'}) = Reach({sync})
    BY <1>4, <1>6
  <2>2. Reach({sync}) \subseteq Past \cup made /\ stored \subseteq Past \cup made
    BY <1>2, <1>8 DEF SyncApart
  <2> QED
    BY <1>1, <1>4, <1>7, <2>1, <2>2 DEF SyncApart
<1>14. ASSUME NEW elsewhere \in SUBSET Chunks, Closed(elsewhere),
              Reach(Needed) \subseteq memOnly \cup elsewhere
       PROVE  Reach({sync}) \subseteq memOnly' \cup elsewhere
  <2>1. PICK head : head = sync
    OBVIOUS
  <2>2. /\ {} \in SUBSET Chunks /\ {head} \in SUBSET Chunks /\ {head} \subseteq Heads'
        /\ Reach({head}) \subseteq {} \cup memOnly \cup elsewhere
    BY <1>6, <1>7, <1>8, <1>14, <2>1
  <2>3. Reach({head}) \subseteq memOnly' \cup elsewhere
    BY <1>4, <1>14, <2>2, CommitKeeps
  <2> QED
    BY <2>1, <2>3
<1>15. NeededKept'
  <2>1. PICK held : held = Held
    OBVIOUS
  <2>2. held \in SUBSET Chunks /\ Closed(held)
    BY <1>2, <2>1, HeldIsStored
  <2>3. Reach({sync}) \subseteq memOnly' \cup held
    BY <1>2, <1>14, <2>1, <2>2 DEF NeededKept
  <2>4. Reach(Needed') = Reach({sync}) /\ Reach({base'}) = Reach({sync})
    BY <1>1, <1>6
  <2> QED
    BY <1>5, <2>1, <2>3, <2>4 DEF NeededKept
<1>16. PersistKept'
  <2> SUFFICES ASSUME persisting # None PROVE PersistKept'
    BY <1>1 DEF PersistKept
  <2>1. /\ persisting.chunks \subseteq Reach({persisting.head})
        /\ persisting.chunks \subseteq Past \cup made
        /\ Cookie[persisting.head] <= Cookie[base]
        /\ persisting.written => persisted = persisting.head
    BY <1>2 DEF PersistKept
  <2>2. Cookie[persisting.head] <= Cookie[base']
    <3>1. Cookie[base] < Cookie[sync]
      BY <1>1, <1>2 DEF SyncApart
    <3>2. persisting.head \in Chunks
      BY <1>2 DEF StoreTypes
    <3>3. Cookie[base] \in Nat /\ Cookie[sync] \in Nat /\ Cookie[persisting.head] \in Nat
      BY <1>3, <3>2, ChunksAssumption
    <3> QED
      BY <1>1, <2>1, <3>1, <3>3
  <2>3. persisting.chunks \cap Reach(Needed') \subseteq Reach({base'})
    BY <1>1, <1>6
  <2>4. ASSUME ~persisting.written, StillNewer
        PROVE  /\ Reach({persisting.head}) \subseteq persisting.chunks \cup Held
               /\ Reach(Needed') \subseteq memOnly' \cup Reach({persisting.head} \cup Surviving)
    <3>1. /\ Reach({persisting.head}) \subseteq persisting.chunks \cup Held
          /\ Reach(Needed) \subseteq memOnly \cup Reach({persisting.head} \cup Surviving)
      BY <1>2, <2>4 DEF PersistKept
    <3>2. {persisting.head} \cup Surviving \in SUBSET Chunks
      BY <1>2, RootsAreChunks DEF StoreTypes
    <3>3. PICK below : below = Reach({persisting.head} \cup Surviving)
      OBVIOUS
    <3>4. below \in SUBSET Chunks /\ Closed(below)
      BY <3>2, <3>3, ReachIsClosed
    <3>5. Reach({sync}) \subseteq memOnly' \cup below
      BY <1>14, <3>1, <3>3, <3>4
    <3> QED
      BY <1>6, <3>1, <3>3, <3>5
  <2>5. StillNewer' = StillNewer
    BY <1>1 DEF StillNewer
  <2> QED
    BY <1>1, <1>5, <2>1, <2>2, <2>3, <2>4, <2>5 DEF PersistKept
<1> QED
  BY <1>9, <1>10, <1>11, <1>12, <1>13, <1>15, <1>16 DEF StoreInv

\* The refreshed head is in the perdag, and newer than what may still have to be persisted.
LEMMA FinishRefreshKeeps ==
  ASSUME StoreInv, FinishRefresh
  PROVE  StoreInv'
<1> DEFINE mem == refreshing.chunks \cap memOnly
           head == refreshing.head
<1>1. /\ refreshing # None /\ Cookie[head] > Cookie[base]
      /\ MemdagCommit(mem, refreshing.chunks \ memOnly, head, sync)
      /\ base' = head /\ syncBase' = syncBase
      /\ refreshing' = [refreshing EXCEPT !.done = TRUE]
      /\ UNCHANGED <<stored, refCounts, group, persisted, retained, suspended, made, persisting>>
  BY DEF FinishRefresh, perdagVars
<1>2. /\ StoreTypes /\ StoredIsReachable /\ CountsExact /\ SyncApart /\ RefreshKept
      /\ PersistKept /\ NeededKept
  BY DEF StoreInv
<1>3. /\ refreshing \in [head : Chunks, before : SUBSET Chunks, done : BOOLEAN, chunks : SUBSET Chunks]
      /\ memOnly \in SUBSET Chunks /\ sync \in Chunks \cup {None} /\ base \in Chunks
      /\ group \in Chunks
  BY <1>1, <1>2 DEF StoreTypes
<1>4. /\ refreshing' \in [head : Chunks, before : SUBSET Chunks, done : BOOLEAN, chunks : SUBSET Chunks]
      /\ refreshing'.head = head /\ refreshing'.before = refreshing.before /\ refreshing'.done
      /\ refreshing' # None
  <2>1. None \notin [head : Chunks, before : SUBSET Chunks, done : BOOLEAN, chunks : SUBSET Chunks]
    BY ChunksAssumption
  <2> QED
    BY <1>1, <1>3, <2>1
<1>5. head \in Chunks /\ mem \in SUBSET Chunks /\ refreshing.chunks \in SUBSET Chunks
  BY <1>3
<1>6. main' = head /\ sync' = sync /\ CommitResult(mem)
  <2>1. PICK m, l, newMain, newSync : m = mem /\ l = refreshing.chunks \ memOnly
                                      /\ newMain = head /\ newSync = sync
    OBVIOUS
  <2>2. m \in SUBSET Chunks /\ l \in SUBSET Chunks
    BY <1>5, <2>1
  <2> HIDE DEF mem, head
  <2> QED
    BY <1>1, <1>2, <1>3, <1>5, <2>1, <2>2, CommitCounts
<1>7. /\ retained = refreshing.before \cup {head} /\ Cookie[head] <= Cookie[group]
      /\ syncBase' # head \/ sync = None
  <2>1. Cookie[head] \in Nat /\ Cookie[base] \in Nat
    BY <1>3, <1>5, ChunksAssumption
  <2>2. syncBase \in Chunks \cup {None} /\ (sync # None => syncBase # None /\ Cookie[syncBase] <= Cookie[base])
    BY <1>2 DEF StoreTypes, SyncApart
  <2>3. sync # None => Cookie[syncBase] \in Nat
    BY <2>2, ChunksAssumption
  <2> QED
    BY <1>1, <1>2, <2>1, <2>2, <2>3 DEF RefreshKept
<1>8. Needed' = {head}
  BY <1>1, <1>6, <1>7 DEF Needed, Hashes
<1>9. Surviving' = {head}
  BY <1>4 DEF Surviving
<1>10. Reach({head}) \subseteq Held' /\ Reach({head}) \subseteq stored /\ {head} \in SUBSET Chunks
       /\ head \in Reach({head})
  <2>1. Held' = Reach(Hashes(persisted) \cup {head})
    BY <1>1, <1>9 DEF Held
  <2>2. Held' = Reach(Hashes(persisted)) \cup Reach({head})
    BY <2>1, ReachOfUnion
  <2>3. head \in Roots /\ Roots \in SUBSET Chunks /\ stored = Reach(Roots)
    BY <1>2, <1>7, RootsAreChunks, HeldIsStored DEF Roots
  <2>4. PICK roots : roots = Roots
    OBVIOUS
  <2>5. {head} \subseteq Reach(roots)
    BY <2>3, <2>4, ReachIsClosed
  <2>6. Reach({head}) \subseteq Reach(roots)
    BY <1>5, <2>3, <2>4, <2>5, ReachGrows
  <2>7. head \in Reach({head})
    BY <1>5, ReachIsClosed
  <2> QED
    BY <1>5, <2>2, <2>3, <2>4, <2>6, <2>7
<1> HIDE DEF mem, head
<1>11. StoreTypes'
  BY <1>1, <1>2, <1>3, <1>4, <1>5, <1>6 DEF StoreTypes, CommitResult
<1>12. StoredIsReachable'
  BY <1>1, <1>2 DEF StoredIsReachable, Roots
<1>13. CountsExact'
  BY <1>1, <1>6, CommitExact
<1>14. RefreshKept'
  BY <1>1, <1>2, <1>4, <1>7 DEF RefreshKept
<1>15. SyncApart'
  <2>1. Reach({main'}) = Reach({head})
    BY <1>6
  <2>2. stored \subseteq Past \cup made
    BY <1>2 DEF SyncApart
  <2>3. Reach(Heads') \subseteq Past \cup made
    <3>1. Heads' = {head} \cup Hashes(sync)
      BY <1>5, <1>6, ChunksFinite DEF Heads, Hashes
    <3>2. Reach(Heads') = Reach({head}) \cup Reach(Hashes(sync))
      BY <3>1, ReachOfUnion
    <3>3. Reach(Hashes(sync)) \subseteq Past \cup made
      BY <1>2, NeededReaches DEF SyncApart
    <3> QED
      BY <1>10, <2>2, <3>2, <3>3
  <2>4. sync # None => Cookie[syncBase] <= Cookie[head]
    <3> SUFFICES ASSUME sync # None PROVE Cookie[syncBase] <= Cookie[head]
      OBVIOUS
    <3>1. syncBase \in Chunks /\ Cookie[syncBase] <= Cookie[base]
      BY <1>2 DEF StoreTypes, SyncApart
    <3>2. Cookie[syncBase] \in Nat /\ Cookie[base] \in Nat /\ Cookie[head] \in Nat
      BY <1>3, <1>5, <3>1, ChunksAssumption
    <3> QED
      BY <1>1, <3>1, <3>2
  <2>5. sync # None => sync \notin stored \cup Reach({head})
    BY <1>2, <1>10 DEF SyncApart
  <2> QED
    BY <1>1, <1>2, <1>6, <1>10, <2>1, <2>2, <2>3, <2>4, <2>5 DEF SyncApart
<1>16. PersistKept'
  <2> SUFFICES ASSUME persisting # None PROVE PersistKept'
    BY <1>1 DEF PersistKept
  <2>1. /\ persisting.chunks \subseteq Reach({persisting.head})
        /\ persisting.chunks \subseteq Past \cup made
        /\ Cookie[persisting.head] <= Cookie[base]
        /\ persisting.written => persisted = persisting.head
    BY <1>2 DEF PersistKept
  <2>2. persisting.head \in Chunks
    BY <1>2 DEF StoreTypes
  <2>3. /\ Cookie[persisting.head] \in Nat /\ Cookie[base] \in Nat /\ Cookie[head] \in Nat
        /\ Cookie[group] \in Nat
    BY <1>3, <1>5, <2>2, ChunksAssumption
  <2>4. Cookie[persisting.head] <= Cookie[head] /\ ~StillNewer
    BY <1>1, <1>7, <2>1, <2>3 DEF StillNewer
  <2>5. ~StillNewer'
    BY <1>1, <2>4 DEF StillNewer
  <2>6. persisting.chunks \cap Reach(Needed') \subseteq Reach({base'})
    BY <1>1, <1>8
  <2> QED
    BY <1>1, <2>1, <2>4, <2>5, <2>6 DEF PersistKept
<1>17. NeededKept'
  <2>1. Reach(Needed') = Reach({head}) /\ Reach({base'}) = Reach({head})
    BY <1>1, <1>8
  <2> QED
    BY <1>10, <2>1 DEF NeededKept
<1> QED
  BY <1>11, <1>12, <1>13, <1>14, <1>15, <1>16, <1>17 DEF StoreInv

------------------------------------------------------------------------------
(* persist() *)

\* What is read is what the snapshot reaches and the perdag does not hold.
LEMMA PersistReadKeeps ==
  ASSUME StoreInv, PersistRead
  PROVE  StoreInv'
<1> DEFINE chunks == Gather({base}, memOnly)
<1>1. /\ persisting' = [head |-> base, chunks |-> chunks, written |-> FALSE]
      /\ UNCHANGED <<perdagVars, refreshing>>
      /\ UNCHANGED <<stored, refCounts, group, persisted, retained, main, sync, base, syncBase,
                     memOnly, cache, counts, known, suspended, made>>
  BY DEF PersistRead, perdagVars, memdagVars, storeVars
<1>2. /\ StoreTypes /\ StoredIsReachable /\ CountsExact /\ SyncApart /\ RefreshKept
      /\ PersistKept /\ NeededKept
  BY DEF StoreInv
<1>3. base \in Chunks /\ {base} \in SUBSET Chunks
  BY <1>2 DEF StoreTypes
<1>4. Reach({base}) \subseteq Reach({main}) /\ Reach({main}) \subseteq Reach(Needed)
  <2>1. {base} \subseteq Reach({main}) /\ {main} \in SUBSET Chunks
    BY <1>2, RootsAreChunks DEF SyncApart
  <2>2. PICK m, b : m = main /\ b = base
    OBVIOUS
  <2>3. Reach({b}) \subseteq Reach({m})
    BY <1>3, <2>1, <2>2, ReachGrows
  <2> QED
    BY <1>2, <2>2, <2>3, NeededReaches
<1>5. /\ chunks \in SUBSET Chunks /\ chunks \subseteq Reach({base})
      /\ Reach({base}) \subseteq chunks \cup Held
  <2>1. PICK hashes, inside, elsewhere : hashes = {base} /\ inside = memOnly /\ elsewhere = Held
    OBVIOUS
  <2>2. elsewhere \in SUBSET Chunks /\ Closed(elsewhere)
    BY <1>2, <2>1, HeldIsStored
  <2>3. hashes \in SUBSET Chunks /\ Reach(hashes) \subseteq inside \cup elsewhere
    BY <1>2, <1>3, <1>4, <2>1 DEF NeededKept
  <2>4. /\ Gather(hashes, inside) \in SUBSET Chunks /\ Gather(hashes, inside) \subseteq Reach(hashes)
        /\ Reach(hashes) \subseteq Gather(hashes, inside) \cup elsewhere
    BY <2>2, <2>3, GatherReach
  <2> QED
    BY <2>1, <2>4
<1> HIDE DEF chunks
<1>6. /\ persisting' \in [head : Chunks, chunks : SUBSET Chunks, written : BOOLEAN]
      /\ persisting'.head = base /\ persisting'.chunks = chunks /\ ~persisting'.written
  BY <1>1, <1>3, <1>5
<1>7. Heads' = Heads /\ Needed' = Needed /\ Counted' = Counted /\ Surviving' = Surviving /\ Held' = Held
  BY <1>1, SamePerdag DEF Heads, Needed, Counted
<1>8. StoreTypes'
  BY <1>1, <1>2, <1>6 DEF StoreTypes
<1>9. StoredIsReachable' /\ CountsExact' /\ RefreshKept' /\ NeededKept'
  BY <1>1, <1>2, <1>7, SamePerdag DEF CountsExact, RefreshKept, NeededKept
<1>10. SyncApart'
  <2>1. sync # None => sync \notin chunks
    BY <1>2, <1>4, <1>5 DEF SyncApart
  <2> QED
    BY <1>1, <1>2, <1>6, <1>7, <2>1 DEF SyncApart
<1>11. PersistKept'
  <2>1. chunks \subseteq Past \cup made
    <3>1. Reach({main}) \subseteq Past \cup made
      BY <1>2, NeededReaches DEF SyncApart
    <3> QED
      BY <1>4, <1>5, <3>1
  <2>2. Cookie[base] <= Cookie[base]
    BY <1>3, ChunksAssumption
  <2>3. Reach(Needed) \subseteq memOnly \cup Reach({base} \cup Surviving)
    <3>1. Reach({base} \cup Surviving) = Reach({base}) \cup Reach(Surviving)
      BY ReachOfUnion
    <3> QED
      BY <1>2, <3>1 DEF NeededKept
  <2> QED
    BY <1>1, <1>5, <1>6, <1>7, <2>1, <2>2, <2>3 DEF PersistKept
<1> QED
  BY <1>8, <1>9, <1>10, <1>11 DEF StoreInv

\* A write of the perdag leaves the memdag as it is.
LEMMA SameMemdag ==
  ASSUME UNCHANGED <<memdagVars, suspended>>
  PROVE  /\ Heads' = Heads /\ Needed' = Needed /\ (CountsExact => CountsExact')
         /\ UNCHANGED <<main, sync, base, syncBase, memOnly, cache, counts, known, suspended>>
<1>1. UNCHANGED <<main, sync, base, syncBase, memOnly, cache, counts, known, suspended>>
  BY DEF memdagVars, storeVars
<1>2. Heads' = Heads /\ Needed' = Needed /\ Counted' = Counted
  BY <1>1 DEF Heads, Needed, Counted
<1> QED
  BY <1>1, <1>2 DEF CountsExact

LEMMA PersistWriteKeeps ==
  ASSUME StoreInv, PersistWrite
  PROVE  StoreInv'
<1> DEFINE head == persisting.head
           chunks == persisting.chunks
<1>1. /\ persisting # None /\ ~persisting.written
      /\ UNCHANGED <<memdagVars, suspended>> /\ made' = made /\ refreshing' = refreshing
  BY DEF PersistWrite
<1>2. /\ StoreTypes /\ StoredIsReachable /\ CountsExact /\ SyncApart /\ RefreshKept
      /\ PersistKept /\ NeededKept
  BY DEF StoreInv
<1>3. /\ Heads' = Heads /\ Needed' = Needed /\ CountsExact'
      /\ UNCHANGED <<main, sync, base, syncBase, memOnly, cache, counts, known, suspended>>
  BY <1>1, <1>2, SameMemdag
<1>4. /\ persisting \in [head : Chunks, chunks : SUBSET Chunks, written : BOOLEAN]
      /\ group \in Chunks /\ retained \in SUBSET Chunks
  BY <1>1, <1>2 DEF StoreTypes
<1>5. head \in Chunks /\ chunks \in SUBSET Chunks
  BY <1>4
<1>6. CASE ~StillNewer
  <2>1. persisting' = None /\ UNCHANGED <<perdagVars, refreshing>>
    BY <1>1, <1>6 DEF PersistWrite
  <2>2. /\ StoredIsReachable' /\ Held' = Held
        /\ UNCHANGED <<stored, refCounts, group, persisted, retained, refreshing>>
    BY <1>2, <2>1, SamePerdag
  <2>3. StoreTypes'
    BY <1>1, <1>2, <1>3, <2>1, <2>2 DEF StoreTypes
  <2>4. SyncApart' /\ RefreshKept'
    BY <1>1, <1>2, <1>3, <2>1, <2>2 DEF SyncApart, RefreshKept
  <2>5. PersistKept' /\ NeededKept'
    BY <1>2, <1>3, <2>1, <2>2 DEF PersistKept, NeededKept
  <2> QED
    BY <1>3, <2>2, <2>3, <2>4, <2>5 DEF StoreInv
<1>7. CASE StillNewer
  <2>1. /\ SetRoots(chunks, head, head, retained)
        /\ persisting' = [persisting EXCEPT !.written = TRUE]
    BY <1>7 DEF PersistWrite
  <2>2. /\ persisting' \in [head : Chunks, chunks : SUBSET Chunks, written : BOOLEAN]
        /\ persisting'.head = head /\ persisting'.chunks = chunks /\ persisting'.written
    BY <1>4, <2>1
  <2>3. /\ chunks \subseteq Reach({head}) /\ chunks \subseteq Past \cup made
        /\ Cookie[head] <= Cookie[base] /\ chunks \cap Reach(Needed) \subseteq Reach({base})
        /\ Reach({head}) \subseteq chunks \cup Held
        /\ Reach(Needed) \subseteq memOnly \cup Reach({head} \cup Surviving)
    BY <1>1, <1>2, <1>7 DEF PersistKept
  <2> HIDE DEF head, chunks
  <2>4. /\ Held \subseteq stored /\ Reach(Surviving) \subseteq Held
        /\ stored = Reach(Roots) /\ Roots \in SUBSET Chunks
    BY <1>2, HeldIsStored, RootsAreChunks
  <2>5. Hashes(head) = {head}
    BY <1>5, ChunksFinite DEF Hashes
  <2>6. Reach(Hashes(head) \cup Hashes(head) \cup retained) \subseteq stored \cup chunks
    <3>1. PICK r, roots : r = retained /\ roots = Roots
      OBVIOUS
    <3>2. r \subseteq Reach(roots) /\ r \in SUBSET Chunks
      BY <1>4, <2>4, <3>1, ReachIsClosed DEF Roots
    <3>3. Reach(r) \subseteq Reach(roots)
      BY <2>4, <3>1, <3>2, ReachGrows
    <3>4. Hashes(head) \cup Hashes(head) \cup r = {head} \cup r
      BY <2>5
    <3>5. Reach(Hashes(head) \cup Hashes(head) \cup r) = Reach({head}) \cup Reach(r)
      BY <3>4, ReachOfUnion
    <3> QED
      BY <2>3, <2>4, <3>1, <3>3, <3>5
  <2>7. /\ group' = head /\ persisted' = head /\ retained' = retained
        /\ stored' \in SUBSET Chunks /\ refCounts' \in [Chunks -> Nat]
        /\ stored' \subseteq stored \cup chunks /\ StoredIsReachable'
    <3>1. PICK c, h, r : c = chunks /\ h = head /\ r = retained
      OBVIOUS
    <3>2. c \in SUBSET Chunks /\ h \in Chunks /\ h \in Chunks \cup {None} /\ r \in SUBSET Chunks
      BY <1>4, <1>5, <3>1
    <3>3. SetRoots(c, h, h, r) /\ Reach(Hashes(h) \cup Hashes(h) \cup r) \subseteq stored \cup c
      BY <2>1, <2>6, <3>1
    <3>4. /\ group' = h /\ persisted' = h /\ retained' = r
          /\ stored' \in SUBSET Chunks /\ refCounts' \in [Chunks -> Nat]
          /\ stored' \subseteq stored \cup c /\ StoredIsReachable'
      BY <1>2, <3>2, <3>3, SetRootsKeeps
    <3> QED
      BY <3>1, <3>4
  <2>8. Surviving' = Surviving
    BY <1>1, <2>7 DEF Surviving
  <2>9. Held' = Reach({head} \cup Surviving)
    BY <2>5, <2>7, <2>8 DEF Held
  <2>10. StoreTypes'
    BY <1>1, <1>2, <1>3, <1>5, <2>2, <2>7 DEF StoreTypes
  <2>11. SyncApart'
    <3>1. sync # None => sync \notin chunks
      BY <1>1, <1>2 DEF SyncApart, chunks
    <3>2. stored' \subseteq Past \cup made
      BY <1>2, <2>3, <2>7 DEF SyncApart
    <3>3. sync # None => sync \notin stored'
      BY <1>2, <2>7, <3>1 DEF SyncApart
    <3> QED
      BY <1>1, <1>2, <1>3, <2>2, <3>1, <3>2, <3>3 DEF SyncApart
  <2>12. RefreshKept'
    <3> SUFFICES ASSUME refreshing # None PROVE Cookie[refreshing.head] <= Cookie[group']
      BY <1>1, <1>2, <1>3, <2>7 DEF RefreshKept
    <3>1. refreshing.head \in Chunks /\ Cookie[refreshing.head] <= Cookie[group]
      BY <1>2 DEF RefreshKept, StoreTypes
    <3>2. Cookie[refreshing.head] \in Nat /\ Cookie[group] \in Nat /\ Cookie[head] \in Nat
      BY <1>4, <1>5, <3>1, ChunksAssumption
    <3>3. Cookie[head] > Cookie[group]
      BY <1>7 DEF StillNewer, head
    <3> QED
      BY <2>7, <3>1, <3>2, <3>3
  <2>13. PersistKept'
    BY <1>1, <1>3, <2>2, <2>3, <2>7 DEF PersistKept
  <2>14. NeededKept'
    BY <1>2, <1>3, <2>3, <2>9 DEF NeededKept
  <2> QED
    BY <1>3, <2>7, <2>10, <2>11, <2>12, <2>13, <2>14 DEF StoreInv
<1> QED
  BY <1>6, <1>7

\* What was written is what the perdag holds below persistHash.
LEMMA ChunksPersistedKeeps ==
  ASSUME StoreInv, ChunksPersisted
  PROVE  StoreInv'
<1> DEFINE chunks == persisting.chunks
<1>1. /\ persisting # None /\ persisting.written /\ persisting' = None
      /\ memOnly' = memOnly \ Persisted /\ cache' \in Trimmed(cache \cup Persisted)
      /\ UNCHANGED <<perdagVars, refreshing>>
      /\ UNCHANGED <<stored, refCounts, group, persisted, retained, main, sync, base, syncBase,
                     counts, known, suspended, made>>
  BY DEF ChunksPersisted, perdagVars
<1>2. /\ StoreTypes /\ StoredIsReachable /\ CountsExact /\ SyncApart /\ RefreshKept
      /\ PersistKept /\ NeededKept
  BY DEF StoreInv
<1>3. cache \in SUBSET Chunks /\ memOnly \in SUBSET Chunks
  BY <1>2 DEF StoreTypes
<1>4. Persisted = chunks \cap memOnly /\ Persisted \in SUBSET Chunks
  BY <1>3 DEF Persisted
<1>5. /\ cache' \subseteq cache \cup Persisted
      /\ ~suspended => Cardinality(cache') <= CacheLimit
  <2>1. cache \cup Persisted \in SUBSET Chunks
    BY <1>3, <1>4
  <2>2. PICK c : c = cache \cup Persisted
    OBVIOUS
  <2>3. c \in SUBSET Chunks /\ cache' \in Trimmed(c)
    BY <1>1, <2>1, <2>2
  <2> QED
    BY <2>2, <2>3, TrimmedFits
<1>6. Heads' = Heads /\ Needed' = Needed /\ Counted' = Counted /\ Surviving' = Surviving /\ Held' = Held
  BY <1>1, SamePerdag DEF Heads, Needed, Counted
<1>7. StoreTypes'
  BY <1>1, <1>2, <1>3, <1>4, <1>5 DEF StoreTypes
<1>8. StoredIsReachable' /\ RefreshKept'
  BY <1>1, <1>2, SamePerdag DEF RefreshKept
<1>9. CountsExact'
  <2>1. Persisted \subseteq Counted /\ \A h \in Counted : counts[h] > 0
    BY <1>2, <1>4 DEF CountsExact, Counted
  <2>2. ~suspended => \A h \in known \cup cache' : counts[h] > 0
    BY <1>2, <1>5, <2>1 DEF CountsExact
  <2>3. memOnly' \subseteq Counted
    BY <1>1, <1>2 DEF CountsExact
  <2> QED
    BY <1>1, <1>2, <1>5, <1>6, <2>2, <2>3 DEF CountsExact
<1>10. SyncApart'
  BY <1>1, <1>2, <1>6 DEF SyncApart
<1>11. PersistKept'
  BY <1>1 DEF PersistKept
<1>12. NeededKept'
  <2>1. /\ chunks \subseteq Reach({persisting.head}) /\ persisted = persisting.head
        /\ chunks \cap Reach(Needed) \subseteq Reach({base})
    BY <1>1, <1>2 DEF PersistKept
  <2>2. Hashes(persisted) = {persisting.head}
    <3>1. persisting.head \in Chunks
      BY <1>1, <1>2 DEF StoreTypes
    <3> QED
      BY <2>1, <3>1, ChunksFinite DEF Hashes
  <2>3. chunks \subseteq Held
    BY <1>2, <2>1, <2>2, HeldIsStored
  <2>4. Reach(Needed) \subseteq memOnly \cup Held /\ Reach(Needed) \subseteq memOnly \cup Reach({base})
    BY <1>2 DEF NeededKept
  <2>5. memOnly' = memOnly \ chunks
    BY <1>1, <1>4
  <2> HIDE DEF chunks
  <2>6. Reach(Needed) \subseteq memOnly' \cup Held /\ Reach(Needed) \subseteq memOnly' \cup Reach({base})
    BY <2>1, <2>3, <2>4, <2>5
  <2> QED
    BY <1>1, <1>6, <2>6 DEF NeededKept
<1> QED
  BY <1>7, <1>8, <1>9, <1>10, <1>11, <1>12 DEF StoreInv

------------------------------------------------------------------------------
(* refresh(), and another tab *)

\* Writes of the perdag that let go of nothing that is held for the client.
LEMMA SameHeld ==
  ASSUME StoreInv, UNCHANGED <<memdagVars, persisting>>, made \subseteq made', Held' = Held, Surviving' = Surviving,
         persisted' = persisted, persisting # None /\ StillNewer' => StillNewer
  PROVE  PersistKept' /\ NeededKept'
<1>1. /\ UNCHANGED <<main, sync, base, syncBase, memOnly>> /\ Needed' = Needed
  BY DEF memdagVars, storeVars, Needed
<1>2. PersistKept /\ NeededKept
  BY DEF StoreInv
<1>3. PersistKept'
  BY <1>1, <1>2 DEF PersistKept
<1>4. NeededKept'
  BY <1>1, <1>2 DEF NeededKept
<1> QED
  BY <1>3, <1>4

LEMMA PeerPersistKeeps ==
  ASSUME StoreInv, NEW head \in Foreign, PeerPersist(head)
  PROVE  StoreInv'
<1>1. /\ head \notin made /\ Refs[head] \subseteq stored /\ Cookie[head] > Cookie[group]
      /\ made' = made \cup {head} /\ SetRoots({head}, head, persisted, retained)
      /\ UNCHANGED <<memdagVars, suspended>> /\ UNCHANGED <<persisting, refreshing>>
  BY DEF PeerPersist
<1>2. /\ StoreTypes /\ StoredIsReachable /\ CountsExact /\ SyncApart /\ RefreshKept
  BY DEF StoreInv
<1>3. /\ Heads' = Heads /\ Needed' = Needed /\ CountsExact'
      /\ UNCHANGED <<main, sync, base, syncBase, memOnly, cache, counts, known, suspended>>
  BY <1>1, <1>2, SameMemdag
<1>4. /\ head \in Chunks /\ group \in Chunks /\ persisted \in Chunks \cup {None}
      /\ retained \in SUBSET Chunks /\ made \in SUBSET Chunks /\ Own \cap Foreign = {}
  BY <1>2, ChunksAssumption DEF StoreTypes
<1>5. Cookie[head] \in Nat /\ Cookie[group] \in Nat
  BY <1>4, ChunksAssumption
<1>6. /\ group' = head /\ persisted' = persisted /\ retained' = retained
      /\ stored' \in SUBSET Chunks /\ refCounts' \in [Chunks -> Nat]
      /\ stored' \subseteq stored \cup {head} /\ StoredIsReachable'
  <2>1. PICK puts, p, r, roots : puts = {head} /\ p = persisted /\ r = retained /\ roots = Roots
    OBVIOUS
  <2>2. roots \in SUBSET Chunks /\ stored = Reach(roots) /\ Closed(stored) /\ Reach(roots) \in SUBSET Chunks
    BY <1>2, <2>1, HeldIsStored, RootsAreChunks, ReachIsClosed
  <2>3. Closed(stored \cup {head}) /\ stored \cup {head} \in SUBSET Chunks
    BY <1>1, <1>4, <2>2 DEF Closed
  <2>4. PICK all : all = stored \cup {head}
    OBVIOUS
  <2>5. Hashes(head) \cup Hashes(p) \cup r \subseteq all
    <3>1. roots \subseteq stored
      BY <2>2, ReachIsClosed
    <3>2. Hashes(p) \cup r \subseteq roots
      BY <2>1 DEF Roots
    <3>3. Hashes(head) \subseteq {head}
      BY DEF Hashes
    <3> QED
      BY <2>4, <3>1, <3>2, <3>3
  <2>6. all \in SUBSET Chunks /\ Closed(all) /\ Hashes(head) \cup Hashes(p) \cup r \in SUBSET Chunks
    BY <2>3, <2>4, <2>5
  <2>7. Reach(Hashes(head) \cup Hashes(p) \cup r) \subseteq stored \cup puts
    BY <2>1, <2>4, <2>5, <2>6, ReachIsLeast
  <2>8. puts \in SUBSET Chunks /\ p \in Chunks \cup {None} /\ r \in SUBSET Chunks
        /\ SetRoots(puts, head, p, r)
    BY <1>1, <1>4, <2>1
  <2>9. /\ group' = head /\ persisted' = p /\ retained' = r
        /\ stored' \in SUBSET Chunks /\ refCounts' \in [Chunks -> Nat]
        /\ stored' \subseteq stored \cup puts /\ StoredIsReachable'
    BY <1>2, <1>4, <2>7, <2>8, SetRootsKeeps
  <2> QED
    BY <2>1, <2>9
<1>7. Surviving' = Surviving /\ Held' = Held
  BY <1>1, <1>6 DEF Surviving, Held
<1>8. persisting # None /\ StillNewer' => StillNewer
  <2> SUFFICES ASSUME persisting # None, StillNewer' PROVE StillNewer
    OBVIOUS
  <2>1. Cookie[persisting.head] > Cookie[head]
    BY <1>1, <1>6 DEF StillNewer
  <2>2. persisting.head \in Chunks
    BY <1>2 DEF StoreTypes
  <2>3. Cookie[persisting.head] \in Nat
    BY <2>2, ChunksAssumption
  <2> QED
    BY <1>1, <1>5, <2>1, <2>3 DEF StillNewer
<1>9. StoreTypes'
  BY <1>1, <1>2, <1>3, <1>4, <1>6 DEF StoreTypes
<1>10. SyncApart'
  <2>1. sync # None => sync \notin stored'
    BY <1>2, <1>4, <1>6 DEF SyncApart
  <2>2. stored' \subseteq Past \cup made' /\ Reach(Heads) \subseteq Past \cup made'
    BY <1>1, <1>2, <1>6 DEF SyncApart
  <2> QED
    BY <1>1, <1>2, <1>3, <2>1, <2>2 DEF SyncApart
<1>11. RefreshKept'
  <2> SUFFICES ASSUME refreshing # None PROVE Cookie[refreshing.head] <= Cookie[group']
    BY <1>1, <1>2, <1>3, <1>6 DEF RefreshKept
  <2>1. refreshing.head \in Chunks /\ Cookie[refreshing.head] <= Cookie[group]
    BY <1>2 DEF RefreshKept, StoreTypes
  <2>2. Cookie[refreshing.head] \in Nat
    BY <2>1, ChunksAssumption
  <2> QED
    BY <1>1, <1>5, <1>6, <2>1, <2>2
<1>12. PersistKept' /\ NeededKept'
  BY <1>1, <1>6, <1>7, <1>8, SameHeld
<1> QED
  BY <1>3, <1>6, <1>9, <1>10, <1>11, <1>12 DEF StoreInv

\* A write of the refreshHashes alone.
LEMMA RetainKeeps ==
  ASSUME NEW r, StoreInv, SetRoots({}, group, persisted, r), r \subseteq Roots,
         UNCHANGED <<memdagVars, made, persisting>>, Surviving' = Surviving
  PROVE  /\ group' = group /\ persisted' = persisted /\ retained' = r /\ r \in SUBSET Chunks
         /\ stored' \in SUBSET Chunks /\ refCounts' \in [Chunks -> Nat] /\ StoredIsReachable'
         /\ UNCHANGED <<main, sync, base, syncBase, memOnly, cache, counts, known>>
         /\ SyncApart' /\ PersistKept' /\ NeededKept'
<1>1. /\ StoreTypes /\ StoredIsReachable /\ SyncApart /\ RefreshKept
  BY DEF StoreInv
<1>2. group \in Chunks /\ persisted \in Chunks \cup {None}
  BY <1>1 DEF StoreTypes
<1>3. PICK g, p, roots : g = group /\ p = persisted /\ roots = Roots
  OBVIOUS
<1>4. roots \in SUBSET Chunks /\ stored = Reach(roots)
  BY <1>1, <1>3, HeldIsStored, RootsAreChunks
<1>5. {} \in SUBSET Chunks /\ g \in Chunks /\ p \in Chunks \cup {None} /\ r \in SUBSET Chunks
      /\ SetRoots({}, g, p, r)
  BY <1>2, <1>3, <1>4
<1>6. Hashes(g) \cup Hashes(p) \cup r \subseteq roots
  BY <1>3 DEF Roots
<1>7. Reach(Hashes(g) \cup Hashes(p) \cup r) \subseteq stored \cup {}
  <2>1. Hashes(g) \cup Hashes(p) \cup r \subseteq Reach(roots)
    BY <1>4, <1>6, ReachIsClosed
  <2>2. Hashes(g) \cup Hashes(p) \cup r \in SUBSET Chunks
    BY <1>4, <1>6
  <2> QED
    BY <1>4, <2>1, <2>2, ReachGrows
<1>8. /\ group' = g /\ persisted' = p /\ retained' = r
      /\ stored' \in SUBSET Chunks /\ refCounts' \in [Chunks -> Nat]
      /\ stored' \subseteq stored \cup {} /\ StoredIsReachable'
  BY <1>1, <1>5, <1>7, SetRootsKeeps
<1>9. /\ UNCHANGED <<main, sync, base, syncBase, memOnly, cache, counts, known, made, persisting>>
      /\ Heads' = Heads
  BY DEF memdagVars, storeVars, Heads
<1>10. SyncApart'
  BY <1>1, <1>8, <1>9 DEF SyncApart
<1>11. Held' = Held
  BY <1>3, <1>8 DEF Held
<1>12. StillNewer' = StillNewer
  BY <1>3, <1>8, <1>9 DEF StillNewer
<1>13. PersistKept' /\ NeededKept'
  BY <1>3, <1>8, <1>9, <1>11, <1>12, SameHeld
<1> QED
  BY <1>3, <1>5, <1>8, <1>9, <1>10, <1>13

LEMMA BeginRefreshKeeps ==
  ASSUME StoreInv, BeginRefresh
  PROVE  StoreInv'
<1> DEFINE chunks == IF group \in cache THEN {} ELSE Gather({group}, stored \ cache)
<1>1. /\ refreshing = None /\ suspended' = TRUE /\ SetRoots({}, group, persisted, Retained)
      /\ refreshing' = [head |-> group, before |-> retained, done |-> FALSE, chunks |-> chunks]
      /\ UNCHANGED <<memdagVars, made, persisting>>
  BY DEF BeginRefresh
<1>2. StoreTypes /\ StoredIsReachable /\ CountsExact /\ RefreshKept
  BY DEF StoreInv
<1>3. group \in Chunks /\ retained \in SUBSET Chunks
  BY <1>2 DEF StoreTypes
<1>4. chunks \in SUBSET Chunks
  BY Gathered
<1> HIDE DEF chunks
<1>5. /\ refreshing' \in [head : Chunks, before : SUBSET Chunks, done : BOOLEAN, chunks : SUBSET Chunks]
      /\ refreshing'.head = group /\ refreshing'.before = retained /\ ~refreshing'.done
  BY <1>1, <1>3, <1>4
<1>6. refreshing' # None
  <2>1. None \notin [head : Chunks, before : SUBSET Chunks, done : BOOLEAN, chunks : SUBSET Chunks]
    BY ChunksAssumption
  <2> QED
    BY <1>5, <2>1
<1>7. Surviving' = Surviving
  BY <1>1, <1>5, <1>6 DEF Surviving
<1>8. PICK r : r = Retained
  OBVIOUS
<1>9. r \subseteq Roots /\ SetRoots({}, group, persisted, r)
  BY <1>1, <1>3, <1>8, ChunksFinite DEF Roots, Retained, Hashes
<1>10. /\ group' = group /\ persisted' = persisted /\ retained' = r /\ r \in SUBSET Chunks
       /\ stored' \in SUBSET Chunks /\ refCounts' \in [Chunks -> Nat] /\ StoredIsReachable'
       /\ UNCHANGED <<main, sync, base, syncBase, memOnly, cache, counts, known>>
       /\ SyncApart' /\ PersistKept' /\ NeededKept'
  BY <1>1, <1>7, <1>9, RetainKeeps
<1>11. StoreTypes'
  BY <1>1, <1>2, <1>5, <1>10 DEF StoreTypes
<1>12. CountsExact'
  <2>1. Counted' = Counted /\ Heads' = Heads
    BY <1>10 DEF Counted, Heads
  <2> QED
    BY <1>1, <1>2, <1>10, <2>1 DEF CountsExact
<1>13. RefreshKept'
  <2>1. Cookie[group] \in Nat
    BY <1>3, ChunksAssumption
  <2> QED
    BY <1>5, <1>6, <1>8, <1>10, <2>1 DEF RefreshKept, Retained
<1> QED
  BY <1>10, <1>11, <1>12, <1>13 DEF StoreInv

LEMMA CleanUpRefreshKeeps ==
  ASSUME StoreInv, CleanUpRefresh
  PROVE  StoreInv'
<1>1. /\ refreshing # None /\ ~suspended /\ SetRoots({}, group, persisted, Surviving)
      /\ refreshing' = None /\ suspended' = suspended
      /\ UNCHANGED <<memdagVars, made, persisting>>
  BY DEF CleanUpRefresh, Surviving
<1>2. StoreTypes /\ StoredIsReachable /\ CountsExact /\ RefreshKept
  BY DEF StoreInv
<1>3. PICK r : r = Surviving
  OBVIOUS
<1>4. r \subseteq Roots /\ SetRoots({}, group, persisted, r)
  BY <1>1, <1>2, <1>3 DEF Surviving, Roots, RefreshKept
<1>5. Surviving' = Surviving
  <2>1. retained' = Surviving
    BY <1>1 DEF SetRoots
  <2> QED
    BY <1>1, <2>1 DEF Surviving
<1>6. /\ group' = group /\ persisted' = persisted /\ retained' = r /\ r \in SUBSET Chunks
      /\ stored' \in SUBSET Chunks /\ refCounts' \in [Chunks -> Nat] /\ StoredIsReachable'
      /\ UNCHANGED <<main, sync, base, syncBase, memOnly, cache, counts, known>>
      /\ SyncApart' /\ PersistKept' /\ NeededKept'
  BY <1>1, <1>4, <1>5, RetainKeeps
<1>7. StoreTypes'
  BY <1>1, <1>2, <1>6 DEF StoreTypes
<1>8. CountsExact'
  <2>1. Counted' = Counted /\ Heads' = Heads
    BY <1>6 DEF Counted, Heads
  <2> QED
    BY <1>1, <1>2, <1>6, <2>1 DEF CountsExact
<1>9. RefreshKept'
  BY <1>1 DEF RefreshKept
<1> QED
  BY <1>6, <1>7, <1>8, <1>9 DEF StoreInv

------------------------------------------------------------------------------
(* The invariant *)

LEMMA InitStoreInv ==
  ASSUME Init
  PROVE  StoreInv
<1>1. /\ stored = Reach({Head0}) /\ refCounts = InitCounts({Head0})
      /\ group = Head0 /\ persisted = None /\ retained = {Head0}
      /\ main = Head0 /\ sync = None /\ base = Head0 /\ syncBase = None
      /\ memOnly = {} /\ cache = {} /\ known = {}
      /\ counts = [h \in Chunks |-> IF h = Head0 THEN 1 ELSE 0]
      /\ suspended = FALSE /\ made = {} /\ persisting = None /\ refreshing = None
  BY DEF Init
<1>2. Head0 \in Past /\ Head0 \in Chunks /\ {Head0} \in SUBSET Chunks /\ CacheLimit \in Nat
  BY ChunksAssumption DEF Past
<1>3. /\ {Head0} \subseteq Reach({Head0}) /\ Reach({Head0}) \in SUBSET Chunks /\ Closed(Reach({Head0}))
      /\ InitCounts({Head0}) \in [Chunks -> Nat]
  BY <1>2, ReachIsClosed, InitCountsAreExact
<1>4. /\ Hashes(Head0) = {Head0} /\ Hashes(None) = {}
  BY <1>2, ChunksFinite DEF Hashes
<1>5. Reach({Head0}) \subseteq Past
  <2>1. Closed(Past)
    BY ChunksAssumption DEF Closed, Past
  <2>2. Past \in SUBSET Chunks /\ {Head0} \subseteq Past
    BY <1>2 DEF Past
  <2> QED
    BY <1>2, <2>1, <2>2, ReachIsLeast
<1>6. Roots = {Head0} /\ Heads = {Head0} /\ Needed = {Head0} /\ Surviving = {Head0} /\ Counted = {}
  BY <1>1, <1>4 DEF Roots, Heads, Needed, Surviving, Counted
<1>7. StoreTypes
  BY <1>1, <1>2, <1>3 DEF StoreTypes
<1>8. StoredIsReachable
  BY <1>1, <1>6 DEF StoredIsReachable
<1>9. CountsExact
  <2>1. \A h \in Chunks : counts[h] = CountsOf({}, {Head0})[h]
    <3> SUFFICES ASSUME NEW h \in Chunks PROVE counts[h] = CountsOf({}, {Head0})[h]
      OBVIOUS
    <3>1. CountsOf({}, {Head0})[h] = Froms({}, h) + AsHead(h, {Head0})
      BY CountsAt
    <3>2. Froms({}, h) = 0
      <4>1. {} \cap Above[h] = {}
        OBVIOUS
      <4> QED
        BY <4>1, FS_EmptySet DEF Froms
    <3> QED
      BY <1>1, <3>1, <3>2 DEF AsHead
  <2>2. CountsOf({}, {Head0}) \in [Chunks -> Nat] /\ counts \in [Chunks -> Nat]
    BY <1>7, CountsOfIs DEF StoreTypes
  <2>3. counts = CountsOf({}, {Head0})
    BY <2>1, <2>2
  <2>4. Cardinality(cache) <= CacheLimit
    BY <1>1, <1>2, FS_EmptySet
  <2> QED
    BY <1>1, <1>6, <2>3, <2>4 DEF CountsExact
<1>10. SyncApart
  BY <1>1, <1>3, <1>5, <1>6 DEF SyncApart
<1>11. RefreshKept /\ PersistKept
  BY <1>1 DEF RefreshKept, PersistKept
<1>12. NeededKept
  <2>1. Held = Reach({Head0})
    BY <1>1, <1>4, <1>6 DEF Held
  <2> QED
    BY <1>1, <1>6, <2>1 DEF NeededKept
<1> QED
  BY <1>7, <1>8, <1>9, <1>10, <1>11, <1>12 DEF StoreInv

LEMMA NextKeepsStoreInv ==
  ASSUME StoreInv, [Next]_vars, "suspendedReads" \notin Environment
  PROVE  StoreInv'
<1>1. CASE UNCHANGED vars
  BY <1>1, UnchangedKeeps
<1>2. ASSUME NEW h \in Chunks, Read(h) PROVE StoreInv'
  BY <1>2, ReadKeeps
<1>3. ASSUME NEW h \in Own, Mutate(h) PROVE StoreInv'
  BY <1>3, MutateKeeps
<1>4. ASSUME NEW h \in Own, BeginSync(h) PROVE StoreInv'
  BY <1>4, BeginSyncKeeps
<1>5. CASE EndSync
  BY <1>5, EndSyncKeeps
<1>6. CASE PersistRead
  BY <1>6, PersistReadKeeps
<1>7. CASE PersistWrite
  BY <1>7, PersistWriteKeeps
<1>8. CASE ChunksPersisted
  BY <1>8, ChunksPersistedKeeps
<1>9. ASSUME NEW h \in Foreign, PeerPersist(h) PROVE StoreInv'
  BY <1>9, PeerPersistKeeps
<1>10. CASE BeginRefresh
  BY <1>10, BeginRefreshKeeps
<1>11. CASE FinishRefresh
  BY <1>11, FinishRefreshKeeps
<1>12. CASE Resume
  BY <1>12, ResumeKeeps
<1>13. CASE CleanUpRefresh
  BY <1>13, CleanUpRefreshKeeps
<1> QED
  BY <1>1, <1>2, <1>3, <1>4, <1>5, <1>6, <1>7, <1>8, <1>9, <1>10, <1>11, <1>12, <1>13 DEF Next

------------------------------------------------------------------------------
(* What the invariant implies *)

LEMMA CountsMatchFollows == StoreInv => CountsMatch
<1> SUFFICES ASSUME StoreInv PROVE CountsMatch
  OBVIOUS
<1>1. StoreTypes /\ CountsExact /\ SyncApart
  BY DEF StoreInv
<1>2. counts = CountsOf(Counted, Heads) /\ Counted \in SUBSET Chunks
  BY <1>1 DEF CountsExact, StoreTypes, Counted
<1>3. main \in Chunks /\ main # None /\ main # sync
  <2>1. main \in Reach({main}) /\ main \in Chunks
    BY <1>1, NeededReaches DEF StoreTypes
  <2> QED
    BY <1>1, <2>1, ChunksFinite DEF SyncApart
<1>4. ASSUME NEW h \in Chunks
      PROVE  counts[h] = Cardinality({p \in known : counts[p] > 0 /\ h \in Refs[p]})
                         + (IF h = main THEN 1 ELSE 0) + (IF h = sync THEN 1 ELSE 0)
  <2>1. PICK sources, heads : sources = Counted /\ heads = Heads
    OBVIOUS
  <2>2. counts[h] = Froms(sources, h) + AsHead(h, heads)
    BY <1>2, <2>1, CountsAt
  <2>3. sources \cap Above[h] = {p \in known : counts[p] > 0 /\ h \in Refs[p]}
    BY <1>1, <2>1, AboveOf DEF Counted, StoreTypes
  <2>4. Froms(sources, h) \in Nat
    BY <1>2, <2>1, ChunksFinite, FS_Subset, FS_CardinalityType DEF Froms
  <2>5. Froms(sources, h) = Cardinality({p \in known : counts[p] > 0 /\ h \in Refs[p]})
    BY <2>3, Zenon DEF Froms
  <2>6. AsHead(h, heads) = (IF h = main THEN 1 ELSE 0) + (IF h = sync THEN 1 ELSE 0)
    BY <1>3, <2>1, ChunksFinite DEF AsHead, Heads, Hashes
  <2> HIDE DEF CountsMatch
  <2>7. PICK m, s : m = (IF h = main THEN 1 ELSE 0) /\ s = (IF h = sync THEN 1 ELSE 0)
    OBVIOUS
  <2>8. m \in Nat /\ s \in Nat
    BY <2>7
  <2> QED
    BY <2>2, <2>4, <2>5, <2>6, <2>7, <2>8
<1> QED
  BY <1>4 DEF CountsMatch

LEMMA ChunksReadableFollows == StoreInv => ChunksReadable
<1> SUFFICES ASSUME StoreInv PROVE ChunksReadable
  OBVIOUS
<1>1. Reach(Needed) \subseteq memOnly \cup Held
  BY DEF StoreInv, NeededKept
<1>2. Held \subseteq stored
  BY HeldIsStored DEF StoreInv
<1>3. Reach(Needed) \subseteq memOnly \cup stored
  BY <1>1, <1>2
<1> QED
  BY <1>3 DEF ChunksReadable, Needed

LEMMA NothingLeaksFollows == StoreInv => NothingLeaks
<1> SUFFICES ASSUME StoreInv PROVE NothingLeaks
  OBVIOUS
<1>1. StoreTypes /\ CountsExact
  BY DEF StoreInv
<1>2. Exact(counts, known, Heads)
  BY <1>1 DEF CountsExact, Counted, Exact
<1>3. PICK n, sources, heads : n = counts /\ sources = known /\ heads = Heads
  OBVIOUS
<1>4. sources \in SUBSET Chunks /\ heads \in SUBSET Chunks /\ Exact(n, sources, heads)
  BY <1>1, <1>2, <1>3 DEF StoreTypes, Heads, Hashes
<1>5. \A h \in Chunks : n[h] > 0 => h \in Reach(heads)
  BY <1>4, CountedIsReached
<1>6. \A h \in memOnly : h \in Chunks /\ counts[h] > 0
  BY <1>1 DEF CountsExact, Counted, StoreTypes
<1>7. memOnly \subseteq Reach(Heads)
  BY <1>3, <1>5, <1>6
<1>8. ~suspended => known \cup cache \subseteq Reach(Heads) /\ Cardinality(cache) <= CacheLimit
  <2>1. known \cup cache \subseteq Chunks
    BY <1>1 DEF StoreTypes
  <2> QED
    BY <1>1, <1>3, <1>5, <2>1 DEF CountsExact
<1> QED
  BY <1>7, <1>8 DEF NothingLeaks

\* The invariant that the four properties rest on holds of every behaviour, as long as no read
\* comes while refresh() has suspended evictions and deletes: whatever the graph of chunks, what
\* a tab makes, pulls, persists and refreshes to, and what another tab persists meanwhile.
THEOREM StoreInvHolds ==
  ASSUME "suspendedReads" \notin Environment
  PROVE  Spec => []StoreInv
<1>1. StoreInv /\ [Next]_vars => StoreInv'
  BY NextKeepsStoreInv
<1>2. Init => StoreInv
  BY InitStoreInv
<1> QED
  BY <1>1, <1>2, PTL DEF Spec

\* The perdag's gc (WriteImpl.commit with computeRefCountUpdates) keeps exactly the chunks that
\* the client group's head, persistHash and the refreshHashes reach, with exact counts, whatever
\* persist(), refresh() and another tab write and in whatever order.
THEOREM StoredIsWhatRootsReach ==
  ASSUME "suspendedReads" \notin Environment
  PROVE  Spec => []StoredIsReachable
<1>1. StoreInv => StoredIsReachable
  BY DEF StoreInv
<1> QED
  BY <1>1, StoreInvHolds, PTL

\* The LazyStore's _refCounts are those of its heads and of the refs it knows of, after any
\* sequence of reads, evictions, writes, persists and refreshes.
THEOREM CountsAlwaysMatch ==
  ASSUME "suspendedReads" \notin Environment
  PROVE  Spec => []CountsMatch
BY CountsMatchFollows, StoreInvHolds, PTL

\* No chunk that the tab's main head reaches, or a sync head that can still become main, is
\* ever lost: it is memory-only or in the perdag, whatever is collected meanwhile.
THEOREM ChunksAlwaysReadable ==
  ASSUME "suspendedReads" \notin Environment
  PROVE  Spec => []ChunksReadable
BY ChunksReadableFollows, StoreInvHolds, PTL

\* The memdag holds no chunk that its heads do not reach, and keeps its cache within its
\* limit, once evictions and deletes are not suspended.
THEOREM NothingEverLeaks ==
  ASSUME "suspendedReads" \notin Environment
  PROVE  Spec => []NothingLeaks
BY NothingLeaksFollows, StoreInvHolds, PTL
===============================================================================
