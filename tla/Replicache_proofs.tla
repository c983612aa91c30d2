--------------------------- MODULE Replicache_proofs ---------------------------
(***************************************************************************)
(* However many tabs mutate, pull, persist, refresh, close and are         *)
(* collected: the chains of mutations have no gaps, neither a tab nor the  *)
(* group goes back, and no chunk that a tab or the database needs is       *)
(* collected.                                                              *)
(***************************************************************************)
EXTENDS Replicache, TLAPS, WellFoundedInduction, SequenceTheorems

USE DEF perdagVars, tabVars
-----------------------------------------------------------------------------
(* Folds and filters: a recursion over the naturals defines them, value by value *)

\* Induction, for a set.
LEMMA Inductive ==
  ASSUME NEW n \in Nat, NEW P, 0 \in P, \A i \in 0 .. n - 1 : i \in P => i + 1 \in P
  PROVE  0 .. n \subseteq P
<1> DEFINE Rest == (0 .. n) \ P
<1> SUFFICES ASSUME Rest # {} PROVE FALSE
  OBVIOUS
<1>1. Rest \in SUBSET Nat
  OBVIOUS
<1>2. PICK m \in Rest : \A i \in Rest : <<i, m>> \notin OpToRel(<, Nat)
  BY <1>1, WFMin, NatLessThanWellFounded, Zenon
<1>3. \A i \in Rest : ~(i < m)
  BY <1>1, <1>2, Zenon DEF OpToRel
<1>4. m \in 1 .. n /\ m - 1 \in 0 .. n - 1
  OBVIOUS
<1>5. m - 1 \in P
  BY <1>3, <1>4
<1>6. (m - 1) + 1 \in P
  BY <1>4, <1>5
<1> QED
  BY <1>4, <1>6

\* The greatest element of a nonempty set of numbers up to a bound.
LEMMA MaxIsGreatest ==
  ASSUME NEW n \in Nat, NEW S \in SUBSET (0 .. n), S # {}
  PROVE  Max(S) \in S /\ \A y \in S : Max(S) >= y
<1> DEFINE Mirror == {n - x : x \in S}
<1>1. Mirror \in SUBSET Nat /\ Mirror # {}
  <2>1. \A x \in S : n - x \in Nat
    OBVIOUS
  <2> QED
    BY <2>1
<1> HIDE DEF Mirror
<1>2. PICK m \in Mirror : \A y \in Mirror : <<y, m>> \notin OpToRel(<, Nat)
  BY <1>1, WFMin, NatLessThanWellFounded, Zenon
<1>3. \A y \in Mirror : ~(y < m)
  BY <1>1, <1>2, Zenon DEF OpToRel
<1>4. PICK x \in S : m = n - x
  BY <1>2 DEF Mirror
<1>5. \A y \in S : n - y \in Mirror
  BY DEF Mirror
<1>6. \A y \in S : x >= y
  BY <1>3, <1>4, <1>5
<1> QED
  BY <1>4, <1>6 DEF Max

\* A set of numbers up to m either has m as its greatest element or does without it.
LEMMA MaxOfSlice ==
  ASSUME NEW m \in Nat \ {0}
  PROVE  /\ \A S \in SUBSET (1 .. m) : m \in S => S # {} /\ Max(S) = m /\ S \ {m} \in SUBSET (1 .. m - 1)
         /\ \A S \in SUBSET (1 .. m) : m \notin S => S \in SUBSET (1 .. m - 1)
         /\ 1 .. m \in SUBSET (1 .. m) /\ Max(1 .. m) = m /\ (1 .. m) \ {m} = 1 .. m - 1
<1>1. ASSUME NEW S \in SUBSET (1 .. m), m \in S
      PROVE  S # {} /\ Max(S) = m /\ S \ {m} \in SUBSET (1 .. m - 1)
  <2>1. S \in SUBSET (0 .. m) /\ S # {}
    BY <1>1
  <2>2. Max(S) \in S /\ Max(S) >= m
    BY <1>1, <2>1, MaxIsGreatest
  <2>3. Max(S) \in 1 .. m
    BY <2>2
  <2>4. Max(S) = m
    BY <2>2, <2>3
  <2> QED
    BY <1>1, <2>1, <2>4
<1>2. m \in 1 .. m /\ (1 .. m) \ {m} = 1 .. m - 1
  OBVIOUS
<1>3. Max(1 .. m) = m
  BY <1>1, <1>2
<1> QED
  BY <1>1, <1>2, <1>3

\* The recursion by which a fold over 1 .. m is defined, from the values in Acc.
Folds(it, m, Acc, base, op) ==
  /\ it \in [SUBSET (1 .. m) -> Acc]
  /\ \A S \in SUBSET (1 .. m) : it[S] = IF S = {} THEN base ELSE op[Max(S)][it[S \ {Max(S)}]]

LEMMA FoldExists ==
  ASSUME NEW n \in Nat, NEW Acc, NEW base \in Acc, NEW op,
         \A i \in 1 .. n : \A a \in Acc : op[i][a] \in Acc
  PROVE  \E it : Folds(it, n, Acc, base, op)
<1> DEFINE P == {m \in 0 .. n : \E it : Folds(it, m, Acc, base, op)}
<1>1. 0 \in P
  <2> DEFINE it == [S \in SUBSET (1 .. 0) |-> base]
  <2>1. it \in [SUBSET (1 .. 0) -> Acc] /\ \A S \in SUBSET (1 .. 0) : S = {} /\ it[S] = base
    OBVIOUS
  <2> HIDE DEF it
  <2>2. Folds(it, 0, Acc, base, op)
    BY <2>1, Zenon DEF Folds
  <2>3. 0 \in 0 .. n
    OBVIOUS
  <2> QED
    BY <2>2, <2>3
<1>2. ASSUME NEW i \in 0 .. n - 1, i \in P
      PROVE  i + 1 \in P
  <2>1. PICK it : Folds(it, i, Acc, base, op)
    BY <1>2
  <2>2. PICK m \in 1 .. n : m = i + 1
    OBVIOUS
  <2>3. m \in Nat \ {0} /\ m - 1 = i /\ m \in 0 .. n
    BY <2>2
  <2> DEFINE ext == [S \in SUBSET (1 .. m) |-> IF m \in S THEN op[m][it[S \ {m}]] ELSE it[S]]
  <2>4. /\ \A S \in SUBSET (1 .. m) : m \in S => S # {} /\ Max(S) = m /\ S \ {m} \in SUBSET (1 .. i)
        /\ \A S \in SUBSET (1 .. m) : m \notin S => S \in SUBSET (1 .. i)
    BY <2>3, MaxOfSlice
  <2>5. \A S \in SUBSET (1 .. i) : it[S] \in Acc
    BY <2>1 DEF Folds
  <2>6. ASSUME NEW S \in SUBSET (1 .. m)
        PROVE  ext[S] \in Acc
    <3>1. CASE m \in S
      BY <2>4, <2>5, <3>1
    <3>2. CASE m \notin S
      BY <2>4, <2>5, <3>2
    <3> QED
      BY <3>1, <3>2
  <2>7. ASSUME NEW S \in SUBSET (1 .. m), S # {}
        PROVE  ext[S] = op[Max(S)][ext[S \ {Max(S)}]]
    <3>1. CASE m \in S
      <4>1. Max(S) = m /\ S \ {m} \in SUBSET (1 .. m) /\ m \notin S \ {m}
        BY <2>4, <3>1
      <4>2. ext[S \ {m}] = it[S \ {m}]
        BY <4>1
      <4> QED
        BY <3>1, <4>1, <4>2
    <3>2. CASE m \notin S
      <4>1. S \in SUBSET (1 .. i)
        BY <2>4, <3>2
      <4>2. ext[S] = it[S] /\ it[S] = op[Max(S)][it[S \ {Max(S)}]]
        BY <2>1, <2>7, <3>2, <4>1 DEF Folds
      <4>3. m \notin S \ {Max(S)} /\ S \ {Max(S)} \in SUBSET (1 .. m)
        BY <3>2
      <4>4. ext[S \ {Max(S)}] = it[S \ {Max(S)}]
        BY <4>3
      <4> QED
        BY <4>2, <4>4
    <3> QED
      BY <3>1, <3>2
  <2>8. ext[{}] = base
    <3>1. it[{}] = base
      BY <2>1 DEF Folds
    <3> QED
      BY <3>1
  <2>9. ext = [S \in SUBSET (1 .. m) |-> ext[S]]
    OBVIOUS
  <2> HIDE DEF ext
  <2>10. ext \in [SUBSET (1 .. m) -> Acc]
    BY <2>6, <2>9
  <2>11. Folds(ext, m, Acc, base, op)
    BY <2>7, <2>8, <2>10 DEF Folds
  <2>12. m \in P
    BY <2>3, <2>11
  <2> QED
    BY <2>2, <2>12
<1> HIDE DEF P
<1>3. 0 .. n \subseteq P
  BY <1>1, <1>2, Inductive
<1>4. n \in 0 .. n
  OBVIOUS
<1>5. n \in P
  BY <1>3, <1>4
<1> QED
  BY <1>5 DEF P

\* How a filter goes along a sequence.
PicksBy(h, ms, wanted) ==
  /\ h[0] = <<>> /\ Picked(ms, wanted) = h[Len(ms)]
  /\ \A i \in 1 .. Len(ms) :
       h[i] = IF ms[i] \in wanted THEN Append(h[i - 1], ms[i]) ELSE h[i - 1]

LEMMA PickedHistory ==
  ASSUME NEW T, NEW ms \in Seq(T), NEW wanted
  PROVE  \E h \in [0 .. Len(ms) -> Seq(T)] : PicksBy(h, ms, wanted)
<1> DEFINE n == Len(ms)
           step(i, a) == IF ms[i] \in wanted THEN Append(a, ms[i]) ELSE a
           at(f, i) == IF i = 0 THEN <<>> ELSE step(i, f[i - 1])
           Goes(f, m) == f \in [0 .. m -> Seq(T)] /\ \A i \in 0 .. m : f[i] = at(f, i)
           P == {m \in 0 .. n : \E f : Goes(f, m)}
           Eq(f) == f = [i \in 0 .. Len(ms) |->
                           IF i = 0 THEN <<>>
                           ELSE IF ms[i] \in wanted THEN Append(f[i - 1], ms[i]) ELSE f[i - 1]]
           picked == CHOOSE f : Eq(f)
<1>1. n \in Nat /\ \A i \in 1 .. n : ms[i] \in T
  BY LenProperties, ElementOfSeq
<1>2. \A i \in 1 .. n : \A a \in Seq(T) : step(i, a) \in Seq(T)
  BY <1>1, AppendProperties
<1>3. 0 \in P
  <2> DEFINE f == [i \in 0 .. 0 |-> <<>>]
  <2>1. f \in [0 .. 0 -> Seq(T)]
    OBVIOUS
  <2>2. \A i \in 0 .. 0 : f[i] = at(f, i)
    OBVIOUS
  <2>3. 0 \in 0 .. n
    BY <1>1
  <2> HIDE DEF f, at
  <2> QED
    BY <2>1, <2>2, <2>3
<1>4. ASSUME NEW m \in 0 .. n - 1, m \in P
      PROVE  m + 1 \in P
  <2>1. PICK f : Goes(f, m)
    BY <1>4
  <2> DEFINE next == step(m + 1, f[m])
             ext == [i \in 0 .. m + 1 |-> IF i = m + 1 THEN next ELSE f[i]]
  <2>2. m + 1 \in 1 .. n /\ m \in 0 .. m /\ m + 1 \in 0 .. n /\ m \in Nat
    BY <1>1
  <2>3. next \in Seq(T)
    BY <1>2, <2>1, <2>2
  <2> HIDE DEF next
  <2>4. ext \in [0 .. m + 1 -> Seq(T)]
    BY <2>1, <2>2, <2>3
  <2>5. \A i \in 0 .. m : ext[i] = f[i]
    BY <2>2
  <2>6. ASSUME NEW i \in 0 .. m + 1
        PROVE  ext[i] = at(ext, i)
    <3>1. CASE i = m + 1
      <4>1. i # 0 /\ i - 1 = m /\ ext[i] = next /\ ext[i - 1] = f[m]
        BY <2>2, <2>5, <3>1
      <4> QED
        BY <3>1, <4>1 DEF next
    <3>2. CASE i # m + 1
      <4>1. i \in 0 .. m /\ ext[i] = f[i] /\ f[i] = at(f, i)
        <5>1. i \in 0 .. m
          BY <2>2, <3>2
        <5> HIDE DEF ext, at
        <5> QED
          BY <2>1, <2>5, <5>1
      <4>2. CASE i = 0
        BY <4>1, <4>2
      <4>3. CASE i # 0
        <5>1. i - 1 \in 0 .. m
          BY <2>2, <4>1, <4>3
        <5>2. ext[i - 1] = f[i - 1]
          BY <2>5, <5>1
        <5> QED
          BY <4>1, <4>3, <5>2
      <4> QED
        BY <4>2, <4>3
    <3> QED
      BY <3>1, <3>2
  <2> HIDE DEF ext, at
  <2>7. Goes(ext, m + 1)
    BY <2>4, <2>6
  <2> HIDE DEF Goes
  <2> QED
    BY <2>2, <2>7
<1>5. PICK f : Goes(f, n)
  <2> HIDE DEF P
  <2>1. 0 .. n \subseteq P
    BY <1>1, <1>3, <1>4, Inductive
  <2>2. n \in P
    BY <1>1, <2>1
  <2> HIDE DEF Goes
  <2> QED
    BY <2>2 DEF P
<1>6. Eq(f)
  BY <1>5
<1> HIDE DEF Eq
<1>7. Eq(picked)
  BY <1>6, Zenon
<1>8. Picked(ms, wanted) = picked[Len(ms)]
  BY DEF Picked, Eq
<1> HIDE DEF picked
<1>9. \A i \in 0 .. n : picked[i] = at(picked, i)
  BY <1>7 DEF Eq
<1>10. picked[0] = <<>> /\ \A i \in 1 .. n : picked[i] = step(i, picked[i - 1])
  <2>1. 0 \in 0 .. n /\ \A i \in 1 .. n : i \in 0 .. n /\ i # 0
    BY <1>1
  <2> QED
    BY <1>9, <2>1
<1>11. picked \in [0 .. n -> Seq(T)]
  <2> DEFINE Q == {i \in 0 .. n : picked[i] \in Seq(T)}
  <2>1. 0 \in Q
    <3>1. 0 \in 0 .. n /\ <<>> \in Seq(T)
      BY <1>1
    <3> QED
      BY <1>10, <3>1
  <2>2. ASSUME NEW i \in 0 .. n - 1, i \in Q
        PROVE  i + 1 \in Q
    <3>1. i + 1 \in 1 .. n /\ (i + 1) - 1 = i /\ i + 1 \in 0 .. n
      BY <1>1
    <3>2. picked[i + 1] = step(i + 1, picked[i])
      BY <1>10, <3>1
    <3>3. step(i + 1, picked[i]) \in Seq(T)
      BY <1>2, <2>2, <3>1
    <3> HIDE DEF step
    <3> QED
      BY <3>1, <3>2, <3>3
  <2> HIDE DEF Q
  <2>3. 0 .. n \subseteq Q
    BY <1>1, <2>1, <2>2, Inductive
  <2>4. \A i \in 0 .. n : picked[i] \in Seq(T)
    BY <2>3 DEF Q
  <2>5. picked = [i \in 0 .. n |-> picked[i]]
    BY <1>7 DEF Eq
  <2> QED
    BY <2>4, <2>5
<1> QED
  BY <1>8, <1>10, <1>11 DEF PicksBy

-----------------------------------------------------------------------------
(* Chains of mutations *)

\* The last ID of a client in a sequence of mutations, on top of what it was before.
LastID(base, ms, c) ==
  LET own == {i \in DOMAIN ms : ms[i].client = c}
  IN  IF own = {} THEN base ELSE ms[Max(own)].id

\* Every mutation is its client's next.
Chained(base, ms) ==
  \A i \in DOMAIN ms :
    ms[i].id = LastID(base[ms[i].client], SubSeq(ms, 1, i - 1), ms[i].client) + 1

Larger(m, n) == IF m >= n THEN m ELSE n

\* Where the IDs of client c begin, if ms are mutations of c only.
StartsAt(c, n) == [d \in Clients |-> IF d = c THEN n ELSE 0]
OnlyOf(c, ms) == \A i \in DOMAIN ms : ms[i].client = c

-----------------------------------------------------------------------------
(* The invariant, with the server's states, sv, and the group's head, h, as parameters *)

ServerType(sv) ==
  /\ sv \in Seq([Clients -> Nat])
  /\ \A v, w \in 1 .. Len(sv) : v <= w => \A c \in Clients : sv[v][c] <= sv[w][c]

AckedAt(sv, s) == IF s.cookie = 0 THEN [c \in Clients |-> 0] ELSE sv[s.cookie]
IDAt(sv, k, c) == LastID(AckedAt(sv, k.snap)[c], k.locals, c)

\* A commit of a state that the server has had, without a gap.
Good(sv, k) ==
  k \in Commit /\ k.snap.cookie <= Len(sv) /\ Chained(AckedAt(sv, k.snap), k.locals)

\* k1 contains all that k contains.
Extending(sv, k1, k) ==
  /\ k1.snap.cookie >= k.snap.cookie
  /\ \A c \in Clients : IDAt(sv, k1, c) >= IDAt(sv, k, c)

\* What a tab has of other clients is in the head.
Shared(sv, c, ms, head) ==
  \A i \in DOMAIN ms : ms[i].client # c => ms[i].id <= IDAt(sv, head, ms[i].client)

MainOK(sv, h, c, m) == h # None /\ Good(sv, m) /\ Shared(sv, c, m.locals, h)

\* A sync head is on a later snapshot than the one that it will replace.
SyncOK(sv, h, c, y) ==
  /\ y = [head |-> y.head, basis |-> y.basis]
  /\ Good(sv, y.head) /\ Shared(sv, c, y.head.locals, h)
  /\ y.basis \in Hash /\ y.head.snap.base = y.basis
  /\ y.basis[1] < y.head.snap.cookie

\* The head that a refresh goes by was the group's.
GatheredOK(sv, h, c, m, y, r) ==
  /\ Good(sv, r.head) /\ Extending(sv, h, r.head)
  /\ r.lmid = IDAt(sv, r.head, c) /\ r.revert \in SUBSET Commit
  /\ Shared(sv, c, m.locals, r.head)
  /\ y # None => Shared(sv, c, y.head.locals, r.head)

\* What a persist has read of the group has not been taken back, and what it writes goes
\* on from it.
FirstOK(sv, h, c, p) ==
  /\ p.lmid \in Nat /\ p.lmid <= IDAt(sv, h, c)
  /\ p.cookie \in Nat /\ p.cookie <= h.snap.cookie
SecondOK(sv, h, c, m, p) ==
  /\ p.snap \in Snapshot /\ p.snap.cookie <= m.snap.cookie
  /\ p.mutations \in Seq(Mutation) /\ OnlyOf(c, p.mutations)
  /\ \E n \in 0 .. Larger(IDAt(sv, h, c), AckedAt(sv, p.snap)[c]) :
       Chained(StartsAt(c, n), p.mutations)
  /\ p.newer \in BOOLEAN
  /\ ~p.newer => p.snap.cookie <= h.snap.cookie

\* Only an open tab is at work, and there is a group then.
TabOK(sv, h, c, m, y, p, r) ==
  /\ m \in Commit \cup {None}
  /\ p.at \in {"idle", "perdag", "memdag", "written"}
  /\ r.at \in {"idle", "base", "gathered", "cleanup"}
  /\ m = None => y = None /\ p.at = "idle" /\ r.at = "idle"
  /\ m # None => MainOK(sv, h, c, m)
  /\ y # None => SyncOK(sv, h, c, y)
  /\ r.at = "gathered" => GatheredOK(sv, h, c, m, y, r)
  /\ r.at = "cleanup" => r.hashes \in SUBSET Commit
  /\ p.at = "perdag" => FirstOK(sv, h, c, p)
  /\ p.at = "memdag" => SecondOK(sv, h, c, m, p)

RecordType == [refreshHashes : SUBSET Commit, persistHash : SUBSET Snapshot]

Types ==
  /\ ServerType(server)
  /\ DOMAIN records \subseteq Clients /\ records \in [DOMAIN records -> RecordType]
  /\ DOMAIN main = Clients /\ DOMAIN memOnly = Clients /\ DOMAIN sync = Clients
  /\ asked \in [Clients -> Nat \cup {None}]
  /\ DOMAIN persisting = Clients /\ DOMAIN refreshing = Clients
  /\ group = [head |-> group.head, mutationIDs |-> group.mutationIDs]

ChainInv ==
  /\ Types
  /\ \A c \in Clients : main[c] = None => asked[c] = None
  /\ group.head # None => Good(server, group.head)
  /\ \A c \in Clients :
       TabOK(server, group.head, c, main[c], sync[c], persisting[c], refreshing[c])

-----------------------------------------------------------------------------
(* Lemmas about chains *)

LEMMA LargerIs ==
  ASSUME NEW m \in Nat, NEW n \in Nat
  PROVE  Larger(m, n) \in Nat /\ m <= Larger(m, n) /\ n <= Larger(m, n)
         /\ (Larger(m, n) = m \/ Larger(m, n) = n)
  BY DEF Larger

LEMMA MutationsOf ==
  ASSUME NEW ms \in Seq(Mutation)
  PROVE  /\ Len(ms) \in Nat /\ DOMAIN ms = 1 .. Len(ms)
         /\ \A i \in 1 .. Len(ms) :
              ms[i] \in Mutation /\ ms[i].client \in Clients /\ ms[i].id \in Nat
<1>1. Len(ms) \in Nat /\ DOMAIN ms = 1 .. Len(ms)
  BY LenProperties
<1>2. \A i \in 1 .. Len(ms) : ms[i] \in Mutation
  BY <1>1, ElementOfSeq
<1> QED
  BY <1>1, <1>2 DEF Mutation

\* The last ID is that of the client's last mutation, if it has one.
LEMMA LastIs ==
  ASSUME NEW ms \in Seq(Mutation), NEW base, NEW c
  PROVE  /\ (\A i \in 1 .. Len(ms) : ms[i].client # c) => LastID(base, ms, c) = base
         /\ (\E i \in 1 .. Len(ms) : ms[i].client = c) =>
              \E i \in 1 .. Len(ms) :
                /\ ms[i].client = c /\ LastID(base, ms, c) = ms[i].id
                /\ \A j \in 1 .. Len(ms) : ms[j].client = c => j <= i
<1> DEFINE own == {i \in DOMAIN ms : ms[i].client = c}
<1>1. Len(ms) \in Nat /\ DOMAIN ms = 1 .. Len(ms)
  BY MutationsOf
<1>2. LastID(base, ms, c) = IF own = {} THEN base ELSE ms[Max(own)].id
  BY DEF LastID
<1>3. \A i : i \in own <=> i \in 1 .. Len(ms) /\ ms[i].client = c
  BY <1>1
<1> HIDE DEF own
<1>4. CASE own = {}
  BY <1>2, <1>3, <1>4
<1>5. CASE own # {}
  <2>1. own \in SUBSET (0 .. Len(ms))
    BY <1>1, <1>3
  <2>2. Max(own) \in own /\ \A y \in own : Max(own) >= y
    BY <1>1, <1>5, <2>1, MaxIsGreatest
  <2>3. Max(own) \in 1 .. Len(ms) /\ ms[Max(own)].client = c
    BY <1>3, <2>2
  <2>4. \A j \in 1 .. Len(ms) : ms[j].client = c => j <= Max(own)
    BY <1>3, <2>2, <2>3
  <2> QED
    BY <1>2, <1>5, <2>3, <2>4
<1> QED
  BY <1>4, <1>5

LEMMA LastType ==
  ASSUME NEW ms \in Seq(Mutation), NEW base \in Nat, NEW c
  PROVE  LastID(base, ms, c) \in Nat
<1>1. \A i \in 1 .. Len(ms) : ms[i].id \in Nat
  BY MutationsOf
<1>2. CASE \A i \in 1 .. Len(ms) : ms[i].client # c
  BY <1>2, LastIs
<1>3. CASE \E i \in 1 .. Len(ms) : ms[i].client = c
  BY <1>1, <1>3, LastIs
<1> QED
  BY <1>2, <1>3

LEMMA LastOfNone ==
  ASSUME NEW base, NEW c
  PROVE  LastID(base, <<>>, c) = base
<1>1. {i \in DOMAIN <<>> : <<>>[i].client = c} = {}
  OBVIOUS
<1> QED
  BY <1>1 DEF LastID

LEMMA LastOfAppended ==
  ASSUME NEW ms \in Seq(Mutation), NEW m \in Mutation, NEW base, NEW c
  PROVE  LastID(base, Append(ms, m), c) = IF m.client = c THEN m.id ELSE LastID(base, ms, c)
<1> DEFINE n == Len(ms)
           new == Append(ms, m)
<1>1. /\ n \in Nat /\ new \in Seq(Mutation) /\ Len(new) = n + 1 /\ new[n + 1] = m
      /\ \A i \in 1 .. n : new[i] = ms[i]
  BY MutationsOf, AppendProperties
<1> HIDE DEF new, n
<1>2. 1 .. n + 1 = (1 .. n) \cup {n + 1}
  BY <1>1
<1>3. CASE m.client = c
  <2>1. n + 1 \in 1 .. n + 1 /\ new[n + 1].client = c
    BY <1>1, <1>3
  <2>2. PICK i \in 1 .. n + 1 : /\ new[i].client = c /\ LastID(base, new, c) = new[i].id
                                /\ \A j \in 1 .. n + 1 : new[j].client = c => j <= i
    BY <1>1, <2>1, LastIs
  <2>3. i = n + 1
    BY <1>1, <2>1, <2>2
  <2> QED
    BY <1>1, <1>3, <2>2, <2>3 DEF new
<1>4. CASE m.client # c
  <2>1. CASE \A i \in 1 .. n : ms[i].client # c
    <3>1. \A i \in 1 .. n + 1 : new[i].client # c
      BY <1>1, <1>2, <1>4, <2>1
    <3>2. LastID(base, new, c) = base
      BY <1>1, <3>1, LastIs
    <3>3. LastID(base, ms, c) = base
      BY <2>1, LastIs DEF n
    <3> QED
      BY <1>4, <3>2, <3>3 DEF new
  <2>2. ASSUME NEW k \in 1 .. n, ms[k].client = c
        PROVE  LastID(base, new, c) = LastID(base, ms, c)
    <3>1. PICK i \in 1 .. n : /\ ms[i].client = c /\ LastID(base, ms, c) = ms[i].id
                              /\ \A j \in 1 .. n : ms[j].client = c => j <= i
      BY <2>2, LastIs DEF n
    <3>2. \E j \in 1 .. Len(new) : new[j].client = c
      <4>1. k \in 1 .. Len(new) /\ new[k].client = c
        BY <1>1, <2>2
      <4> QED
        BY <4>1
    <3>3. PICK j \in 1 .. Len(new) : /\ new[j].client = c /\ LastID(base, new, c) = new[j].id
                                     /\ \A l \in 1 .. Len(new) : new[l].client = c => l <= j
      <4>1. new \in Seq(Mutation)
        BY <1>1
      <4> QED
        BY <3>2, <4>1, LastIs
    <3>4. j \in 1 .. n
      <4>1. j \in 1 .. n + 1
        BY <1>1
      <4> QED
        BY <1>1, <1>2, <1>4, <3>3, <4>1
    <3>5. j <= i /\ i <= j
      <4>1. i \in 1 .. Len(new) /\ new[i].client = c
        BY <1>1, <3>1
      <4>2. ms[j].client = c
        BY <1>1, <3>3, <3>4
      <4> QED
        BY <3>1, <3>3, <3>4, <4>1, <4>2
    <3>6. i = j
      BY <1>1, <3>4, <3>5
    <3> QED
      BY <1>1, <3>1, <3>3, <3>6
  <2> QED
    BY <1>4, <2>1, <2>2 DEF new
<1> QED
  BY <1>3, <1>4
\* The prefixes of a sequence.
LEMMA PrefixesOf ==
  ASSUME NEW T, NEW ms \in Seq(T)
  PROVE  /\ Len(ms) \in Nat
         /\ SubSeq(ms, 1, 0) = <<>> /\ SubSeq(ms, 1, Len(ms)) = ms
         /\ \A i \in 0 .. Len(ms) : SubSeq(ms, 1, i) \in Seq(T) /\ Len(SubSeq(ms, 1, i)) = i
         /\ \A i \in 1 .. Len(ms) :
              ms[i] \in T /\ SubSeq(ms, 1, i) = Append(SubSeq(ms, 1, i - 1), ms[i])
<1>1. Len(ms) \in Nat /\ \A i \in 1 .. Len(ms) : ms[i] \in T
  BY LenProperties, ElementOfSeq
<1>2. SubSeq(ms, 1, 0) = <<>>
  BY SubSeqEmpty
<1>3. SubSeq(ms, 1, Len(ms)) = ms
  BY SubSeqFull
<1>4. ASSUME NEW i \in 0 .. Len(ms)
      PROVE  SubSeq(ms, 1, i) \in Seq(T) /\ Len(SubSeq(ms, 1, i)) = i
  <2>1. \A j \in 1 .. i : ms[j] \in T
    BY <1>1
  <2>2. 1 \in Int /\ i \in Int
    BY <1>1
  <2>3. SubSeq(ms, 1, i) \in Seq(T) /\ Len(SubSeq(ms, 1, i)) = IF 1 <= i THEN i - 1 + 1 ELSE 0
    BY <2>1, <2>2, SubSeqProperties
  <2> QED
    BY <1>1, <2>3
<1>5. ASSUME NEW i \in 1 .. Len(ms)
      PROVE  SubSeq(ms, 1, i) = Append(SubSeq(ms, 1, i - 1), ms[i])
  <2>1. 1 \in 1 .. Len(ms) /\ i \in 1 .. Len(ms) /\ i - 1 \in 0 .. Len(ms)
    BY <1>1
  <2>2. SubSeq(ms, 1, i) = SubSeq(ms, 1, i - 1) \o <<ms[i]>>
    BY <2>1, SubSeqRecursiveSecond
  <2>3. SubSeq(ms, 1, i - 1) \in Seq(T)
    BY <1>4, <2>1
  <2>4. Append(SubSeq(ms, 1, i - 1), ms[i]) = SubSeq(ms, 1, i - 1) \o <<ms[i]>>
    BY <1>1, <2>3, AppendIsConcat
  <2> QED
    BY <2>2, <2>4
<1> QED
  BY <1>1, <1>2, <1>3, <1>4, <1>5

LEMMA ChainedEmpty ==
  ASSUME NEW base
  PROVE  Chained(base, <<>>)
  BY DEF Chained

LEMMA ChainedAppended ==
  ASSUME NEW ms \in Seq(Mutation), NEW m \in Mutation, NEW base
  PROVE  Chained(base, Append(ms, m)) <=>
           Chained(base, ms) /\ m.id = LastID(base[m.client], ms, m.client) + 1
<1> DEFINE n == Len(ms)
           new == Append(ms, m)
<1>1. /\ n \in Nat /\ new \in Seq(Mutation) /\ Len(new) = n + 1 /\ new[n + 1] = m
      /\ DOMAIN new = 1 .. n + 1 /\ DOMAIN ms = 1 .. n
      /\ \A i \in 1 .. n : new[i] = ms[i]
  BY MutationsOf, AppendProperties
<1>2. ASSUME NEW i \in 1 .. n + 1
      PROVE  SubSeq(new, 1, i - 1) = SubSeq(ms, 1, i - 1)
  <2>1. i - 1 \in 0 .. Len(new) /\ i - 1 \in 0 .. Len(ms)
    BY <1>1
  <2>2. SubSeq(new, 1, i - 1) = Restrict(new, 1 .. i - 1)
    BY <1>1, <2>1, SubSeqRestrict
  <2>3. SubSeq(ms, 1, i - 1) = Restrict(ms, 1 .. i - 1)
    BY <2>1, SubSeqRestrict
  <2>4. \A j \in 1 .. i - 1 : new[j] = ms[j]
    BY <1>1
  <2> QED
    BY <2>2, <2>3, <2>4 DEF Restrict
<1>3. SubSeq(new, 1, (n + 1) - 1) = ms
  <2>1. (n + 1) - 1 = n /\ n + 1 \in 1 .. n + 1
    BY <1>1
  <2>2. SubSeq(ms, 1, n) = ms
    BY SubSeqFull
  <2> QED
    BY <1>2, <2>1, <2>2
<1> HIDE DEF new, n
<1>4. 1 .. n + 1 = (1 .. n) \cup {n + 1}
  BY <1>1
<1>5. Chained(base, new) <=>
        /\ \A i \in 1 .. n :
             new[i].id = LastID(base[new[i].client], SubSeq(new, 1, i - 1), new[i].client) + 1
        /\ m.id = LastID(base[m.client], ms, m.client) + 1
  BY <1>1, <1>3, <1>4, Zenon DEF Chained
<1>6. Chained(base, ms) <=>
        \A i \in 1 .. n :
             new[i].id = LastID(base[new[i].client], SubSeq(new, 1, i - 1), new[i].client) + 1
  BY <1>1, <1>2, <1>4, Zenon DEF Chained
<1> QED
  BY <1>5, <1>6 DEF new

\* A prefix of a chain is one.
LEMMA ChainedPrefix ==
  ASSUME NEW ms \in Seq(Mutation), NEW base, Chained(base, ms), NEW i \in 0 .. Len(ms)
  PROVE  Chained(base, SubSeq(ms, 1, i))
<1> DEFINE n == Len(ms)
           P == {j \in 0 .. n : Chained(base, SubSeq(ms, 1, n - j))}
<1> HIDE DEF P
<1>1. /\ n \in Nat /\ SubSeq(ms, 1, n) = ms
      /\ \A j \in 0 .. n : SubSeq(ms, 1, j) \in Seq(Mutation)
      /\ \A j \in 1 .. n :
           ms[j] \in Mutation /\ SubSeq(ms, 1, j) = Append(SubSeq(ms, 1, j - 1), ms[j])
  BY PrefixesOf
<1> USE DEF P
<1> HIDE DEF n
<1>2. 0 \in P
  <2>1. 0 \in 0 .. n /\ n - 0 = n
    BY <1>1
  <2>2. Chained(base, SubSeq(ms, 1, n))
    BY <1>1
  <2> QED
    BY <2>1, <2>2
<1>3. ASSUME NEW j \in 0 .. n - 1, j \in P
      PROVE  j + 1 \in P
  <2>1. n - j \in 1 .. n /\ (n - j) - 1 \in 0 .. n /\ n - (j + 1) = (n - j) - 1 /\ j + 1 \in 0 .. n
    BY <1>1
  <2>2. Chained(base, Append(SubSeq(ms, 1, (n - j) - 1), ms[n - j]))
    BY <1>1, <1>3, <2>1
  <2>3. Chained(base, SubSeq(ms, 1, (n - j) - 1))
    BY <1>1, <2>1, <2>2, ChainedAppended
  <2> QED
    BY <2>1, <2>3
<1> HIDE DEF P
<1>4. 0 .. n \subseteq P
  BY <1>1, <1>2, <1>3, Inductive
<1>5. n - i \in 0 .. n /\ n - (n - i) = i
  BY <1>1 DEF n
<1>6. n - i \in P
  BY <1>4, <1>5
<1> QED
  BY <1>5, <1>6 DEF P

\* The last IDs along a chain: L[i] is what they are after i mutations.
Steps(ms, base, L) ==
  /\ L[0] = base
  /\ \A c \in Clients : L[Len(ms)][c] = LastID(base[c], ms, c)
  /\ \A i \in 1 .. Len(ms) :
       /\ ms[i] \in Mutation /\ ms[i].client \in Clients /\ ms[i].id \in Nat
       /\ ms[i].id = L[i - 1][ms[i].client] + 1
       /\ \A c \in Clients :
            L[i][c] = IF ms[i].client = c THEN ms[i].id ELSE L[i - 1][c]

LEMMA ChainSteps ==
  ASSUME NEW ms \in Seq(Mutation), NEW base \in [Clients -> Nat], Chained(base, ms)
  PROVE  \E L \in [0 .. Len(ms) -> [Clients -> Nat]] : Steps(ms, base, L)
<1> DEFINE n == Len(ms)
           At(i, c) == LastID(base[c], SubSeq(ms, 1, i), c)
           L == [i \in 0 .. n |-> [c \in Clients |-> At(i, c)]]
<1>1. n \in Nat /\ SubSeq(ms, 1, 0) = <<>> /\ SubSeq(ms, 1, n) = ms
  BY PrefixesOf
<1>2. \A i \in 0 .. n : SubSeq(ms, 1, i) \in Seq(Mutation)
  BY PrefixesOf
<1>3. \A i \in 1 .. n : ms[i] \in Mutation /\ SubSeq(ms, 1, i) = Append(SubSeq(ms, 1, i - 1), ms[i])
  BY PrefixesOf
<1>4. \A i \in 0 .. n : Chained(base, SubSeq(ms, 1, i))
  BY ChainedPrefix
<1>5. \A i \in 0 .. n : \A c \in Clients : At(i, c) \in Nat
  BY <1>2, LastType
<1>6. \A c \in Clients : At(0, c) = base[c]
  BY <1>1, LastOfNone
<1>7. \A c \in Clients : At(n, c) = LastID(base[c], ms, c)
  BY <1>1
<1> HIDE DEF n
<1>8. \A i \in 1 .. n : ms[i].client \in Clients /\ ms[i].id \in Nat
  BY <1>3 DEF Mutation
<1>9. ASSUME NEW i \in 1 .. n
      PROVE  /\ ms[i].id = At(i - 1, ms[i].client) + 1
             /\ \A c \in Clients : At(i, c) = IF ms[i].client = c THEN ms[i].id ELSE At(i - 1, c)
  <2>1. i - 1 \in 0 .. n /\ i \in 0 .. n
    BY <1>1
  <2>2. Chained(base, Append(SubSeq(ms, 1, i - 1), ms[i]))
    BY <1>3, <1>4, <2>1
  <2>3. SubSeq(ms, 1, i - 1) \in Seq(Mutation) /\ ms[i] \in Mutation
    BY <1>2, <1>3, <2>1
  <2>4. ms[i].id = LastID(base[ms[i].client], SubSeq(ms, 1, i - 1), ms[i].client) + 1
    BY <2>2, <2>3, ChainedAppended
  <2>5. ASSUME NEW c \in Clients
        PROVE  LastID(base[c], Append(SubSeq(ms, 1, i - 1), ms[i]), c)
           = IF ms[i].client = c THEN ms[i].id ELSE LastID(base[c], SubSeq(ms, 1, i - 1), c)
    <3> HIDE DEF At
    <3> DEFINE x == SubSeq(ms, 1, i - 1)
               m == ms[i]
               b == base[c]
    <3>1. x \in Seq(Mutation) /\ m \in Mutation
      BY <2>3
    <3> HIDE DEF x, m, b
    <3>2. LastID(b, Append(x, m), c) = IF m.client = c THEN m.id ELSE LastID(b, x, c)
      BY <3>1, LastOfAppended
    <3> QED
      BY <3>2 DEF x, m, b
  <2>6. SubSeq(ms, 1, i) = Append(SubSeq(ms, 1, i - 1), ms[i])
    BY <1>3
  <2>7. ms[i].id = At(i - 1, ms[i].client) + 1
    BY <2>4
  <2>8. \A c \in Clients : At(i, c) = LastID(base[c], Append(SubSeq(ms, 1, i - 1), ms[i]), c)
    BY <2>6
  <2> QED
    BY <2>5, <2>7, <2>8
<1> HIDE DEF At
<1>10. L \in [0 .. n -> [Clients -> Nat]]
  BY <1>5
<1>11. L[0] = base
  <2>1. 0 \in 0 .. n
    BY <1>1
  <2>2. base = [c \in Clients |-> base[c]]
    OBVIOUS
  <2>3. [c \in Clients |-> At(0, c)] = [c \in Clients |-> base[c]]
    BY <1>6
  <2> QED
    BY <2>1, <2>2, <2>3
<1>12. n \in 0 .. n
  BY <1>1
<1>13. \A c \in Clients : L[n][c] = LastID(base[c], ms, c)
  BY <1>7, <1>12
<1>14. ASSUME NEW i \in 1 .. n
       PROVE  /\ ms[i].id = L[i - 1][ms[i].client] + 1
              /\ \A c \in Clients : L[i][c] = IF ms[i].client = c THEN ms[i].id ELSE L[i - 1][c]
  <2>1. i - 1 \in 0 .. n /\ i \in 0 .. n
    BY <1>1
  <2> QED
    BY <1>8, <1>9, <2>1
<1> HIDE DEF L
<1> QED
  BY <1>3, <1>8, <1>10, <1>11, <1>13, <1>14 DEF n, Steps

LEMMA ChainBounds ==
  ASSUME NEW ms \in Seq(Mutation), NEW base \in [Clients -> Nat], Chained(base, ms)
  PROVE  /\ \A c \in Clients : LastID(base[c], ms, c) \in Nat /\ base[c] <= LastID(base[c], ms, c)
         /\ \A i \in 1 .. Len(ms) : /\ base[ms[i].client] < ms[i].id
                                    /\ ms[i].id <= LastID(base[ms[i].client], ms, ms[i].client)
<1>0. PICK L \in [0 .. Len(ms) -> [Clients -> Nat]] : Steps(ms, base, L)
  BY ChainSteps
<1>1. /\ L[0] = base
      /\ \A c \in Clients : L[Len(ms)][c] = LastID(base[c], ms, c)
      /\ \A i \in 1 .. Len(ms) :
           /\ ms[i] \in Mutation /\ ms[i].client \in Clients /\ ms[i].id \in Nat
           /\ ms[i].id = L[i - 1][ms[i].client] + 1
           /\ \A c \in Clients :
                L[i][c] = IF ms[i].client = c THEN ms[i].id ELSE L[i - 1][c]
  BY <1>0 DEF Steps
<1> DEFINE n == Len(ms)
           P == {i \in 0 .. n : /\ \A c \in Clients : base[c] <= L[i][c]
                                /\ \A j \in 1 .. i : /\ base[ms[j].client] < ms[j].id
                                                     /\ ms[j].id <= L[i][ms[j].client]}
<1>2. n \in Nat /\ n \in 0 .. n /\ 0 \in 0 .. n
  BY MutationsOf
<1>3. 0 \in P
  BY <1>1, <1>2
<1>4. ASSUME NEW i \in 0 .. n - 1, i \in P
      PROVE  i + 1 \in P
  <2>1. i + 1 \in 1 .. n /\ i + 1 \in 0 .. n /\ (i + 1) - 1 = i /\ i \in 0 .. n
    BY <1>2
  <2> DEFINE k == i + 1
  <2>2. /\ \A c \in Clients : L[i][c] \in Nat /\ L[k][c] \in Nat /\ base[c] \in Nat
        /\ ms[k].client \in Clients /\ ms[k].id \in Nat /\ ms[k].id = L[i][ms[k].client] + 1
        /\ \A c \in Clients : L[k][c] = IF ms[k].client = c THEN ms[k].id ELSE L[i][c]
    BY <1>1, <2>1
  <2>3. \A c \in Clients : base[c] <= L[i][c] /\ L[i][c] <= L[k][c]
    BY SMTT(60), <1>4, <2>2
  <2>4. ASSUME NEW j \in 1 .. k
        PROVE  base[ms[j].client] < ms[j].id /\ ms[j].id <= L[k][ms[j].client]
    <3>1. CASE j = k
      BY <2>2, <2>3, <3>1
    <3>2. CASE j # k
      <4>1. j \in 1 .. i /\ j \in 1 .. n
        BY <2>1, <3>2
      <4>2. ms[j].client \in Clients /\ ms[j].id \in Nat
        BY <1>1, <4>1
      <4>3. base[ms[j].client] < ms[j].id /\ ms[j].id <= L[i][ms[j].client]
        BY <1>4, <4>1
      <4> QED
        BY <2>2, <2>3, <4>2, <4>3
    <3> QED
      BY <3>1, <3>2
  <2>5. \A c \in Clients : base[c] <= L[k][c]
    BY <2>2, <2>3
  <2> QED
    BY <2>1, <2>4, <2>5
<1> HIDE DEF P
<1>5. 0 .. n \subseteq P
  BY <1>2, <1>3, <1>4, Inductive
<1>6. n \in P
  BY <1>2, <1>5
<1> USE DEF P
<1>7. \A i \in 1 .. n : ms[i].client \in Clients
  BY <1>1
<1>8. \A c \in Clients : L[n][c] \in Nat
  BY <1>1, <1>2
<1> QED
  BY <1>1, <1>6, <1>7, <1>8

\* What is picked of a chain because it goes beyond certain IDs is a chain from these IDs.
Beyond(ms, wanted, C, lim) ==
  \A i \in 1 .. Len(ms) : ms[i] \in wanted <=> ms[i].client \in C /\ ms[i].id > lim[ms[i].client]

PickedFrom(p, ms, base, C, lim, start) ==
  /\ p \in Seq(Mutation) /\ Chained(start, p)
  /\ \A c \in Clients : LastID(start[c], p, c) =
       IF c \in C THEN Larger(LastID(base[c], ms, c), lim[c]) ELSE start[c]
  /\ \A i \in 1 .. Len(p) : p[i].client \in C /\ \E j \in 1 .. Len(ms) : p[i] = ms[j]

LEMMA PickedChain ==
  ASSUME NEW ms \in Seq(Mutation), NEW base \in [Clients -> Nat], Chained(base, ms),
         NEW C \in SUBSET Clients, NEW lim \in [Clients -> Nat], NEW wanted,
         Beyond(ms, wanted, C, lim),
         NEW start \in [Clients -> Nat], \A c \in C : start[c] = Larger(base[c], lim[c])
  PROVE  PickedFrom(Picked(ms, wanted), ms, base, C, lim, start)
<1>0. PICK L \in [0 .. Len(ms) -> [Clients -> Nat]] : Steps(ms, base, L)
  BY ChainSteps
<1>1. /\ L[0] = base
      /\ \A c \in Clients : L[Len(ms)][c] = LastID(base[c], ms, c)
      /\ \A i \in 1 .. Len(ms) :
           /\ ms[i] \in Mutation /\ ms[i].client \in Clients /\ ms[i].id \in Nat
           /\ ms[i].id = L[i - 1][ms[i].client] + 1
           /\ \A c \in Clients :
                L[i][c] = IF ms[i].client = c THEN ms[i].id ELSE L[i - 1][c]
  BY <1>0 DEF Steps
<1> PICK h \in [0 .. Len(ms) -> Seq(Mutation)] : PicksBy(h, ms, wanted)
  BY PickedHistory
<1>2. /\ h \in [0 .. Len(ms) -> Seq(Mutation)]
      /\ h[0] = <<>> /\ Picked(ms, wanted) = h[Len(ms)]
      /\ \A i \in 1 .. Len(ms) :
           h[i] = IF ms[i] \in wanted THEN Append(h[i - 1], ms[i]) ELSE h[i - 1]
  BY DEF PicksBy
<1> DEFINE n == Len(ms)
           Lasts(i) == \A c \in Clients : LastID(start[c], h[i], c) =
                          IF c \in C THEN Larger(L[i][c], lim[c]) ELSE start[c]
           Parts(i) == \A j \in 1 .. Len(h[i]) : /\ h[i][j].client \in C
                                                 /\ \E l \in 1 .. n : h[i][j] = ms[l]
           P == {i \in 0 .. n : Chained(start, h[i]) /\ Lasts(i) /\ Parts(i)}
<1>3. n \in Nat /\ n \in 0 .. n /\ 0 \in 0 .. n
  BY MutationsOf
<1>4. 0 \in P
  <2>1. Chained(start, h[0])
    BY <1>2, ChainedEmpty
  <2>2. \A c \in Clients : LastID(start[c], h[0], c) = start[c]
    BY <1>2, LastOfNone
  <2>3. Parts(0)
    BY <1>2
  <2>4. Lasts(0)
    BY <1>1, <2>2
  <2> QED
    BY <1>3, <2>1, <2>3, <2>4
<1>5. ASSUME NEW i \in 0 .. n - 1, i \in P
      PROVE  i + 1 \in P
  <2>1. i + 1 \in 1 .. n /\ i + 1 \in 0 .. n /\ (i + 1) - 1 = i /\ i \in 0 .. n
    BY <1>3
  <2> DEFINE k == i + 1
             m == ms[k]
             d == m.client
  <2>2. /\ m \in Mutation /\ d \in Clients /\ m.id \in Nat /\ m.id = L[i][d] + 1
        /\ \A c \in Clients : L[k][c] = IF d = c THEN m.id ELSE L[i][c]
    BY <1>1, <2>1
  <2>3. \A c \in Clients : L[i][c] \in Nat /\ L[k][c] \in Nat /\ lim[c] \in Nat
    BY <1>1, <2>1
  <2>4. h[i] \in Seq(Mutation) /\ Chained(start, h[i]) /\ Lasts(i) /\ Parts(i)
    BY <1>5, <2>1
  <2>5. h[k] = IF m \in wanted THEN Append(h[i], m) ELSE h[i]
    BY <1>2, <2>1
  <2>6. m \in wanted <=> d \in C /\ m.id > lim[d]
    BY <2>1 DEF Beyond
  <2>7. CASE m \in wanted
    <3>1. d \in C /\ lim[d] <= L[i][d]
      BY <2>2, <2>3, <2>6, <2>7
    <3>2. LastID(start[d], h[i], d) = L[i][d]
      BY <2>2, <2>3, <2>4, <3>1 DEF Larger
    <3>3. Chained(start, Append(h[i], m))
      BY <2>2, <2>4, <3>2, ChainedAppended
    <3>4. \A c \in Clients : LastID(start[c], Append(h[i], m), c) =
                               IF d = c THEN m.id ELSE LastID(start[c], h[i], c)
      BY <2>2, <2>4, LastOfAppended
    <3>5. Larger(L[k][d], lim[d]) = m.id
      BY <2>2, <2>3, <3>1 DEF Larger
    <3>6. Lasts(k)
      <4> SUFFICES ASSUME NEW c \in Clients
                   PROVE  LastID(start[c], h[k], c) =
                            IF c \in C THEN Larger(L[k][c], lim[c]) ELSE start[c]
        OBVIOUS
      <4>1. CASE d = c
        BY <2>5, <2>7, <3>1, <3>4, <3>5, <4>1
      <4>2. CASE d # c
        <5>1. LastID(start[c], h[k], c) = LastID(start[c], h[i], c)
          BY <2>5, <2>7, <3>4, <4>2
        <5>2. L[k][c] = L[i][c]
          BY <2>2, <4>2
        <5> QED
          BY <2>4, <5>1, <5>2
      <4> QED
        BY <4>1, <4>2
    <3>7. Parts(k)
      <4> DEFINE new == Append(h[i], m)
      <4>1. /\ Len(new) = Len(h[i]) + 1 /\ Len(h[i]) \in Nat /\ new[Len(h[i]) + 1] = m
            /\ \A j \in 1 .. Len(h[i]) : new[j] = h[i][j]
        BY <2>2, <2>4, AppendProperties, LenProperties
      <4> HIDE DEF new
      <4>2. ASSUME NEW j \in 1 .. Len(new)
            PROVE  new[j].client \in C /\ \E l \in 1 .. n : new[j] = ms[l]
        <5>1. CASE j = Len(h[i]) + 1
          BY <2>1, <3>1, <4>1, <5>1
        <5>2. CASE j # Len(h[i]) + 1
          <6>1. j \in 1 .. Len(h[i])
            BY <4>1, <5>2
          <6>2. h[i][j].client \in C /\ \E l \in 1 .. n : h[i][j] = ms[l]
            BY <2>4, <6>1
          <6>3. new[j] = h[i][j]
            BY <4>1, <6>1
          <6> QED
            BY <6>2, <6>3
        <5> QED
          BY <5>1, <5>2
      <4> QED
        BY <2>5, <2>7, <4>2 DEF new
    <3> QED
      BY <2>1, <2>5, <2>7, <3>3, <3>6, <3>7
  <2>8. CASE m \notin wanted
    <3>1. Lasts(k)
      <4> SUFFICES ASSUME NEW c \in Clients, c \in C
                   PROVE  Larger(L[k][c], lim[c]) = Larger(L[i][c], lim[c])
        BY <2>4, <2>5, <2>8
      <4>1. CASE d = c
        <5>1. m.id <= lim[c] /\ L[i][c] <= lim[c]
          BY <2>2, <2>3, <2>6, <2>8, <4>1
        <5> QED
          BY <2>2, <2>3, <4>1, <5>1 DEF Larger
      <4>2. CASE d # c
        BY <2>2, <4>2
      <4> QED
        BY <4>1, <4>2
    <3> QED
      BY <2>1, <2>4, <2>5, <2>8, <3>1
  <2> QED
    BY <2>7, <2>8
<1> HIDE DEF P
<1>6. 0 .. n \subseteq P
  BY <1>3, <1>4, <1>5, Inductive
<1>7. n \in P
  BY <1>3, <1>6
<1>8. Chained(start, h[n]) /\ Lasts(n) /\ Parts(n) /\ h[n] \in Seq(Mutation)
  BY <1>2, <1>3, <1>7 DEF P
<1>9. Lasts(n) => \A c \in Clients : LastID(start[c], h[n], c) =
              IF c \in C THEN Larger(LastID(base[c], ms, c), lim[c]) ELSE start[c]
  BY <1>1
<1>10. /\ h[n] \in Seq(Mutation) /\ Chained(start, h[n]) /\ Parts(n)
       /\ \A c \in Clients : LastID(start[c], h[n], c) =
              IF c \in C THEN Larger(LastID(base[c], ms, c), lim[c]) ELSE start[c]
  BY <1>8, <1>9
<1>11. PickedFrom(h[n], ms, base, C, lim, start)
  BY <1>10 DEF PickedFrom
<1> QED
  BY <1>2, <1>11

\* A chain goes on from where another one ends.
LEMMA JoinedChain ==
  ASSUME NEW l1 \in Seq(Mutation), NEW l2 \in Seq(Mutation),
         NEW base \in [Clients -> Nat], NEW start \in [Clients -> Nat],
         Chained(base, l1), Chained(start, l2),
         \A c \in Clients : start[c] = LastID(base[c], l1, c)
  PROVE  /\ l1 \o l2 \in Seq(Mutation) /\ Chained(base, l1 \o l2)
         /\ \A c \in Clients : LastID(base[c], l1 \o l2, c) = LastID(start[c], l2, c)
<1>0. PICK L \in [0 .. Len(l2) -> [Clients -> Nat]] : Steps(l2, start, L)
  BY ChainSteps
<1> DEFINE n == Len(l2)
           pre(i) == SubSeq(l2, 1, i)
           P == {i \in 0 .. n : /\ Chained(base, l1 \o pre(i))
                                /\ \A c \in Clients : LastID(base[c], l1 \o pre(i), c) = L[i][c]}
<1>1. /\ n \in Nat /\ pre(0) = <<>> /\ pre(n) = l2
      /\ \A i \in 0 .. n : pre(i) \in Seq(Mutation)
      /\ \A i \in 1 .. n : l2[i] \in Mutation /\ pre(i) = Append(pre(i - 1), l2[i])
  BY PrefixesOf
<1>2. /\ L[0] = start
      /\ \A c \in Clients : L[n][c] = LastID(start[c], l2, c)
      /\ \A i \in 1 .. n :
           /\ l2[i].client \in Clients
           /\ l2[i].id = L[i - 1][l2[i].client] + 1
           /\ \A c \in Clients : L[i][c] = IF l2[i].client = c THEN l2[i].id ELSE L[i - 1][c]
  BY <1>0 DEF Steps
<1> HIDE DEF pre
<1>3. \A i \in 0 .. n : l1 \o pre(i) \in Seq(Mutation)
  BY <1>1, ConcatProperties
<1>4. 0 \in P
  <2>1. l1 \o pre(0) = l1
    BY <1>1, ConcatEmptySeq
  <2>2. 0 \in 0 .. n
    BY <1>1
  <2> QED
    BY <1>2, <2>1, <2>2
<1>5. ASSUME NEW i \in 0 .. n - 1, i \in P
      PROVE  i + 1 \in P
  <2>1. i + 1 \in 1 .. n /\ i + 1 \in 0 .. n /\ (i + 1) - 1 = i /\ i \in 0 .. n
    BY <1>1
  <2> DEFINE k == i + 1
             m == l2[k]
  <2>2. /\ m \in Mutation /\ m.client \in Clients /\ m.id = L[i][m.client] + 1
        /\ pre(k) = Append(pre(i), m)
        /\ \A c \in Clients : L[k][c] = IF m.client = c THEN m.id ELSE L[i][c]
    BY SMTT(60), <1>1, <1>2, <2>1
  <2>3. l1 \o pre(k) = Append(l1 \o pre(i), m)
    <3>1. pre(i) \in Seq(Mutation) /\ l1 \o pre(i) \in Seq(Mutation) /\ <<m>> \in Seq(Mutation)
      BY <1>1, <1>3, <2>1, <2>2
    <3>2. Append(pre(i), m) = pre(i) \o <<m>>
      BY <2>2, <3>1, AppendIsConcat
    <3>3. Append(l1 \o pre(i), m) = (l1 \o pre(i)) \o <<m>>
      BY <2>2, <3>1, AppendIsConcat
    <3>4. (l1 \o pre(i)) \o <<m>> = l1 \o (pre(i) \o <<m>>)
      <4>1. \A s, t \in Seq(Mutation) : (l1 \o s) \o t = l1 \o (s \o t)
        BY SMTT(60), ConcatAssociative
      <4> QED
        BY <3>1, <4>1, Zenon
    <3> QED
      BY <2>2, <3>2, <3>3, <3>4
  <2>4. /\ l1 \o pre(i) \in Seq(Mutation) /\ Chained(base, l1 \o pre(i))
        /\ \A c \in Clients : LastID(base[c], l1 \o pre(i), c) = L[i][c]
    BY <1>3, <1>5, <2>1
  <2>5. Chained(base, Append(l1 \o pre(i), m))
    BY <2>2, <2>4, ChainedAppended
  <2>6. ASSUME NEW c \in Clients
        PROVE  LastID(base[c], Append(l1 \o pre(i), m), c) =
                 IF m.client = c THEN m.id ELSE LastID(base[c], l1 \o pre(i), c)
    <3> DEFINE x == l1 \o pre(i)
               b == base[c]
    <3>1. x \in Seq(Mutation) /\ m \in Mutation
      BY <2>2, <2>4
    <3> HIDE DEF x, m, b
    <3>2. LastID(b, Append(x, m), c) = IF m.client = c THEN m.id ELSE LastID(b, x, c)
      BY <3>1, LastOfAppended
    <3> QED
      BY <3>2 DEF x, b
  <2> QED
    BY <2>1, <2>2, <2>3, <2>4, <2>5, <2>6
<1> HIDE DEF P
<1>6. 0 .. n \subseteq P
  BY <1>1, <1>4, <1>5, Inductive
<1>7. n \in P /\ n \in 0 .. n
  <2>1. n \in 0 .. n
    BY <1>1
  <2> QED
    BY <1>6, <2>1
<1> QED
  BY <1>1, <1>2, <1>3, <1>7 DEF P

LEMMA RebaseHistory ==
  ASSUME NEW ms \in Seq(Mutation), NEW basis \in Commit
  PROVE  \E h \in [0 .. Len(ms) -> Commit] :
           /\ h[0] = basis /\ Rebase(ms, basis) = h[Len(ms)]
           /\ \A i \in 1 .. Len(ms) :
                h[i] = IF ms[i].id > MutationID(h[i - 1], ms[i].client)
                       THEN [h[i - 1] EXCEPT !.locals = Append(@, ms[i])] ELSE h[i - 1]
<1> DEFINE n == Len(ms)
           step(i, k) == IF ms[i].id > MutationID(k, ms[i].client)
                         THEN [k EXCEPT !.locals = Append(@, ms[i])] ELSE k
           op == [i \in 1 .. n |-> [k \in Commit |-> step(i, k)]]
           Iter(it) == it = [S \in SUBSET DOMAIN ms |->
                               IF S = {} THEN basis ELSE step(Max(S), it[S \ {Max(S)}])]
           it0 == CHOOSE it : Iter(it)
<1>1. n \in Nat /\ DOMAIN ms = 1 .. n /\ \A i \in 1 .. n : ms[i] \in Mutation
  BY LenProperties, ElementOfSeq
<1>3. \A i \in 1 .. n : \A k \in Commit : step(i, k) \in Commit
  <2> SUFFICES ASSUME NEW i \in 1 .. n, NEW k \in Commit
               PROVE  [k EXCEPT !.locals = Append(@, ms[i])] \in Commit
    OBVIOUS
  <2>1. k.locals \in Seq(Mutation) /\ ms[i] \in Mutation
    BY <1>1 DEF Commit
  <2>2. Append(k.locals, ms[i]) \in Seq(Mutation)
    BY <2>1, AppendProperties
  <2> QED
    BY <2>2 DEF Commit
<1>4. Rebase(ms, basis) = it0[DOMAIN ms]
  BY DEF Rebase, FoldLeft, MapThenFoldSet
<1>5. \A i \in 1 .. n : \A k \in Commit : op[i][k] = step(i, k)
  OBVIOUS
<1> HIDE DEF n, op
<1>6. \A i \in 1 .. n : \A k \in Commit : op[i][k] \in Commit
  BY ZenonT(60), <1>3, <1>5
<1>7. PICK it : Folds(it, n, Commit, basis, op)
  BY <1>1, <1>6, FoldExists
<1>8. Iter(it)
  <2> DEFINE by == [S \in SUBSET DOMAIN ms |->
                      IF S = {} THEN basis ELSE step(Max(S), it[S \ {Max(S)}])]
  <2>1. ASSUME NEW S \in SUBSET (1 .. n)
        PROVE  it[S] = by[S]
    <3>1. CASE S = {}
      BY <1>1, <1>7, <3>1 DEF Folds
    <3>2. CASE S # {}
      <4>1. S \in SUBSET (0 .. n)
        BY <1>1
      <4>2. Max(S) \in 1 .. n
        BY <1>1, <3>2, <4>1, MaxIsGreatest
      <4>3. it[S \ {Max(S)}] \in Commit
        BY <1>7 DEF Folds
      <4>4. it[S] = op[Max(S)][it[S \ {Max(S)}]]
        BY <1>7, <3>2 DEF Folds
      <4> QED
        BY <1>1, <1>5, <3>2, <4>2, <4>3, <4>4
    <3> QED
      BY <3>1, <3>2
  <2>2. it = [S \in SUBSET (1 .. n) |-> it[S]]
    BY <1>7 DEF Folds
  <2> QED
    BY <1>1, <2>1, <2>2
<1>9. Iter(it0)
  BY <1>8
<1> HIDE DEF it0
<1> DEFINE h == [i \in 0 .. n |-> it0[1 .. i]]
<1>10. h[0] = basis /\ h[n] = it0[DOMAIN ms]
  <2>1. 1 .. 0 = {} /\ {} \in SUBSET DOMAIN ms
    OBVIOUS
  <2>2. it0[{}] = basis
    BY <1>9, <2>1
  <2> QED
    BY <1>1, <2>1, <2>2
<1>11. ASSUME NEW i \in 1 .. n
       PROVE  h[i] = step(i, h[i - 1])
  <2>1. i \in Nat \ {0}
    BY <1>1
  <2>2. Max(1 .. i) = i /\ (1 .. i) \ {i} = 1 .. i - 1
    BY <2>1, MaxOfSlice, Zenon
  <2>3. 1 .. i \in SUBSET (1 .. n) /\ 1 .. i # {} /\ i \in 0 .. n /\ i - 1 \in 0 .. n
    <3>1. i \in 1 .. i /\ i \in 0 .. n /\ i - 1 \in 0 .. n
      BY <1>1
    <3>2. 1 .. i \in SUBSET (1 .. n)
      BY SMTT(60), <1>1
    <3> QED
      BY <3>1, <3>2
  <2>4. it0[1 .. i] = step(Max(1 .. i), it0[(1 .. i) \ {Max(1 .. i)}])
    BY <1>1, <1>9, <2>3
  <2> QED
    BY <2>2, <2>3, <2>4
<1>12. h \in [0 .. n -> Commit]
  <2> DEFINE P == {i \in 0 .. n : h[i] \in Commit}
  <2>1. 0 \in P
    <3>1. 0 \in 0 .. n
      BY <1>1
    <3>2. h[0] \in Commit
      BY <1>10
    <3> QED
      BY <3>1, <3>2
  <2>2. ASSUME NEW i \in 0 .. n - 1, i \in P
        PROVE  i + 1 \in P
    <3>1. i + 1 \in 1 .. n /\ (i + 1) - 1 = i /\ i + 1 \in 0 .. n
      BY <1>1
    <3>2. h[i + 1] = step(i + 1, h[i])
      BY <1>11, <3>1
    <3> QED
      BY <1>3, <2>2, <3>1, <3>2
  <2> HIDE DEF P
  <2>3. 0 .. n \subseteq P
    BY <1>1, <2>1, <2>2, Inductive
  <2> QED
    BY <2>3 DEF P
<1> QED
  BY <1>4, <1>10, <1>11, <1>12 DEF n

LEMMA AckedIs ==
  ASSUME NEW sv, ServerType(sv), NEW s \in Snapshot, s.cookie <= Len(sv)
  PROVE  AckedAt(sv, s) \in [Clients -> Nat]
<1>1. s.cookie \in Nat
  BY DEF Snapshot
<1>2. CASE s.cookie = 0
  BY <1>2 DEF AckedAt
<1>3. CASE s.cookie # 0
  <2>1. sv \in Seq([Clients -> Nat]) /\ s.cookie \in 1 .. Len(sv)
    BY <1>1, <1>3 DEF ServerType
  <2>2. sv[s.cookie] \in [Clients -> Nat]
    BY <2>1, ElementOfSeq
  <2> QED
    BY <1>3, <2>2 DEF AckedAt
<1> QED
  BY <1>2, <1>3

\* The later a snapshot, the more it contains.
LEMMA AckedGrows ==
  ASSUME NEW sv, ServerType(sv), NEW s \in Snapshot, NEW t \in Snapshot,
         s.cookie <= t.cookie, t.cookie <= Len(sv)
  PROVE  \A c \in Clients : AckedAt(sv, s)[c] <= AckedAt(sv, t)[c]
<1>1. s.cookie \in Nat /\ t.cookie \in Nat /\ Len(sv) \in Nat
  BY LenProperties DEF Snapshot, ServerType
<1>2. AckedAt(sv, t) \in [Clients -> Nat]
  BY AckedIs
<1>3. CASE s.cookie = 0
  BY <1>2, <1>3 DEF AckedAt
<1>4. CASE s.cookie # 0
  <2>1. s.cookie \in 1 .. Len(sv) /\ t.cookie \in 1 .. Len(sv) /\ t.cookie # 0
    BY <1>1, <1>4
  <2> QED
    BY <1>4, <2>1 DEF AckedAt, ServerType
<1> QED
  BY <1>3, <1>4

LEMMA CommitOf ==
  ASSUME NEW k \in Commit
  PROVE  /\ k = [snap |-> k.snap, locals |-> k.locals]
         /\ k.snap \in Snapshot /\ k.locals \in Seq(Mutation)
         /\ k.snap.cookie \in Nat /\ k.snap.base \in Hash
  BY DEF Commit, Snapshot

LEMMA GoodBounds ==
  ASSUME NEW sv, ServerType(sv), NEW k, Good(sv, k)
  PROVE  /\ AckedAt(sv, k.snap) \in [Clients -> Nat]
         /\ \A c \in Clients : IDAt(sv, k, c) \in Nat /\ AckedAt(sv, k.snap)[c] <= IDAt(sv, k, c)
         /\ \A i \in 1 .. Len(k.locals) : /\ AckedAt(sv, k.snap)[k.locals[i].client] < k.locals[i].id
                                          /\ k.locals[i].id <= IDAt(sv, k, k.locals[i].client)
<1>1. k.snap \in Snapshot /\ k.locals \in Seq(Mutation) /\ k.snap.cookie <= Len(sv)
      /\ Chained(AckedAt(sv, k.snap), k.locals)
  BY CommitOf DEF Good
<1>2. AckedAt(sv, k.snap) \in [Clients -> Nat]
  BY <1>1, AckedIs
<1> QED
  BY <1>1, <1>2, ChainBounds DEF IDAt

LEMMA MutationIDIs ==
  ASSUME NEW k, NEW c
  PROVE  MutationID(k, c) = IDAt(server, k, c)
  BY DEF MutationID, IDAt, LastID, Acked, AckedAt

\* What rebase() yields.
LEMMA RebaseChain ==
  ASSUME ServerType(server), NEW basis, Good(server, basis),
         NEW ms \in Seq(Mutation), NEW b \in [Clients -> Nat], Chained(b, ms),
         \A c \in Clients : b[c] <= IDAt(server, basis, c)
  PROVE  /\ Good(server, Rebase(ms, basis)) /\ Rebase(ms, basis).snap = basis.snap
         /\ \A c \in Clients : IDAt(server, Rebase(ms, basis), c) =
                                 Larger(IDAt(server, basis, c), LastID(b[c], ms, c))
<1> DEFINE A == AckedAt(server, basis.snap)
           M(c) == IDAt(server, basis, c)
           n == Len(ms)
<1>0. PICK L \in [0 .. Len(ms) -> [Clients -> Nat]] : Steps(ms, b, L)
  BY ChainSteps
<1>1. /\ L[0] = b
      /\ \A c \in Clients : L[n][c] = LastID(b[c], ms, c)
      /\ \A i \in 1 .. n :
           /\ ms[i] \in Mutation /\ ms[i].client \in Clients /\ ms[i].id \in Nat
           /\ ms[i].id = L[i - 1][ms[i].client] + 1
           /\ \A c \in Clients : L[i][c] = IF ms[i].client = c THEN ms[i].id ELSE L[i - 1][c]
  BY <1>0 DEF Steps
<1>2. basis \in Commit /\ basis.snap.cookie <= Len(server) /\ Chained(A, basis.locals)
  BY DEF Good
<1>3. PICK h \in [0 .. n -> Commit] :
           /\ h[0] = basis /\ Rebase(ms, basis) = h[n]
           /\ \A i \in 1 .. n :
                h[i] = IF ms[i].id > MutationID(h[i - 1], ms[i].client)
                       THEN [h[i - 1] EXCEPT !.locals = Append(@, ms[i])] ELSE h[i - 1]
  BY <1>2, RebaseHistory
<1>4. \A c \in Clients : M(c) \in Nat
  BY GoodBounds
<1>5. \A k, c : MutationID(k, c) = LastID(AckedAt(server, k.snap)[c], k.locals, c)
  BY MutationIDIs DEF IDAt
<1> DEFINE Lasts(i) == \A c \in Clients : LastID(A[c], h[i].locals, c) = Larger(M(c), L[i][c])
           P == {i \in 0 .. n : h[i].snap = basis.snap /\ Chained(A, h[i].locals) /\ Lasts(i)}
<1>6. n \in Nat /\ n \in 0 .. n /\ 0 \in 0 .. n
  BY MutationsOf
<1>7. 0 \in P
  <2>1. \A c \in Clients : LastID(A[c], h[0].locals, c) = M(c)
    BY <1>3 DEF IDAt
  <2>2. \A c \in Clients : b[c] \in Nat /\ b[c] <= M(c)
    OBVIOUS
  <2>3. Lasts(0)
    BY <1>1, <1>4, <2>1, <2>2 DEF Larger
  <2> QED
    BY <1>2, <1>3, <1>6, <2>3
<1>8. ASSUME NEW i \in 0 .. n - 1, i \in P
      PROVE  i + 1 \in P
  <2>1. i + 1 \in 1 .. n /\ i + 1 \in 0 .. n /\ (i + 1) - 1 = i /\ i \in 0 .. n
    BY <1>6
  <2> DEFINE k == i + 1
             m == ms[k]
             d == m.client
             l == h[i].locals
  <2>2. /\ m \in Mutation /\ d \in Clients /\ m.id \in Nat /\ m.id = L[i][d] + 1
        /\ \A c \in Clients : L[k][c] = IF d = c THEN m.id ELSE L[i][c]
    BY <1>1, <2>1
  <2>3. \A c \in Clients : L[i][c] \in Nat /\ L[k][c] \in Nat
    BY <1>1, <2>1
  <2>4. h[i] \in Commit /\ h[i].snap = basis.snap /\ Chained(A, l) /\ Lasts(i)
    BY <1>8, <2>1
  <2>5. l \in Seq(Mutation)
    BY <2>4, CommitOf
  <2>6. h[k] = IF m.id > MutationID(h[i], d)
               THEN [h[i] EXCEPT !.locals = Append(@, m)] ELSE h[i]
    BY <1>3, <2>1
  <2>7. MutationID(h[i], d) = LastID(A[d], l, d) /\ LastID(A[d], l, d) = Larger(M(d), L[i][d])
    BY <1>5, <2>2, <2>4
  <2>8. CASE m.id > MutationID(h[i], d)
    <3>1. M(d) <= L[i][d] /\ LastID(A[d], l, d) = L[i][d]
      BY <1>4, <2>2, <2>3, <2>7, <2>8 DEF Larger
    <3>2. h[k].snap = basis.snap /\ h[k].locals = Append(l, m)
      BY <2>4, <2>6, <2>8, CommitOf
    <3>3. Chained(A, Append(l, m))
      BY <2>2, <2>4, <2>5, <3>1, ChainedAppended
    <3>4. \A c \in Clients : LastID(A[c], Append(l, m), c) =
                               IF d = c THEN m.id ELSE LastID(A[c], l, c)
      BY <2>2, <2>5, LastOfAppended
    <3>5. Larger(M(d), L[k][d]) = m.id
      BY <1>4, <2>2, <2>3, <3>1 DEF Larger
    <3>6. Lasts(k)
      <4> SUFFICES ASSUME NEW c \in Clients
                   PROVE  LastID(A[c], Append(l, m), c) = Larger(M(c), L[k][c])
        BY <3>2
      <4>1. CASE d = c
        BY <3>4, <3>5, <4>1
      <4>2. CASE d # c
        <5>1. LastID(A[c], Append(l, m), c) = LastID(A[c], l, c) /\ L[k][c] = L[i][c]
          BY <2>2, <3>4, <4>2
        <5> QED
          BY <2>4, <5>1
      <4> QED
        BY <4>1, <4>2
    <3> QED
      BY <2>1, <3>2, <3>3, <3>6
  <2>9. CASE ~(m.id > MutationID(h[i], d))
    <3>1. Lasts(k)
      <4> SUFFICES ASSUME NEW c \in Clients
                   PROVE  Larger(M(c), L[k][c]) = Larger(M(c), L[i][c])
        BY <2>4, <2>6, <2>9
      <4>1. CASE d = c
        <5>1. m.id <= M(c) /\ L[i][c] <= M(c)
          BY <1>4, <2>2, <2>3, <2>7, <2>9, <4>1 DEF Larger
        <5> QED
          BY <1>4, <2>2, <2>3, <4>1, <5>1 DEF Larger
      <4>2. CASE d # c
        BY <2>2, <4>2
      <4> QED
        BY <4>1, <4>2
    <3> QED
      BY <2>1, <2>4, <2>6, <2>9, <3>1
  <2> QED
    BY <2>8, <2>9
<1> HIDE DEF P
<1>9. 0 .. n \subseteq P
  BY <1>6, <1>7, <1>8, Inductive
<1>10. n \in P
  BY <1>6, <1>9
<1>11. h[n] \in Commit /\ h[n].snap = basis.snap /\ Chained(A, h[n].locals) /\ Lasts(n)
  BY <1>3, <1>6, <1>10 DEF P
<1>12. Good(server, h[n])
  BY <1>2, <1>11 DEF Good
<1>13. \A c \in Clients : IDAt(server, h[n], c) = Larger(M(c), LastID(b[c], ms, c))
  BY <1>1, <1>11 DEF IDAt
<1> QED
  BY <1>3, <1>11, <1>12, <1>13

-----------------------------------------------------------------------------
(* What the invariant is kept by *)

LEMMA ExtendingSame ==
  ASSUME NEW sv, ServerType(sv), NEW k, Good(sv, k)
  PROVE  Extending(sv, k, k)
<1>1. k.snap.cookie \in Nat
  BY CommitOf DEF Good
<1>2. \A c \in Clients : IDAt(sv, k, c) \in Nat
  BY GoodBounds
<1> QED
  BY <1>1, <1>2 DEF Extending

LEMMA ExtendingTransitive ==
  ASSUME NEW sv, ServerType(sv), NEW k1, NEW k2, NEW k3, Good(sv, k1), Good(sv, k2), Good(sv, k3),
         Extending(sv, k3, k2), Extending(sv, k2, k1)
  PROVE  Extending(sv, k3, k1)
<1>1. k1.snap.cookie \in Nat /\ k2.snap.cookie \in Nat /\ k3.snap.cookie \in Nat
  BY CommitOf DEF Good
<1>2. \A c \in Clients : IDAt(sv, k1, c) \in Nat /\ IDAt(sv, k2, c) \in Nat /\ IDAt(sv, k3, c) \in Nat
  BY GoodBounds
<1> QED
  BY <1>1, <1>2 DEF Extending

LEMMA SharedOnward ==
  ASSUME NEW sv, ServerType(sv), NEW h, NEW h1, Good(sv, h), Good(sv, h1), Extending(sv, h1, h),
         NEW c, NEW ms \in Seq(Mutation), Shared(sv, c, ms, h)
  PROVE  Shared(sv, c, ms, h1)
<1>1. \A d \in Clients : /\ IDAt(sv, h, d) \in Nat /\ IDAt(sv, h1, d) \in Nat
                         /\ IDAt(sv, h, d) <= IDAt(sv, h1, d)
  BY GoodBounds DEF Extending
<1>2. \A i \in DOMAIN ms : ms[i].client \in Clients /\ ms[i].id \in Nat
  BY MutationsOf
<1> QED
  BY <1>1, <1>2 DEF Shared

\* The group's head goes on.
LEMMA HeadMoves ==
  ASSUME NEW sv, ServerType(sv), NEW h, NEW h1, h1 # None, Good(sv, h1),
         h # None => Good(sv, h) /\ Extending(sv, h1, h),
         NEW c \in Clients, NEW m, NEW y, NEW p, NEW r, TabOK(sv, h, c, m, y, p, r)
  PROVE  TabOK(sv, h1, c, m, y, p, r)
<1>1. CASE m = None
  BY <1>1 DEF TabOK
<1>2. CASE m # None
  <2>1. h # None /\ Good(sv, m) /\ Shared(sv, c, m.locals, h)
    BY <1>2 DEF TabOK, MainOK
  <2>2. Good(sv, h) /\ Extending(sv, h1, h)
    BY <2>1
  <2>3. m.locals \in Seq(Mutation) /\ m.snap.cookie <= Len(sv) /\ m.snap.cookie \in Nat
    BY <2>1, CommitOf DEF Good
  <2>4. MainOK(sv, h1, c, m)
    BY <2>1, <2>2, <2>3, SharedOnward DEF MainOK
  <2>5. ASSUME y # None
        PROVE  SyncOK(sv, h1, c, y)
    <3>1. SyncOK(sv, h, c, y)
      BY <2>5 DEF TabOK
    <3>2. y.head.locals \in Seq(Mutation)
      BY <3>1, CommitOf DEF SyncOK, Good
    <3>3. Shared(sv, c, y.head.locals, h)
      BY <3>1 DEF SyncOK
    <3>4. Shared(sv, c, y.head.locals, h1)
      BY <2>2, <3>2, <3>3, SharedOnward
    <3> QED
      BY <3>1, <3>4, Zenon DEF SyncOK
  <2>6. ASSUME r.at = "gathered"
        PROVE  GatheredOK(sv, h1, c, m, y, r)
    <3>1. GatheredOK(sv, h, c, m, y, r)
      BY <2>6 DEF TabOK
    <3>2. Good(sv, r.head) /\ Extending(sv, h, r.head)
      BY <3>1 DEF GatheredOK
    <3>3. Extending(sv, h1, r.head)
      BY <2>2, <3>2, ExtendingTransitive
    <3> QED
      BY <3>1, <3>3, Zenon DEF GatheredOK
  <2>7. h.snap.cookie \in Nat /\ h1.snap.cookie \in Nat /\ h.snap.cookie <= h1.snap.cookie
    BY <2>2, CommitOf DEF Good, Extending
  <2>8. IDAt(sv, h, c) \in Nat /\ IDAt(sv, h1, c) \in Nat /\ IDAt(sv, h, c) <= IDAt(sv, h1, c)
    BY <2>2, GoodBounds DEF Extending
  <2>9. ASSUME p.at = "perdag"
        PROVE  FirstOK(sv, h1, c, p)
    <3>1. FirstOK(sv, h, c, p)
      BY <2>9 DEF TabOK
    <3> QED
      BY <2>7, <2>8, <3>1 DEF FirstOK
  <2>10. ASSUME p.at = "memdag"
         PROVE  SecondOK(sv, h1, c, m, p)
    <3>1. SecondOK(sv, h, c, m, p)
      BY <2>10 DEF TabOK
    <3>2. p.snap \in Snapshot /\ p.snap.cookie <= Len(sv)
      <4>1. p.snap.cookie \in Nat /\ Len(sv) \in Nat
        BY <3>1, LenProperties DEF SecondOK, Snapshot, ServerType
      <4> QED
        BY <2>3, <3>1, <4>1 DEF SecondOK
    <3>3. AckedAt(sv, p.snap)[c] \in Nat
      BY <3>2, AckedIs
    <3>4. PICK n \in 0 .. Larger(IDAt(sv, h, c), AckedAt(sv, p.snap)[c]) :
                 Chained(StartsAt(c, n), p.mutations)
      BY <3>1 DEF SecondOK
    <3>5. n \in 0 .. Larger(IDAt(sv, h1, c), AckedAt(sv, p.snap)[c])
      BY <2>8, <3>3, <3>4 DEF Larger
    <3>6. ~p.newer => p.snap.cookie <= h1.snap.cookie
      <4>1. p.snap.cookie \in Nat
        BY <3>2 DEF Snapshot
      <4>2. ~p.newer => p.snap.cookie <= h.snap.cookie
        BY <3>1 DEF SecondOK
      <4> QED
        BY <2>7, <4>1, <4>2
    <3> QED
      BY <3>1, <3>4, <3>5, <3>6, Zenon DEF SecondOK
  <2> QED
    BY <1>2, <2>4, <2>5, <2>6, <2>9, <2>10, Zenon DEF TabOK
<1> QED
  BY <1>1, <1>2

\* The server goes on.
LEMMA OldStates ==
  ASSUME NEW sv, ServerType(sv), NEW x \in [Clients -> Nat], NEW k, Good(sv, k)
  PROVE  /\ Good(Append(sv, x), k)
         /\ \A c : IDAt(Append(sv, x), k, c) = IDAt(sv, k, c)
         /\ \A s \in Snapshot : s.cookie <= k.snap.cookie => AckedAt(Append(sv, x), s) = AckedAt(sv, s)
<1>1. k \in Commit /\ k.snap \in Snapshot /\ k.snap.cookie \in Nat /\ k.snap.cookie <= Len(sv)
  BY CommitOf DEF Good
<1>2. /\ sv \in Seq([Clients -> Nat]) /\ Len(sv) \in Nat /\ Len(Append(sv, x)) = Len(sv) + 1
      /\ \A i \in 1 .. Len(sv) : Append(sv, x)[i] = sv[i]
  BY AppendProperties, LenProperties DEF ServerType
<1>3. ASSUME NEW s \in Snapshot, s.cookie <= k.snap.cookie
      PROVE  AckedAt(Append(sv, x), s) = AckedAt(sv, s)
  <2>1. s.cookie = 0 \/ s.cookie \in 1 .. Len(sv)
    BY <1>1, <1>2, <1>3 DEF Snapshot
  <2> QED
    BY <1>2, <2>1 DEF AckedAt
<1>4. AckedAt(Append(sv, x), k.snap) = AckedAt(sv, k.snap)
  BY <1>1, <1>3
<1>5. k.snap.cookie <= Len(Append(sv, x))
  BY <1>1, <1>2
<1> QED
  BY <1>1, <1>3, <1>4, <1>5 DEF Good, IDAt

LEMMA SharedStill ==
  ASSUME NEW sv, ServerType(sv), NEW x \in [Clients -> Nat], NEW h, Good(sv, h),
         NEW c, NEW ms, Shared(sv, c, ms, h)
  PROVE  Shared(Append(sv, x), c, ms, h)
  BY OldStates DEF Shared

LEMMA ServerMoves ==
  ASSUME NEW sv, ServerType(sv), NEW x \in [Clients -> Nat], NEW h, h # None => Good(sv, h),
         NEW c \in Clients, NEW m, NEW y, NEW p, NEW r, TabOK(sv, h, c, m, y, p, r)
  PROVE  TabOK(Append(sv, x), h, c, m, y, p, r)
<1> DEFINE sv1 == Append(sv, x)
<1>1. CASE m = None
  BY <1>1 DEF TabOK
<1>2. CASE m # None
  <2>1. h # None /\ Good(sv, m) /\ Shared(sv, c, m.locals, h)
    BY <1>2 DEF TabOK, MainOK
  <2>2. Good(sv, h)
    BY <2>1
  <2>3. MainOK(sv1, h, c, m)
    BY <2>1, <2>2, OldStates, SharedStill DEF MainOK
  <2>4. ASSUME y # None
        PROVE  SyncOK(sv1, h, c, y)
    <3>1. SyncOK(sv, h, c, y)
      BY <2>4 DEF TabOK
    <3>2. Good(sv, y.head) /\ Shared(sv, c, y.head.locals, h)
      BY <3>1 DEF SyncOK
    <3>3. Good(sv1, y.head) /\ Shared(sv1, c, y.head.locals, h)
      BY <2>2, <3>2, OldStates, SharedStill
    <3> QED
      BY <3>1, <3>3, Zenon DEF SyncOK
  <2>5. ASSUME r.at = "gathered"
        PROVE  GatheredOK(sv1, h, c, m, y, r)
    <3>1. GatheredOK(sv, h, c, m, y, r)
      BY <2>5 DEF TabOK
    <3>2. /\ Good(sv, r.head) /\ Extending(sv, h, r.head) /\ Shared(sv, c, m.locals, r.head)
          /\ y # None => Shared(sv, c, y.head.locals, r.head)
      BY <3>1 DEF GatheredOK
    <3>3. /\ Good(sv1, r.head) /\ Shared(sv1, c, m.locals, r.head)
          /\ y # None => Shared(sv1, c, y.head.locals, r.head)
      BY <3>2, OldStates, SharedStill
    <3>4. \A d : IDAt(sv1, r.head, d) = IDAt(sv, r.head, d) /\ IDAt(sv1, h, d) = IDAt(sv, h, d)
      BY <2>2, <3>2, OldStates
    <3>5. Extending(sv1, h, r.head)
      BY <3>2, <3>4 DEF Extending
    <3>6. r.lmid = IDAt(sv1, r.head, c) /\ r.revert \in SUBSET Commit
      BY <3>1, <3>4 DEF GatheredOK
    <3> QED
      BY <3>3, <3>5, <3>6, Zenon DEF GatheredOK
  <2>6. IDAt(sv1, h, c) = IDAt(sv, h, c)
    BY <2>2, OldStates
  <2>7. p.at = "perdag" => FirstOK(sv1, h, c, p)
    BY <2>6 DEF TabOK, FirstOK
  <2>8. ASSUME p.at = "memdag"
        PROVE  SecondOK(sv1, h, c, m, p)
    <3>1. SecondOK(sv, h, c, m, p)
      BY <2>8 DEF TabOK
    <3>2. p.snap \in Snapshot /\ p.snap.cookie <= m.snap.cookie
      BY <3>1 DEF SecondOK
    <3>3. AckedAt(sv1, p.snap) = AckedAt(sv, p.snap)
      BY <2>1, <3>2, OldStates
    <3> QED
      BY <2>6, <3>1, <3>3 DEF SecondOK
  <2> QED
    BY <1>2, <2>3, <2>4, <2>5, <2>7, <2>8, Zenon DEF TabOK
<1> QED
  BY <1>1, <1>2

-----------------------------------------------------------------------------
(* Every step keeps the invariant, and takes nobody back *)

Forward ==
  /\ \A c \in Clients : main[c] # None /\ main'[c] # None => Extending(server, main'[c], main[c])
  /\ group.head # None => Extending(server, group'.head, group.head)

\* A step of client c.
Others(c) ==
  \A d \in Clients \ {c} : /\ main'[d] = main[d] /\ sync'[d] = sync[d]
                           /\ persisting'[d] = persisting[d] /\ refreshing'[d] = refreshing[d]
                           /\ (asked'[d] = asked[d] \/ asked'[d] = None)

LEMMA StepOf ==
  ASSUME ChainInv, NEW c \in Clients, Types', server' = server, Others(c),
         TabOK(server, group'.head, c, main'[c], sync'[c], persisting'[c], refreshing'[c]),
         main'[c] = None => asked'[c] = None,
         group'.head = group.head
           \/ /\ group'.head # None /\ Good(server, group'.head)
              /\ group.head # None => Extending(server, group'.head, group.head),
         main[c] # None /\ main'[c] # None => Extending(server, main'[c], main[c])
  PROVE  ChainInv' /\ Forward
<1>1. ServerType(server)
  BY DEF ChainInv, Types
<1>2. group.head # None => Good(server, group.head)
  BY DEF ChainInv
<1>3. group.head # None => Extending(server, group'.head, group.head)
  BY <1>1, <1>2, ExtendingSame
<1>4. group'.head # None => Good(server, group'.head)
  BY <1>2
<1>5. ASSUME NEW d \in Clients
      PROVE  TabOK(server, group'.head, d, main'[d], sync'[d], persisting'[d], refreshing'[d])
  <2>1. CASE d = c
    BY <2>1
  <2>2. CASE d # c
    <3>1. TabOK(server, group.head, d, main[d], sync[d], persisting[d], refreshing[d])
      BY DEF ChainInv
    <3>2. TabOK(server, group'.head, d, main[d], sync[d], persisting[d], refreshing[d])
      <4>1. CASE group'.head = group.head
        BY <3>1, <4>1
      <4>2. CASE group'.head # group.head
        <5>1. /\ group'.head # None /\ Good(server, group'.head)
              /\ group.head # None => Good(server, group.head)
                                        /\ Extending(server, group'.head, group.head)
          BY <1>2, <4>2
        <5> QED
          BY <1>1, <3>1, <5>1, HeadMoves
      <4> QED
        BY <4>1, <4>2
    <3> QED
      BY <2>2, <3>2 DEF Others
  <2> QED
    BY <2>1, <2>2
<1>6. ASSUME NEW d \in Clients, main'[d] = None
      PROVE  asked'[d] = None
  BY <1>6 DEF ChainInv, Others
<1>7. ASSUME NEW d \in Clients, main[d] # None, main'[d] # None
      PROVE  Extending(server, main'[d], main[d])
  <2>1. CASE d = c
    BY <1>7, <2>1
  <2>2. CASE d # c
    <3>1. main'[d] = main[d] /\ Good(server, main[d])
      BY <1>7, <2>2 DEF Others, ChainInv, TabOK, MainOK
    <3> QED
      BY <1>1, <3>1, ExtendingSame
  <2> QED
    BY <2>1, <2>2
<1>8. ChainInv'
  BY <1>4, <1>5, <1>6 DEF ChainInv
<1>9. Forward
  BY <1>3, <1>7 DEF Forward
<1> QED
  BY <1>8, <1>9

LEMMA TabIs ==
  ASSUME ChainInv, NEW c \in Clients
  PROVE  /\ TabOK(server, group.head, c, main[c], sync[c], persisting[c], refreshing[c])
         /\ ServerType(server)
         /\ group.head # None => Good(server, group.head)
         /\ main[c] # None => /\ group.head # None /\ Good(server, main[c])
                              /\ Shared(server, c, main[c].locals, group.head)
                              /\ Extending(server, main[c], main[c])
         /\ main[c] = None => /\ sync[c] = None /\ persisting[c].at = "idle"
                              /\ refreshing[c].at = "idle" /\ asked[c] = None
<1>1. TabOK(server, group.head, c, main[c], sync[c], persisting[c], refreshing[c])
  BY DEF ChainInv
<1>2. ServerType(server)
  BY DEF ChainInv, Types
<1>3. group.head # None => Good(server, group.head)
  BY DEF ChainInv
<1>4. main[c] # None => /\ group.head # None /\ Good(server, main[c])
                        /\ Shared(server, c, main[c].locals, group.head)
  BY <1>1 DEF TabOK, MainOK
<1>5. main[c] # None => Extending(server, main[c], main[c])
  BY <1>2, <1>4, ExtendingSame
<1>6. main[c] = None => /\ sync[c] = None /\ persisting[c].at = "idle"
                        /\ refreshing[c].at = "idle" /\ asked[c] = None
  BY <1>1 DEF TabOK, ChainInv
<1> QED
  BY <1>1, <1>2, <1>3, <1>4, <1>5, <1>6

LEMMA InitChain == Init => ChainInv
<1> SUFFICES ASSUME Init PROVE ChainInv
  OBVIOUS
<1>1. ServerType(server)
  <2>1. server = <<>>
    BY DEF Init
  <2>2. <<>> \in Seq([Clients -> Nat]) /\ Len(<<>>) = 0
    OBVIOUS
  <2> QED
    BY <2>1, <2>2 DEF ServerType
<1>2. DOMAIN records \subseteq Clients /\ records \in [DOMAIN records -> RecordType]
  BY DEF Init
<1>3. Types
  BY <1>1, <1>2 DEF Init, Types
<1>4. \A c \in Clients :
        TabOK(server, group.head, c, main[c], sync[c], persisting[c], refreshing[c])
  BY DEF Init, TabOK, Idle
<1> QED
  BY <1>3, <1>4 DEF Init, ChainInv

LEMMA EmptyGood ==
  ASSUME NEW sv, ServerType(sv), NEW s \in Snapshot, s.cookie <= Len(sv)
  PROVE  /\ Good(sv, [snap |-> s, locals |-> <<>>])
         /\ \A c : IDAt(sv, [snap |-> s, locals |-> <<>>], c) = AckedAt(sv, s)[c]
<1> DEFINE k == [snap |-> s, locals |-> <<>>]
<1>1. k.snap = s /\ k.locals = <<>> /\ k \in Commit
  BY DEF Commit
<1> HIDE DEF k
<1>2. Good(sv, k)
  BY <1>1, ChainedEmpty DEF Good
<1>3. \A c : IDAt(sv, k, c) = AckedAt(sv, s)[c]
  BY <1>1, LastOfNone DEF IDAt
<1> QED
  BY <1>2, <1>3 DEF k

LEMMA OpenStep ==
  ASSUME ChainInv, NEW c \in Clients, OpenTab(c)
  PROVE  ChainInv' /\ Forward
<1> DEFINE s == [cookie |-> 0, by |-> c, base |-> <<0, c>>]
           empty == [snap |-> s, locals |-> <<>>]
           head == IF group.head = None THEN empty ELSE group.head
           new == [refreshHashes |-> {head}, persistHash |-> {}]
           recs == [d \in DOMAIN records \cup {c} |-> IF d = c THEN new ELSE records[d]]
<1>1. /\ main[c] = None /\ records' = recs /\ group' = [group EXCEPT !.head = head]
      /\ main' = [main EXCEPT ![c] = head]
      /\ UNCHANGED <<server, memOnly, sync, asked, persisting, refreshing, due>>
  BY DEF OpenTab, Open, PerdagWrite
<1>2. Types /\ ServerType(server)
  BY DEF ChainInv, Types
<1>3. Good(server, head) /\ head \in Commit
  <2>1. s \in Snapshot /\ s.cookie <= Len(server)
    <3>1. Len(server) \in Nat
      BY <1>2, LenProperties DEF ServerType
    <3> QED
      BY <3>1 DEF Snapshot, Hash
  <2>2. Good(server, empty)
    BY <1>2, <2>1, EmptyGood
  <2>3. Good(server, head)
    BY <2>2 DEF ChainInv
  <2> QED
    BY <2>3 DEF Good
<1> HIDE DEF head
<1>4. head # None
  BY <1>3, NoneAssumption
<1>5. group'.head = head /\ (group.head # None => group.head = head)
  BY <1>1, <1>2 DEF Types, head
<1>6. main'[c] = head
  BY <1>1, <1>2 DEF Types
<1>7. Shared(server, c, head.locals, head)
  <2>1. DOMAIN head.locals = 1 .. Len(head.locals)
    BY <1>3, CommitOf, MutationsOf
  <2> QED
    BY <1>2, <1>3, <2>1, GoodBounds DEF Shared
<1>8. sync[c] = None /\ persisting[c].at = "idle" /\ refreshing[c].at = "idle"
  BY <1>1, TabIs
<1>9. TabOK(server, head, c, head, sync[c], persisting[c], refreshing[c])
  BY <1>3, <1>4, <1>7, <1>8 DEF TabOK, MainOK
<1>10. Types'
  <2>1. new \in RecordType
    BY <1>3 DEF RecordType
  <2> HIDE DEF new
  <2>2. recs \in [DOMAIN records \cup {c} -> RecordType] /\ DOMAIN records \cup {c} \subseteq Clients
    BY <1>2, <2>1 DEF Types
  <2>3. DOMAIN recs = DOMAIN records \cup {c}
    OBVIOUS
  <2>4. DOMAIN records' \subseteq Clients /\ records' \in [DOMAIN records' -> RecordType]
    BY <1>1, <2>2, <2>3
  <2>5. group' = [head |-> group'.head, mutationIDs |-> group'.mutationIDs]
    BY <1>1, <1>2 DEF Types
  <2> QED
    BY <1>1, <1>2, <2>4, <2>5 DEF Types
<1>11. Others(c)
  BY <1>1, <1>2 DEF Others, Types
<1>12. group.head # None => Extending(server, group'.head, group.head)
  BY <1>2, <1>3, <1>5, ExtendingSame
<1>13. TabOK(server, group'.head, c, main'[c], sync'[c], persisting'[c], refreshing'[c])
  BY <1>1, <1>5, <1>6, <1>9
<1> QED
  BY <1>1, <1>3, <1>4, <1>5, <1>6, <1>10, <1>11, <1>12, <1>13, StepOf

LEMMA CloseStep ==
  ASSUME ChainInv, NEW c \in Clients, CloseTab(c)
  PROVE  ChainInv' /\ Forward
<1>1. /\ main' = [main EXCEPT ![c] = None] /\ memOnly' = [memOnly EXCEPT ![c] = {}]
      /\ sync' = [sync EXCEPT ![c] = None] /\ asked' = [asked EXCEPT ![c] = None]
      /\ persisting' = [persisting EXCEPT ![c] = Idle]
      /\ refreshing' = [refreshing EXCEPT ![c] = Idle]
      /\ server' = server /\ records' = records /\ group' = group
  BY DEF CloseTab
<1>2. Types
  BY DEF ChainInv
<1>3. Types'
  BY <1>1, <1>2 DEF Types
<1>4. /\ main'[c] = None /\ sync'[c] = None /\ asked'[c] = None
      /\ persisting'[c] = Idle /\ refreshing'[c] = Idle /\ Others(c)
  BY <1>1, <1>2 DEF Types, Others
<1>5. TabOK(server, group'.head, c, main'[c], sync'[c], persisting'[c], refreshing'[c])
  BY <1>4 DEF TabOK, Idle
<1> QED
  BY <1>1, <1>3, <1>4, <1>5, StepOf

LEMMA CollectStep ==
  ASSUME ChainInv, NEW c \in Clients, CollectClient(c)
  PROVE  ChainInv' /\ Forward
<1>1. /\ records' = [d \in DOMAIN records \ {c} |-> records[d]] /\ group' = group
      /\ server' = server /\ UNCHANGED tabVars
  BY DEF CollectClient, PerdagWrite
<1>2. Types
  BY DEF ChainInv
<1>3. DOMAIN records' \subseteq Clients /\ records' \in [DOMAIN records' -> RecordType]
  BY <1>1, <1>2 DEF Types
<1>4. Types'
  BY <1>1, <1>2, <1>3 DEF Types
<1> QED
  BY <1>1, <1>4, TabIs, StepOf DEF Others

LEMMA MutateStep ==
  ASSUME ChainInv, NEW c \in Clients, Mutate(c)
  PROVE  ChainInv' /\ Forward
<1> DEFINE m == main[c]
           new == [client |-> c, id |-> MutationID(m, c) + 1]
           l == Append(m.locals, new)
           k == [snap |-> m.snap, locals |-> l]
           r == refreshing[c]
<1>1. /\ m # None
      /\ main' = [main EXCEPT ![c] = [m EXCEPT !.locals = l]]
      /\ \E x : memOnly' = [memOnly EXCEPT ![c] = x]
      /\ server' = server /\ UNCHANGED <<records, group, sync, asked, persisting, refreshing>>
  BY DEF Mutate, Open, SetMain
<1>2. Types /\ ServerType(server)
  BY DEF ChainInv, Types
<1>3. /\ TabOK(server, group.head, c, m, sync[c], persisting[c], r)
      /\ group.head # None /\ Good(server, m) /\ Shared(server, c, m.locals, group.head)
  BY <1>1, TabIs
<1>4. /\ m = [snap |-> m.snap, locals |-> m.locals] /\ m.snap \in Snapshot
      /\ m.locals \in Seq(Mutation) /\ m.snap.cookie \in Nat
  BY <1>3, CommitOf DEF Good
<1>5. main'[c] = k
  <2>1. main'[c] = [m EXCEPT !.locals = l]
    BY <1>1, <1>2 DEF Types
  <2> QED
    BY <1>4, <2>1
<1>6. \A d \in Clients : IDAt(server, m, d) \in Nat
  BY <1>2, <1>3, GoodBounds
<1>7. new.client = c /\ new.id = IDAt(server, m, c) + 1 /\ new \in Mutation
  BY <1>6, MutationIDIs DEF Mutation
<1> HIDE DEF new
<1>8. l \in Seq(Mutation) /\ Len(l) = Len(m.locals) + 1 /\ l[Len(m.locals) + 1] = new
      /\ \A i \in 1 .. Len(m.locals) : l[i] = m.locals[i]
  BY <1>4, <1>7, AppendProperties
<1>9. Chained(AckedAt(server, m.snap), l)
  BY <1>3, <1>4, <1>7, ChainedAppended DEF Good, IDAt
<1>10. \A d : LastID(AckedAt(server, m.snap)[d], l, d) =
                IF c = d THEN new.id ELSE LastID(AckedAt(server, m.snap)[d], m.locals, d)
  BY <1>4, <1>7, LastOfAppended
<1> HIDE DEF l
<1>11. k \in Commit /\ k.snap = m.snap /\ k.locals = l
  BY <1>4, <1>8 DEF Commit
<1> HIDE DEF k
<1>12. Good(server, k)
  BY <1>3, <1>9, <1>11 DEF Good
<1>13. Extending(server, k, m)
  BY <1>4, <1>6, <1>7, <1>10, <1>11 DEF Extending, IDAt
<1>14. ASSUME NEW h, Shared(server, c, m.locals, h)
       PROVE  Shared(server, c, l, h)
  <2>1. DOMAIN l = 1 .. Len(m.locals) + 1 /\ DOMAIN m.locals = 1 .. Len(m.locals) /\ Len(m.locals) \in Nat
    BY <1>4, <1>8, MutationsOf
  <2>2. \A i \in DOMAIN l : l[i].client # c => i \in DOMAIN m.locals /\ l[i] = m.locals[i]
    BY <1>7, <1>8, <2>1
  <2> QED
    BY <1>14, <2>2 DEF Shared
<1>15. MainOK(server, group.head, c, k)
  BY <1>3, <1>11, <1>12, <1>14 DEF MainOK
<1>16. ASSUME r.at = "gathered"
       PROVE  GatheredOK(server, group.head, c, k, sync[c], r)
  <2>1. GatheredOK(server, group.head, c, m, sync[c], r)
    BY <1>3, <1>16 DEF TabOK
  <2>2. Shared(server, c, k.locals, r.head)
    BY <1>11, <1>14, <2>1 DEF GatheredOK
  <2> QED
    BY <2>1, <2>2, Zenon DEF GatheredOK
<1>17. ASSUME persisting[c].at = "memdag"
       PROVE  SecondOK(server, group.head, c, k, persisting[c])
  <2>1. SecondOK(server, group.head, c, m, persisting[c])
    BY <1>3, <1>17 DEF TabOK
  <2> QED
    BY <1>11, <2>1, Zenon DEF SecondOK
<1>18. k # None
  BY <1>11, NoneAssumption
<1>19. TabOK(server, group.head, c, k, sync[c], persisting[c], r)
  BY <1>3, <1>11, <1>15, <1>16, <1>17, <1>18, Zenon DEF TabOK
<1>20. Types'
  BY <1>1, <1>2 DEF Types
<1>21. Others(c)
  BY <1>1, <1>2 DEF Others, Types
<1> QED
  BY <1>1, <1>5, <1>13, <1>18, <1>19, <1>20, <1>21, StepOf

\* The server's states are appended to.
LEMMA ServerStep ==
  ASSUME ChainInv, NEW x \in [Clients -> Nat], server' = Append(server, x), UNCHANGED <<perdagVars, tabVars>>,
         \A v \in 1 .. Len(server) : \A c \in Clients : server[v][c] <= x[c]
  PROVE  ChainInv' /\ Forward
<1> DEFINE new == Append(server, x)
<1>1. Types /\ ServerType(server)
  BY DEF ChainInv, Types
<1>2. ServerType(new)
  <2>1. /\ server \in Seq([Clients -> Nat]) /\ Len(server) \in Nat
        /\ \A v \in 1 .. Len(server) : server[v] \in [Clients -> Nat]
    BY <1>1, LenProperties, ElementOfSeq DEF ServerType
  <2>2. /\ new \in Seq([Clients -> Nat]) /\ Len(new) = Len(server) + 1 /\ new[Len(server) + 1] = x
        /\ \A v \in 1 .. Len(server) : new[v] = server[v]
    BY <2>1, AppendProperties
  <2> HIDE DEF new
  <2>3. ASSUME NEW v \in 1 .. Len(new), NEW w \in 1 .. Len(new), v <= w, NEW c \in Clients
        PROVE  new[v][c] <= new[w][c]
    <3>1. CASE w = Len(server) + 1
      <4>1. CASE v = w
        BY <2>2, <3>1, <4>1
      <4>2. CASE v # w
        <5>1. v \in 1 .. Len(server)
          BY <2>1, <2>2, <2>3, <3>1, <4>2
        <5> QED
          BY <2>2, <3>1, <5>1
      <4> QED
        BY <4>1, <4>2
    <3>2. CASE w # Len(server) + 1
      <4>1. v \in 1 .. Len(server) /\ w \in 1 .. Len(server)
        BY <2>1, <2>2, <2>3, <3>2
      <4> QED
        BY <1>1, <2>2, <2>3, <4>1 DEF ServerType
    <3> QED
      BY <3>1, <3>2
  <2> QED
    BY <2>2, <2>3 DEF ServerType
<1>3. group.head # None => Good(server, group.head)
  BY DEF ChainInv
<1>4. group.head # None => Good(new, group.head)
  BY <1>1, <1>3, OldStates
<1>5. \A c \in Clients : TabOK(server, group.head, c, main[c], sync[c], persisting[c], refreshing[c])
  BY DEF ChainInv
<1>6. \A c \in Clients : TabOK(new, group.head, c, main[c], sync[c], persisting[c], refreshing[c])
  BY <1>1, <1>3, <1>5, ServerMoves
<1>7. Types'
  BY <1>1, <1>2 DEF Types
<1>8. ChainInv'
  BY <1>4, <1>6, <1>7 DEF ChainInv
<1>9. Forward
  <2>1. group' = group /\ main' = main
    OBVIOUS
  <2>2. group.head # None => Extending(server, group.head, group.head)
    BY <1>1, <1>3, ExtendingSame
  <2>3. \A c \in Clients : main[c] # None => Extending(server, main[c], main[c])
    BY TabIs
  <2> QED
    BY <2>1, <2>2, <2>3 DEF Forward
<1> QED
  BY <1>8, <1>9

LEMMA LastState ==
  ASSUME ServerType(server)
  PROVE  /\ LastMutationIDs \in [Clients -> Nat]
         /\ \A v \in 1 .. Len(server) : \A c \in Clients : server[v][c] <= LastMutationIDs[c]
<1>1. server \in Seq([Clients -> Nat]) /\ Len(server) \in Nat
  BY LenProperties DEF ServerType
<1>2. CASE server = <<>>
  BY <1>2 DEF LastMutationIDs
<1>3. CASE server # <<>>
  <2>1. Len(server) \in 1 .. Len(server)
    BY <1>1, <1>3, EmptySeq
  <2>2. LastMutationIDs = server[Len(server)]
    BY <1>3 DEF LastMutationIDs, Last
  <2>3. server[Len(server)] \in [Clients -> Nat]
    BY <1>1, <2>1, ElementOfSeq
  <2>4. \A v \in 1 .. Len(server) : v <= Len(server)
    BY <1>1
  <2> QED
    BY <2>1, <2>2, <2>3, <2>4 DEF ServerType
<1> QED
  BY <1>2, <1>3

LEMMA ChangesStep ==
  ASSUME ChainInv, ServerChanges
  PROVE  ChainInv' /\ Forward
<1>1. ServerType(server)
  BY DEF ChainInv, Types
<1> QED
  BY <1>1, LastState, ServerStep DEF ServerChanges

LEMMA PushStep ==
  ASSUME ChainInv, NEW c \in Clients, Push(c)
  PROVE  ChainInv' /\ Forward
<1>1. ServerType(server)
  BY DEF ChainInv, Types
<1>2. main[c] # None
  BY DEF Push, Open
<1>3. main[c].locals \in Seq(Mutation)
  BY <1>2, TabIs, CommitOf DEF Good
<1>4. PICK m \in ToSet(main[c].locals) :
             /\ m.id = LastMutationIDs[m.client] + 1
             /\ server' = Append(server, [LastMutationIDs EXCEPT ![m.client] = m.id])
  BY DEF Push
<1>5. m \in Mutation
  BY <1>3, <1>4, MutationsOf DEF ToSet
<1>6. m.client \in Clients /\ m.id \in Nat
  BY <1>5 DEF Mutation
<1> DEFINE x == [LastMutationIDs EXCEPT ![m.client] = m.id]
<1>7. LastMutationIDs \in [Clients -> Nat]
  BY <1>1, LastState
<1>8. x \in [Clients -> Nat] /\ \A d \in Clients : LastMutationIDs[d] <= x[d]
  BY <1>4, <1>6, <1>7
<1>9. server \in Seq([Clients -> Nat])
  BY <1>1 DEF ServerType
<1>10. \A v \in 1 .. Len(server) : server[v] \in [Clients -> Nat]
  BY <1>9, ElementOfSeq
<1>11. \A v \in 1 .. Len(server) : \A d \in Clients : server[v][d] <= LastMutationIDs[d]
  BY <1>1, LastState
<1> HIDE DEF x
<1>12. \A v \in 1 .. Len(server) : \A d \in Clients : server[v][d] <= x[d]
  <2> SUFFICES ASSUME NEW v \in 1 .. Len(server), NEW d \in Clients
               PROVE  server[v][d] <= x[d]
    OBVIOUS
  <2>1. server[v][d] \in Nat /\ LastMutationIDs[d] \in Nat /\ x[d] \in Nat
    BY <1>7, <1>8, <1>10
  <2> QED
    BY <1>8, <1>11, <2>1
<1>13. server' = Append(server, x)
  BY <1>4 DEF x
<1>14. UNCHANGED <<perdagVars, tabVars>>
  BY DEF Push
<1> QED
  BY <1>8, <1>12, <1>13, <1>14, ServerStep

-----------------------------------------------------------------------------
(* Pull *)

LEMMA BeginPullStep ==
  ASSUME ChainInv, NEW c \in Clients, BeginPull(c)
  PROVE  ChainInv' /\ Forward
<1>1. /\ main[c] # None /\ asked' = [asked EXCEPT ![c] = main[c].snap.cookie]
      /\ UNCHANGED <<server, records, group, main, memOnly, sync, persisting, refreshing>>
  BY DEF BeginPull, Open
<1>2. Types
  BY DEF ChainInv
<1>3. main[c].snap.cookie \in Nat
  BY <1>1, TabIs, CommitOf DEF Good
<1>4. Types'
  BY <1>1, <1>2, <1>3 DEF Types
<1>5. \A d \in Clients : main[d] = None => asked[d] = None
  BY DEF ChainInv
<1>6. ChainInv' /\ Forward
  <2>1. \A d \in Clients : main'[d] = None => asked'[d] = None
    BY <1>1, <1>2, <1>5 DEF Types
  <2>2. ChainInv'
    BY <1>1, <1>4, <2>1 DEF ChainInv
  <2>3. group.head # None => Extending(server, group.head, group.head)
    BY <1>2, ExtendingSame DEF ChainInv, Types
  <2>4. \A d \in Clients : main[d] # None => Extending(server, main[d], main[d])
    BY TabIs
  <2>5. Forward
    BY <1>1, <2>3, <2>4 DEF Forward
  <2> QED
    BY <2>2, <2>5
<1> QED
  BY <1>6

LEMMA WithLocals ==
  ASSUME NEW k, NEW x, k = [snap |-> k.snap, locals |-> k.locals]
  PROVE  [k EXCEPT !.locals = x] = [snap |-> k.snap, locals |-> x]
  OBVIOUS

LEMMA WithHead ==
  ASSUME NEW y, NEW x, y = [head |-> y.head, basis |-> y.basis]
  PROVE  [y EXCEPT !.head = x] = [head |-> x, basis |-> y.basis]
  OBVIOUS

\* Only the sync branch of a tab changes.
LEMMA SyncStep ==
  ASSUME ChainInv, NEW c \in Clients, NEW y, sync' = [sync EXCEPT ![c] = y] \/ (sync' = sync /\ y = sync[c]),
         UNCHANGED <<server, perdagVars, main, memOnly, persisting, refreshing>>,
         asked' = asked \/ asked' = [asked EXCEPT ![c] = None], main[c] # None,
         y # None => /\ SyncOK(server, group.head, c, y)
                     /\ refreshing[c].at = "gathered" =>
                          Shared(server, c, y.head.locals, refreshing[c].head)
  PROVE  ChainInv' /\ Forward
<1>1. Types
  BY DEF ChainInv
<1>2. Types' /\ sync'[c] = y /\ Others(c)
  BY <1>1 DEF Types, Others
<1>3. TabOK(server, group.head, c, main[c], sync[c], persisting[c], refreshing[c])
  BY TabIs
<1>4. ASSUME refreshing[c].at = "gathered"
      PROVE  GatheredOK(server, group.head, c, main[c], y, refreshing[c])
  <2>1. GatheredOK(server, group.head, c, main[c], sync[c], refreshing[c])
    BY <1>3, <1>4 DEF TabOK
  <2> QED
    BY <1>4, <2>1, Zenon DEF GatheredOK
<1>5. TabOK(server, group.head, c, main[c], y, persisting[c], refreshing[c])
  BY <1>3, <1>4, Zenon DEF TabOK
<1>6. /\ main'[c] = main[c] /\ persisting'[c] = persisting[c] /\ refreshing'[c] = refreshing[c]
      /\ group'.head = group.head /\ server' = server
  OBVIOUS
<1>7. TabOK(server, group'.head, c, main'[c], sync'[c], persisting'[c], refreshing'[c])
  BY <1>2, <1>5, <1>6
<1>8. Extending(server, main'[c], main[c])
  BY <1>6, TabIs
<1> QED
  BY <1>2, <1>6, <1>7, <1>8, StepOf

LEMMA ResponseStep ==
  ASSUME ChainInv, NEW c \in Clients, HandlePullResponse(c)
  PROVE  ChainInv' /\ Forward
<1> DEFINE base == main[c].snap
           s(cookie) == [cookie |-> cookie, by |-> c, base |-> SnapshotID(base)]
           y(cookie) == [head |-> [snap |-> s(cookie), locals |-> <<>>], basis |-> SnapshotID(base)]
<1>1. /\ asked[c] # None /\ asked' = [asked EXCEPT ![c] = None]
      /\ UNCHANGED <<server, perdagVars, main, memOnly, persisting, refreshing>>
  BY DEF HandlePullResponse
<1>2. PICK cookie \in asked[c] .. Len(server) :
             IF CookieMismatch(c) \/ cookie = base.cookie
             THEN UNCHANGED sync ELSE sync' = [sync EXCEPT ![c] = y(cookie)]
  BY DEF HandlePullResponse
<1>3. main[c] # None /\ Types /\ ServerType(server)
  BY <1>1, TabIs DEF ChainInv, Types
<1>4. Good(server, main[c])
  BY <1>3, TabIs
<1>5. base \in Snapshot /\ base.cookie \in Nat /\ base.by \in Clients
  BY <1>4, CommitOf DEF Good, Snapshot
<1>6. CASE CookieMismatch(c) \/ cookie = base.cookie
  <2>1. sync' = sync
    BY <1>2, <1>6
  <2>2. TabOK(server, group.head, c, main[c], sync[c], persisting[c], refreshing[c])
    BY TabIs
  <2>3. sync[c] # None => /\ SyncOK(server, group.head, c, sync[c])
                          /\ refreshing[c].at = "gathered" =>
                               Shared(server, c, sync[c].head.locals, refreshing[c].head)
    BY <2>2 DEF TabOK, GatheredOK
  <2> QED
    BY <1>1, <1>3, <2>1, <2>3, SyncStep
<1>7. CASE ~(CookieMismatch(c) \/ cookie = base.cookie)
  <2>1. sync' = [sync EXCEPT ![c] = y(cookie)]
    BY <1>2, <1>7
  <2>2. asked[c] = base.cookie /\ cookie # base.cookie
    BY <1>7 DEF CookieMismatch
  <2>3. cookie \in Nat /\ base.cookie < cookie /\ cookie <= Len(server)
    <3>1. Len(server) \in Nat
      BY <1>3, LenProperties DEF ServerType
    <3> QED
      BY <1>2, <1>5, <2>2, <3>1
  <2> DEFINE z == y(cookie)
  <2>4. SnapshotID(base) \in Hash /\ SnapshotID(base)[1] = base.cookie
    BY <1>5 DEF SnapshotID, Hash
  <2>5. s(cookie) \in Snapshot /\ s(cookie).cookie <= Len(server) /\ s(cookie).cookie = cookie
    BY <2>3, <2>4 DEF Snapshot
  <2>6. Good(server, [snap |-> s(cookie), locals |-> <<>>])
    BY <1>3, <2>5, EmptyGood
  <2>7. /\ z = [head |-> z.head, basis |-> z.basis] /\ z.head = [snap |-> s(cookie), locals |-> <<>>]
        /\ z.basis = SnapshotID(base) /\ z.head.snap.base = z.basis /\ z.head.locals = <<>>
        /\ z.head.snap.cookie = cookie
    OBVIOUS
  <2> HIDE DEF z
  <2>8. \A h : Shared(server, c, z.head.locals, h)
    BY <2>7 DEF Shared
  <2>9. SyncOK(server, group.head, c, z)
    BY <2>3, <2>4, <2>6, <2>7, <2>8 DEF SyncOK
  <2>10. sync' = [sync EXCEPT ![c] = z]
    BY <2>1 DEF z
  <2> QED
    BY <1>1, <1>3, <2>8, <2>9, <2>10, SyncStep
<1> QED
  BY <1>6, <1>7

LEMMA OverlapStep ==
  ASSUME ChainInv, NEW c \in Clients, OverlappingSyncs(c)
  PROVE  ChainInv' /\ Forward
<1>1. sync[c] # None /\ sync' = [sync EXCEPT ![c] = None]
      /\ UNCHANGED <<server, perdagVars, main, memOnly, asked, persisting, refreshing>>
  BY DEF OverlappingSyncs
<1>2. main[c] # None
  BY <1>1, TabIs
<1> QED
  BY <1>1, <1>2, SyncStep

\* A pull that is ready to end: what is pending goes on from the sync head.
LEMMA PendingIs ==
  ASSUME ChainInv, NEW c \in Clients, sync[c] # None, sync[c].basis = SnapshotID(main[c].snap)
  PROVE  /\ main[c] # None /\ SyncOK(server, group.head, c, sync[c])
         /\ main[c].snap.cookie < sync[c].head.snap.cookie
         /\ PendingReplay(c) \in Seq(Mutation)
         /\ Chained([d \in Clients |-> IDAt(server, sync[c].head, d)], PendingReplay(c))
         /\ \A d \in Clients : LastID(IDAt(server, sync[c].head, d), PendingReplay(c), d) =
              Larger(IDAt(server, main[c], d), IDAt(server, sync[c].head, d))
         /\ \A i \in 1 .. Len(PendingReplay(c)) :
              \E j \in 1 .. Len(main[c].locals) : PendingReplay(c)[i] = main[c].locals[j]
<1> DEFINE m == main[c]
           k == sync[c].head
           lim == [d \in Clients |-> IDAt(server, k, d)]
           base == AckedAt(server, m.snap)
           wanted == {x \in ToSet(m.locals) : x.id > MutationID(k, x.client)}
<1>1. m # None /\ ServerType(server)
  BY TabIs
<1>2. Good(server, m) /\ SyncOK(server, group.head, c, sync[c])
  BY <1>1, TabIs DEF TabOK
<1>3. Good(server, k) /\ sync[c].basis[1] < k.snap.cookie
  BY <1>2 DEF SyncOK
<1>4. m.snap.cookie < k.snap.cookie
  BY <1>3 DEF SnapshotID
<1>5. /\ m.snap \in Snapshot /\ k.snap \in Snapshot /\ m.locals \in Seq(Mutation)
      /\ m.snap.cookie \in Nat /\ k.snap.cookie \in Nat /\ k.snap.cookie <= Len(server)
      /\ Chained(base, m.locals)
  BY <1>2, <1>3, CommitOf DEF Good
<1>6. lim \in [Clients -> Nat] /\ base \in [Clients -> Nat]
  BY <1>1, <1>2, <1>3, GoodBounds
<1>7. \A d \in Clients : base[d] <= lim[d]
  <2>1. \A d \in Clients : base[d] <= AckedAt(server, k.snap)[d]
    BY <1>1, <1>4, <1>5, AckedGrows
  <2>2. \A d \in Clients : AckedAt(server, k.snap)[d] <= lim[d] /\ AckedAt(server, k.snap)[d] \in Nat
    BY <1>1, <1>3, GoodBounds
  <2> QED
    BY <1>6, <2>1, <2>2
<1>8. \A d \in Clients : lim[d] = Larger(base[d], lim[d])
  BY <1>6, <1>7 DEF Larger
<1>9. Beyond(m.locals, wanted, Clients, lim)
  <2> SUFFICES ASSUME NEW i \in 1 .. Len(m.locals)
               PROVE  m.locals[i] \in wanted <=>
                        m.locals[i].client \in Clients /\ m.locals[i].id > lim[m.locals[i].client]
    BY DEF Beyond
  <2>1. m.locals[i].client \in Clients /\ m.locals[i] \in ToSet(m.locals)
    BY <1>5, MutationsOf DEF ToSet
  <2> QED
    BY <2>1, MutationIDIs
<1>10. PendingReplay(c) = Picked(m.locals, wanted)
  BY DEF PendingReplay
<1>11. \A d \in Clients : lim[d] = IDAt(server, k, d)
  OBVIOUS
<1>12. \A d \in Clients : IDAt(server, m, d) = LastID(base[d], m.locals, d)
  BY DEF IDAt
<1> HIDE DEF lim, base, wanted
<1>13. PickedFrom(PendingReplay(c), m.locals, base, Clients, lim, lim)
  <2>1. Clients \in SUBSET Clients /\ m.locals \in Seq(Mutation) /\ Chained(base, m.locals)
    BY <1>5
  <2> QED
    BY <1>6, <1>8, <1>9, <1>10, <2>1, PickedChain
<1>14. \A d \in Clients : LastID(IDAt(server, k, d), PendingReplay(c), d) =
                            Larger(IDAt(server, m, d), IDAt(server, k, d))
  BY <1>11, <1>12, <1>13 DEF PickedFrom
<1>15. PendingReplay(c) \in Seq(Mutation) /\ Chained(lim, PendingReplay(c))
  BY <1>13 DEF PickedFrom
<1>16. \A i \in 1 .. Len(PendingReplay(c)) :
         \E j \in 1 .. Len(m.locals) : PendingReplay(c)[i] = m.locals[j]
  BY <1>13 DEF PickedFrom
<1> QED
  BY <1>1, <1>2, <1>4, <1>14, <1>15, <1>16 DEF lim

LEMMA ReplayStep ==
  ASSUME ChainInv, NEW c \in Clients, ReplayMutations(c)
  PROVE  ChainInv' /\ Forward
<1> DEFINE k == sync[c].head
           ms == PendingReplay(c)
           l == k.locals \o ms
           k1 == [snap |-> k.snap, locals |-> l]
           y == [head |-> k1, basis |-> sync[c].basis]
           base == AckedAt(server, k.snap)
           lim == [d \in Clients |-> IDAt(server, k, d)]
<1>1. /\ sync[c] # None /\ sync[c].basis = SnapshotID(main[c].snap)
      /\ sync' = [sync EXCEPT ![c].head.locals = @ \o PendingReplay(c)]
      /\ UNCHANGED <<server, perdagVars, main, memOnly, asked, persisting, refreshing>>
  BY DEF ReplayMutations
<1>2. Types /\ ServerType(server)
  BY DEF ChainInv, Types
<1>3. /\ main[c] # None /\ SyncOK(server, group.head, c, sync[c])
      /\ ms \in Seq(Mutation) /\ Chained(lim, ms)
      /\ \A i \in 1 .. Len(ms) : \E j \in 1 .. Len(main[c].locals) : ms[i] = main[c].locals[j]
  BY <1>1, PendingIs
<1>4. /\ sync[c] = [head |-> k, basis |-> sync[c].basis] /\ Good(server, k)
      /\ k.snap.base = sync[c].basis /\ sync[c].basis \in Hash
      /\ sync[c].basis[1] < k.snap.cookie /\ Shared(server, c, k.locals, group.head)
  BY <1>3 DEF SyncOK
<1>5. /\ k = [snap |-> k.snap, locals |-> k.locals] /\ k.locals \in Seq(Mutation) /\ k.snap \in Snapshot
      /\ k.snap.cookie <= Len(server) /\ Chained(base, k.locals)
  BY <1>4, CommitOf DEF Good
<1>6. base \in [Clients -> Nat] /\ lim \in [Clients -> Nat]
  BY <1>2, <1>4, GoodBounds
<1>7. \A d \in Clients : lim[d] = LastID(base[d], k.locals, d)
  BY DEF IDAt
<1> HIDE DEF lim, base, ms
<1>8. l \in Seq(Mutation) /\ Chained(base, l)
  BY <1>3, <1>5, <1>6, <1>7, JoinedChain
<1>9. sync' = [sync EXCEPT ![c] = y]
  <2>1. sync' = [sync EXCEPT ![c] = [sync[c] EXCEPT !.head = [k EXCEPT !.locals = l]]]
    BY <1>1 DEF ms
  <2>2. [k EXCEPT !.locals = l] = k1
    <3>1. k = [snap |-> k.snap, locals |-> k.locals]
      BY <1>5
    <3> QED
      BY <3>1, WithLocals, Zenon
  <2>3. [sync[c] EXCEPT !.head = k1] = y
    <3>1. sync[c] = [head |-> sync[c].head, basis |-> sync[c].basis]
      BY <1>4
    <3> QED
      BY <3>1, WithHead, Zenon
  <2> QED
    BY <2>1, <2>2, <2>3
<1>10. \A i \in 1 .. Len(l) : \/ \E j \in 1 .. Len(k.locals) : l[i] = k.locals[j]
                              \/ \E j \in 1 .. Len(main[c].locals) : l[i] = main[c].locals[j]
  <2>1. /\ Len(l) = Len(k.locals) + Len(ms) /\ Len(k.locals) \in Nat /\ Len(ms) \in Nat
        /\ \A i \in 1 .. Len(k.locals) + Len(ms) :
             l[i] = IF i <= Len(k.locals) THEN k.locals[i] ELSE ms[i - Len(k.locals)]
    BY <1>3, <1>5, ConcatProperties, LenProperties
  <2> HIDE DEF l
  <2> SUFFICES ASSUME NEW i \in 1 .. Len(l)
               PROVE  \/ \E j \in 1 .. Len(k.locals) : l[i] = k.locals[j]
                      \/ \E j \in 1 .. Len(main[c].locals) : l[i] = main[c].locals[j]
    OBVIOUS
  <2>2. CASE i <= Len(k.locals)
    <3>1. i \in 1 .. Len(k.locals) /\ l[i] = k.locals[i]
      BY <2>1, <2>2
    <3> QED
      BY <3>1
  <2>3. CASE ~(i <= Len(k.locals))
    <3>1. i - Len(k.locals) \in 1 .. Len(ms) /\ l[i] = ms[i - Len(k.locals)]
      BY <2>1, <2>3
    <3> QED
      BY <1>3, <3>1
  <2> QED
    BY <2>2, <2>3
<1> HIDE DEF l
<1>11. k1.snap = k.snap /\ k1.locals = l /\ k1 \in Commit
  BY <1>5, <1>8 DEF Commit
<1> HIDE DEF k1
<1>12. Good(server, k1)
  BY <1>5, <1>8, <1>11 DEF Good, base
<1>13. ASSUME NEW h, Shared(server, c, k.locals, h), Shared(server, c, main[c].locals, h)
       PROVE  Shared(server, c, l, h)
  <2>1. DOMAIN l = 1 .. Len(l) /\ DOMAIN k.locals = 1 .. Len(k.locals)
    BY <1>5, <1>8, LenProperties
  <2>2. DOMAIN main[c].locals = 1 .. Len(main[c].locals)
    <3>1. main[c].locals \in Seq(Mutation)
      BY <1>3, TabIs, CommitOf DEF Good
    <3> QED
      BY <3>1, LenProperties
  <2> SUFFICES ASSUME NEW i \in 1 .. Len(l), l[i].client # c
               PROVE  l[i].id <= IDAt(server, h, l[i].client)
    BY <2>1 DEF Shared
  <2>3. CASE \E j \in 1 .. Len(k.locals) : l[i] = k.locals[j]
    BY <1>13, <2>1, <2>3 DEF Shared
  <2>4. CASE \E j \in 1 .. Len(main[c].locals) : l[i] = main[c].locals[j]
    BY <1>13, <2>2, <2>4 DEF Shared
  <2> QED
    BY <1>10, <2>3, <2>4
<1>14. Shared(server, c, main[c].locals, group.head)
  BY <1>3, TabIs
<1>15. y.head = k1 /\ y.basis = sync[c].basis /\ y = [head |-> y.head, basis |-> y.basis]
  OBVIOUS
<1> HIDE DEF y
<1>16. SyncOK(server, group.head, c, y)
  BY <1>4, <1>11, <1>12, <1>13, <1>14, <1>15 DEF SyncOK
<1>17. ASSUME refreshing[c].at = "gathered"
       PROVE  Shared(server, c, y.head.locals, refreshing[c].head)
  <2>1. GatheredOK(server, group.head, c, main[c], sync[c], refreshing[c])
    BY <1>17, TabIs DEF TabOK
  <2> QED
    BY <1>1, <1>11, <1>13, <1>15, <2>1 DEF GatheredOK
<1> QED
  BY <1>1, <1>3, <1>9, <1>16, <1>17, SyncStep

LEMMA EndPullStep ==
  ASSUME ChainInv, NEW c \in Clients, EndPull(c)
  PROVE  ChainInv' /\ Forward
<1> DEFINE k == sync[c].head
           m == main[c]
<1>1. /\ sync[c] # None /\ sync[c].basis = SnapshotID(main[c].snap) /\ PendingReplay(c) = <<>>
      /\ main' = [main EXCEPT ![c] = k] /\ (\E x : memOnly' = [memOnly EXCEPT ![c] = x])
      /\ sync' = [sync EXCEPT ![c] = None]
      /\ UNCHANGED <<server, records, group, asked, persisting, refreshing>>
  BY DEF EndPull, SetMain
<1>2. Types /\ ServerType(server)
  BY DEF ChainInv, Types
<1>3. /\ m # None /\ SyncOK(server, group.head, c, sync[c])
      /\ m.snap.cookie < k.snap.cookie
      /\ \A d \in Clients : LastID(IDAt(server, k, d), <<>>, d) =
              Larger(IDAt(server, m, d), IDAt(server, k, d))
  BY <1>1, PendingIs
<1>4. Good(server, k) /\ Good(server, m) /\ Shared(server, c, k.locals, group.head)
      /\ group.head # None
  BY <1>3, TabIs DEF SyncOK
<1>5. k \in Commit /\ k.snap.cookie \in Nat /\ m.snap.cookie \in Nat
  BY <1>4, CommitOf DEF Good
<1>6. \A d \in Clients : IDAt(server, k, d) \in Nat /\ IDAt(server, m, d) \in Nat
  BY <1>2, <1>4, GoodBounds
<1>7. Extending(server, k, m)
  <2>1. \A d \in Clients : IDAt(server, k, d) = Larger(IDAt(server, m, d), IDAt(server, k, d))
    BY <1>3, LastOfNone
  <2>2. \A d \in Clients : IDAt(server, k, d) >= IDAt(server, m, d)
    BY <1>6, <2>1 DEF Larger
  <2> QED
    BY <1>3, <1>5, <2>2 DEF Extending
<1>8. TabOK(server, group.head, c, m, sync[c], persisting[c], refreshing[c])
  BY TabIs
<1>9. MainOK(server, group.head, c, k) /\ k # None
  BY <1>4, <1>5, NoneAssumption DEF MainOK
<1>10. ASSUME refreshing[c].at = "gathered"
       PROVE  GatheredOK(server, group.head, c, k, None, refreshing[c])
  <2>1. GatheredOK(server, group.head, c, m, sync[c], refreshing[c])
    BY <1>8, <1>10 DEF TabOK
  <2> QED
    BY <1>1, <2>1, Zenon DEF GatheredOK
<1>11. ASSUME persisting[c].at = "memdag"
       PROVE  SecondOK(server, group.head, c, k, persisting[c])
  <2>1. SecondOK(server, group.head, c, m, persisting[c])
    BY <1>8, <1>11 DEF TabOK
  <2>2. persisting[c].snap.cookie <= k.snap.cookie
    <3>1. persisting[c].snap.cookie \in Nat /\ persisting[c].snap.cookie <= m.snap.cookie
      BY <2>1 DEF SecondOK, Snapshot
    <3> QED
      BY <1>3, <1>5, <3>1
  <2> QED
    BY <2>1, <2>2, Zenon DEF SecondOK
<1>12. TabOK(server, group.head, c, k, None, persisting[c], refreshing[c])
  BY <1>5, <1>8, <1>9, <1>10, <1>11, Zenon DEF TabOK
<1>13. Types' /\ Others(c) /\ main'[c] = k /\ sync'[c] = None
  BY <1>1, <1>2 DEF Types, Others
<1>14. TabOK(server, group'.head, c, main'[c], sync'[c], persisting'[c], refreshing'[c])
  BY <1>1, <1>12, <1>13
<1> QED
  BY <1>1, <1>7, <1>9, <1>13, <1>14, StepOf

-----------------------------------------------------------------------------
(* persistDD31() *)

\* Only a phase changes.
LEMMA PhaseStep ==
  ASSUME ChainInv, NEW c \in Clients, NEW p, NEW r,
         \/ persisting' = [persisting EXCEPT ![c] = p]
         \/ persisting' = persisting /\ p = persisting[c],
         \/ refreshing' = [refreshing EXCEPT ![c] = r]
         \/ refreshing' = refreshing /\ r = refreshing[c],
         UNCHANGED <<server, group, main, sync, asked>>, DOMAIN memOnly' = Clients,
         DOMAIN records' \subseteq Clients /\ records' \in [DOMAIN records' -> RecordType],
         TabOK(server, group.head, c, main[c], sync[c], p, r)
  PROVE  ChainInv' /\ Forward
<1>1. Types
  BY DEF ChainInv
<1>2. Types' /\ persisting'[c] = p /\ refreshing'[c] = r /\ Others(c)
  BY <1>1 DEF Types, Others
<1>3. TabOK(server, group'.head, c, main'[c], sync'[c], persisting'[c], refreshing'[c])
  BY <1>2
<1>4. main[c] # None => Extending(server, main[c], main[c])
  BY TabIs
<1>5. main[c] = None => asked[c] = None
  BY TabIs
<1> QED
  BY <1>2, <1>3, <1>4, <1>5, StepOf

LEMMA ReadPerdagStep ==
  ASSUME ChainInv, NEW c \in Clients, PersistReadPerdag(c)
  PROVE  ChainInv' /\ Forward
<1> DEFINE p == [at |-> "perdag", lmid |-> MutationID(group.head, c),
                 cookie |-> group.head.snap.cookie]
           h == group.head
<1>1. /\ main[c] # None
      /\ UNCHANGED <<server, records, group, main, memOnly, sync, asked, refreshing>>
      /\ \/ persisting' = [persisting EXCEPT ![c] = p]
         \/ persisting' = [persisting EXCEPT ![c] = Idle]
  BY DEF PersistReadPerdag, PersistPhase, Open
<1>2. Types /\ ServerType(server)
  BY DEF ChainInv, Types
<1>3. /\ TabOK(server, h, c, main[c], sync[c], persisting[c], refreshing[c])
      /\ h # None /\ Good(server, h)
  BY <1>1, TabIs
<1>4. p.lmid = IDAt(server, h, c) /\ IDAt(server, h, c) \in Nat /\ h.snap.cookie \in Nat
  BY <1>2, <1>3, GoodBounds, CommitOf, MutationIDIs DEF Good
<1>5. FirstOK(server, h, c, p) /\ p.at = "perdag"
  BY <1>4 DEF FirstOK
<1> HIDE DEF p
<1>6. TabOK(server, h, c, main[c], sync[c], p, refreshing[c])
  BY <1>1, <1>3, <1>5 DEF TabOK
<1>7. TabOK(server, h, c, main[c], sync[c], Idle, refreshing[c])
  BY <1>1, <1>3 DEF TabOK, Idle
<1>8. /\ DOMAIN memOnly' = Clients
      /\ DOMAIN records' \subseteq Clients /\ records' \in [DOMAIN records' -> RecordType]
  BY <1>1, <1>2 DEF Types
<1> QED
  BY <1>1, <1>6, <1>7, <1>8, PhaseStep

\* A client's own mutations beyond an ID.
LEMMA OwnIs ==
  ASSUME ServerType(server), NEW c \in Clients, NEW m, Good(server, m), NEW limit \in Nat,
         NEW start \in [Clients -> Nat],
         start[c] = Larger(AckedAt(server, m.snap)[c], limit)
  PROVE  PickedFrom(OwnGreaterThan(m, c, limit), m.locals, AckedAt(server, m.snap), {c},
                    [d \in Clients |-> limit], start)
<1> DEFINE base == AckedAt(server, m.snap)
           lim == [d \in Clients |-> limit]
           wanted == {x \in ToSet(m.locals) : x.client = c /\ x.id > limit}
<1>1. m.locals \in Seq(Mutation) /\ Chained(base, m.locals)
  BY CommitOf DEF Good
<1>2. base \in [Clients -> Nat] /\ lim \in [Clients -> Nat]
  BY GoodBounds
<1>3. {c} \in SUBSET Clients /\ \A d \in {c} : start[d] = Larger(base[d], lim[d])
  OBVIOUS
<1>4. Beyond(m.locals, wanted, {c}, lim)
  <2> SUFFICES ASSUME NEW i \in 1 .. Len(m.locals)
               PROVE  m.locals[i] \in wanted <=>
                        m.locals[i].client \in {c} /\ m.locals[i].id > lim[m.locals[i].client]
    BY DEF Beyond
  <2>1. m.locals[i].client \in Clients /\ m.locals[i] \in ToSet(m.locals)
    BY <1>1, MutationsOf DEF ToSet
  <2> QED
    BY <2>1
<1>5. OwnGreaterThan(m, c, limit) = Picked(m.locals, wanted)
  BY DEF OwnGreaterThan
<1> HIDE DEF base, lim, wanted
<1>6. PickedFrom(Picked(m.locals, wanted), m.locals, base, {c}, lim, start)
  BY <1>1, <1>2, <1>3, <1>4, PickedChain
<1> QED
  BY <1>5, <1>6 DEF base, lim

LEMMA ReadMemdagStep ==
  ASSUME ChainInv, NEW c \in Clients, PersistReadMemdag(c)
  PROVE  ChainInv' /\ Forward
<1> DEFINE m == main[c]
           old == persisting[c]
           own == OwnGreaterThan(m, c, old.lmid)
           p == [at |-> "memdag", mutations |-> own, snap |-> m.snap,
                 newer |-> m.snap.cookie > old.cookie,
                 chunks |-> memOnly[c] \cap SnapshotChunks(m.snap)]
           h == group.head
           base == AckedAt(server, m.snap)
           n == Larger(base[c], old.lmid)
           start == StartsAt(c, n)
<1>1. /\ old.at = "perdag" /\ persisting' = [persisting EXCEPT ![c] = p]
      /\ UNCHANGED <<server, records, group, main, memOnly, sync, asked, refreshing>>
  BY DEF PersistReadMemdag, PersistPhase
<1>2. Types /\ ServerType(server)
  BY DEF ChainInv, Types
<1>3. /\ TabOK(server, h, c, m, sync[c], old, refreshing[c])
      /\ m # None /\ h # None /\ Good(server, h) /\ Good(server, m)
  BY <1>1, TabIs
<1>4. /\ old.lmid \in Nat /\ old.lmid <= IDAt(server, h, c)
      /\ old.cookie \in Nat /\ old.cookie <= h.snap.cookie
  BY <1>1, <1>3 DEF TabOK, FirstOK
<1>5. base \in [Clients -> Nat] /\ IDAt(server, h, c) \in Nat
  BY <1>2, <1>3, GoodBounds
<1>6. n \in Nat /\ start \in [Clients -> Nat] /\ start[c] = n
  BY <1>4, <1>5, LargerIs DEF StartsAt
<1>7. PickedFrom(own, m.locals, base, {c}, [d \in Clients |-> old.lmid], start)
  BY <1>2, <1>3, <1>4, <1>6, OwnIs
<1>8. own \in Seq(Mutation) /\ Chained(start, own) /\ OnlyOf(c, own)
  <2>1. own \in Seq(Mutation) /\ Chained(start, own) /\ \A i \in 1 .. Len(own) : own[i].client = c
    BY <1>7 DEF PickedFrom
  <2>2. DOMAIN own = 1 .. Len(own)
    BY <2>1, LenProperties
  <2> QED
    BY <2>1, <2>2 DEF OnlyOf
<1>9. n \in 0 .. Larger(IDAt(server, h, c), base[c])
  BY <1>4, <1>5, <1>6 DEF Larger
<1>10. m.snap \in Snapshot /\ m.snap.cookie \in Nat /\ h.snap.cookie \in Nat
  BY <1>3, CommitOf DEF Good
<1>11. /\ p.at = "memdag" /\ p.mutations = own /\ p.snap = m.snap
       /\ p.newer \in BOOLEAN /\ (~p.newer => m.snap.cookie <= old.cookie)
  <2>1. p.at = "memdag" /\ p.mutations = own /\ p.snap = m.snap
    OBVIOUS
  <2>2. p.newer = (m.snap.cookie > old.cookie)
    OBVIOUS
  <2>3. (m.snap.cookie > old.cookie) \in BOOLEAN
    OBVIOUS
  <2>4. p.newer \in BOOLEAN
    BY <2>2, <2>3, Zenon
  <2>5. ~p.newer => ~(m.snap.cookie > old.cookie)
    BY <2>2, Zenon
  <2>6. ~(m.snap.cookie > old.cookie) => m.snap.cookie <= old.cookie
    BY <1>4, <1>10
  <2> HIDE DEF p
  <2> QED
    BY <2>1, <2>4, <2>5, <2>6, Zenon
<1> HIDE DEF p, n
<1>12. SecondOK(server, h, c, m, p)
  BY <1>4, <1>8, <1>9, <1>10, <1>11 DEF SecondOK
<1>13. TabOK(server, h, c, m, sync[c], p, refreshing[c])
  BY <1>3, <1>11, <1>12 DEF TabOK
<1>14. /\ DOMAIN memOnly' = Clients
       /\ DOMAIN records' \subseteq Clients /\ records' \in [DOMAIN records' -> RecordType]
  BY <1>1, <1>2 DEF Types
<1> QED
  BY <1>1, <1>13, <1>14, PhaseStep

\* The head that a persist writes contains all that the group had.
LEMMA PersistedIs ==
  ASSUME ChainInv, NEW c \in Clients, persisting[c].at = "memdag"
  PROVE  /\ Good(server, PersistedHead(persisting[c])) /\ group.head # None
         /\ Extending(server, PersistedHead(persisting[c]), group.head)
         /\ PersistedHead(persisting[c]).snap =
              IF PersistSnapshot(persisting[c]) THEN persisting[c].snap ELSE group.head.snap
<1> DEFINE p == persisting[c]
           h == group.head
           A == AckedAt(server, p.snap)
<1>1. ServerType(server)
  BY DEF ChainInv, Types
<1>2. /\ SecondOK(server, h, c, main[c], p) /\ h # None /\ Good(server, h) /\ Good(server, main[c])
  BY TabIs DEF TabOK
<1>3. p.snap \in Snapshot /\ p.mutations \in Seq(Mutation)
  BY <1>2 DEF SecondOK
<1>4. /\ p.snap.cookie \in Nat /\ p.snap.cookie <= Len(server) /\ Len(server) \in Nat
      /\ h.snap.cookie \in Nat /\ h.snap.cookie <= Len(server) /\ h.snap \in Snapshot
      /\ h.locals \in Seq(Mutation)
  <2>1. /\ main[c].snap.cookie \in Nat /\ main[c].snap.cookie <= Len(server) /\ Len(server) \in Nat
        /\ p.snap.cookie <= main[c].snap.cookie
    BY <1>1, <1>2, CommitOf, LenProperties DEF Good, SecondOK, ServerType
  <2> QED
    BY <1>2, <1>3, <2>1, CommitOf DEF Good, Snapshot
<1>5. A \in [Clients -> Nat] /\ AckedAt(server, h.snap) \in [Clients -> Nat]
  BY <1>1, <1>3, <1>4, AckedIs
<1>6. \A d \in Clients : /\ IDAt(server, h, d) \in Nat
                         /\ AckedAt(server, h.snap)[d] <= IDAt(server, h, d)
  BY <1>1, <1>2, GoodBounds
<1>7. /\ Good(server, Basis(p)) /\ Basis(p).snap = IF PersistSnapshot(p) THEN p.snap ELSE h.snap
      /\ \A d \in Clients : /\ IDAt(server, Basis(p), d) \in Nat
                            /\ IDAt(server, h, d) <= IDAt(server, Basis(p), d)
                            /\ A[d] <= IDAt(server, Basis(p), d)
  <2>1. CASE PersistSnapshot(p)
    <3> DEFINE bare == [snap |-> p.snap, locals |-> <<>>]
               base == AckedAt(server, h.snap)
    <3>1. Good(server, bare) /\ \A d \in Clients : IDAt(server, bare, d) = A[d]
      BY <1>1, <1>3, <1>4, EmptyGood
    <3>2. h.snap.cookie <= p.snap.cookie
      BY <1>4, <2>1 DEF PersistSnapshot
    <3>3. \A d \in Clients : base[d] <= IDAt(server, bare, d)
      BY <1>1, <1>3, <1>4, <3>1, <3>2, AckedGrows
    <3>4. base \in [Clients -> Nat] /\ Chained(base, h.locals)
      BY <1>2, <1>5 DEF Good
    <3>5. bare.snap = p.snap
      OBVIOUS
    <3> HIDE DEF bare, base
    <3>6. /\ Good(server, Rebase(h.locals, bare)) /\ Rebase(h.locals, bare).snap = bare.snap
          /\ \A d \in Clients : IDAt(server, Rebase(h.locals, bare), d) =
                                  Larger(IDAt(server, bare, d), LastID(base[d], h.locals, d))
      BY <1>1, <1>4, <3>1, <3>3, <3>4, RebaseChain
    <3>7. Basis(p) = Rebase(h.locals, bare)
      BY <2>1 DEF Basis, bare
    <3>8. \A d \in Clients : IDAt(server, Basis(p), d) = Larger(A[d], IDAt(server, h, d))
      BY <3>1, <3>6, <3>7 DEF IDAt, base
    <3>9. \A d \in Clients : /\ IDAt(server, Basis(p), d) \in Nat
                            /\ IDAt(server, h, d) <= IDAt(server, Basis(p), d)
                            /\ A[d] <= IDAt(server, Basis(p), d)
      BY <1>5, <1>6, <3>8 DEF Larger
    <3> QED
      BY <2>1, <3>5, <3>6, <3>7, <3>9
  <2>2. CASE ~PersistSnapshot(p)
    <3>1. Basis(p) = h
      BY <2>2 DEF Basis
    <3>2. p.snap.cookie <= h.snap.cookie
      BY <1>2, <1>4, <2>2 DEF PersistSnapshot, SecondOK
    <3>3. \A d \in Clients : A[d] <= AckedAt(server, h.snap)[d]
      BY <1>1, <1>3, <1>4, <3>2, AckedGrows
    <3>4. \A d \in Clients : A[d] <= IDAt(server, h, d)
      BY <1>5, <1>6, <3>3
    <3> QED
      BY <1>2, <1>6, <2>2, <3>1, <3>4
  <2> QED
    BY <2>1, <2>2
<1>8. PICK n \in 0 .. Larger(IDAt(server, h, c), A[c]) : Chained(StartsAt(c, n), p.mutations)
  BY <1>2 DEF SecondOK
<1> DEFINE b == StartsAt(c, n)
<1>9. n \in Nat /\ b \in [Clients -> Nat] /\ \A d \in Clients : b[d] <= IDAt(server, Basis(p), d)
  <2>1. n \in Nat /\ n <= IDAt(server, Basis(p), c)
    BY <1>5, <1>6, <1>7, <1>8 DEF Larger
  <2> QED
    BY <1>7, <2>1 DEF StartsAt
<1> HIDE DEF b
<1>10. /\ Good(server, Rebase(p.mutations, Basis(p)))
       /\ Rebase(p.mutations, Basis(p)).snap = Basis(p).snap
       /\ \A d \in Clients : IDAt(server, Rebase(p.mutations, Basis(p)), d) =
                               Larger(IDAt(server, Basis(p), d), LastID(b[d], p.mutations, d))
  BY <1>1, <1>3, <1>7, <1>8, <1>9, RebaseChain DEF b
<1>11. PersistedHead(p) = Rebase(p.mutations, Basis(p))
  BY DEF PersistedHead
<1>12. \A d \in Clients : IDAt(server, PersistedHead(p), d) >= IDAt(server, h, d)
  <2>1. \A d \in Clients : LastID(b[d], p.mutations, d) \in Nat
    BY <1>3, <1>9, LastType
  <2> QED
    BY <1>6, <1>7, <1>10, <1>11, <2>1 DEF Larger
<1>13. PersistedHead(p).snap.cookie >= h.snap.cookie
  BY <1>4, <1>7, <1>10, <1>11 DEF PersistSnapshot
<1> QED
  BY <1>2, <1>7, <1>10, <1>11, <1>12, <1>13 DEF Extending

LEMMA WriteStep ==
  ASSUME ChainInv, NEW c \in Clients, PersistWrite(c)
  PROVE  ChainInv' /\ Forward
<1> DEFINE p == persisting[c]
           head == PersistedHead(p)
           g == [head |-> head, mutationIDs |-> PersistedIDs(p)]
           written == [at |-> "written", chunks |-> p.chunks]
<1>1. /\ p.at = "memdag" /\ UNCHANGED <<server, main, memOnly, sync, asked, refreshing>>
      /\ \/ UNCHANGED perdagVars /\ persisting' = [persisting EXCEPT ![c] = Idle]
         \/ /\ records' = [records EXCEPT ![c].persistHash = {p.snap}] /\ group' = g
            /\ persisting' = [persisting EXCEPT ![c] = written]
            /\ p.newer /\ Registered(c)
         \/ /\ records' = records /\ group' = g
            /\ persisting' = [persisting EXCEPT ![c] = Idle]
  BY DEF PersistWrite, PerdagWrite, OnPersist, PersistPhase, PersistSnapshot
<1>2. Types /\ ServerType(server)
  BY DEF ChainInv, Types
<1>3. /\ TabOK(server, group.head, c, main[c], sync[c], p, refreshing[c])
      /\ main[c] # None /\ Good(server, group.head) /\ Extending(server, main[c], main[c])
  BY <1>1, TabIs
<1>4. /\ Good(server, head) /\ Extending(server, head, group.head) /\ group.head # None
  BY <1>1, PersistedIs
<1>5. head # None
  BY <1>4, NoneAssumption DEF Good
<1>6. TabOK(server, head, c, main[c], sync[c], p, refreshing[c])
  BY <1>2, <1>3, <1>4, <1>5, HeadMoves
<1>7. \A h, q : TabOK(server, h, c, main[c], sync[c], p, refreshing[c]) /\ q.at \in {"idle", "written"} =>
                  TabOK(server, h, c, main[c], sync[c], q, refreshing[c])
  BY <1>3 DEF TabOK
<1>8. written.at = "written" /\ Idle.at = "idle" /\ g.head = head
      /\ g = [head |-> g.head, mutationIDs |-> g.mutationIDs]
  BY DEF Idle
<1> HIDE DEF head, g, written
<1>9. CASE UNCHANGED perdagVars /\ persisting' = [persisting EXCEPT ![c] = Idle]
  <2>1. /\ DOMAIN memOnly' = Clients
        /\ DOMAIN records' \subseteq Clients /\ records' \in [DOMAIN records' -> RecordType]
    BY <1>1, <1>2, <1>9 DEF Types
  <2>2. TabOK(server, group.head, c, main[c], sync[c], Idle, refreshing[c])
    BY <1>3, <1>7, <1>8
  <2> QED
    BY <1>1, <1>9, <2>1, <2>2, PhaseStep
<1>10. ASSUME NEW q, q = written \/ q = Idle, group' = g, persisting' = [persisting EXCEPT ![c] = q],
              DOMAIN records' \subseteq Clients, records' \in [DOMAIN records' -> RecordType]
       PROVE  ChainInv' /\ Forward
  <2>1. Types' /\ persisting'[c] = q /\ Others(c)
    BY <1>1, <1>2, <1>8, <1>10 DEF Types, Others
  <2>2. TabOK(server, head, c, main[c], sync[c], q, refreshing[c])
    BY <1>6, <1>7, <1>8, <1>10
  <2>3. TabOK(server, group'.head, c, main'[c], sync'[c], persisting'[c], refreshing'[c])
    BY <1>1, <1>8, <1>10, <2>1, <2>2
  <2> QED
    BY <1>1, <1>3, <1>4, <1>5, <1>8, <1>10, <2>1, <2>3, StepOf
<1>11. CASE /\ records' = [records EXCEPT ![c].persistHash = {p.snap}] /\ group' = g
            /\ persisting' = [persisting EXCEPT ![c] = written]
            /\ p.newer /\ Registered(c)
  <2>1. p.snap \in Snapshot
    BY <1>1, <1>3 DEF TabOK, SecondOK
  <2>2. records[c] \in RecordType
    BY <1>2, <1>11 DEF Types, Registered
  <2>3. [records[c] EXCEPT !.persistHash = {p.snap}] \in RecordType
    BY <2>1, <2>2 DEF RecordType
  <2>4. records' \in [DOMAIN records -> RecordType] /\ DOMAIN records' = DOMAIN records
    BY <1>2, <1>11, <2>3 DEF Types
  <2>5. DOMAIN records' \subseteq Clients
    BY <1>2, <2>4 DEF Types
  <2> QED
    BY <1>10, <1>11, <2>4, <2>5
<1>12. CASE /\ records' = records /\ group' = g
            /\ persisting' = [persisting EXCEPT ![c] = Idle]
  BY <1>2, <1>10, <1>12 DEF Types
<1> QED
  BY <1>1, <1>9, <1>11, <1>12

LEMMA PersistedStep ==
  ASSUME ChainInv, NEW c \in Clients, ChunksPersisted(c)
  PROVE  ChainInv' /\ Forward
<1>1. /\ persisting[c].at = "written" /\ persisting' = [persisting EXCEPT ![c] = Idle]
      /\ memOnly' = [memOnly EXCEPT ![c] = @ \ persisting[c].chunks]
      /\ UNCHANGED <<server, records, group, main, sync, asked, refreshing>>
  BY DEF ChunksPersisted, OnPersist, PersistPhase
<1>2. Types
  BY DEF ChainInv
<1>3. TabOK(server, group.head, c, main[c], sync[c], persisting[c], refreshing[c]) /\ main[c] # None
  BY <1>1, TabIs
<1>4. TabOK(server, group.head, c, main[c], sync[c], Idle, refreshing[c])
  BY <1>3 DEF TabOK, Idle
<1>5. /\ DOMAIN memOnly' = Clients
      /\ DOMAIN records' \subseteq Clients /\ records' \in [DOMAIN records' -> RecordType]
  BY <1>1, <1>2 DEF Types
<1> QED
  BY <1>1, <1>4, <1>5, PhaseStep

-----------------------------------------------------------------------------
(* refresh() *)

LEMMA RefreshBaseStep ==
  ASSUME ChainInv, NEW c \in Clients, RefreshReadMemdag(c)
  PROVE  ChainInv' /\ Forward
<1> DEFINE r == [at |-> "base", cookie |-> main[c].snap.cookie]
<1>1. /\ main[c] # None /\ refreshing' = [refreshing EXCEPT ![c] = r]
      /\ UNCHANGED <<server, records, group, main, memOnly, sync, asked, persisting>>
  BY DEF RefreshReadMemdag, RefreshPhase, Open
<1>2. Types
  BY DEF ChainInv
<1>3. TabOK(server, group.head, c, main[c], sync[c], persisting[c], refreshing[c])
  BY TabIs
<1>4. r.at = "base"
  OBVIOUS
<1> HIDE DEF r
<1>5. TabOK(server, group.head, c, main[c], sync[c], persisting[c], r)
  BY <1>1, <1>3, <1>4 DEF TabOK
<1>6. /\ DOMAIN memOnly' = Clients
      /\ DOMAIN records' \subseteq Clients /\ records' \in [DOMAIN records' -> RecordType]
  BY <1>1, <1>2 DEF Types
<1> QED
  BY <1>1, <1>5, <1>6, PhaseStep

\* A client's record gets other refreshHashes.
LEMMA RefreshHashesSet ==
  ASSUME Types, NEW c, c \in DOMAIN records, NEW hashes \in SUBSET Commit,
         records' = [records EXCEPT ![c].refreshHashes = hashes]
  PROVE  DOMAIN records' \subseteq Clients /\ records' \in [DOMAIN records' -> RecordType]
<1>1. records[c] \in RecordType
  BY DEF Types
<1>2. [records[c] EXCEPT !.refreshHashes = hashes] \in RecordType
  BY <1>1 DEF RecordType
<1>3. records' \in [DOMAIN records -> RecordType] /\ DOMAIN records' = DOMAIN records
  BY <1>2 DEF Types
<1> QED
  BY <1>3 DEF Types

LEMMA RefreshHeadStep ==
  ASSUME ChainInv, NEW c \in Clients, RefreshReadPerdag(c)
  PROVE  ChainInv' /\ Forward
<1> DEFINE h == group.head
           r == [at |-> "gathered", head |-> h, lmid |-> MutationID(h, c),
                 revert |-> records[c].refreshHashes]
<1>1. /\ refreshing[c].at = "base"
      /\ UNCHANGED <<server, group, main, memOnly, sync, asked, persisting>>
      /\ \/ UNCHANGED perdagVars /\ refreshing' = [refreshing EXCEPT ![c] = Idle]
         \/ /\ Registered(c) /\ records' = [records EXCEPT ![c].refreshHashes = Retain(c)]
            /\ refreshing' = [refreshing EXCEPT ![c] = r]
  BY DEF RefreshReadPerdag, RefreshPhase, PerdagWrite
<1>2. Types /\ ServerType(server)
  BY DEF ChainInv, Types
<1>3. /\ TabOK(server, h, c, main[c], sync[c], persisting[c], refreshing[c])
      /\ main[c] # None /\ h # None /\ Good(server, h) /\ Shared(server, c, main[c].locals, h)
  BY <1>1, TabIs
<1>4. DOMAIN memOnly' = Clients
  BY <1>1, <1>2 DEF Types
<1>5. CASE UNCHANGED perdagVars /\ refreshing' = [refreshing EXCEPT ![c] = Idle]
  <2>1. TabOK(server, h, c, main[c], sync[c], persisting[c], Idle)
    BY <1>3 DEF TabOK, Idle
  <2>2. DOMAIN records' \subseteq Clients /\ records' \in [DOMAIN records' -> RecordType]
    BY <1>2, <1>5 DEF Types
  <2> QED
    BY <1>1, <1>4, <1>5, <2>1, <2>2, PhaseStep
<1>6. CASE /\ Registered(c) /\ records' = [records EXCEPT ![c].refreshHashes = Retain(c)]
           /\ refreshing' = [refreshing EXCEPT ![c] = r]
  <2>1. records[c].refreshHashes \in SUBSET Commit /\ Retain(c) \in SUBSET Commit
    <3>1. records[c] \in RecordType
      BY <1>2, <1>6 DEF Types, Registered
    <3>2. records[c].refreshHashes \in SUBSET Commit
      BY <3>1 DEF RecordType
    <3> QED
      BY <1>3, <3>2 DEF Retain, Good
  <2>2. /\ r.at = "gathered" /\ r.head = h /\ r.lmid = IDAt(server, h, c)
        /\ r.revert = records[c].refreshHashes
    BY MutationIDIs
  <2> HIDE DEF r
  <2>3. Extending(server, h, h)
    BY <1>2, <1>3, ExtendingSame
  <2>4. sync[c] # None => Shared(server, c, sync[c].head.locals, h)
    BY <1>3 DEF TabOK, SyncOK
  <2>5. GatheredOK(server, h, c, main[c], sync[c], r)
    BY <1>3, <2>1, <2>2, <2>3, <2>4 DEF GatheredOK
  <2>6. TabOK(server, h, c, main[c], sync[c], persisting[c], r)
    BY <1>3, <2>2, <2>5 DEF TabOK
  <2>7. DOMAIN records' \subseteq Clients /\ records' \in [DOMAIN records' -> RecordType]
    BY <1>2, <1>6, <2>1, RefreshHashesSet DEF Registered
  <2> QED
    BY <1>1, <1>4, <1>6, <2>6, <2>7, PhaseStep
<1> QED
  BY <1>1, <1>5, <1>6

\* What a tab has of other clients comes with the head.
LEMMA SharedLast ==
  ASSUME NEW sv, ServerType(sv), NEW m, NEW head, Good(sv, m), Good(sv, head),
         m.snap.cookie <= head.snap.cookie, NEW c, Shared(sv, c, m.locals, head),
         NEW d \in Clients, d # c
  PROVE  IDAt(sv, m, d) <= IDAt(sv, head, d)
<1>1. m.locals \in Seq(Mutation) /\ m.snap \in Snapshot /\ head.snap \in Snapshot
      /\ head.snap.cookie <= Len(sv)
  BY CommitOf DEF Good
<1>2. CASE \A i \in 1 .. Len(m.locals) : m.locals[i].client # d
  <2>1. IDAt(sv, m, d) = AckedAt(sv, m.snap)[d]
    BY <1>1, <1>2, LastIs DEF IDAt
  <2>2. AckedAt(sv, m.snap)[d] <= AckedAt(sv, head.snap)[d]
    BY <1>1, AckedGrows
  <2>3. AckedAt(sv, head.snap)[d] <= IDAt(sv, head, d) /\ IDAt(sv, head, d) \in Nat
        /\ AckedAt(sv, head.snap)[d] \in Nat /\ AckedAt(sv, m.snap)[d] \in Nat
    BY GoodBounds
  <2> QED
    BY <2>1, <2>2, <2>3
<1>3. CASE \E i \in 1 .. Len(m.locals) : m.locals[i].client = d
  <2>1. PICK i \in 1 .. Len(m.locals) :
               m.locals[i].client = d /\ LastID(AckedAt(sv, m.snap)[d], m.locals, d) = m.locals[i].id
    BY <1>1, <1>3, LastIs
  <2>2. i \in DOMAIN m.locals
    BY <1>1, LenProperties
  <2> QED
    BY <2>1, <2>2 DEF Shared, IDAt
<1> QED
  BY <1>2, <1>3

\* A chain that is continued, and the two together.
Continued(start, base, l) == \A d \in Clients : start[d] = LastID(base[d], l, d)
Joined(l, l1, base, start) ==
  /\ l \in Seq(Mutation) /\ Chained(base, l)
  /\ \A d \in Clients : LastID(base[d], l, d) = LastID(start[d], l1, d)

LEMMA JoinedIs ==
  ASSUME NEW l1 \in Seq(Mutation), NEW l2 \in Seq(Mutation),
         NEW base \in [Clients -> Nat], NEW start \in [Clients -> Nat],
         Chained(base, l1), Chained(start, l2), Continued(start, base, l1)
  PROVE  Joined(l1 \o l2, l2, base, start)
<1>1. \A d \in Clients : start[d] = LastID(base[d], l1, d)
  BY DEF Continued
<1> QED
  BY <1>1, JoinedChain DEF Joined

\* The head that a refresh sets contains what the tab had.
LEMMA RefreshedIs ==
  ASSUME ServerType(server), NEW c \in Clients, NEW m, NEW head, NEW h, NEW lmid, NEW own,
         Good(server, m), Good(server, head), Good(server, h), Extending(server, h, head),
         Shared(server, c, m.locals, head), m.snap.cookie <= head.snap.cookie,
         lmid = IDAt(server, head, c), own = OwnGreaterThan(m, c, lmid)
  PROVE  LET k == [snap |-> head.snap, locals |-> head.locals \o own]
         IN  Good(server, k) /\ Extending(server, k, m) /\ Shared(server, c, k.locals, h)
<1> DEFINE k == [snap |-> head.snap, locals |-> head.locals \o own]
           base == AckedAt(server, m.snap)
           A == AckedAt(server, head.snap)
           start == [d \in Clients |-> IDAt(server, head, d)]
           lim == [d \in Clients |-> lmid]
<1>1. k.snap = head.snap /\ k.locals = head.locals \o own /\ k = [snap |-> k.snap, locals |-> k.locals]
  OBVIOUS
<1> HIDE DEF k
<1>3. /\ base \in [Clients -> Nat] /\ A \in [Clients -> Nat] /\ start \in [Clients -> Nat]
      /\ \A d \in Clients : A[d] <= start[d]
  BY GoodBounds
<1>4. /\ m.snap \in Snapshot /\ head.snap \in Snapshot /\ head.snap.cookie <= Len(server)
      /\ head.locals \in Seq(Mutation) /\ Chained(A, head.locals) /\ m.locals \in Seq(Mutation)
  BY CommitOf DEF Good
<1>5. base[c] <= A[c]
  BY <1>4, AckedGrows
<1>6. start[c] = Larger(base[c], lmid) /\ lmid \in Nat
  BY <1>3, <1>5 DEF Larger
<1>7. PickedFrom(own, m.locals, base, {c}, lim, start)
  BY <1>3, <1>6, OwnIs
<1>8. /\ own \in Seq(Mutation) /\ Chained(start, own)
      /\ \A d \in Clients : LastID(start[d], own, d) =
           IF d \in {c} THEN Larger(LastID(base[d], m.locals, d), lim[d]) ELSE start[d]
      /\ \A i \in 1 .. Len(own) : own[i].client = c
  BY <1>7 DEF PickedFrom
<1>9. \A d \in Clients : start[d] = LastID(A[d], head.locals, d)
  BY DEF IDAt
<1>11. \A d \in Clients : start[d] = IDAt(server, head, d)
  OBVIOUS
<1>12. LastID(base[c], m.locals, c) = IDAt(server, m, c) /\ lim[c] = lmid
  BY DEF IDAt
<1> HIDE DEF start, lim, base, A
<1>13. /\ k.locals \in Seq(Mutation) /\ Chained(A, k.locals)
       /\ \A d \in Clients : LastID(A[d], k.locals, d) = LastID(start[d], own, d)
  <2>1. own \in Seq(Mutation) /\ Chained(start, own)
    BY <1>8
  <2>2. head.locals \in Seq(Mutation) /\ Chained(A, head.locals)
    BY <1>4
  <2>3. A \in [Clients -> Nat] /\ start \in [Clients -> Nat]
    BY <1>3
  <2>4. Continued(start, A, head.locals)
    BY <1>9 DEF Continued
  <2>5. Joined(head.locals \o own, own, A, start)
    BY <2>1, <2>2, <2>3, <2>4, JoinedIs
  <2> QED
    BY <1>1, <2>5 DEF Joined
<1>14. k \in Commit
  <2>1. k = [snap |-> k.snap, locals |-> k.locals]
    BY <1>1
  <2>2. k.snap \in Snapshot /\ k.locals \in Seq(Mutation)
    BY <1>4, <1>1, <1>13
  <2> QED
    BY <2>1, <2>2 DEF Commit
<1>15. Good(server, k)
  BY <1>4, <1>1, <1>13, <1>14 DEF Good, A
<1>16. \A d \in Clients : IDAt(server, k, d) = LastID(start[d], own, d)
  BY <1>1, <1>13 DEF IDAt, A
<1>17. \A d \in Clients : IDAt(server, m, d) \in Nat
  BY GoodBounds
<1>18. Extending(server, k, m)
  <2>1. ASSUME NEW d \in Clients
        PROVE  IDAt(server, k, d) >= IDAt(server, m, d)
    <3>1. CASE d = c
      <4>1. IDAt(server, k, c) = Larger(IDAt(server, m, c), lmid)
        BY <1>8, <1>12, <1>16
      <4> QED
        BY <1>6, <1>17, <3>1, <4>1, LargerIs
    <3>2. CASE d # c
      <4>1. IDAt(server, k, d) = IDAt(server, head, d)
        BY <1>8, <1>11, <1>16, <3>2
      <4>2. IDAt(server, m, d) <= IDAt(server, head, d)
        BY <3>2, SharedLast
      <4> QED
        BY <1>3, <1>11, <1>17, <4>1, <4>2
    <3> QED
      BY <3>1, <3>2
  <2>2. k.snap.cookie >= m.snap.cookie
    <3>1. k.snap.cookie = head.snap.cookie /\ m.snap.cookie \in Nat /\ head.snap.cookie \in Nat
      BY <1>4, <1>1 DEF Snapshot
    <3> QED
      BY <3>1
  <2> QED
    BY <2>1, <2>2 DEF Extending
<1>19. Shared(server, c, k.locals, h)
  <2>1. DOMAIN k.locals = 1 .. Len(k.locals)
    BY <1>13, LenProperties
  <2>2. /\ Len(k.locals) = Len(head.locals) + Len(own) /\ Len(head.locals) \in Nat /\ Len(own) \in Nat
        /\ \A i \in 1 .. Len(head.locals) + Len(own) :
             k.locals[i] = IF i <= Len(head.locals) THEN head.locals[i]
                           ELSE own[i - Len(head.locals)]
    BY <1>4, <1>8, <1>1, ConcatProperties, LenProperties
  <2> SUFFICES ASSUME NEW i \in 1 .. Len(k.locals), k.locals[i].client # c
               PROVE  k.locals[i].id <= IDAt(server, h, k.locals[i].client)
    BY <2>1 DEF Shared
  <2>3. CASE i <= Len(head.locals)
    <3>1. i \in 1 .. Len(head.locals) /\ k.locals[i] = head.locals[i]
      BY <2>2, <2>3
    <3>2. /\ head.locals[i].client \in Clients /\ head.locals[i].id \in Nat
          /\ head.locals[i].id <= IDAt(server, head, head.locals[i].client)
      BY <1>4, <3>1, GoodBounds, MutationsOf
    <3>3. \A d \in Clients : /\ IDAt(server, head, d) <= IDAt(server, h, d)
                             /\ IDAt(server, head, d) \in Nat /\ IDAt(server, h, d) \in Nat
      BY GoodBounds DEF Extending
    <3> QED
      BY <3>1, <3>2, <3>3
  <2>4. CASE ~(i <= Len(head.locals))
    <3>1. i - Len(head.locals) \in 1 .. Len(own) /\ k.locals[i] = own[i - Len(head.locals)]
      BY <2>2, <2>4
    <3> QED
      BY <1>8, <3>1
  <2> QED
    BY <2>3, <2>4
<1> QED
  BY <1>15, <1>18, <1>19 DEF k

LEMMA RebaseStep ==
  ASSUME ChainInv, NEW c \in Clients, RefreshRebase(c)
  PROVE  ChainInv' /\ Forward
<1> DEFINE m == main[c]
           r == refreshing[c]
           head == r.head
           own == OwnGreaterThan(m, c, r.lmid)
           k == [snap |-> head.snap, locals |-> head.locals \o own]
           aborted == [at |-> "cleanup", hashes |-> r.revert]
           done == [at |-> "cleanup", hashes |-> {head}]
<1>1. /\ r.at = "gathered"
      /\ UNCHANGED <<server, records, group, sync, asked, persisting>>
      /\ \/ refreshing' = [refreshing EXCEPT ![c] = aborted] /\ UNCHANGED <<main, memOnly>>
         \/ /\ ~ShouldAbortRefresh(m.snap.cookie, head)
            /\ refreshing' = [refreshing EXCEPT ![c] = done]
            /\ main' = [main EXCEPT ![c] = [head EXCEPT !.locals = head.locals \o own]]
            /\ \E x : memOnly' = [memOnly EXCEPT ![c] = x]
  BY DEF RefreshRebase, RefreshPhase, SetMain
<1>2. Types /\ ServerType(server)
  BY DEF ChainInv, Types
<1>3. /\ TabOK(server, group.head, c, m, sync[c], persisting[c], r)
      /\ m # None /\ group.head # None /\ Good(server, m)
  BY <1>1, TabIs
<1>4. Good(server, head) /\ r.revert \in SUBSET Commit
  BY <1>1, <1>3 DEF TabOK, GatheredOK
<1>5. /\ head \in Commit /\ head = [snap |-> head.snap, locals |-> head.locals]
      /\ head.snap.cookie \in Nat /\ m.snap.cookie \in Nat
  BY <1>3, <1>4, CommitOf DEF Good
<1>6. CASE refreshing' = [refreshing EXCEPT ![c] = aborted] /\ UNCHANGED <<main, memOnly>>
  <2>1. aborted.at = "cleanup" /\ aborted.hashes \in SUBSET Commit
    BY <1>4
  <2> HIDE DEF aborted
  <2>2. TabOK(server, group.head, c, m, sync[c], persisting[c], aborted)
    BY <1>3, <2>1 DEF TabOK
  <2>3. /\ DOMAIN memOnly' = Clients
        /\ DOMAIN records' \subseteq Clients /\ records' \in [DOMAIN records' -> RecordType]
    BY <1>1, <1>2, <1>6 DEF Types
  <2> QED
    BY <1>1, <1>6, <2>2, <2>3, PhaseStep
<1>7. CASE /\ ~ShouldAbortRefresh(m.snap.cookie, head)
           /\ refreshing' = [refreshing EXCEPT ![c] = done]
           /\ main' = [main EXCEPT ![c] = [head EXCEPT !.locals = head.locals \o own]]
           /\ \E x : memOnly' = [memOnly EXCEPT ![c] = x]
  <2>1. m.snap.cookie <= head.snap.cookie
    BY <1>5, <1>7 DEF ShouldAbortRefresh
  <2>2. /\ Good(server, k) /\ Extending(server, k, m) /\ Shared(server, c, k.locals, group.head)
    <3>1. /\ GatheredOK(server, group.head, c, m, sync[c], r) /\ Good(server, group.head)
      BY <1>1, <1>3, TabIs DEF TabOK
    <3>2. /\ Extending(server, group.head, head) /\ Shared(server, c, m.locals, head)
          /\ r.lmid = IDAt(server, head, c)
      BY <3>1 DEF GatheredOK
    <3> DEFINE x == head
               h == group.head
               l == r.lmid
               o == OwnGreaterThan(m, c, l)
    <3>3. /\ Good(server, x) /\ Good(server, h) /\ Extending(server, h, x) /\ Shared(server, c, m.locals, x)
          /\ l = IDAt(server, x, c) /\ m.snap.cookie <= x.snap.cookie /\ o = OwnGreaterThan(m, c, l)
      BY <1>4, <2>1, <3>1, <3>2
    <3>4. k = [snap |-> x.snap, locals |-> x.locals \o o]
      OBVIOUS
    <3> HIDE DEF x, h, l, o
    <3> HIDE DEF k, own, head
    <3>5. LET y == [snap |-> x.snap, locals |-> x.locals \o o]
          IN  Good(server, y) /\ Extending(server, y, m) /\ Shared(server, c, y.locals, h)
      BY <1>2, <1>3, <3>3, RefreshedIs
    <3> QED
      BY <3>4, <3>5 DEF h
  <2>3. main' = [main EXCEPT ![c] = k]
    <3>1. [head EXCEPT !.locals = head.locals \o own] = k
      BY <1>5, WithLocals, Zenon
    <3> QED
      BY <1>7, <3>1
  <2>4. k.snap = head.snap
    OBVIOUS
  <2>5. done.at = "cleanup" /\ done.hashes \in SUBSET Commit
    BY <1>5
  <2> HIDE DEF k, done
  <2>6. MainOK(server, group.head, c, k) /\ k # None /\ k \in Commit
    BY <1>3, <2>2, NoneAssumption DEF MainOK, Good
  <2>7. ASSUME persisting[c].at = "memdag"
        PROVE  SecondOK(server, group.head, c, k, persisting[c])
    <3>1. SecondOK(server, group.head, c, m, persisting[c])
      BY <1>3, <2>7 DEF TabOK
    <3>2. persisting[c].snap.cookie \in Nat /\ persisting[c].snap.cookie <= m.snap.cookie
      BY <3>1 DEF SecondOK, Snapshot
    <3>3. persisting[c].snap.cookie <= k.snap.cookie
      BY <1>5, <2>1, <2>4, <3>2
    <3> QED
      BY <3>1, <3>3, Zenon DEF SecondOK
  <2>8. TabOK(server, group.head, c, k, sync[c], persisting[c], done)
    BY <1>3, <2>5, <2>6, <2>7 DEF TabOK
  <2>9. Types' /\ Others(c) /\ main'[c] = k /\ refreshing'[c] = done
    BY <1>1, <1>2, <1>7, <2>3 DEF Types, Others
  <2>10. TabOK(server, group'.head, c, main'[c], sync'[c], persisting'[c], refreshing'[c])
    BY <1>1, <2>8, <2>9
  <2> QED
    BY <1>1, <2>2, <2>6, <2>9, <2>10, StepOf
<1> QED
  BY <1>1, <1>6, <1>7

LEMMA CleanupStep ==
  ASSUME ChainInv, NEW c \in Clients, RefreshCleanup(c)
  PROVE  ChainInv' /\ Forward
<1>1. /\ refreshing[c].at = "cleanup" /\ refreshing' = [refreshing EXCEPT ![c] = Idle]
      /\ UNCHANGED <<server, group, main, memOnly, sync, asked, persisting>>
      /\ \/ UNCHANGED perdagVars
         \/ /\ Registered(c)
            /\ records' = [records EXCEPT ![c].refreshHashes = refreshing[c].hashes]
  BY DEF RefreshCleanup, RefreshPhase, PerdagWrite
<1>2. Types
  BY DEF ChainInv
<1>3. TabOK(server, group.head, c, main[c], sync[c], persisting[c], refreshing[c])
  BY TabIs
<1>4. TabOK(server, group.head, c, main[c], sync[c], persisting[c], Idle)
  BY <1>3 DEF TabOK, Idle
<1>5. refreshing[c].hashes \in SUBSET Commit
  BY <1>1, <1>3 DEF TabOK
<1>6. DOMAIN records' \subseteq Clients /\ records' \in [DOMAIN records' -> RecordType]
  <2>1. CASE UNCHANGED perdagVars
    BY <1>2, <2>1 DEF Types
  <2>2. CASE /\ Registered(c)
             /\ records' = [records EXCEPT ![c].refreshHashes = refreshing[c].hashes]
    BY <1>2, <1>5, <2>2, RefreshHashesSet DEF Registered
  <2> QED
    BY <1>1, <2>1, <2>2
<1>7. DOMAIN memOnly' = Clients
  BY <1>1, <1>2 DEF Types
<1> QED
  BY <1>1, <1>4, <1>6, <1>7, PhaseStep


LEMMA SameStep ==
  ASSUME ChainInv, UNCHANGED vars
  PROVE  ChainInv' /\ Forward
<1>1. ChainInv'
  BY DEF ChainInv, Types, vars
<1>2. ASSUME NEW c \in Clients, main[c] # None
      PROVE  Extending(server, main'[c], main[c])
  <2>1. Extending(server, main[c], main[c]) /\ main' = main
    BY <1>2, TabIs DEF vars
  <2> QED
    BY <2>1
<1>3. ASSUME group.head # None
      PROVE  Extending(server, group'.head, group.head)
  <2>1. ServerType(server) /\ Good(server, group.head) /\ group' = group
    BY <1>3 DEF ChainInv, Types, vars
  <2>2. Extending(server, group.head, group.head)
    BY <2>1, ExtendingSame
  <2> QED
    BY <2>1, <2>2
<1> QED
  BY <1>1, <1>2, <1>3 DEF Forward

\* Every step of a client, and every step.
LEMMA ClientStep ==
  ASSUME ChainInv, NEW c \in Clients,
         \/ OpenTab(c) \/ CloseTab(c) \/ CollectClient(c)
         \/ Mutate(c) \/ Push(c)
         \/ Pull(c) \/ Persist(c) \/ Refresh(c)
  PROVE  ChainInv' /\ Forward
<1>1. CASE OpenTab(c) \/ CloseTab(c) \/ CollectClient(c)
  BY <1>1, OpenStep, CloseStep, CollectStep
<1>2. CASE Mutate(c) \/ Push(c)
  BY <1>2, MutateStep, PushStep
<1>3. CASE Pull(c)
  BY <1>3, BeginPullStep, ResponseStep, ReplayStep, EndPullStep, OverlapStep DEF Pull
<1>4. CASE Persist(c)
  BY <1>4, ReadPerdagStep, ReadMemdagStep, WriteStep, PersistedStep DEF Persist
<1>5. CASE Refresh(c)
  BY <1>5, RefreshBaseStep, RefreshHeadStep, RebaseStep, CleanupStep DEF Refresh
<1> QED
  BY <1>1, <1>2, <1>3, <1>4, <1>5

LEMMA ChainStep ==
  ASSUME ChainInv, [Next]_vars
  PROVE  ChainInv' /\ Forward
<1>1. CASE ServerChanges
  BY <1>1, ChangesStep
<1>2. CASE \E c \in Clients : \/ OpenTab(c) \/ CloseTab(c) \/ CollectClient(c)
                              \/ Mutate(c) \/ Push(c)
                              \/ Pull(c) \/ Persist(c) \/ Refresh(c)
  BY <1>2, ClientStep
<1>3. CASE UNCHANGED vars
  BY <1>3, SameStep
<1> QED
  BY <1>1, <1>2, <1>3 DEF Next

LEMMA ContiguousIs ==
  ASSUME NEW k, Good(server, k)
  PROVE  Contiguous(k)
<1> SUFFICES ASSUME NEW i \in DOMAIN k.locals
             PROVE  k.locals[i].id = MutationID(Below(k, i), k.locals[i].client) + 1
  BY DEF Contiguous
<1> DEFINE l == SubSeq(k.locals, 1, i - 1)
           d == k.locals[i].client
<1>1. k = [snap |-> k.snap, locals |-> k.locals]
  BY CommitOf DEF Good
<1>2. Below(k, i) = [snap |-> k.snap, locals |-> l]
  BY <1>1, WithLocals DEF Below
<1> DEFINE b == Below(k, i)
<1>3. b.snap = k.snap /\ b.locals = l
  <2>1. b = [snap |-> k.snap, locals |-> l]
    BY <1>2
  <2> HIDE DEF b, l
  <2> QED
    BY <2>1
<1>4. k.locals[i].id = LastID(AckedAt(server, k.snap)[d], l, d) + 1
  BY DEF Good, Chained
<1>5. MutationID(Below(k, i), d) = IDAt(server, Below(k, i), d)
  BY MutationIDIs
<1>6. IDAt(server, Below(k, i), d) = LastID(AckedAt(server, k.snap)[d], l, d)
  BY <1>3 DEF IDAt
<1> QED
  BY <1>4, <1>5, <1>6

LEMMA ExtendsIs ==
  ASSUME NEW k1, NEW k, Extending(server, k1, k)
  PROVE  Extends(k1, k)
  BY MutationIDIs DEF Extending, Extends

-----------------------------------------------------------------------------
\* Under the group's head, under the main head of every tab and on every sync branch, a
\* local mutation is its client's next, whoever mutates, pulls, persists, refreshes and is
\* collected in between: a rebase never ends with 'Inconsistent mutation ID', and the
\* server is never pushed a mutation out of order.
THEOREM MutationsInOrder == Spec => []ChainsContiguous
<1>1. ChainInv /\ [Next]_vars => ChainInv'
  BY ChainStep
<1>2. ChainInv => ChainsContiguous
  <2> SUFFICES ASSUME ChainInv PROVE ChainsContiguous
    OBVIOUS
  <2>1. group.head # None => Contiguous(group.head)
    BY ContiguousIs DEF ChainInv
  <2>2. ASSUME NEW c \in Clients, Open(c)
        PROVE  Contiguous(main[c])
    BY <2>2, TabIs, ContiguousIs DEF Open
  <2>3. ASSUME NEW c \in Clients, sync[c] # None
        PROVE  Contiguous(sync[c].head)
    <3>1. SyncOK(server, group.head, c, sync[c])
      BY <2>3, TabIs DEF TabOK
    <3> QED
      BY <3>1, ContiguousIs DEF SyncOK
  <2> QED
    BY <2>1, <2>2, <2>3 DEF ChainsContiguous
<1> QED
  BY InitChain, <1>1, <1>2, PTL DEF Spec

\* What a tab shows never goes back, neither the server's state nor a mutation, of itself
\* or of another tab: not when a pull ends, and not when a refresh sets the main head to a
\* head of the group that it read two transactions ago.
THEOREM TabsGoForward == Spec => TabForward
<1>1. ChainInv /\ [Next]_vars => ChainInv'
  BY ChainStep
<1>2. ChainInv /\ [Next]_vars
        => \A c \in Clients : Open(c) /\ Open(c)' => Extends(main'[c], main[c])
  BY ChainStep, ExtendsIs DEF Forward, Open
<1> QED
  BY InitChain, <1>1, <1>2, PTL DEF Spec, TabForward

\* Nor does the group's head, from which the next tab starts: a persist that read the
\* group before another tab wrote it does not take back what that one wrote.
THEOREM GroupGoesForward == Spec => GroupForward
<1>1. ChainInv /\ [Next]_vars => ChainInv'
  BY ChainStep
<1>2. ChainInv /\ [Next]_vars => (group.head # None => Extends(group'.head, group.head))
  BY ChainStep, ExtendsIs DEF Forward
<1> QED
  BY InitChain, <1>1, <1>2, PTL DEF Spec, GroupForward

-----------------------------------------------------------------------------
(* Chunks *)

Under(commits) == UNION {Chunks(k) : k \in commits}
UnderSnapshots(snaps) == UNION {SnapshotChunks(s) : s \in snaps}

\* The heads that a client retains for what its tab has, apart from one that a refresh has
\* gathered: rc is its record, r where its refresh stands.
Held(rc, r) ==
  CASE r.at = "gathered" -> r.revert
    [] r.at = "cleanup"  -> r.hashes
    [] OTHER             -> rc.refreshHashes

ToPersist(h, p) == p.at = "memdag" /\ p.newer /\ p.snap.cookie > h.snap.cookie

\* What a tab lacks in memory, of its main head m with mo in memory, is kept for it, also
\* when its persisted snapshot is about to be replaced by the next one.
Kept(h, rc, m, mo, p, r) ==
  /\ Held(rc, r) \subseteq rc.refreshHashes
  /\ r.at = "gathered" => r.head \in rc.refreshHashes
  /\ Chunks(m) \ mo \subseteq Under(Held(rc, r)) \cup UnderSnapshots(rc.persistHash)
  /\ p.at = "memdag" => p.chunks \subseteq SnapshotChunks(p.snap)
  /\ ToPersist(h, p) =>
       /\ SnapshotChunks(p.snap) \ p.chunks
            \subseteq Under(Held(rc, r)) \cup UnderSnapshots(rc.persistHash)
       /\ Chunks(m) \ mo \subseteq Under(Held(rc, r)) \cup SnapshotChunks(p.snap)
  /\ p.at = "written" => p.chunks \subseteq UnderSnapshots(rc.persistHash)

KeptAt(c) == Kept(group.head, records[c], main[c], memOnly[c], persisting[c], refreshing[c])

KeptInv ==
  /\ ChainInv
  /\ Reachable(records, group) \subseteq stored
  /\ \A c \in Clients : Open(c) /\ Registered(c) => KeptAt(c)

LEMMA ReachableIs ==
  ASSUME NEW recs, NEW g, NEW x
  PROVE  x \in Reachable(recs, g) <=>
           \/ g.head # None /\ x \in Chunks(g.head)
           \/ \E c \in DOMAIN recs : \/ x \in Under(recs[c].refreshHashes)
                                     \/ x \in UnderSnapshots(recs[c].persistHash)
  BY DEF Reachable, Under, UnderSnapshots

LEMMA ReachableHas ==
  ASSUME NEW recs, NEW g
  PROVE  /\ g.head # None => Chunks(g.head) \subseteq Reachable(recs, g)
         /\ \A c \in DOMAIN recs : /\ Under(recs[c].refreshHashes) \subseteq Reachable(recs, g)
                                   /\ UnderSnapshots(recs[c].persistHash) \subseteq Reachable(recs, g)
  BY ReachableIs

\* Only the record of client c and the group's head add to what was reachable.
OnlyRecord(recs, recs1, c) ==
  \A d \in DOMAIN recs1 \ {c} : d \in DOMAIN recs /\ recs1[d] = recs[d]
Within(recs1, g1, c, X) ==
  /\ c \in DOMAIN recs1 => /\ Under(recs1[c].refreshHashes) \subseteq X
                            /\ UnderSnapshots(recs1[c].persistHash) \subseteq X
  /\ g1.head # None => Chunks(g1.head) \subseteq X

LEMMA ReachableBound ==
  ASSUME NEW recs, NEW g, NEW recs1, NEW g1, NEW c, NEW X, Reachable(recs, g) \subseteq X,
         OnlyRecord(recs, recs1, c), Within(recs1, g1, c, X)
  PROVE  Reachable(recs1, g1) \subseteq X
<1>1. ASSUME NEW d \in DOMAIN recs1
      PROVE  /\ Under(recs1[d].refreshHashes) \subseteq X
             /\ UnderSnapshots(recs1[d].persistHash) \subseteq X
  <2>1. CASE d = c
    BY <2>1 DEF Within
  <2>2. CASE d # c
    <3>1. d \in DOMAIN recs /\ recs1[d] = recs[d]
      BY <2>2 DEF OnlyRecord
    <3>2. /\ Under(recs[d].refreshHashes) \subseteq Reachable(recs, g)
          /\ UnderSnapshots(recs[d].persistHash) \subseteq Reachable(recs, g)
      BY <3>1, ReachableHas
    <3> QED
      BY <3>1, <3>2
  <2> QED
    BY <2>1, <2>2
<1> QED
  BY <1>1, ReachableIs DEF Within

LEMMA WriteKeeps ==
  ASSUME NEW recs, NEW g, NEW put, PerdagWrite(recs, g, put),
         Reachable(recs, g) \subseteq stored \cup put
  PROVE  /\ Reachable(records', group') \subseteq stored'
         /\ records' = recs /\ group' = g
  BY DEF PerdagWrite

\* A step of client c.
LEMMA KeptStepOf ==
  ASSUME KeptInv, NEW c \in Clients, ChainInv', Forward,
         \A d \in Clients \ {c} : /\ main'[d] = main[d] /\ memOnly'[d] = memOnly[d]
                                  /\ persisting'[d] = persisting[d]
                                  /\ refreshing'[d] = refreshing[d],
         \A d \in DOMAIN records' \ {c} : d \in DOMAIN records /\ records'[d] = records[d],
         Reachable(records', group') \subseteq stored',
         main'[c] # None /\ c \in DOMAIN records' => KeptAt(c)'
  PROVE  KeptInv'
<1> SUFFICES ASSUME NEW d \in Clients, main'[d] # None, d \in DOMAIN records'
             PROVE  KeptAt(d)'
  BY DEF KeptInv, Open, Registered
<1>1. CASE d = c
  BY <1>1
<1>2. CASE d # c
  <2>1. main[d] # None /\ d \in DOMAIN records /\ records'[d] = records[d]
    BY <1>2
  <2>2. KeptAt(d)
    BY <2>1 DEF KeptInv, Open, Registered
  <2>3. /\ TabOK(server, group.head, d, main[d], sync[d], persisting[d], refreshing[d])
        /\ group.head # None /\ Good(server, group.head)
    BY <2>1, TabIs DEF KeptInv
  <2>4. group'.head # None /\ Good(server', group'.head)
    <3>1. MainOK(server', group'.head, d, main'[d])
      BY DEF ChainInv, TabOK
    <3> QED
      BY <3>1 DEF MainOK, ChainInv
  <2>5. group'.head.snap.cookie >= group.head.snap.cookie
    BY <2>3 DEF Forward, Extending
  <2>6. group'.head.snap.cookie \in Nat /\ group.head.snap.cookie \in Nat
    BY <2>3, <2>4, CommitOf DEF Good
  <2>7. ToPersist(group'.head, persisting[d]) => ToPersist(group.head, persisting[d])
    <3> SUFFICES ASSUME ToPersist(group'.head, persisting[d])
                 PROVE  ToPersist(group.head, persisting[d])
      OBVIOUS
    <3>1. persisting[d].snap \in Snapshot
      BY <2>3 DEF ToPersist, TabOK, SecondOK
    <3>2. persisting[d].snap.cookie \in Nat
      BY <3>1 DEF Snapshot
    <3> QED
      BY <2>5, <2>6, <3>2 DEF ToPersist
  <2>8. Kept(group'.head, records[d], main[d], memOnly[d], persisting[d], refreshing[d])
    <3> DEFINE h == group.head
               h1 == group'.head
    <3>1. Kept(h, records[d], main[d], memOnly[d], persisting[d], refreshing[d])
      BY <2>2 DEF KeptAt
    <3>2. ToPersist(h1, persisting[d]) => ToPersist(h, persisting[d])
      BY <2>7
    <3> HIDE DEF h, h1
    <3>3. Kept(h1, records[d], main[d], memOnly[d], persisting[d], refreshing[d])
      BY <3>1, <3>2 DEF Kept
    <3> QED
      BY <3>3 DEF h1
  <2>9. /\ main'[d] = main[d] /\ memOnly'[d] = memOnly[d]
        /\ persisting'[d] = persisting[d] /\ refreshing'[d] = refreshing[d]
    BY <1>2
  <2> QED
    BY <2>1, <2>8, <2>9 DEF KeptAt
<1> QED
  BY <1>1, <1>2

\* Neither the perdag nor a main head, nor where a persist or a refresh stands, changes.
LEMMA KeptSame ==
  ASSUME KeptInv, ChainInv',
         UNCHANGED <<perdagVars, main, memOnly, persisting, refreshing>>
  PROVE  KeptInv'
  BY DEF KeptInv, KeptAt, Open, Registered, Reachable, Held, Kept, ToPersist

LEMMA KeptOf ==
  ASSUME KeptInv, NEW c \in Clients, main[c] # None
  PROVE  /\ c \in DOMAIN records => KeptAt(c)
         /\ group.head # None /\ Good(server, group.head)
         /\ Reachable(records, group) \subseteq stored
         /\ DOMAIN main = Clients /\ DOMAIN memOnly = Clients
         /\ DOMAIN persisting = Clients /\ DOMAIN refreshing = Clients
<1>1. ChainInv
  BY DEF KeptInv
<1>2. group.head # None /\ Good(server, group.head)
  BY <1>1, TabIs
<1> QED
  BY <1>2 DEF KeptInv, Open, Registered, ChainInv, Types

\* A tab's heads and phases change, and not the perdag.
LEMMA KeptInTab ==
  ASSUME KeptInv, ChainInv', Forward, NEW c \in Clients, main[c] # None, UNCHANGED perdagVars,
         \A d \in Clients \ {c} : /\ main'[d] = main[d] /\ memOnly'[d] = memOnly[d]
                                  /\ persisting'[d] = persisting[d]
                                  /\ refreshing'[d] = refreshing[d],
         KeptAt(c) /\ c \in DOMAIN records
           => Kept(group.head, records[c], main'[c], memOnly'[c], persisting'[c], refreshing'[c])
  PROVE  KeptInv'
<1>1. records' = records /\ group' = group /\ stored' = stored
  OBVIOUS
<1>2. Reachable(records', group') \subseteq stored'
  BY <1>1, KeptOf
<1>3. ASSUME c \in DOMAIN records'
      PROVE  KeptAt(c)'
  <2>1. KeptAt(c) /\ c \in DOMAIN records
    BY <1>1, <1>3, KeptOf
  <2>2. Kept(group.head, records[c], main'[c], memOnly'[c], persisting'[c], refreshing'[c])
    BY <2>1
  <2> QED
    BY <1>1, <2>2 DEF KeptAt
<1>4. \A d \in DOMAIN records' \ {c} : d \in DOMAIN records /\ records'[d] = records[d]
  BY <1>1
<1> QED
  BY <1>2, <1>3, <1>4, KeptStepOf

LEMMA KeptOpen ==
  ASSUME KeptInv, NEW c \in Clients, OpenTab(c), ChainInv', Forward
  PROVE  KeptInv'
<1> DEFINE empty == [snap |-> [cookie |-> 0, by |-> c, base |-> <<0, c>>], locals |-> <<>>]
           head == IF group.head = None THEN empty ELSE group.head
           recs == [d \in DOMAIN records \cup {c} |->
                      IF d = c THEN [refreshHashes |-> {head}, persistHash |-> {}]
                      ELSE records[d]]
           g == [group EXCEPT !.head = head]
<1>1. PerdagWrite(recs, g, Chunks(head)) /\ main' = [main EXCEPT ![c] = head]
  BY DEF OpenTab
<1>2. main[c] = None /\ UNCHANGED <<server, memOnly, sync, asked, persisting, refreshing, due>>
  BY DEF OpenTab, Open
<1>3. ChainInv
  BY DEF KeptInv
<1>4. g.head = head
  BY <1>3 DEF ChainInv, Types
<1>5. persisting[c].at = "idle" /\ refreshing[c].at = "idle"
  BY <1>2, <1>3, TabIs
<1>6. /\ DOMAIN recs = DOMAIN records \cup {c}
      /\ recs[c].refreshHashes = {head} /\ recs[c].persistHash = {}
      /\ \A d \in DOMAIN recs \ {c} : d \in DOMAIN records /\ recs[d] = records[d]
  OBVIOUS
<1>7. main'[c] = head /\ \A d \in Clients \ {c} : main'[d] = main[d]
  BY <1>1, <1>3 DEF ChainInv, Types
<1> HIDE DEF head, recs, g
<1>8. Under({head}) = Chunks(head) /\ UnderSnapshots({}) = {}
  BY DEF Under, UnderSnapshots
<1>9. Reachable(recs, g) \subseteq stored \cup Chunks(head)
  <2>1. Reachable(records, group) \subseteq stored \cup Chunks(head)
    BY DEF KeptInv
  <2>2. c \in DOMAIN recs => /\ Under(recs[c].refreshHashes) \subseteq stored \cup Chunks(head)
                             /\ UnderSnapshots(recs[c].persistHash) \subseteq stored \cup Chunks(head)
    BY <1>6, <1>8
  <2>3. g.head # None => Chunks(g.head) \subseteq stored \cup Chunks(head)
    BY <1>4
  <2>4. OnlyRecord(records, recs, c)
    BY <1>6 DEF OnlyRecord
  <2>5. Within(recs, g, c, stored \cup Chunks(head))
    BY <2>2, <2>3 DEF Within
  <2> QED
    BY <2>1, <2>4, <2>5, ReachableBound
<1>10. Reachable(records', group') \subseteq stored' /\ records' = recs /\ group' = g
  BY <1>1, <1>9, WriteKeeps
<1>11. KeptAt(c)'
  <2>1. Held(recs[c], refreshing[c]) = {head}
    BY <1>5, <1>6 DEF Held
  <2>2. Kept(g.head, recs[c], head, memOnly[c], persisting[c], refreshing[c])
    BY <1>5, <1>6, <1>8, <2>1 DEF Kept, ToPersist
  <2> QED
    BY <1>2, <1>7, <1>10, <2>2 DEF KeptAt
<1>12. \A d \in DOMAIN records' \ {c} : d \in DOMAIN records /\ records'[d] = records[d]
  BY <1>6, <1>10
<1>13. \A d \in Clients \ {c} : /\ main'[d] = main[d] /\ memOnly'[d] = memOnly[d]
                                /\ persisting'[d] = persisting[d]
                                /\ refreshing'[d] = refreshing[d]
  BY <1>2, <1>7
<1> QED
  BY <1>10, <1>11, <1>12, <1>13, KeptStepOf

LEMMA KeptClose ==
  ASSUME KeptInv, NEW c \in Clients, CloseTab(c), ChainInv', Forward
  PROVE  KeptInv'
<1>1. /\ main[c] # None /\ UNCHANGED perdagVars
      /\ main' = [main EXCEPT ![c] = None] /\ memOnly' = [memOnly EXCEPT ![c] = {}]
      /\ persisting' = [persisting EXCEPT ![c] = Idle]
      /\ refreshing' = [refreshing EXCEPT ![c] = Idle]
  BY DEF CloseTab, Open
<1>2. main'[c] = None /\ \A d \in Clients \ {c} : /\ main'[d] = main[d] /\ memOnly'[d] = memOnly[d]
                                                  /\ persisting'[d] = persisting[d]
                                                  /\ refreshing'[d] = refreshing[d]
  BY <1>1, KeptOf
<1>3. Reachable(records', group') \subseteq stored'
  BY <1>1, KeptOf
<1>4. \A d \in DOMAIN records' \ {c} : d \in DOMAIN records /\ records'[d] = records[d]
  BY <1>1
<1> QED
  BY <1>2, <1>3, <1>4, KeptStepOf

LEMMA KeptCollect ==
  ASSUME KeptInv, NEW c \in Clients, CollectClient(c), ChainInv', Forward
  PROVE  KeptInv'
<1> DEFINE recs == [d \in DOMAIN records \ {c} |-> records[d]]
<1>1. PerdagWrite(recs, group, {}) /\ UNCHANGED tabVars
  BY DEF CollectClient
<1>2. Reachable(records, group) \subseteq stored
  BY DEF KeptInv
<1>3. /\ c \notin DOMAIN recs
      /\ \A d \in DOMAIN recs \ {c} : d \in DOMAIN records /\ recs[d] = records[d]
  OBVIOUS
<1> HIDE DEF recs
<1>4. group.head # None => Chunks(group.head) \subseteq stored
  BY <1>2, ReachableHas
<1>5. Reachable(recs, group) \subseteq stored
  <2>1. OnlyRecord(records, recs, c) /\ Within(recs, group, c, stored)
    BY <1>3, <1>4 DEF OnlyRecord, Within
  <2> QED
    BY <1>2, <2>1, ReachableBound
<1>6. Reachable(records', group') \subseteq stored' /\ records' = recs
  BY <1>1, <1>5, WriteKeeps
<1>7. \A d \in Clients \ {c} : /\ main'[d] = main[d] /\ memOnly'[d] = memOnly[d]
                               /\ persisting'[d] = persisting[d]
                               /\ refreshing'[d] = refreshing[d]
  BY <1>1
<1> QED
  BY <1>3, <1>6, <1>7, KeptStepOf

LEMMA KeptLess ==
  ASSUME NEW h, NEW rc, NEW m, NEW mo, NEW p, NEW r, Kept(h, rc, m, mo, p, r),
         NEW m1, NEW mo1, Chunks(m1) \ mo1 \subseteq Chunks(m) \ mo
  PROVE  Kept(h, rc, m1, mo1, p, r)
  BY DEF Kept

\* A tab's main head is set, and it lacks no more than before.
LEMMA KeptHead ==
  ASSUME KeptInv, ChainInv', Forward, NEW c \in Clients, main[c] # None,
         UNCHANGED <<perdagVars, persisting, refreshing>>,
         NEW k, NEW created, SetMain(c, k, created),
         Chunks(k) \ created \subseteq Chunks(main[c])
  PROVE  KeptInv'
<1>1. /\ main' = [main EXCEPT ![c] = k]
      /\ memOnly' = [memOnly EXCEPT ![c] = (memOnly[c] \cup created) \cap Chunks(k)]
  BY DEF SetMain
<1>2. /\ main'[c] = k /\ memOnly'[c] = (memOnly[c] \cup created) \cap Chunks(k)
      /\ \A d \in Clients \ {c} : main'[d] = main[d] /\ memOnly'[d] = memOnly[d]
  BY <1>1, KeptOf
<1>3. Chunks(main'[c]) \ memOnly'[c] \subseteq Chunks(main[c]) \ memOnly[c]
  BY <1>2
<1>4. ASSUME KeptAt(c)
      PROVE  Kept(group.head, records[c], main'[c], memOnly'[c], persisting'[c], refreshing'[c])
  <2>1. Kept(group.head, records[c], main[c], memOnly[c], persisting[c], refreshing[c])
    BY <1>4 DEF KeptAt
  <2>2. Kept(group.head, records[c], main'[c], memOnly'[c], persisting[c], refreshing[c])
    BY <1>3, <2>1, KeptLess
  <2> QED
    BY <2>2
<1>5. /\ persisting' = persisting /\ refreshing' = refreshing /\ UNCHANGED perdagVars
  OBVIOUS
<1> QED
  BY <1>2, <1>4, <1>5, KeptInTab

LEMMA KeptMutate ==
  ASSUME KeptInv, NEW c \in Clients, Mutate(c), ChainInv', Forward
  PROVE  KeptInv'
<1> DEFINE ms == Append(main[c].locals, [client |-> c, id |-> MutationID(main[c], c) + 1])
           k == [main[c] EXCEPT !.locals = ms]
           created == LocalChunks(k) \ LocalChunks(main[c])
<1>1. /\ main[c] # None /\ SetMain(c, k, created)
      /\ UNCHANGED <<perdagVars, persisting, refreshing>>
  BY DEF Mutate, Open
<1>2. main[c] = [snap |-> main[c].snap, locals |-> main[c].locals]
  BY <1>1, TabIs, CommitOf DEF KeptInv, Good
<1> HIDE DEF ms
<1>3. k.snap = main[c].snap
  BY <1>2, WithLocals
<1> HIDE DEF k
<1>4. Chunks(k) \ created \subseteq Chunks(main[c])
  BY <1>3 DEF Chunks
<1> HIDE DEF created
<1> QED
  BY <1>1, <1>4, KeptHead

LEMMA KeptEndPull ==
  ASSUME KeptInv, NEW c \in Clients, EndPull(c), ChainInv', Forward
  PROVE  KeptInv'
<1> DEFINE k == sync[c].head
           s == sync[c].head.snap
           created == {<<"commit", SnapshotID(s)>>, <<"leaf", SnapshotID(s)>>} \cup LocalChunks(k)
<1>1. /\ sync[c] # None /\ sync[c].basis = SnapshotID(main[c].snap)
      /\ SetMain(c, k, created)
      /\ UNCHANGED <<perdagVars, persisting, refreshing>>
  BY DEF EndPull
<1>2. main[c] # None /\ SyncOK(server, group.head, c, sync[c])
  BY <1>1, TabIs DEF KeptInv, TabOK
<1>3. s.base = SnapshotID(main[c].snap) /\ k.snap = s
  BY <1>1, <1>2 DEF SyncOK
<1>4. SnapshotChunks(s) = {<<"commit", SnapshotID(s)>>, <<"leaf", SnapshotID(s)>>, <<"leaf", s.base>>}
  BY DEF SnapshotChunks
<1>5. <<"leaf", s.base>> \in Chunks(main[c])
  BY <1>3 DEF Chunks, SnapshotChunks
<1> HIDE DEF k, s
<1>6. Chunks(k) \ created \subseteq Chunks(main[c])
  BY <1>3, <1>4, <1>5 DEF Chunks
<1> HIDE DEF created
<1> QED
  BY <1>1, <1>2, <1>6, KeptHead

\* Where the persist and the refresh of client c stand changes, and nothing else does.
LEMMA KeptPhase ==
  ASSUME KeptInv, ChainInv', Forward, NEW c \in Clients, main[c] # None,
         UNCHANGED <<perdagVars, main, memOnly>>, NEW p, NEW r,
         \/ persisting' = [persisting EXCEPT ![c] = p]
         \/ persisting' = persisting /\ p = persisting[c],
         \/ refreshing' = [refreshing EXCEPT ![c] = r]
         \/ refreshing' = refreshing /\ r = refreshing[c],
         KeptAt(c) /\ c \in DOMAIN records
           => Kept(group.head, records[c], main[c], memOnly[c], p, r)
  PROVE  KeptInv'
<1>1. /\ persisting'[c] = p /\ refreshing'[c] = r
      /\ \A d \in Clients \ {c} : persisting'[d] = persisting[d] /\ refreshing'[d] = refreshing[d]
  BY KeptOf
<1>2. main' = main /\ memOnly' = memOnly /\ UNCHANGED perdagVars
  OBVIOUS
<1> QED
  BY <1>1, <1>2, KeptInTab

LEMMA KeptReadPerdag ==
  ASSUME KeptInv, NEW c \in Clients, PersistReadPerdag(c), ChainInv', Forward
  PROVE  KeptInv'
<1> DEFINE p == [at |-> "perdag", lmid |-> MutationID(group.head, c),
                 cookie |-> group.head.snap.cookie]
<1>1. main[c] # None /\ persisting[c] = Idle
  BY DEF PersistReadPerdag, Open
<1>2. UNCHANGED <<perdagVars, main, memOnly, refreshing>>
  BY DEF PersistReadPerdag
<1>3. persisting' = [persisting EXCEPT ![c] = p] \/ persisting' = [persisting EXCEPT ![c] = Idle]
  BY DEF PersistReadPerdag, PersistPhase
<1>4. p.at = "perdag" /\ Idle.at = "idle"
  BY DEF Idle
<1> HIDE DEF p
<1>5. ASSUME KeptAt(c), NEW q, q \in {p, Idle}
      PROVE  Kept(group.head, records[c], main[c], memOnly[c], q, refreshing[c])
  BY <1>4, <1>5 DEF KeptAt, Kept, ToPersist
<1> QED
  BY <1>1, <1>2, <1>3, <1>5, KeptPhase

LEMMA TagsDiffer ==
  ASSUME NEW k, NEW s
  PROVE  LocalChunks(k) \cap SnapshotChunks(s) = {}
<1>1. ASSUME NEW x \in LocalChunks(k)
      PROVE  x[1] = "local"
  BY DEF LocalChunks
<1>2. ASSUME NEW x \in SnapshotChunks(s)
      PROVE  x[1] = "commit" \/ x[1] = "leaf"
  BY DEF SnapshotChunks
<1>3. "local" # "commit" /\ "local" # "leaf"
  OBVIOUS
<1> QED
  BY <1>1, <1>2, <1>3

LEMMA KeptReadMemdag ==
  ASSUME KeptInv, NEW c \in Clients, PersistReadMemdag(c), ChainInv', Forward
  PROVE  KeptInv'
<1> DEFINE m == main[c]
           mo == memOnly[c]
           p == [at |-> "memdag", mutations |-> OwnGreaterThan(main[c], c, persisting[c].lmid),
                 snap |-> m.snap, newer |-> m.snap.cookie > persisting[c].cookie,
                 chunks |-> mo \cap SnapshotChunks(m.snap)]
           rc == records[c]
           r == refreshing[c]
<1>1. /\ persisting[c].at = "perdag" /\ persisting' = [persisting EXCEPT ![c] = p]
      /\ UNCHANGED <<perdagVars, main, memOnly, refreshing>>
  BY DEF PersistReadMemdag, PersistPhase
<1>2. main[c] # None
  BY <1>1, TabIs DEF KeptInv
<1>3. p.at = "memdag" /\ p.snap = m.snap /\ p.chunks = mo \cap SnapshotChunks(m.snap)
  OBVIOUS
<1> HIDE DEF p
<1>4. ASSUME KeptAt(c)
      PROVE  Kept(group.head, rc, m, mo, p, r)
  <2> DEFINE B == Under(Held(rc, r))
             S == UnderSnapshots(rc.persistHash)
             C == SnapshotChunks(m.snap)
             L == LocalChunks(m)
  <2>1. /\ Held(rc, r) \subseteq rc.refreshHashes
        /\ r.at = "gathered" => r.head \in rc.refreshHashes
        /\ Chunks(m) \ mo \subseteq B \cup S
    BY <1>4 DEF KeptAt, Kept
  <2>2. Chunks(m) = C \cup L
    BY DEF Chunks
  <2>3. L \cap S = {}
    BY TagsDiffer DEF UnderSnapshots
  <2>4. C \ p.chunks \subseteq B \cup S
    BY <1>3, <2>1, <2>2
  <2>5. Chunks(m) \ mo \subseteq B \cup C
    BY <2>1, <2>2, <2>3
  <2>6. p.chunks \subseteq C
    BY <1>3
  <2> QED
    BY <1>3, <2>1, <2>4, <2>5, <2>6 DEF Kept
<1>5. KeptAt(c) => Kept(group.head, records[c], main[c], memOnly[c], p, refreshing[c])
  BY <1>4
<1> HIDE DEF rc, r, m, mo
<1> QED
  BY <1>1, <1>2, <1>5, KeptPhase

LEMMA KeptPersisted ==
  ASSUME KeptInv, NEW c \in Clients, ChunksPersisted(c), ChainInv', Forward
  PROVE  KeptInv'
<1>1. /\ persisting[c].at = "written"
      /\ memOnly' = [memOnly EXCEPT ![c] = memOnly[c] \ persisting[c].chunks]
      /\ persisting' = [persisting EXCEPT ![c] = Idle]
      /\ UNCHANGED <<perdagVars, main, refreshing>>
  BY DEF ChunksPersisted, OnPersist, PersistPhase
<1>2. main[c] # None
  BY <1>1, TabIs DEF KeptInv
<1>3. /\ memOnly'[c] = memOnly[c] \ persisting[c].chunks /\ persisting'[c] = Idle
      /\ \A d \in Clients \ {c} : memOnly'[d] = memOnly[d] /\ persisting'[d] = persisting[d]
  BY <1>1, <1>2, KeptOf
<1>4. Idle.at = "idle"
  BY DEF Idle
<1>5. ASSUME KeptAt(c)
      PROVE  Kept(group.head, records[c], main[c], memOnly[c] \ persisting[c].chunks, Idle,
                  refreshing[c])
  BY <1>1, <1>4, <1>5 DEF KeptAt, Kept, ToPersist
<1>6. main' = main /\ refreshing' = refreshing /\ UNCHANGED perdagVars
  BY <1>1
<1> QED
  BY <1>2, <1>3, <1>5, <1>6, KeptInTab

LEMMA KeptIdle ==
  ASSUME NEW h, NEW rc, NEW m, NEW mo, NEW p, NEW r, Kept(h, rc, m, mo, p, r)
  PROVE  Kept(h, rc, m, mo, Idle, r)
  BY DEF Kept, ToPersist, Idle

\* What is persisted is in the perdag after the write, together with what it reached.
LEMMA KeptWrite ==
  ASSUME KeptInv, NEW c \in Clients, PersistWrite(c), ChainInv', Forward
  PROVE  KeptInv'
<1> DEFINE p == persisting[c]
           head == PersistedHead(p)
           g == [head |-> head, mutationIDs |-> PersistedIDs(p)]
           recs == [records EXCEPT ![c].persistHash = {p.snap}]
<1>1. persisting[c].at = "memdag" /\ UNCHANGED <<main, memOnly, refreshing>>
  BY DEF PersistWrite
<1>2. ChainInv /\ main[c] # None
  BY <1>1, TabIs DEF KeptInv
<1>3. /\ group.head # None
      /\ head.snap = IF PersistSnapshot(p) THEN p.snap ELSE group.head.snap
  BY <1>1, <1>2, PersistedIs
<1>4. g.head = head
  OBVIOUS
<1>5. Reachable(records, group) \subseteq stored /\ (c \in DOMAIN records => KeptAt(c))
  BY <1>2, KeptOf
<1>6. /\ Chunks(group.head) \subseteq stored
      /\ c \in DOMAIN records => /\ Under(records[c].refreshHashes) \subseteq stored
                                 /\ UnderSnapshots(records[c].persistHash) \subseteq stored
  BY <1>3, <1>5, ReachableHas
<1>7. Chunks(head) = SnapshotChunks(head.snap) \cup LocalChunks(head)
  BY DEF Chunks
<1>8. CASE p.newer /\ ~Registered(c)
  <2>1. UNCHANGED perdagVars /\ persisting' = [persisting EXCEPT ![c] = Idle]
    BY <1>8 DEF PersistWrite, OnPersist, PersistPhase
  <2>2. KeptAt(c) => Kept(group.head, records[c], main[c], memOnly[c], Idle, refreshing[c])
    BY KeptIdle DEF KeptAt
  <2> QED
    BY <1>1, <1>2, <2>1, <2>2, KeptPhase
<1>9. CASE ~(p.newer /\ ~Registered(c)) /\ PersistSnapshot(p)
  <2> DEFINE put == p.chunks \cup LocalChunks(head)
             q == [at |-> "written", chunks |-> p.chunks]
  <2>1. PerdagWrite(recs, g, put) /\ persisting' = [persisting EXCEPT ![c] = q]
    BY <1>9 DEF PersistWrite, PersistPhase
  <2>2. c \in DOMAIN records /\ p.newer /\ p.snap.cookie > group.head.snap.cookie
    BY <1>9 DEF PersistSnapshot, Registered
  <2>3. ToPersist(group.head, p)
    BY <1>1, <2>2 DEF ToPersist
  <2>4. records[c] = [refreshHashes |-> records[c].refreshHashes,
                      persistHash |-> records[c].persistHash]
    BY <1>2, <2>2 DEF ChainInv, Types, RecordType
  <2>5. recs[c] = [refreshHashes |-> records[c].refreshHashes, persistHash |-> {p.snap}]
    BY <2>2, <2>4
  <2>6. /\ DOMAIN recs = DOMAIN records
        /\ recs[c].refreshHashes = records[c].refreshHashes /\ recs[c].persistHash = {p.snap}
        /\ \A d \in DOMAIN records \ {c} : recs[d] = records[d]
    BY <2>5
  <2>7. q.at = "written" /\ q.chunks = p.chunks
    OBVIOUS
  <2> DEFINE rc == records[c]
             rc1 == recs[c]
             r == refreshing[c]
             h == group.head
             h1 == g.head
             m == main[c]
             mo == memOnly[c]
             C == SnapshotChunks(p.snap)
  <2>8. Kept(h, rc, m, mo, p, r)
    BY <1>5, <2>2 DEF KeptAt
  <2>9. UnderSnapshots(rc1.persistHash) = C
    BY <2>6 DEF UnderSnapshots
  <2>10. Held(rc, r) \subseteq rc.refreshHashes
    BY <2>8 DEF Kept
  <2>11. Under(Held(rc, r)) \subseteq Under(rc.refreshHashes)
    BY <2>10 DEF Under
  <2>12. rc1.refreshHashes = rc.refreshHashes
    BY <2>6
  <2>13. C \subseteq stored \cup put
    <3>1. C \ p.chunks \subseteq Under(Held(rc, r)) \cup UnderSnapshots(rc.persistHash)
      BY <2>3, <2>8 DEF Kept
    <3>2. Under(rc.refreshHashes) \subseteq stored /\ UnderSnapshots(rc.persistHash) \subseteq stored
      BY <1>6, <2>2
    <3> QED
      BY <2>11, <3>1, <3>2
  <2>14. Chunks(h1) \subseteq stored \cup put
    BY <1>3, <1>4, <1>7, <1>9, <2>13
  <2>15. Under(rc1.refreshHashes) \subseteq stored \cup put
    BY <1>6, <2>2, <2>12
  <2>16. Within(recs, g, c, stored \cup put)
    BY <2>9, <2>13, <2>14, <2>15 DEF Within
  <2>17. OnlyRecord(records, recs, c)
    BY <2>6 DEF OnlyRecord
  <2>18. Reachable(recs, g) \subseteq stored \cup put
    <3>1. Reachable(records, group) \subseteq stored \cup put
      BY <1>5
    <3> QED
      BY <2>16, <2>17, <3>1, ReachableBound
  <2>19. Reachable(records', group') \subseteq stored' /\ records' = recs /\ group' = g
    BY <2>1, <2>18, WriteKeeps
  <2>20. Held(rc1, r) = Held(rc, r)
    BY <2>12 DEF Held
  <2>21. Kept(h1, rc1, m, mo, q, r)
    <3>1. /\ r.at = "gathered" => r.head \in rc.refreshHashes
          /\ p.chunks \subseteq C
          /\ Chunks(m) \ mo \subseteq Under(Held(rc, r)) \cup C
      BY <1>1, <2>3, <2>8 DEF Kept
    <3> HIDE DEF rc, rc1, r, h1, m, mo, C, p, q
    <3> QED
      BY <2>7, <2>9, <2>10, <2>12, <2>20, <3>1 DEF Kept, ToPersist
  <2>22. persisting'[c] = q /\ \A d \in Clients \ {c} : persisting'[d] = persisting[d]
    BY <1>2, <2>1, KeptOf
  <2>23. KeptAt(c)'
    BY <1>1, <2>19, <2>21, <2>22 DEF KeptAt
  <2>24. \A d \in DOMAIN records' \ {c} : d \in DOMAIN records /\ records'[d] = records[d]
    BY <2>6, <2>19
  <2>25. \A d \in Clients \ {c} : /\ main'[d] = main[d] /\ memOnly'[d] = memOnly[d]
                                  /\ persisting'[d] = persisting[d]
                                  /\ refreshing'[d] = refreshing[d]
    BY <1>1, <2>22
  <2> QED
    BY <2>19, <2>23, <2>24, <2>25, KeptStepOf
<1>10. CASE ~(p.newer /\ ~Registered(c)) /\ ~PersistSnapshot(p)
  <2> DEFINE put == LocalChunks(head)
  <2>1. PerdagWrite(records, g, put) /\ persisting' = [persisting EXCEPT ![c] = Idle]
    BY <1>10 DEF PersistWrite, OnPersist, PersistPhase
  <2>2. Chunks(g.head) \subseteq stored \cup put
    <3>1. SnapshotChunks(head.snap) \subseteq Chunks(group.head)
      BY <1>3, <1>10 DEF Chunks
    <3> QED
      BY <1>4, <1>6, <1>7, <3>1
  <2>3. Within(records, g, c, stored \cup put)
    BY <1>6, <2>2 DEF Within
  <2>4. OnlyRecord(records, records, c)
    BY DEF OnlyRecord
  <2>5. Reachable(records, g) \subseteq stored \cup put
    <3>1. Reachable(records, group) \subseteq stored \cup put
      BY <1>5
    <3> QED
      BY <2>3, <2>4, <3>1, ReachableBound
  <2>6. Reachable(records', group') \subseteq stored' /\ records' = records /\ group' = g
    BY <2>1, <2>5, WriteKeeps
  <2>7. persisting'[c] = Idle /\ \A d \in Clients \ {c} : persisting'[d] = persisting[d]
    BY <1>2, <2>1, KeptOf
  <2>8. ASSUME c \in DOMAIN records'
        PROVE  KeptAt(c)'
    <3>1. Kept(group.head, records[c], main[c], memOnly[c], Idle, refreshing[c])
      BY <1>5, <2>6, <2>8, KeptIdle DEF KeptAt
    <3>2. Kept(g.head, records[c], main[c], memOnly[c], Idle, refreshing[c])
      BY <3>1 DEF Kept, ToPersist, Idle
    <3> QED
      BY <1>1, <2>6, <2>7, <3>2 DEF KeptAt
  <2>9. \A d \in DOMAIN records' \ {c} : d \in DOMAIN records /\ records'[d] = records[d]
    BY <2>6
  <2>10. \A d \in Clients \ {c} : /\ main'[d] = main[d] /\ memOnly'[d] = memOnly[d]
                                  /\ persisting'[d] = persisting[d]
                                  /\ refreshing'[d] = refreshing[d]
    BY <1>1, <2>7
  <2> QED
    BY <2>6, <2>8, <2>9, <2>10, KeptStepOf
<1> QED
  BY <1>8, <1>9, <1>10

LEMMA KeptRefreshBase ==
  ASSUME KeptInv, NEW c \in Clients, RefreshReadMemdag(c), ChainInv', Forward
  PROVE  KeptInv'
<1> DEFINE r == [at |-> "base", cookie |-> main[c].snap.cookie]
<1>1. /\ main[c] # None /\ refreshing[c] = Idle /\ refreshing' = [refreshing EXCEPT ![c] = r]
      /\ UNCHANGED <<perdagVars, main, memOnly, persisting>>
  BY DEF RefreshReadMemdag, RefreshPhase, Open
<1>2. r.at = "base" /\ Idle.at = "idle"
  BY DEF Idle
<1> HIDE DEF r
<1>3. Held(records[c], r) = Held(records[c], refreshing[c])
  BY <1>1, <1>2 DEF Held
<1>4. KeptAt(c) => Kept(group.head, records[c], main[c], memOnly[c], persisting[c], r)
  BY <1>2, <1>3 DEF KeptAt, Kept
<1> QED
  BY <1>1, <1>4, KeptPhase

\* The record of which only refreshHashes is another one.
LEMMA OtherHashes ==
  ASSUME NEW rc, NEW x, rc = [refreshHashes |-> rc.refreshHashes, persistHash |-> rc.persistHash]
  PROVE  [rc EXCEPT !.refreshHashes = x] = [refreshHashes |-> x, persistHash |-> rc.persistHash]
  OBVIOUS

LEMMA WithHashes ==
  ASSUME Types, NEW c, c \in DOMAIN records, NEW hashes
  PROVE  /\ [records[c] EXCEPT !.refreshHashes = hashes].refreshHashes = hashes
         /\ [records[c] EXCEPT !.refreshHashes = hashes].persistHash = records[c].persistHash
<1> DEFINE rc == [records[c] EXCEPT !.refreshHashes = hashes]
<1>1. records[c] = [refreshHashes |-> records[c].refreshHashes,
                    persistHash |-> records[c].persistHash]
  BY DEF Types, RecordType
<1>2. rc = [refreshHashes |-> hashes, persistHash |-> records[c].persistHash]
  BY <1>1, OtherHashes
<1> HIDE DEF rc
<1>3. rc.refreshHashes = hashes /\ rc.persistHash = records[c].persistHash
  BY <1>2
<1> QED
  BY <1>3 DEF rc

\* A client's refreshHashes are set, to heads that the perdag has.
LEMMA KeptHashes ==
  ASSUME KeptInv, ChainInv', Forward, NEW c \in Clients, main[c] # None, c \in DOMAIN records,
         NEW hashes, PerdagWrite([records EXCEPT ![c].refreshHashes = hashes], group, {}),
         Under(hashes) \subseteq stored,
         UNCHANGED <<main, memOnly, persisting>>,
         NEW r, refreshing' = [refreshing EXCEPT ![c] = r],
         KeptAt(c) => Kept(group.head, [records[c] EXCEPT !.refreshHashes = hashes],
                           main[c], memOnly[c], persisting[c], r)
  PROVE  KeptInv'
<1> DEFINE recs == [records EXCEPT ![c].refreshHashes = hashes]
           rc == [records[c] EXCEPT !.refreshHashes = hashes]
<1>1. Types
  BY DEF KeptInv, ChainInv
<1>3. rc.refreshHashes = hashes /\ rc.persistHash = records[c].persistHash
  BY <1>1, WithHashes
<1>4. DOMAIN recs = DOMAIN records /\ recs[c] = rc /\ \A d \in DOMAIN records \ {c} : recs[d] = records[d]
  OBVIOUS
<1> HIDE DEF recs, rc
<1>5. Reachable(records, group) \subseteq stored /\ KeptAt(c)
  BY KeptOf
<1>6. Within(recs, group, c, stored)
  <2>1. /\ group.head # None => Chunks(group.head) \subseteq stored
        /\ UnderSnapshots(records[c].persistHash) \subseteq stored
    BY <1>5, ReachableHas
  <2> QED
    BY <1>3, <1>4, <2>1 DEF Within
<1>7. OnlyRecord(records, recs, c)
  BY <1>4 DEF OnlyRecord
<1>8. Reachable(recs, group) \subseteq stored \cup {}
  BY <1>5, <1>6, <1>7, ReachableBound
<1>9. Reachable(records', group') \subseteq stored' /\ records' = recs /\ group' = group
  BY <1>8, WriteKeeps DEF recs
<1>10. refreshing'[c] = r /\ \A d \in Clients \ {c} : refreshing'[d] = refreshing[d]
  BY KeptOf
<1>11. KeptAt(c)'
  <2>1. Kept(group.head, rc, main[c], memOnly[c], persisting[c], r)
    BY <1>5 DEF rc
  <2> QED
    BY <1>4, <1>9, <1>10, <2>1 DEF KeptAt
<1>12. \A d \in DOMAIN records' \ {c} : d \in DOMAIN records /\ records'[d] = records[d]
  BY <1>4, <1>9
<1> QED
  BY <1>9, <1>10, <1>11, <1>12, KeptStepOf

LEMMA KeptRefreshHead ==
  ASSUME KeptInv, NEW c \in Clients, RefreshReadPerdag(c), ChainInv', Forward
  PROVE  KeptInv'
<1>1. refreshing[c].at = "base" /\ UNCHANGED <<main, memOnly, persisting>>
  BY DEF RefreshReadPerdag
<1>2. ChainInv /\ Types /\ main[c] # None
  BY <1>1, TabIs DEF KeptInv, ChainInv
<1>3. CASE ~Registered(c) \/ ShouldAbortRefresh(refreshing[c].cookie, group.head)
  <2>1. UNCHANGED perdagVars /\ refreshing' = [refreshing EXCEPT ![c] = Idle]
    BY <1>3 DEF RefreshReadPerdag, RefreshPhase
  <2>2. Idle.at = "idle"
    BY DEF Idle
  <2>3. Held(records[c], Idle) = Held(records[c], refreshing[c])
    BY <1>1, <2>2 DEF Held
  <2>4. KeptAt(c) => Kept(group.head, records[c], main[c], memOnly[c], persisting[c], Idle)
    BY <2>2, <2>3 DEF KeptAt, Kept
  <2> QED
    BY <1>1, <1>2, <2>1, <2>4, KeptPhase
<1>4. CASE ~(~Registered(c) \/ ShouldAbortRefresh(refreshing[c].cookie, group.head))
  <2> DEFINE r == [at |-> "gathered", head |-> group.head, lmid |-> MutationID(group.head, c),
                   revert |-> records[c].refreshHashes]
             hashes == records[c].refreshHashes \cup {group.head}
             rc == [records[c] EXCEPT !.refreshHashes = hashes]
  <2>1. /\ PerdagWrite([records EXCEPT ![c].refreshHashes = hashes], group, {})
        /\ refreshing' = [refreshing EXCEPT ![c] = r]
        /\ c \in DOMAIN records
    BY <1>4 DEF RefreshReadPerdag, RefreshPhase, Retain, Registered
  <2>2. rc.refreshHashes = hashes /\ rc.persistHash = records[c].persistHash
    BY <1>2, <2>1, WithHashes
  <2>3. r.at = "gathered" /\ r.head = group.head /\ r.revert = records[c].refreshHashes
    OBVIOUS
  <2>4. Held(rc, r) = records[c].refreshHashes
    BY <2>3 DEF Held
  <2>5. Held(records[c], refreshing[c]) = records[c].refreshHashes
    BY <1>1 DEF Held
  <2>6. Under(hashes) \subseteq stored
    <3>1. group.head # None /\ Reachable(records, group) \subseteq stored
      BY <1>2, KeptOf
    <3>2. Chunks(group.head) \subseteq stored /\ Under(records[c].refreshHashes) \subseteq stored
      BY <2>1, <3>1, ReachableHas
    <3> QED
      BY <3>2 DEF Under
  <2>7. ASSUME KeptAt(c)
        PROVE  Kept(group.head, rc, main[c], memOnly[c], persisting[c], r)
    <3>1. Kept(group.head, records[c], main[c], memOnly[c], persisting[c], refreshing[c])
      BY <2>7 DEF KeptAt
    <3>2. Held(rc, r) = Held(records[c], refreshing[c]) /\ Held(rc, r) \subseteq rc.refreshHashes
          /\ r.head \in rc.refreshHashes
      BY <2>2, <2>3, <2>4, <2>5
    <3> HIDE DEF r, rc, hashes
    <3> QED
      BY <2>2, <3>1, <3>2 DEF Kept
  <2> HIDE DEF r, hashes
  <2> QED
    BY <1>1, <1>2, <2>1, <2>6, <2>7, KeptHashes
<1> QED
  BY <1>3, <1>4

LEMMA KeptRebase ==
  ASSUME KeptInv, NEW c \in Clients, RefreshRebase(c), ChainInv', Forward
  PROVE  KeptInv'
<1> DEFINE r == refreshing[c]
           head == r.head
           own == OwnGreaterThan(main[c], c, r.lmid)
           ms == head.locals \o own
           k == [head EXCEPT !.locals = ms]
           created == LocalChunks(k) \ LocalChunks(head)
<1>1. refreshing[c].at = "gathered" /\ UNCHANGED <<perdagVars, persisting>>
  BY DEF RefreshRebase
<1>2. ChainInv /\ main[c] # None
  BY <1>1, TabIs DEF KeptInv
<1>3. CASE ShouldAbortRefresh(main[c].snap.cookie, head)
  <2> DEFINE q == [at |-> "cleanup", hashes |-> r.revert]
  <2>1. refreshing' = [refreshing EXCEPT ![c] = q] /\ UNCHANGED <<main, memOnly>>
    BY <1>3 DEF RefreshRebase, RefreshPhase
  <2>2. q.at = "cleanup" /\ q.hashes = r.revert
    OBVIOUS
  <2> HIDE DEF q
  <2>3. Held(records[c], q) = Held(records[c], r)
    BY <1>1, <2>2 DEF Held
  <2>4. KeptAt(c) => Kept(group.head, records[c], main[c], memOnly[c], persisting[c], q)
    BY <2>2, <2>3 DEF KeptAt, Kept
  <2> QED
    BY <1>1, <1>2, <2>1, <2>4, KeptPhase
<1>4. CASE ~ShouldAbortRefresh(main[c].snap.cookie, head)
  <2> DEFINE q == [at |-> "cleanup", hashes |-> {head}]
  <2>1. refreshing' = [refreshing EXCEPT ![c] = q] /\ SetMain(c, k, created)
    BY <1>4 DEF RefreshRebase, RefreshPhase
  <2>2. q.at = "cleanup" /\ q.hashes = {head}
    OBVIOUS
  <2>3. GatheredOK(server, group.head, c, main[c], sync[c], r) /\ Good(server, main[c])
    BY <1>1, <1>2, TabIs DEF TabOK
  <2>4. head = [snap |-> head.snap, locals |-> head.locals]
    BY <2>3, CommitOf DEF GatheredOK, Good
  <2> HIDE DEF ms
  <2>5. k.snap = head.snap
    BY <2>4, WithLocals
  <2> HIDE DEF k
  <2>6. Chunks(k) \ created \subseteq Chunks(head)
    BY <2>5 DEF Chunks
  <2> HIDE DEF created
  <2>7. /\ main' = [main EXCEPT ![c] = k]
        /\ memOnly' = [memOnly EXCEPT ![c] = (memOnly[c] \cup created) \cap Chunks(k)]
    BY <2>1 DEF SetMain
  <2>8. /\ main'[c] = k /\ memOnly'[c] = (memOnly[c] \cup created) \cap Chunks(k)
        /\ refreshing'[c] = q
        /\ \A d \in Clients \ {c} : /\ main'[d] = main[d] /\ memOnly'[d] = memOnly[d]
                                    /\ persisting'[d] = persisting[d]
                                    /\ refreshing'[d] = refreshing[d]
    BY <1>1, <1>2, <2>1, <2>7, KeptOf
  <2>9. Chunks(main'[c]) \ memOnly'[c] \subseteq Chunks(head)
    BY <2>6, <2>8
  <2>10. Under({head}) = Chunks(head) /\ Held(records[c], q) = {head}
    BY <2>2 DEF Under, Held
  <2>11. ~ToPersist(group.head, persisting[c])
    <3> SUFFICES ASSUME persisting[c].at = "memdag"
                 PROVE  ~(persisting[c].snap.cookie > group.head.snap.cookie)
      BY DEF ToPersist
    <3>1. SecondOK(server, group.head, c, main[c], persisting[c])
      BY <1>2, TabIs DEF TabOK
    <3>2. /\ persisting[c].snap.cookie \in Nat /\ main[c].snap.cookie \in Nat
          /\ head.snap.cookie \in Nat /\ group.head.snap.cookie \in Nat
      BY <1>2, <2>3, <3>1, CommitOf, KeptOf DEF GatheredOK, SecondOK, Good, Snapshot
    <3>3. persisting[c].snap.cookie <= main[c].snap.cookie
      BY <3>1 DEF SecondOK
    <3>4. main[c].snap.cookie <= head.snap.cookie
      BY <1>4, <3>2 DEF ShouldAbortRefresh
    <3>5. head.snap.cookie <= group.head.snap.cookie
      BY <2>3, <3>2 DEF GatheredOK, Extending
    <3> QED
      BY <3>2, <3>3, <3>4, <3>5
  <2>12. ASSUME KeptAt(c)
         PROVE  Kept(group.head, records[c], main'[c], memOnly'[c], persisting'[c], refreshing'[c])
    <3>1. Kept(group.head, records[c], main[c], memOnly[c], persisting[c], refreshing[c])
      BY <2>12 DEF KeptAt
    <3>2. head \in records[c].refreshHashes
      BY <1>1, <3>1 DEF Kept
    <3>3. Kept(group.head, records[c], main'[c], memOnly'[c], persisting[c], q)
      <4> DEFINE m1 == main'[c]
                 mo1 == memOnly'[c]
                 p == persisting[c]
                 h == group.head
      <4>1. /\ Chunks(m1) \ mo1 \subseteq Chunks(head) /\ ~ToPersist(h, p)
            /\ p.at = "memdag" => p.chunks \subseteq SnapshotChunks(p.snap)
            /\ p.at = "written" => p.chunks \subseteq UnderSnapshots(records[c].persistHash)
        BY <2>9, <2>11, <3>1 DEF Kept
      <4> HIDE DEF m1, mo1, p, h, q, head
      <4>2. Kept(h, records[c], m1, mo1, p, q)
        BY <2>2, <2>10, <3>2, <4>1 DEF Kept
      <4> QED
        BY <4>2 DEF m1, mo1, p, h
    <3> QED
      BY <1>1, <2>8, <3>3
  <2> QED
    BY <1>1, <1>2, <2>8, <2>12, KeptInTab
<1> QED
  BY <1>3, <1>4

LEMMA KeptCleanup ==
  ASSUME KeptInv, NEW c \in Clients, RefreshCleanup(c), ChainInv', Forward
  PROVE  KeptInv'
<1>1. /\ refreshing[c].at = "cleanup" /\ refreshing' = [refreshing EXCEPT ![c] = Idle]
      /\ UNCHANGED <<main, memOnly, persisting>>
  BY DEF RefreshCleanup, RefreshPhase
<1>2. ChainInv /\ Types /\ main[c] # None
  BY <1>1, TabIs DEF KeptInv, ChainInv
<1>3. CASE c \notin DOMAIN records
  <2>1. UNCHANGED perdagVars
    BY <1>3 DEF RefreshCleanup, Registered
  <2>2. KeptAt(c) /\ c \in DOMAIN records
          => Kept(group.head, records[c], main[c], memOnly[c], persisting[c], Idle)
    BY <1>3
  <2> QED
    BY <1>1, <1>2, <2>1, <2>2, KeptPhase
<1>4. CASE c \in DOMAIN records
  <2> DEFINE hashes == refreshing[c].hashes
             rc == [records[c] EXCEPT !.refreshHashes = hashes]
  <2>1. PerdagWrite([records EXCEPT ![c].refreshHashes = hashes], group, {})
    BY <1>4 DEF RefreshCleanup, Registered
  <2>2. rc.refreshHashes = hashes /\ rc.persistHash = records[c].persistHash
    BY <1>2, <1>4, WithHashes
  <2>3. Held(records[c], refreshing[c]) = hashes /\ Held(rc, Idle) = hashes
    BY <1>1, <2>2 DEF Held, Idle
  <2>4. KeptAt(c) /\ Reachable(records, group) \subseteq stored
    BY <1>2, <1>4, KeptOf
  <2>5. hashes \subseteq records[c].refreshHashes
    BY <2>3, <2>4 DEF KeptAt, Kept
  <2>6. Under(hashes) \subseteq stored
    <3>1. Under(records[c].refreshHashes) \subseteq stored
      BY <1>4, <2>4, ReachableHas
    <3>2. Under(hashes) \subseteq Under(records[c].refreshHashes)
      BY <2>5 DEF Under
    <3> QED
      BY <3>1, <3>2
  <2>7. Kept(group.head, rc, main[c], memOnly[c], persisting[c], Idle)
    <3>1. Kept(group.head, records[c], main[c], memOnly[c], persisting[c], refreshing[c])
      BY <2>4 DEF KeptAt
    <3>2. Idle.at = "idle"
      BY DEF Idle
    <3>3. Held(rc, Idle) = Held(records[c], refreshing[c]) /\ Held(rc, Idle) \subseteq rc.refreshHashes
      BY <2>2, <2>3
    <3> HIDE DEF rc, hashes
    <3> QED
      BY <2>2, <3>1, <3>2, <3>3 DEF Kept
  <2> HIDE DEF hashes
  <2> QED
    BY <1>1, <1>2, <1>4, <2>1, <2>6, <2>7, KeptHashes
<1> QED
  BY <1>3, <1>4

LEMMA KeptClientStep ==
  ASSUME KeptInv, NEW c \in Clients, ChainInv', Forward,
         \/ OpenTab(c) \/ CloseTab(c) \/ CollectClient(c)
         \/ Mutate(c) \/ Push(c)
         \/ Pull(c) \/ Persist(c) \/ Refresh(c)
  PROVE  KeptInv'
<1>1. CASE OpenTab(c) \/ CloseTab(c) \/ CollectClient(c)
  BY <1>1, KeptOpen, KeptClose, KeptCollect
<1>2. CASE Mutate(c)
  BY <1>2, KeptMutate
<1>3. CASE Push(c) \/ BeginPull(c) \/ HandlePullResponse(c) \/ ReplayMutations(c)
             \/ OverlappingSyncs(c)
  <2>1. UNCHANGED <<perdagVars, main, memOnly, persisting, refreshing>>
    BY <1>3 DEF Push, BeginPull, HandlePullResponse, ReplayMutations, OverlappingSyncs
  <2> QED
    BY <2>1, KeptSame
<1>4. CASE EndPull(c)
  BY <1>4, KeptEndPull
<1>5. CASE Persist(c)
  BY <1>5, KeptReadPerdag, KeptReadMemdag, KeptWrite, KeptPersisted DEF Persist
<1>6. CASE Refresh(c)
  BY <1>6, KeptRefreshBase, KeptRefreshHead, KeptRebase, KeptCleanup DEF Refresh
<1> QED
  BY <1>1, <1>2, <1>3, <1>4, <1>5, <1>6 DEF Pull

LEMMA KeptStep ==
  ASSUME KeptInv, [Next]_vars
  PROVE  KeptInv'
<1>1. ChainInv' /\ Forward
  BY ChainStep DEF KeptInv
<1>2. CASE ServerChanges \/ UNCHANGED vars
  <2>1. UNCHANGED <<perdagVars, main, memOnly, persisting, refreshing>>
    BY <1>2 DEF ServerChanges, vars
  <2> QED
    BY <1>1, <2>1, KeptSame
<1>3. CASE \E c \in Clients : \/ OpenTab(c) \/ CloseTab(c) \/ CollectClient(c)
                              \/ Mutate(c) \/ Push(c)
                              \/ Pull(c) \/ Persist(c) \/ Refresh(c)
  BY <1>1, <1>3, KeptClientStep
<1> QED
  BY <1>2, <1>3 DEF Next

LEMMA KeptMeans ==
  ASSUME KeptInv
  PROVE  ChunksKept
<1>1. Reachable(records, group) \subseteq stored
  BY DEF KeptInv
<1>2. ASSUME NEW c \in Clients, Open(c), Registered(c)
      PROVE  Chunks(main[c]) \ memOnly[c] \subseteq stored
  <2> DEFINE rc == records[c]
             r == refreshing[c]
  <2>1. /\ Held(rc, r) \subseteq rc.refreshHashes
        /\ Chunks(main[c]) \ memOnly[c] \subseteq Under(Held(rc, r)) \cup UnderSnapshots(rc.persistHash)
    BY <1>2 DEF KeptInv, KeptAt, Kept
  <2>2. Under(Held(rc, r)) \subseteq Under(rc.refreshHashes)
    BY <2>1 DEF Under
  <2>3. Under(rc.refreshHashes) \subseteq stored /\ UnderSnapshots(rc.persistHash) \subseteq stored
    BY <1>1, <1>2, ReachableHas DEF Registered
  <2> QED
    BY <2>1, <2>2, <2>3
<1> QED
  BY <1>1, <1>2 DEF ChunksKept

\* Every chunk under a tab's main head that the tab does not hold in memory is in the
\* database that the tabs share, although each write there deletes what no head of it
\* reaches: between a persist's transactions, between those of a refresh, and when other
\* clients write, refresh or collect.  And that database holds what its own heads reach.
THEOREM ChunksAreKept == Spec => []ChunksKept
<1>1. Init => KeptInv
  <2> SUFFICES ASSUME Init PROVE KeptInv
    OBVIOUS
  <2>1. ChainInv
    BY InitChain
  <2>2. DOMAIN records = {} /\ group.head = None
    BY DEF Init
  <2>3. Reachable(records, group) \subseteq stored
    BY <2>2, ReachableIs
  <2> QED
    BY <2>1, <2>2, <2>3 DEF KeptInv, Registered
<1>2. KeptInv /\ [Next]_vars => KeptInv'
  BY KeptStep
<1>3. KeptInv => ChunksKept
  BY KeptMeans
<1> QED
  BY <1>1, <1>2, <1>3, PTL DEF Spec
===============================================================================
