-------------------------- MODULE Mutations_proofs --------------------------
(***************************************************************************)
(* For every number of mutations, faults and pushers and every             *)
(* environment: upstream applies each mutation once and in order, the      *)
(* result of a failed one is kept until its promise has been settled,      *)
(* nothing but a new connection turns it into a success, and what the tab  *)
(* believes it has sent is applied, on its way, or complained about.       *)
(***************************************************************************)
EXTENDS Mutations, TLAPS, WellFoundedInduction, SequenceTheorems, FiniteSetTheorems

-----------------------------------------------------------------------------
(* What is picked from a sequence *)

\* Induction, for a set.
LEMMA Inductive ==
  ASSUME NEW n \in Nat, NEW P, 0 \in P, \A i \in 0 .. n - 1 : i \in P => i + 1 \in P
  PROVE  0 .. n \subseteq P
<1> DEFINE Rest == (0 .. n) \ P
<1> SUFFICES ASSUME Rest # {} PROVE FALSE
  OBVIOUS
<1>1. Rest \in SUBSET Nat
  OBVIOUS
<1>2. PICK m \in Rest : \A i \in Rest : <<i, m>> \notin OpToRel(<, Nat)
  BY <1>1, WFMin, NatLessThanWellFounded, Zenon
<1>3. \A i \in Rest : ~(i < m)
  BY <1>1, <1>2, Zenon DEF OpToRel
<1>4. m \in 1 .. n /\ m - 1 \in 0 .. n - 1
  OBVIOUS
<1>5. m - 1 \in P
  BY <1>3, <1>4
<1>6. (m - 1) + 1 \in P
  BY <1>4, <1>5
<1> QED
  BY <1>4, <1>6

\* The greatest element of a nonempty set of numbers up to a bound.
LEMMA MaxIsGreatest ==
  ASSUME NEW n \in Nat, NEW S \in SUBSET (0 .. n), S # {}
  PROVE  Max(S) \in S /\ \A y \in S : Max(S) >= y
<1> DEFINE Mirror == {n - x : x \in S}
<1>1. Mirror \in SUBSET Nat /\ Mirror # {}
  <2>1. \A x \in S : n - x \in Nat
    OBVIOUS
  <2> QED
    BY <2>1
<1> HIDE DEF Mirror
<1>2. PICK m \in Mirror : \A y \in Mirror : <<y, m>> \notin OpToRel(<, Nat)
  BY <1>1, WFMin, NatLessThanWellFounded, Zenon
<1>3. \A y \in Mirror : ~(y < m)
  BY <1>1, <1>2, Zenon DEF OpToRel
<1>4. PICK x \in S : m = n - x
  BY <1>2 DEF Mirror
<1>5. \A y \in S : n - y \in Mirror
  BY DEF Mirror
<1>6. \A y \in S : x >= y
  BY <1>3, <1>4, <1>5
<1> QED
  BY <1>4, <1>6 DEF Max

\* How a filter goes along a sequence.
PicksBy(h, ms, wanted) ==
  /\ h[0] = <<>> /\ Picked(ms, wanted) = h[Len(ms)]
  /\ \A i \in 1 .. Len(ms) :
       h[i] = IF ms[i] \in wanted THEN Append(h[i - 1], ms[i]) ELSE h[i - 1]

LEMMA PickedHistory ==
  ASSUME NEW T, NEW ms \in Seq(T), NEW wanted
  PROVE  \E h \in [0 .. Len(ms) -> Seq(T)] : PicksBy(h, ms, wanted)
<1> DEFINE n == Len(ms)
           step(i, a) == IF ms[i] \in wanted THEN Append(a, ms[i]) ELSE a
           at(f, i) == IF i = 0 THEN <<>> ELSE step(i, f[i - 1])
           Goes(f, m) == f \in [0 .. m -> Seq(T)] /\ \A i \in 0 .. m : f[i] = at(f, i)
           P == {m \in 0 .. n : \E f : Goes(f, m)}
           Eq(f) == f = [i \in 0 .. Len(ms) |->
                           IF i = 0 THEN <<>>
                           ELSE IF ms[i] \in wanted THEN Append(f[i - 1], ms[i]) ELSE f[i - 1]]
           picked == CHOOSE f : Eq(f)
<1>1. n \in Nat /\ \A i \in 1 .. n : ms[i] \in T
  BY LenProperties, ElementOfSeq
<1>2. \A i \in 1 .. n : \A a \in Seq(T) : step(i, a) \in Seq(T)
  BY <1>1, AppendProperties
<1>3. 0 \in P
  <2> DEFINE f == [i \in 0 .. 0 |-> <<>>]
  <2>1. f \in [0 .. 0 -> Seq(T)]
    OBVIOUS
  <2>2. \A i \in 0 .. 0 : f[i] = at(f, i)
    OBVIOUS
  <2>3. 0 \in 0 .. n
    BY <1>1
  <2> HIDE DEF f, at
  <2> QED
    BY <2>1, <2>2, <2>3
<1>4. ASSUME NEW m \in 0 .. n - 1, m \in P
      PROVE  m + 1 \in P
  <2>1. PICK f : Goes(f, m)
    BY <1>4
  <2> DEFINE next == step(m + 1, f[m])
             ext == [i \in 0 .. m + 1 |-> IF i = m + 1 THEN next ELSE f[i]]
  <2>2. m + 1 \in 1 .. n /\ m \in 0 .. m /\ m + 1 \in 0 .. n /\ m \in Nat
    BY <1>1
  <2>3. next \in Seq(T)
    BY <1>2, <2>1, <2>2
  <2> HIDE DEF next
  <2>4. ext \in [0 .. m + 1 -> Seq(T)]
    BY <2>1, <2>2, <2>3
  <2>5. \A i \in 0 .. m : ext[i] = f[i]
    BY <2>2
  <2>6. ASSUME NEW i \in 0 .. m + 1
        PROVE  ext[i] = at(ext, i)
    <3>1. CASE i = m + 1
      <4>1. i # 0 /\ i - 1 = m /\ ext[i] = next /\ ext[i - 1] = f[m]
        BY <2>2, <2>5, <3>1
      <4> QED
        BY <3>1, <4>1 DEF next
    <3>2. CASE i # m + 1
      <4>1. i \in 0 .. m /\ ext[i] = f[i] /\ f[i] = at(f, i)
        <5>1. i \in 0 .. m
          BY <2>2, <3>2
        <5> HIDE DEF ext, at
        <5> QED
          BY <2>1, <2>5, <5>1
      <4>2. CASE i = 0
        BY <4>1, <4>2
      <4>3. CASE i # 0
        <5>1. i - 1 \in 0 .. m
          BY <2>2, <4>1, <4>3
        <5>2. ext[i - 1] = f[i - 1]
          BY <2>5, <5>1
        <5> QED
          BY <4>1, <4>3, <5>2
      <4> QED
        BY <4>2, <4>3
    <3> QED
      BY <3>1, <3>2
  <2> HIDE DEF ext, at
  <2>7. Goes(ext, m + 1)
    BY <2>4, <2>6
  <2> HIDE DEF Goes
  <2> QED
    BY <2>2, <2>7
<1>5. PICK f : Goes(f, n)
  <2> HIDE DEF P
  <2>1. 0 .. n \subseteq P
    BY <1>1, <1>3, <1>4, Inductive
  <2>2. n \in P
    BY <1>1, <2>1
  <2> HIDE DEF Goes
  <2> QED
    BY <2>2 DEF P
<1>6. Eq(f)
  BY <1>5
<1> HIDE DEF Eq
<1>7. Eq(picked)
  BY <1>6, Zenon
<1>8. Picked(ms, wanted) = picked[Len(ms)]
  BY DEF Picked, Eq
<1> HIDE DEF picked
<1>9. \A i \in 0 .. n : picked[i] = at(picked, i)
  BY <1>7 DEF Eq
<1>10. picked[0] = <<>> /\ \A i \in 1 .. n : picked[i] = step(i, picked[i - 1])
  <2>1. 0 \in 0 .. n /\ \A i \in 1 .. n : i \in 0 .. n /\ i # 0
    BY <1>1
  <2> QED
    BY <1>9, <2>1
<1>11. picked \in [0 .. n -> Seq(T)]
  <2> DEFINE Q == {i \in 0 .. n : picked[i] \in Seq(T)}
  <2>1. 0 \in Q
    <3>1. 0 \in 0 .. n /\ <<>> \in Seq(T)
      BY <1>1
    <3> QED
      BY <1>10, <3>1
  <2>2. ASSUME NEW i \in 0 .. n - 1, i \in Q
        PROVE  i + 1 \in Q
    <3>1. i + 1 \in 1 .. n /\ (i + 1) - 1 = i /\ i + 1 \in 0 .. n
      BY <1>1
    <3>2. picked[i + 1] = step(i + 1, picked[i])
      BY <1>10, <3>1
    <3>3. step(i + 1, picked[i]) \in Seq(T)
      BY <1>2, <2>2, <3>1
    <3> HIDE DEF step
    <3> QED
      BY <3>1, <3>2, <3>3
  <2> HIDE DEF Q
  <2>3. 0 .. n \subseteq Q
    BY <1>1, <2>1, <2>2, Inductive
  <2>4. \A i \in 0 .. n : picked[i] \in Seq(T)
    BY <2>3 DEF Q
  <2>5. picked = [i \in 0 .. n |-> picked[i]]
    BY <1>7 DEF Eq
  <2> QED
    BY <2>4, <2>5
<1> QED
  BY <1>8, <1>10, <1>11 DEF PicksBy

\* What is wanted is picked.
LEMMA PickedHas ==
  ASSUME NEW T, NEW s \in Seq(T), NEW wanted
  PROVE  /\ Picked(s, wanted) \in Seq(T)
         /\ \A i \in 1 .. Len(s) : s[i] \in wanted =>
              \E j \in 1 .. Len(Picked(s, wanted)) : Picked(s, wanted)[j] = s[i]
<1> DEFINE n == Len(s)
<1>1. PICK h \in [0 .. n -> Seq(T)] : PicksBy(h, s, wanted)
  BY PickedHistory
<1>2. /\ h[0] = <<>> /\ Picked(s, wanted) = h[n]
      /\ \A i \in 1 .. n : h[i] = IF s[i] \in wanted THEN Append(h[i - 1], s[i]) ELSE h[i - 1]
  BY <1>1 DEF PicksBy
<1>3. n \in Nat /\ \A i \in 1 .. n : s[i] \in T
  BY LenProperties, ElementOfSeq
<1> HIDE DEF n
<1> DEFINE Has(m) == \A i \in 1 .. m : s[i] \in wanted => \E j \in 1 .. Len(h[m]) : h[m][j] = s[i]
           P == {m \in 0 .. n : Has(m)}
<1>4. 0 \in P
  BY <1>3
<1>5. ASSUME NEW m \in 0 .. n - 1, m \in P
      PROVE  m + 1 \in P
  <2> DEFINE k == m + 1
  <2>1. k \in 1 .. n /\ k - 1 = m /\ h[m] \in Seq(T) /\ Len(h[m]) \in Nat /\ s[k] \in T
    BY <1>1, <1>3, LenProperties
  <2>2. h[k] = IF s[k] \in wanted THEN Append(h[m], s[k]) ELSE h[m]
    BY <1>2, <2>1
  <2> SUFFICES ASSUME NEW i \in 1 .. k, s[i] \in wanted
               PROVE  \E j \in 1 .. Len(h[k]) : h[k][j] = s[i]
    BY <2>1
  <2> HIDE DEF k
  <2>3. CASE i = k
    <3>1. h[k] = Append(h[m], s[k])
      BY <2>2, <2>3
    <3>2. Len(h[k]) = Len(h[m]) + 1 /\ h[k][Len(h[m]) + 1] = s[k]
      BY <2>1, <3>1, AppendProperties
    <3> QED
      BY <2>1, <2>3, <3>2
  <2>4. CASE i # k
    <3>1. i \in 1 .. m
      BY <2>1, <2>4
    <3>2. PICK j \in 1 .. Len(h[m]) : h[m][j] = s[i]
      BY <1>5, <3>1
    <3>3. CASE s[k] \in wanted
      <4>1. Len(h[k]) = Len(h[m]) + 1 /\ h[k][j] = h[m][j]
        BY <2>1, <2>2, <3>2, <3>3, AppendProperties
      <4> QED
        BY <2>1, <3>2, <4>1
    <3>4. CASE s[k] \notin wanted
      BY <2>2, <3>2, <3>4
    <3> QED
      BY <3>3, <3>4
  <2> QED
    BY <2>3, <2>4
<1>6. n \in P
  <2> HIDE DEF P
  <2>1. 0 .. n \subseteq P
    BY <1>3, <1>4, <1>5, Inductive
  <2> QED
    BY <1>3, <2>1
<1> QED
  BY <1>1, <1>2, <1>3, <1>6 DEF n
-----------------------------------------------------------------------------
(* The invariant *)

PokeMsg == [kind : {"poke"}, base : Nat, to : Nat, results : SUBSET Nat]
Upstream == [kind : {"push", "ack"}, id : Int]
Downstream == PokeMsg \cup [kind : {"connected", "pushError", "invalidPush"}]

IsPoke(msg) == msg.kind = "poke"

TrackerOK(t) ==
  /\ t = [outcome |-> t.outcome, confirmed |-> t.confirmed,
          largest |-> t.largest, deferred |-> t.deferred]
  /\ t.outcome \in [IDs -> {"none", "ok", "error"}]

TypeOK ==
  /\ cookie \in Nat /\ received \in Nat /\ sent \in Nat
  /\ made \in Nat
  /\ TrackerOK(tracker)
  /\ buffer \in Seq(PokeMsg)
  /\ link = [up |-> link.up, down |-> link.down, base |-> link.base, pusher |-> link.pusher]
  /\ link.up \in Seq(Upstream) /\ link.down \in Seq(Downstream) /\ link.base \in Nat
  /\ applied \in Seq([id : Nat, outcome : Outcome])
  /\ rows \subseteq Nat

\* Without a connection nothing is buffered or on its way to be.
Control ==
  status \in {"offline", "error"} =>
    /\ buffer = <<>> /\ ~Linked
    /\ \A i \in 1 .. Len(link.down) : ~IsPoke(link.down[i])

\* The versions the tab and the connection know exist, and results are of failed mutations.
Fits(p) ==
  /\ p.base <= p.to /\ p.to <= LMID
  /\ \A m \in p.results : p.base < m /\ m <= p.to /\ Failed(m)

Known ==
  /\ cookie <= LMID /\ received <= LMID /\ link.base <= LMID
  /\ \A m \in rows : m >= 1 /\ Failed(m)
  /\ \A i \in 1 .. Len(buffer) : Fits(buffer[i])
  /\ \A i \in 1 .. Len(link.down) : IsPoke(link.down[i]) => Fits(link.down[i])

\* A poke starts where the one before ended, or later.
InOrder ==
  /\ \A i \in 1 .. Len(buffer) :
       /\ buffer[i].to <= link.base
       /\ \A j \in 1 .. Len(buffer) : i < j => buffer[i].to <= buffer[j].base
       /\ \A j \in 1 .. Len(link.down) :
            IsPoke(link.down[j]) => buffer[i].to <= link.down[j].base
  /\ \A i \in 1 .. Len(link.down) : IsPoke(link.down[i]) =>
       /\ link.down[i].to <= link.base
       /\ \A j \in 1 .. Len(link.down) :
            IsPoke(link.down[j]) /\ i < j => link.down[i].to <= link.down[j].base

\* Only what the snapshot has is acknowledged.
AcksSeen ==
  \A i \in 1 .. Len(link.up) : link.up[i].kind = "ack" => link.up[i].id <= cookie

\* A failed mutation whose promise is not settled.
Pending(m) == Failed(m) /\ tracker.outcome[m] = "none"

\* Its result has not been forgotten by anything the tab has or is being sent.
SettledBySnapshot == \A m \in IDs : Failed(m) /\ m <= cookie => tracker.outcome[m] # "none"
ErrorsSeen == \A m \in IDs : tracker.outcome[m] = "error" => m <= cookie
RowKept == \A m \in IDs : Pending(m) => m \in rows
InBuffer(m) == \E j \in 1 .. Len(buffer) : m \in buffer[j].results
OnWire(m, i) == \E j \in 1 .. i : IsPoke(link.down[j]) /\ m \in link.down[j].results
Carries(m) ==
  /\ \A i \in 1 .. Len(buffer) : m <= buffer[i].to => InBuffer(m)
  /\ \A i \in 1 .. Len(link.down) :
       IsPoke(link.down[i]) /\ m <= link.down[i].to => InBuffer(m) \/ OnWire(m, i)
  /\ m <= link.base => InBuffer(m) \/ OnWire(m, Len(link.down))
Carried == \A m \in IDs : Pending(m) => Carries(m)

\* Only what upstream has applied is resolved with success.
SuccessApplied == \A m \in IDs : tracker.outcome[m] = "ok" => m <= LMID

Truthful ==
  OutcomeTruthful => SettledBySnapshot /\ ErrorsSeen /\ RowKept /\ Carried

MutationsInv ==
  TypeOK /\ Control /\ Known /\ InOrder /\ AcksSeen /\ SuccessApplied /\ Truthful
    /\ AppliedOnceInOrder

-----------------------------------------------------------------------------
(* Sequences and sets *)

LEMMA BufferElements ==
  ASSUME TypeOK
  PROVE  /\ Len(buffer) \in Nat /\ DOMAIN buffer = 1 .. Len(buffer)
         /\ buffer # <<>> => Len(buffer) > 0
         /\ \A i \in 1 .. Len(buffer) :
              /\ buffer[i] \in PokeMsg /\ buffer[i].base \in Nat /\ buffer[i].to \in Nat
              /\ buffer[i].results \subseteq Nat
<1>1. buffer \in Seq(PokeMsg)
  BY DEF TypeOK
<1>2. Len(buffer) \in Nat /\ DOMAIN buffer = 1 .. Len(buffer)
  BY <1>1, LenProperties
<1>3. \A i \in 1 .. Len(buffer) : buffer[i] \in PokeMsg
  BY <1>1, <1>2, ElementOfSeq
<1>4. buffer # <<>> => Len(buffer) > 0
  BY <1>1, <1>2, EmptySeq
<1> QED
  BY <1>2, <1>3, <1>4 DEF PokeMsg

LEMMA LinkElements ==
  ASSUME TypeOK
  PROVE  /\ Len(link.down) \in Nat /\ Len(link.up) \in Nat
         /\ \A i \in 1 .. Len(link.up) : link.up[i] \in Upstream /\ link.up[i].id \in Int
         /\ \A i \in 1 .. Len(link.down) :
              /\ link.down[i] \in Downstream
              /\ IsPoke(link.down[i]) =>
                   /\ link.down[i] \in PokeMsg
                   /\ link.down[i].base \in Nat /\ link.down[i].to \in Nat
                   /\ link.down[i].results \subseteq Nat
<1>1. link.down \in Seq(Downstream) /\ link.up \in Seq(Upstream)
  BY DEF TypeOK
<1>2. Len(link.down) \in Nat /\ Len(link.up) \in Nat
  BY <1>1, LenProperties
<1>3. \A i \in 1 .. Len(link.down) : link.down[i] \in Downstream
  BY <1>1, <1>2, ElementOfSeq
<1>4. \A i \in 1 .. Len(link.up) : link.up[i] \in Upstream
  BY <1>1, <1>2, ElementOfSeq
<1>5. \A msg \in Downstream : IsPoke(msg) =>
        /\ msg \in PokeMsg /\ msg.base \in Nat /\ msg.to \in Nat /\ msg.results \subseteq Nat
  BY DEF Downstream, PokeMsg, IsPoke
<1>6. \A msg \in Upstream : msg.id \in Int
  BY DEF Upstream
<1> QED
  BY <1>2, <1>3, <1>4, <1>5, <1>6

\* Nothing refers to a mutation upstream has not applied.
LEMMA LMIDType ==
  ASSUME TypeOK
  PROVE  /\ LMID \in Nat
         /\ \A i \in 1 .. LMID : applied[i] \in [id : Nat, outcome : Outcome]
<1>1. applied \in Seq([id : Nat, outcome : Outcome])
  BY DEF TypeOK
<1>2. Len(applied) \in Nat
  BY <1>1, LenProperties
<1> QED
  BY <1>1, <1>2, ElementOfSeq DEF LMID

LEMMA IDsArePositive == IDs \subseteq Nat /\ \A m \in IDs : m >= 1
  BY BoundsAssumption DEF IDs

\* The first message has been taken off the wire.
LEMMA Consuming ==
  ASSUME TypeOK, link.down # <<>>, Consume
  PROVE  /\ link' = [up |-> link.up, down |-> link'.down, base |-> link.base,
                     pusher |-> link.pusher]
         /\ link'.up = link.up /\ link'.base = link.base
         /\ link'.down \in Seq(Downstream)
         /\ Head(link.down) = link.down[1] /\ link.down[1] \in Downstream
         /\ Len(link.down) \in Nat /\ Len(link.down) > 0
         /\ Len(link'.down) = Len(link.down) - 1
         /\ \A i \in 1 .. Len(link'.down) : link'.down[i] = link.down[i + 1]
<1>1. link.down \in Seq(Downstream)
  BY DEF TypeOK
<1>2. link' = [up |-> link.up, down |-> Tail(link.down), base |-> link.base,
               pusher |-> link.pusher]
  BY DEF TypeOK, Consume
<1> QED
  BY <1>1, <1>2, HeadTailProperties, LenProperties, EmptySeq

\* A message has been put on the wire.
LEMMA Sending ==
  ASSUME TypeOK, NEW msg \in Downstream, NEW base \in Nat,
         link' = [link EXCEPT !.base = base, !.down = Append(@, msg)]
  PROVE  /\ link' = [up |-> link.up, down |-> link'.down, base |-> base,
                     pusher |-> link.pusher]
         /\ link'.up = link.up /\ link'.base = base
         /\ link'.down \in Seq(Downstream)
         /\ Len(link.down) \in Nat
         /\ Len(link'.down) = Len(link.down) + 1
         /\ \A i \in 1 .. Len(link.down) : link'.down[i] = link.down[i]
         /\ link'.down[Len(link.down) + 1] = msg
<1>1. link.down \in Seq(Downstream)
  BY DEF TypeOK
<1>2. link' = [up |-> link.up, down |-> Append(link.down, msg), base |-> base,
               pusher |-> link.pusher]
  BY DEF TypeOK
<1>3. /\ Append(link.down, msg) \in Seq(Downstream)
      /\ Len(link.down) \in Nat
      /\ Len(Append(link.down, msg)) = Len(link.down) + 1
      /\ \A i \in 1 .. Len(link.down) : Append(link.down, msg)[i] = link.down[i]
      /\ Append(link.down, msg)[Len(link.down) + 1] = msg
  BY <1>1, AppendProperties, LenProperties
<1> QED
  BY <1>2, <1>3

\* Messages have been sent up.
LEMMA SendingUp ==
  ASSUME TypeOK, NEW msgs \in Seq(Upstream), link' = [link EXCEPT !.up = @ \o msgs]
  PROVE  /\ link' = [up |-> link'.up, down |-> link.down, base |-> link.base,
                     pusher |-> link.pusher]
         /\ link'.down = link.down /\ link'.base = link.base
         /\ link'.up \in Seq(Upstream)
         /\ \A i \in 1 .. Len(link'.up) :
              \/ \E j \in 1 .. Len(link.up) : link'.up[i] = link.up[j]
              \/ \E j \in 1 .. Len(msgs) : link'.up[i] = msgs[j]
<1>1. link.up \in Seq(Upstream)
  BY DEF TypeOK
<1>2. link' = [up |-> link.up \o msgs, down |-> link.down, base |-> link.base,
               pusher |-> link.pusher]
  BY DEF TypeOK
<1>3. Len(link.up) \in Nat /\ Len(msgs) \in Nat
  BY <1>1, LenProperties
<1>4. /\ link.up \o msgs \in Seq(Upstream)
      /\ Len(link.up \o msgs) = Len(link.up) + Len(msgs)
      /\ \A i \in 1 .. Len(link.up) + Len(msgs) :
           (link.up \o msgs)[i] = IF i <= Len(link.up) THEN link.up[i]
                                  ELSE msgs[i - Len(link.up)]
  BY <1>1, ConcatProperties
<1>5. \A i \in 1 .. Len(link.up) + Len(msgs) :
        \/ i \in 1 .. Len(link.up)
        \/ i - Len(link.up) \in 1 .. Len(msgs) /\ ~(i <= Len(link.up))
  BY <1>3
<1>6. \A i \in 1 .. Len(link.up) + Len(msgs) :
        \/ \E j \in 1 .. Len(link.up) : (link.up \o msgs)[i] = link.up[j]
        \/ \E j \in 1 .. Len(msgs) : (link.up \o msgs)[i] = msgs[j]
  <2> TAKE i \in 1 .. Len(link.up) + Len(msgs)
  <2>1. CASE i \in 1 .. Len(link.up)
    <3>1. (link.up \o msgs)[i] = link.up[i]
      BY <1>3, <1>4, <2>1
    <3> QED
      BY <2>1, <3>1
  <2>2. CASE i - Len(link.up) \in 1 .. Len(msgs) /\ ~(i <= Len(link.up))
    <3>1. (link.up \o msgs)[i] = msgs[i - Len(link.up)]
      BY <1>4, <2>2
    <3> QED
      BY <2>2, <3>1
  <2> QED
    BY <1>5, <2>1, <2>2
<1>7. link'.up = link.up \o msgs /\ link'.down = link.down /\ link'.base = link.base
  BY <1>2
<1>8. link' = [up |-> link'.up, down |-> link.down, base |-> link.base, pusher |-> link.pusher]
  BY <1>2, <1>7
<1> QED
  BY <1>4, <1>6, <1>7, <1>8

-----------------------------------------------------------------------------
(* The tracker *)

LEMMA Tracked ==
  ASSUME NEW t, TrackerOK(t), NEW results
  PROVE  /\ TrackerOK(TrackResults(t, results))
         /\ \A m \in IDs : TrackResults(t, results).outcome[m] =
              IF m \in results /\ \A b \in SettledTwice(t, results) : m < b
              THEN "error" ELSE t.outcome[m]
  BY DEF TrackerOK, TrackResults

LEMMA Advanced ==
  ASSUME NEW t, TrackerOK(t), NEW n \in Nat
  PROVE  /\ TrackerOK(LmidAdvanced(t, n))
         /\ \A m \in IDs :
              \/ LmidAdvanced(t, n).outcome[m] = t.outcome[m]
              \/ /\ t.outcome[m] = "none" /\ LmidAdvanced(t, n).outcome[m] = "ok"
                 /\ m <= n
<1> DEFINE r == [t EXCEPT !.confirmed = n]
           q == Resolve(r, n)
<1>1. TrackerOK(r) /\ r.outcome = t.outcome
  BY DEF TrackerOK
<1>2. /\ TrackerOK(q)
      /\ \A m \in IDs : q.outcome[m] =
           IF m <= n /\ m <= made /\ t.outcome[m] = "none" THEN "ok" ELSE t.outcome[m]
  <2> DEFINE f == [m \in IDs |-> IF m <= n /\ m <= made /\ r.outcome[m] = "none"
                                THEN "ok" ELSE r.outcome[m]]
  <2>1. f \in [IDs -> {"none", "ok", "error"}]
    BY <1>1 DEF TrackerOK
  <2>2. q = [r EXCEPT !.outcome = f]
    BY DEF Resolve
  <2> HIDE DEF f, q, r
  <2>3. TrackerOK(q) /\ q.outcome = f
    BY <1>1, <2>1, <2>2 DEF TrackerOK
  <2> QED
    BY <1>1, <2>3 DEF f
<1>3. TrackerOK(ApplyListeners(q, n)) /\ ApplyListeners(q, n).outcome = q.outcome
  BY <1>2 DEF TrackerOK, ApplyListeners
<1>4. LmidAdvanced(t, n) = t \/ LmidAdvanced(t, n) = ApplyListeners(q, n)
  BY DEF LmidAdvanced
<1> HIDE DEF q, r
<1>5. CASE LmidAdvanced(t, n) = t
  BY <1>5
<1>6. CASE LmidAdvanced(t, n) = ApplyListeners(q, n)
  BY <1>2, <1>3, <1>6
<1> QED
  BY <1>4, <1>5, <1>6

\* While the tracker is right, it cannot have settled one of these results twice.
LEMMA NoneSettledTwice ==
  ASSUME TypeOK, OutcomeTruthful, ErrorsSeen, NEW results,
         \A m \in results : m \in Nat /\ cookie < m /\ Failed(m),
         NEW b \in SettledTwice(tracker, results), b \in IDs
  PROVE  FALSE
<1>1. b \in results /\ tracker.outcome[b] # "none"
  BY DEF SettledTwice
<1>2. tracker.outcome[b] \in {"none", "ok", "error"}
  BY DEF TypeOK, TrackerOK
<1>3. tracker.outcome[b] # "ok"
  BY <1>1 DEF OutcomeTruthful, Failed
<1>4. tracker.outcome[b] # "error"
  BY <1>1 DEF ErrorsSeen, TypeOK
<1> QED
  BY <1>1, <1>2, <1>3, <1>4

-----------------------------------------------------------------------------
(* Steps that settle no failed mutation *)

\* Nothing is lost as long as what carries a pending result, or its row, goes on doing so.
LEMMA TruthKept ==
  ASSUME TypeOK, SuccessApplied, Truthful, UNCHANGED <<applied, cookie>>,
         \A m \in IDs : \/ tracker'.outcome[m] = tracker.outcome[m]
                        \/ tracker.outcome[m] = "none" /\ tracker'.outcome[m] = "ok" /\ m <= LMID,
         \A m \in IDs : Pending(m) /\ m \in rows /\ cookie < m /\ Carries(m)
                        => m \in rows' /\ Carries(m)'
  PROVE  SuccessApplied' /\ Truthful'
<1>1. LMID' = LMID /\ \A m \in IDs : Failed(m)' <=> Failed(m)
  BY DEF LMID, Failed
<1>2. SuccessApplied'
  BY <1>1 DEF SuccessApplied
<1> SUFFICES ASSUME OutcomeTruthful'
             PROVE  SettledBySnapshot' /\ ErrorsSeen' /\ RowKept' /\ Carried'
  BY <1>2 DEF Truthful
<1>3. OutcomeTruthful
  BY <1>1 DEF OutcomeTruthful
<1>4. SettledBySnapshot /\ ErrorsSeen /\ RowKept /\ Carried
  BY <1>3 DEF Truthful
<1>5. SettledBySnapshot'
  BY <1>1, <1>4 DEF SettledBySnapshot
<1>6. ErrorsSeen'
  BY <1>4 DEF ErrorsSeen
<1>7. ASSUME NEW m \in IDs, Pending(m)'
      PROVE  m \in rows' /\ Carries(m)'
  <2>1. Pending(m)
    BY <1>1, <1>7 DEF Pending
  <2>2. m \in rows /\ Carries(m)
    BY <1>4, <2>1 DEF RowKept, Carried
  <2>3. cookie < m
    BY <1>4, <2>1, IDsArePositive DEF SettledBySnapshot, Pending, TypeOK
  <2> QED
    BY <2>1, <2>2, <2>3
<1>8. RowKept' /\ Carried'
  BY <1>7 DEF RowKept, Carried
<1> QED
  BY <1>5, <1>6, <1>8

\* The tab's pusher, the mutators and the pushers of the server.
LEMMA Unrelated ==
  ASSUME MutationsInv, UNCHANGED <<cookie, received, buffer, link, applied, rows>>,
         status' = status \/ (status = "error" /\ status' = "offline"),
         sent' \in Nat, made' \in Nat,
         TrackerOK(tracker'), tracker'.outcome = tracker.outcome
  PROVE  MutationsInv'
<1>1. TypeOK'
  BY DEF MutationsInv, TypeOK
<1>2. Control'
  BY DEF MutationsInv, Control, Linked, IsPoke
<1>3. LMID' = LMID /\ \A m : Failed(m)' <=> Failed(m)
  BY DEF LMID, Failed
<1>4. Known'
  BY <1>3 DEF MutationsInv, Known, Fits, IsPoke, LMID, Failed
<1>5. InOrder'
  BY DEF MutationsInv, InOrder, IsPoke
<1>6. AcksSeen'
  BY DEF MutationsInv, AcksSeen
<1>7. \A m : Carries(m)' <=> Carries(m)
  BY DEF Carries, InBuffer, OnWire, IsPoke
<1>8. SuccessApplied' /\ Truthful'
  BY <1>7, TruthKept DEF MutationsInv
<1>9. AppliedOnceInOrder'
  BY DEF MutationsInv, AppliedOnceInOrder
<1> QED
  BY <1>1, <1>2, <1>4, <1>5, <1>6, <1>8, <1>9 DEF MutationsInv

\* Messages go up, which acknowledge nothing the snapshot does not have.
LEMMA Upwards ==
  ASSUME MutationsInv, NEW msgs \in Seq(Upstream),
         \A j \in 1 .. Len(msgs) : msgs[j].kind = "ack" => msgs[j].id <= cookie',
         link' = [link EXCEPT !.up = @ \o msgs],
         cookie' \in Nat, cookie <= cookie', cookie' <= LMID,
         buffer' = buffer \/ buffer' = <<>>,
         sent' \in Nat, TrackerOK(tracker'), UNCHANGED <<made, received, applied, rows>>,
         UNCHANGED status
  PROVE  TypeOK' /\ Control' /\ Known' /\ InOrder' /\ AcksSeen' /\ AppliedOnceInOrder'
<1>1. /\ TypeOK
      /\ link' = [up |-> link'.up, down |-> link.down, base |-> link.base,
                   pusher |-> link.pusher]
      /\ link'.down = link.down /\ link'.base = link.base /\ link'.up \in Seq(Upstream)
      /\ \A i \in 1 .. Len(link'.up) :
           \/ \E j \in 1 .. Len(link.up) : link'.up[i] = link.up[j]
           \/ \E j \in 1 .. Len(msgs) : link'.up[i] = msgs[j]
  BY SendingUp DEF MutationsInv
<1>2. link'.pusher = link.pusher
  BY <1>1
<1>3. buffer' \in Seq(PokeMsg) /\ (buffer' = buffer \/ Len(buffer') = 0)
  BY <1>1, EmptySeq DEF TypeOK
<1>4. TypeOK'
  BY <1>1, <1>2, <1>3 DEF TypeOK
<1>5. Control'
  BY <1>1, <1>2 DEF MutationsInv, Control, Linked, IsPoke
<1>6. LMID' = LMID /\ \A m : Failed(m)' <=> Failed(m)
  BY DEF LMID, Failed
<1>7. Known'
  BY <1>1, <1>3, <1>6 DEF MutationsInv, Known, Fits, IsPoke, LMID, Failed
<1>8. InOrder'
  BY <1>1, <1>3 DEF MutationsInv, InOrder, IsPoke
<1>9. AcksSeen'
  <2>1. \A i \in 1 .. Len(link.up) : link.up[i].kind = "ack" => link.up[i].id <= cookie'
    BY SMTT(60), <1>1, LinkElements DEF MutationsInv, AcksSeen, TypeOK
  <2>2. ASSUME NEW i \in 1 .. Len(link'.up), link'.up[i].kind = "ack"
        PROVE  link'.up[i].id <= cookie'
    <3>1. CASE \E j \in 1 .. Len(link.up) : link'.up[i] = link.up[j]
      BY <2>1, <2>2, <3>1
    <3>2. CASE \E j \in 1 .. Len(msgs) : link'.up[i] = msgs[j]
      BY <2>2, <3>2
    <3> QED
      BY <1>1, <2>2, <3>1, <3>2
  <2> QED
    BY <2>2 DEF AcksSeen
<1>10. AppliedOnceInOrder'
  BY DEF MutationsInv, AppliedOnceInOrder
<1> QED
  BY <1>4, <1>5, <1>7, <1>8, <1>9, <1>10

\* The connection ends; what the tab has at that moment stays.
LEMMA Ended ==
  ASSUME MutationsInv, link' = NoLink, buffer' = <<>>,
         cookie' \in Nat, cookie <= cookie', cookie' <= LMID,
         sent' \in Nat, TrackerOK(tracker'), UNCHANGED <<made, received, applied, rows>>
  PROVE  /\ TypeOK' /\ Control' /\ Known' /\ InOrder' /\ AcksSeen' /\ AppliedOnceInOrder'
         /\ \A m \in IDs : Carries(m)'
<1>1. /\ link'.up \in Seq(Upstream) /\ link'.down \in Seq(Downstream)
      /\ buffer' \in Seq(PokeMsg) /\ Len(buffer') = 0
      /\ Len(link'.up) = 0 /\ Len(link'.down) = 0 /\ link'.base = 0
      /\ link' = [up |-> link'.up, down |-> link'.down, base |-> link'.base,
                  pusher |-> link'.pusher]
  BY EmptySeq DEF NoLink
<1>2. TypeOK'
  BY <1>1 DEF MutationsInv, TypeOK
<1>3. Control'
  BY <1>1 DEF Control, NoLink, Linked, IsPoke
<1>4. LMID' = LMID /\ LMID \in Nat /\ \A m : Failed(m)' <=> Failed(m)
  BY LMIDType DEF MutationsInv, LMID, Failed
<1>5. Known'
  BY <1>1, <1>4 DEF MutationsInv, Known
<1>6. InOrder' /\ AcksSeen'
  BY <1>1 DEF InOrder, AcksSeen
<1>7. AppliedOnceInOrder'
  BY DEF MutationsInv, AppliedOnceInOrder
<1>8. \A m \in IDs : Carries(m)'
  BY <1>1, IDsArePositive DEF Carries
<1> QED
  BY <1>2, <1>3, <1>5, <1>6, <1>7, <1>8

LEMMA EndedQuietly ==
  ASSUME MutationsInv, link' = NoLink, buffer' = <<>>, sent' \in Nat,
         UNCHANGED <<made, cookie, received, tracker, applied, rows>>
  PROVE  MutationsInv'
<1>1. cookie \in Nat /\ cookie <= LMID /\ TrackerOK(tracker)
  BY DEF MutationsInv, TypeOK, Known
<1>2. /\ TypeOK' /\ Control' /\ Known' /\ InOrder' /\ AcksSeen' /\ AppliedOnceInOrder'
      /\ \A m \in IDs : Carries(m)'
  BY <1>1, Ended
<1>3. SuccessApplied' /\ Truthful'
  BY <1>2, TruthKept DEF MutationsInv
<1> QED
  BY <1>2, <1>3 DEF MutationsInv

LEMMA ConnectSafe ==
  ASSUME MutationsInv, Connect
  PROVE  MutationsInv'
<1> DEFINE hello == [kind |-> "connected"]
<1>1. TypeOK /\ buffer = <<>> /\ cookie \in Nat /\ cookie <= LMID
  BY DEF MutationsInv, TypeOK, Control, Known, Connect
<1>2. /\ link'.up = <<>> /\ link'.down = <<hello>> /\ link'.base = cookie
      /\ link' = [up |-> link'.up, down |-> link'.down, base |-> link'.base,
                  pusher |-> link'.pusher]
  BY DEF Connect
<1>3. /\ link'.up \in Seq(Upstream) /\ Len(link'.up) = 0
      /\ link'.down \in Seq(Downstream) /\ Len(link'.down) = 1
      /\ link'.down[1] = hello /\ ~IsPoke(hello)
      /\ buffer \in Seq(PokeMsg) /\ Len(buffer) = 0
  <2>1. hello \in Downstream
    BY DEF Downstream
  <2> QED
    BY <1>1, <1>2, <2>1, EmptySeq DEF IsPoke
<1>4. TypeOK'
  BY <1>1, <1>2, <1>3 DEF TypeOK, Connect
<1>5. Control'
  BY DEF Control, Connect
<1>6. LMID' = LMID /\ \A m : Failed(m)' <=> Failed(m)
  BY DEF LMID, Failed, Connect
<1>7. Known'
  BY <1>1, <1>2, <1>3, <1>6 DEF MutationsInv, Known, Connect, IsPoke
<1>8. InOrder' /\ AcksSeen'
  BY <1>1, <1>3 DEF InOrder, AcksSeen, Connect, IsPoke
<1>9. SuccessApplied' /\ Truthful'
  <2>1. \A m \in IDs : cookie < m => Carries(m)'
    BY <1>1, <1>2, <1>3, IDsArePositive DEF Carries, Connect, IsPoke
  <2>2. UNCHANGED <<applied, cookie, rows, tracker>>
    BY DEF Connect
  <2> QED
    BY <1>1, <2>1, <2>2, TruthKept DEF MutationsInv
<1>10. AppliedOnceInOrder'
  BY DEF MutationsInv, AppliedOnceInOrder, Connect
<1> QED
  BY <1>4, <1>5, <1>7, <1>8, <1>9, <1>10 DEF MutationsInv

LEMMA HandleConnectedSafe ==
  ASSUME MutationsInv, HandleConnected
  PROVE  MutationsInv'
<1> DEFINE n == Len(link'.down)
<1>1. TypeOK /\ link.down # <<>>
  BY DEF MutationsInv, HandleConnected, Received
<1>2. UNCHANGED <<made, cookie, received, buffer, tracker, applied, rows>>
      /\ status' = "greeted" /\ sent' = SentBefore
  BY DEF HandleConnected
<1>3. /\ link' = [up |-> link.up, down |-> link'.down, base |-> link.base,
                  pusher |-> link.pusher]
      /\ link'.up = link.up /\ link'.base = link.base
      /\ link'.down \in Seq(Downstream)
      /\ Head(link.down) = link.down[1]
      /\ Len(link.down) \in Nat /\ Len(link.down) > 0
      /\ n = Len(link.down) - 1
      /\ \A i \in 1 .. n : link'.down[i] = link.down[i + 1]
  BY <1>1, Consuming DEF HandleConnected
<1>4. ~IsPoke(link.down[1])
  BY <1>3 DEF HandleConnected, Received, IsPoke
<1>5. TypeOK'
  BY <1>1, <1>2, <1>3 DEF TypeOK, SentBefore
<1>6. Control'
  BY <1>2 DEF Control
<1>7. LMID' = LMID /\ \A m : Failed(m)' <=> Failed(m)
  BY <1>2 DEF LMID, Failed
<1>8. \A i \in 1 .. n : i + 1 \in 1 .. Len(link.down)
  BY <1>3
<1>9. Known'
  BY <1>2, <1>3, <1>7, <1>8 DEF MutationsInv, Known, Fits, IsPoke, Failed, LMID
<1>10. InOrder'
  <2>1. \A i, j \in 1 .. n : i < j => i + 1 < j + 1
    BY <1>3
  <2> QED
    BY <1>2, <1>3, <1>8, <2>1 DEF MutationsInv, InOrder, IsPoke
<1>11. AcksSeen'
  BY <1>2, <1>3 DEF MutationsInv, AcksSeen
<1>12. SuccessApplied' /\ Truthful'
  <2>1. ASSUME NEW m \in IDs, Carries(m)
        PROVE  Carries(m)'
    <3>1. ASSUME NEW k \in 1 .. Len(link.down), OnWire(m, k)
          PROVE  OnWire(m, k - 1)'
      <4>1. PICK j \in 1 .. k : IsPoke(link.down[j]) /\ m \in link.down[j].results
        BY <3>1 DEF OnWire
      <4>2. j # 1
        BY <1>4, <4>1
      <4>3. j - 1 \in 1 .. k - 1 /\ j - 1 \in 1 .. n /\ (j - 1) + 1 = j
        BY <1>3, <4>2
      <4>4. link'.down[j - 1] = link.down[j]
        BY <1>3, <4>3
      <4> QED
        BY <4>1, <4>3, <4>4 DEF OnWire, IsPoke
    <3>2. InBuffer(m)' <=> InBuffer(m)
      BY <1>2 DEF InBuffer
    <3>3. \A i \in 1 .. Len(buffer') : m <= buffer'[i].to => InBuffer(m)'
      BY <1>2, <2>1, <3>2 DEF Carries
    <3>4. \A i \in 1 .. n : IsPoke(link'.down[i]) /\ m <= link'.down[i].to
                             => InBuffer(m)' \/ OnWire(m, i)'
      <4> TAKE i \in 1 .. n
      <4>1. (i + 1) - 1 = i
        BY <1>3
      <4>2. link'.down[i] = link.down[i + 1] /\ i + 1 \in 1 .. Len(link.down)
        BY <1>3, <1>8
      <4> QED
        BY <2>1, <3>1, <3>2, <4>1, <4>2 DEF Carries
    <3>5. m <= link'.base => InBuffer(m)' \/ OnWire(m, Len(link.down))'
      <4>1. PICK k : k = Len(link.down)
        OBVIOUS
      <4>2. k \in 1 .. Len(link.down) /\ k - 1 = n
        BY <1>3, <4>1
      <4>3. OnWire(m, k) => OnWire(m, k - 1)'
        BY <3>1, <4>2
      <4>4. OnWire(m, k - 1)' => OnWire(m, Len(link.down))'
        BY <4>2 DEF OnWire
      <4> QED
        BY <1>3, <2>1, <3>2, <4>1, <4>3, <4>4 DEF Carries
    <3> QED
      BY <3>3, <3>4, <3>5 DEF Carries
  <2> QED
    BY <1>1, <1>2, <2>1, TruthKept DEF MutationsInv
<1>13. AppliedOnceInOrder'
  BY <1>2 DEF MutationsInv, AppliedOnceInOrder
<1> QED
  BY <1>5, <1>6, <1>9, <1>10, <1>11, <1>12, <1>13 DEF MutationsInv

LEMMA HandlePokeSafe ==
  ASSUME MutationsInv, HandlePoke
  PROVE  MutationsInv'
<1> DEFINE n == Len(link'.down)
           b == Len(buffer)
           head == link.down[1]
<1>1. TypeOK /\ link.down # <<>>
  BY DEF MutationsInv, HandlePoke, Received
<1>2. UNCHANGED <<made, cookie, status, sent, tracker, applied, rows>>
  BY DEF HandlePoke
<1>3. /\ link' = [up |-> link.up, down |-> link'.down, base |-> link.base,
                  pusher |-> link.pusher]
      /\ link'.up = link.up /\ link'.base = link.base /\ link'.pusher = link.pusher
      /\ link'.down \in Seq(Downstream)
      /\ Head(link.down) = head
      /\ Len(link.down) \in Nat /\ Len(link.down) > 0
      /\ n = Len(link.down) - 1
      /\ \A i \in 1 .. n : link'.down[i] = link.down[i + 1]
  BY <1>1, Consuming DEF HandlePoke
<1>4. /\ IsPoke(head) /\ head \in PokeMsg /\ head.base \in Nat /\ head.to \in Nat
      /\ 1 \in 1 .. Len(link.down)
  <2>1. IsPoke(head)
    BY <1>3 DEF HandlePoke, Received, IsPoke
  <2> QED
    BY <1>1, <1>3, <2>1, LinkElements
<1>5. /\ buffer' \in Seq(PokeMsg) /\ b \in Nat /\ Len(buffer') = b + 1
      /\ \A i \in 1 .. b : buffer'[i] = buffer[i]
      /\ buffer'[b + 1] = head
      /\ buffer = <<>> <=> b = 0
  <2>1. buffer \in Seq(PokeMsg) /\ buffer' = Append(buffer, head) /\ received' = head.to
    BY <1>1, <1>3 DEF TypeOK, HandlePoke
  <2> QED
    BY <1>4, <2>1, AppendProperties, LenProperties, EmptySeq
<1>6. TypeOK'
  <2>1. received' = head.to
    BY <1>3 DEF HandlePoke
  <2> QED
    BY <1>1, <1>2, <1>3, <1>4, <1>5, <2>1 DEF TypeOK
<1>7. Control'
  <2>1. status \notin {"offline", "error"}
    BY <1>4 DEF MutationsInv, Control
  <2> QED
    BY <1>2, <2>1 DEF Control
<1>8. LMID' = LMID /\ \A m : Failed(m)' <=> Failed(m)
  BY <1>2 DEF LMID, Failed
<1>9. \A i \in 1 .. n : i + 1 \in 1 .. Len(link.down)
  BY <1>3
<1>10. \A i \in 1 .. b + 1 : i \in 1 .. b \/ i = b + 1
  BY <1>5
<1>11. Known'
  <2>1. Fits(head) /\ received' = head.to
    BY <1>3, <1>4 DEF MutationsInv, Known, HandlePoke
  <2>2. \A i \in 1 .. Len(buffer') : Fits(buffer'[i])
    BY <1>5, <1>10, <2>1 DEF MutationsInv, Known
  <2>3. \A i \in 1 .. n : IsPoke(link'.down[i]) => Fits(link'.down[i])
    BY <1>3, <1>9 DEF MutationsInv, Known
  <2> QED
    BY <1>2, <1>3, <1>8, <2>1, <2>2, <2>3 DEF MutationsInv, Known, Fits, IsPoke
<1>12. InOrder'
  <2>1. /\ head.to <= link.base
        /\ \A j \in 1 .. Len(link.down) :
             IsPoke(link.down[j]) /\ 1 < j => head.to <= link.down[j].base
    BY <1>4 DEF MutationsInv, InOrder
  <2>2. \A i \in 1 .. b : buffer[i].to <= head.base
    BY <1>4 DEF MutationsInv, InOrder
  <2>3. \A i \in 1 .. n : 1 < i + 1
    BY <1>3
  <2> HIDE DEF head
  <2>4. \A i \in 1 .. b + 1 : buffer'[i].to <= link.base
    BY <1>5, <1>10, <2>1 DEF MutationsInv, InOrder
  <2>5. ASSUME NEW i \in 1 .. b + 1, NEW j \in 1 .. b + 1, i < j
        PROVE  buffer'[i].to <= buffer'[j].base
    <3>1. i \in 1 .. b
      BY <1>5, <2>5
    <3>2. CASE j \in 1 .. b
      BY <1>5, <2>5, <3>1, <3>2 DEF MutationsInv, InOrder
    <3>3. CASE j = b + 1
      BY <1>5, <2>2, <3>1, <3>3
    <3> QED
      BY <1>10, <3>2, <3>3
  <2>6. ASSUME NEW i \in 1 .. b + 1, NEW j \in 1 .. n, IsPoke(link'.down[j])
        PROVE  buffer'[i].to <= link'.down[j].base
    <3>1. j + 1 \in 1 .. Len(link.down) /\ link'.down[j] = link.down[j + 1]
      BY <1>3, <1>9
    <3>2. CASE i \in 1 .. b
      BY <1>5, <2>6, <3>1, <3>2 DEF MutationsInv, InOrder
    <3>3. CASE i = b + 1
      BY <1>5, <2>1, <2>3, <2>6, <3>1, <3>3
    <3> QED
      BY <1>10, <3>2, <3>3
  <2>7. \A i \in 1 .. n : IsPoke(link'.down[i]) =>
          /\ link'.down[i].to <= link.base
          /\ \A j \in 1 .. n : IsPoke(link'.down[j]) /\ i < j => link'.down[i].to <= link'.down[j].base
    <3>1. \A i, j \in 1 .. n : i < j => i + 1 < j + 1
      BY <1>3
    <3> QED
      BY <1>3, <1>9, <3>1 DEF MutationsInv, InOrder
  <2> QED
    BY <1>3, <1>5, <2>4, <2>5, <2>6, <2>7 DEF InOrder, IsPoke
<1>13. AcksSeen'
  BY <1>2, <1>3 DEF MutationsInv, AcksSeen
<1>14. SuccessApplied' /\ Truthful'
  <2>1. ASSUME NEW m \in IDs, Carries(m)
        PROVE  Carries(m)'
    <3>1. InBuffer(m) \/ m \in head.results => InBuffer(m)'
      BY <1>5 DEF InBuffer
    <3>2. ASSUME NEW k \in 1 .. Len(link.down), OnWire(m, k)
          PROVE  InBuffer(m)' \/ OnWire(m, k - 1)'
      <4>1. PICK j \in 1 .. k : IsPoke(link.down[j]) /\ m \in link.down[j].results
        BY <3>2 DEF OnWire
      <4>2. CASE j = 1
        BY <3>1, <4>1, <4>2
      <4>3. CASE j # 1
        <5>1. j - 1 \in 1 .. k - 1 /\ j - 1 \in 1 .. n /\ (j - 1) + 1 = j
          BY <1>3, <4>3
        <5>2. link'.down[j - 1] = link.down[j]
          BY <1>3, <5>1
        <5> QED
          BY <4>1, <5>1, <5>2 DEF OnWire, IsPoke
      <4> QED
        BY <4>2, <4>3
    <3>3. \A i \in 1 .. Len(buffer') : m <= buffer'[i].to => InBuffer(m)'
      <4>1. m <= head.to => InBuffer(m) \/ OnWire(m, 1)
        BY <1>4, <2>1 DEF Carries
      <4>2. OnWire(m, 1) => m \in head.results
        BY DEF OnWire
      <4>3. \A i \in 1 .. b : m <= buffer[i].to => InBuffer(m)
        BY <2>1 DEF Carries
      <4> QED
        BY <1>5, <1>10, <3>1, <4>1, <4>2, <4>3
    <3>4. \A i \in 1 .. n : IsPoke(link'.down[i]) /\ m <= link'.down[i].to
                             => InBuffer(m)' \/ OnWire(m, i)'
      <4> TAKE i \in 1 .. n
      <4>1. (i + 1) - 1 = i
        BY <1>3
      <4>2. link'.down[i] = link.down[i + 1] /\ i + 1 \in 1 .. Len(link.down)
        BY <1>3, <1>9
      <4> QED
        BY <2>1, <3>1, <3>2, <4>1, <4>2 DEF Carries
    <3>5. m <= link'.base => InBuffer(m)' \/ OnWire(m, Len(link.down))'
      <4>1. PICK k : k = Len(link.down)
        OBVIOUS
      <4>2. k \in 1 .. Len(link.down) /\ k - 1 = n
        BY <1>3, <4>1
      <4>3. OnWire(m, k) => InBuffer(m)' \/ OnWire(m, k - 1)'
        BY <3>2, <4>2
      <4>4. OnWire(m, k - 1)' => OnWire(m, Len(link.down))'
        BY <4>2 DEF OnWire
      <4> QED
        BY <1>3, <2>1, <3>1, <4>1, <4>3, <4>4 DEF Carries
    <3> QED
      BY <3>3, <3>4, <3>5 DEF Carries
  <2> QED
    BY <1>1, <1>2, <2>1, TruthKept DEF MutationsInv
<1>15. AppliedOnceInOrder'
  BY <1>2 DEF MutationsInv, AppliedOnceInOrder
<1> QED
  BY <1>6, <1>7, <1>11, <1>12, <1>13, <1>14, <1>15 DEF MutationsInv

\* The server sends a message: an answer, or a poke from where the last one ended with the
\* results of that range.
LEMMA Sent ==
  ASSUME MutationsInv, NEW msg \in Downstream, NEW base \in Nat,
         link' = [link EXCEPT !.base = base, !.down = Append(@, msg)],
         link.base <= base, base <= LMID,
         IsPoke(msg) => Linked /\ Fits(msg) /\ msg.base = link.base /\ msg.to = base
                        /\ \A m \in rows : link.base < m /\ m <= base => m \in msg.results,
         ~IsPoke(msg) => base = link.base,
         UNCHANGED <<clientVars, applied, rows>>
  PROVE  MutationsInv'
<1>0. PICK n : n = Len(link.down)
  OBVIOUS
<1>1. TypeOK
  BY DEF MutationsInv
<1>2. UNCHANGED <<made, cookie, status, sent, received, buffer, tracker, applied, rows>>
  BY DEF clientVars
<1>3. /\ link' = [up |-> link.up, down |-> link'.down, base |-> base, pusher |-> link.pusher]
      /\ link'.up = link.up /\ link'.base = base /\ link'.pusher = link.pusher
      /\ link'.down \in Seq(Downstream)
      /\ n \in Nat /\ Len(link'.down) = n + 1
      /\ \A i \in 1 .. n : link'.down[i] = link.down[i]
      /\ link'.down[n + 1] = msg
  BY <1>0, <1>1, Sending
<1>4. \A i \in 1 .. n + 1 : i \in 1 .. n \/ i = n + 1
  BY <1>3
<1>5. TypeOK'
  BY <1>1, <1>2, <1>3 DEF TypeOK
<1>6. Control'
  <2>1. ASSUME status \in {"offline", "error"}, NEW i \in 1 .. n + 1
        PROVE  ~IsPoke(link'.down[i])
    BY <1>0, <1>3, <1>4, <2>1 DEF MutationsInv, Control
  <2> QED
    BY <1>2, <1>3, <2>1 DEF MutationsInv, Control, Linked, IsPoke
<1>7. LMID' = LMID /\ \A m : Failed(m)' <=> Failed(m)
  BY <1>2 DEF LMID, Failed
<1>8. Known'
  <2>1. \A i \in 1 .. n + 1 : IsPoke(link'.down[i]) => Fits(link'.down[i])
    BY <1>0, <1>3, <1>4 DEF MutationsInv, Known
  <2> QED
    BY <1>2, <1>3, <1>7, <2>1 DEF MutationsInv, Known, Fits, IsPoke
<1>9. InOrder'
  <2>1. /\ link.base \in Nat
        /\ \A i \in 1 .. n : IsPoke(link.down[i]) => link.down[i].to \in Nat
        /\ \A i \in 1 .. Len(buffer) : buffer[i].to \in Nat
    BY <1>0, <1>1, LinkElements, BufferElements DEF TypeOK
  <2>2. /\ \A i \in 1 .. n : IsPoke(link.down[i]) => link.down[i].to <= link.base
        /\ \A i \in 1 .. Len(buffer) : buffer[i].to <= link.base
    BY <1>0 DEF MutationsInv, InOrder
  <2>3. /\ \A i \in 1 .. n : IsPoke(link.down[i]) => link.down[i].to <= base
        /\ \A i \in 1 .. Len(buffer) : buffer[i].to <= base
    BY <2>1, <2>2
  <2>4. ASSUME NEW i \in 1 .. n + 1, IsPoke(link'.down[i])
        PROVE  link'.down[i].to <= base
    <3>1. CASE i \in 1 .. n
      BY <1>3, <2>3, <2>4, <3>1
    <3>2. CASE i = n + 1
      BY <1>3, <2>4, <3>2
    <3> QED
      BY <1>4, <3>1, <3>2
  <2>5. ASSUME NEW i \in 1 .. Len(buffer), NEW j \in 1 .. n + 1, IsPoke(link'.down[j])
        PROVE  buffer[i].to <= link'.down[j].base
    <3>1. CASE j \in 1 .. n
      BY <1>0, <1>3, <2>5, <3>1 DEF MutationsInv, InOrder
    <3>2. CASE j = n + 1
      BY <1>3, <2>2, <2>5, <3>2
    <3> QED
      BY <1>4, <3>1, <3>2
  <2>6. ASSUME NEW i \in 1 .. n + 1, NEW j \in 1 .. n + 1,
               IsPoke(link'.down[i]), IsPoke(link'.down[j]), i < j
        PROVE  link'.down[i].to <= link'.down[j].base
    <3>1. i \in 1 .. n /\ link'.down[i] = link.down[i]
      BY <1>3, <2>6
    <3>2. CASE j \in 1 .. n
      BY <1>0, <1>3, <2>6, <3>1, <3>2 DEF MutationsInv, InOrder
    <3>3. CASE j = n + 1
      BY <1>3, <2>2, <2>6, <3>1, <3>3
    <3> QED
      BY <1>4, <3>2, <3>3
  <2> QED
    BY <1>2, <1>3, <2>3, <2>4, <2>5, <2>6 DEF MutationsInv, InOrder, IsPoke
<1>10. AcksSeen'
  BY <1>2, <1>3 DEF MutationsInv, AcksSeen
<1>11. SuccessApplied' /\ Truthful'
  <2>1. ASSUME NEW m \in IDs, Carries(m), m \in rows
        PROVE  Carries(m)'
    <3>1. InBuffer(m)' <=> InBuffer(m)
      BY <1>2 DEF InBuffer
    <3>2. ASSUME NEW k \in Nat, k <= n, OnWire(m, k)
          PROVE  OnWire(m, k)' /\ OnWire(m, k + 1)'
      <4>1. PICK j \in 1 .. k : IsPoke(link.down[j]) /\ m \in link.down[j].results
        BY <3>2 DEF OnWire
      <4>2. j \in 1 .. n /\ j \in 1 .. k + 1
        BY <1>3, <3>2
      <4>3. link'.down[j] = link.down[j]
        BY <1>3, <4>2
      <4> QED
        BY <4>1, <4>2, <4>3 DEF OnWire, IsPoke
    <3>3. m <= link.base => InBuffer(m)' \/ OnWire(m, n + 1)'
      BY <1>0, <1>3, <2>1, <3>1, <3>2 DEF Carries
    <3>4. IsPoke(msg) /\ link.base < m /\ m <= base => OnWire(m, n + 1)'
      <4> SUFFICES ASSUME IsPoke(msg), link.base < m, m <= base
                   PROVE  OnWire(m, n + 1)'
        OBVIOUS
      <4>1. m \in msg.results /\ n + 1 \in 1 .. n + 1
        BY <1>3, <2>1
      <4> QED
        BY <1>3, <4>1 DEF OnWire, IsPoke
    <3>5. m <= base => InBuffer(m)' \/ OnWire(m, n + 1)'
      <4>1. m \in Nat /\ link.base \in Nat
        BY <1>1, IDsArePositive DEF TypeOK
      <4> QED
        BY <3>3, <3>4, <4>1
    <3>6. \A i \in 1 .. Len(buffer') : m <= buffer'[i].to => InBuffer(m)'
      BY <1>2, <2>1, <3>1 DEF Carries
    <3>7. \A i \in 1 .. n + 1 : IsPoke(link'.down[i]) /\ m <= link'.down[i].to
                                 => InBuffer(m)' \/ OnWire(m, i)'
      <4> SUFFICES ASSUME NEW i \in 1 .. n + 1, IsPoke(link'.down[i]), m <= link'.down[i].to
                   PROVE  InBuffer(m)' \/ OnWire(m, i)'
        OBVIOUS
      <4>1. CASE i \in 1 .. n
        <5>1. link'.down[i] = link.down[i] /\ i \in Nat /\ i <= n
          BY <1>3, <4>1
        <5> QED
          BY <1>0, <2>1, <3>1, <3>2, <4>1, <5>1 DEF Carries
      <4>2. CASE i = n + 1
        <5>1. m <= base
          BY <1>3, <4>2
        <5> QED
          BY <3>5, <4>2, <5>1
      <4> QED
        BY <1>4, <4>1, <4>2
    <3>8. m <= link'.base => InBuffer(m)' \/ OnWire(m, Len(link.down))'
      <4>1. OnWire(m, n + 1)' => OnWire(m, Len(link.down))'
        BY <1>3 DEF OnWire
      <4> QED
        BY <1>3, <3>5, <4>1
    <3> QED
      BY <1>3, <3>6, <3>7, <3>8 DEF Carries
  <2> QED
    BY <1>1, <1>2, <2>1, TruthKept DEF MutationsInv
<1>12. AppliedOnceInOrder'
  BY <1>2 DEF MutationsInv, AppliedOnceInOrder
<1> QED
  BY <1>5, <1>6, <1>8, <1>9, <1>10, <1>11, <1>12 DEF MutationsInv

LEMMA AnswerSafe ==
  ASSUME MutationsInv, NEW p, NEW kind \in {"pushError", "invalidPush"},
         link' = Answer(p, kind), UNCHANGED <<clientVars, applied, rows>>
  PROVE  MutationsInv'
<1> DEFINE msg == [kind |-> kind]
<1>1. TypeOK /\ link.base \in Nat /\ link.base <= LMID
  BY DEF MutationsInv, TypeOK, Known
<1>2. CASE link' = link
  <2>1. UNCHANGED <<made, cookie, status, sent, received, buffer, tracker, link, applied, rows>>
    BY <1>2 DEF clientVars
  <2>2. sent' \in Nat /\ made' \in Nat /\ TrackerOK(tracker')
    BY <1>1, <2>1 DEF TypeOK
  <2> QED
    BY <2>1, <2>2, Unrelated
<1>3. CASE link' = [link EXCEPT !.down = Append(@, msg)]
  <2>1. link' = [link EXCEPT !.base = link.base, !.down = Append(@, msg)]
    BY <1>1, <1>3 DEF TypeOK
  <2>2. msg \in Downstream /\ ~IsPoke(msg)
    BY DEF Downstream, IsPoke
  <2>3. link.base <= link.base
    BY <1>1
  <2> HIDE DEF msg
  <2> QED
    BY <1>1, <2>1, <2>2, <2>3, Sent
<1> QED
  BY <1>2, <1>3 DEF Answer

LEMMA PokeSafe ==
  ASSUME MutationsInv, Poke
  PROVE  MutationsInv'
<1>1. TypeOK /\ link.base \in Nat /\ LMID \in Nat
  BY LMIDType DEF MutationsInv, TypeOK
<1>2. PICK to \in link.base + 1 .. LMID :
        link' = [link EXCEPT !.base = to,
                   !.down = Append(@, [kind |-> "poke", base |-> link.base, to |-> to,
                                       results |-> rows \intersect (link.base + 1 .. to)])]
  BY DEF Poke
<1> DEFINE res == rows \intersect (link.base + 1 .. to)
           msg == [kind |-> "poke", base |-> link.base, to |-> to, results |-> res]
<1>3. to \in Nat /\ link.base <= to /\ to <= LMID
  BY <1>1
<1>4. /\ res \subseteq Nat
      /\ \A m \in res : link.base < m /\ m <= to /\ Failed(m)
      /\ \A m \in rows : link.base < m /\ m <= to => m \in res
  BY <1>1, <1>3 DEF MutationsInv, Known, TypeOK
<1>5. link' = [link EXCEPT !.base = to, !.down = Append(@, msg)]
  BY <1>2
<1> HIDE DEF res
<1>6. msg \in Downstream /\ IsPoke(msg)
  BY <1>1, <1>3, <1>4 DEF Downstream, PokeMsg, IsPoke
<1>7. /\ Fits(msg) /\ msg.base = link.base /\ msg.to = to
      /\ \A m \in rows : link.base < m /\ m <= to => m \in msg.results
  BY <1>3, <1>4 DEF Fits
<1>8. UNCHANGED <<clientVars, applied, rows>> /\ Linked
  BY DEF Poke
<1> HIDE DEF msg
<1> QED
  BY <1>3, <1>5, <1>6, <1>7, <1>8, Sent

\* What goes up does not matter to the results that come down.
LEMMA UpwardsTruth ==
  ASSUME MutationsInv, UNCHANGED <<applied, cookie, buffer>>,
         link'.down = link.down, link'.base = link.base,
         \A m \in IDs : \/ tracker'.outcome[m] = tracker.outcome[m]
                        \/ tracker.outcome[m] = "none" /\ tracker'.outcome[m] = "ok" /\ m <= LMID,
         \A m \in rows : cookie < m => m \in rows'
  PROVE  SuccessApplied' /\ Truthful'
<1>1. \A m \in IDs : Carries(m) => Carries(m)'
  BY DEF Carries, InBuffer, OnWire, IsPoke
<1> QED
  BY <1>1, TruthKept DEF MutationsInv

LEMMA FinishConnectSafe ==
  ASSUME MutationsInv, FinishConnect
  PROVE  MutationsInv'
<1>1. /\ UNCHANGED <<made, cookie, sent, received, buffer, link, applied, rows>>
      /\ status' = "connected" /\ tracker' = LmidAdvanced(tracker, received)
  BY DEF FinishConnect
<1>2. /\ TypeOK /\ TrackerOK(tracker) /\ received \in Nat
      /\ received <= LMID /\ LMID \in Nat
  BY LMIDType DEF MutationsInv, TypeOK, Known
<1>3. /\ TrackerOK(tracker')
      /\ \A m \in IDs : \/ tracker'.outcome[m] = tracker.outcome[m]
                        \/ tracker.outcome[m] = "none" /\ tracker'.outcome[m] = "ok" /\ m <= LMID
  BY <1>1, <1>2, Advanced, IDsArePositive
<1>4. TypeOK'
  BY <1>1, <1>2, <1>3 DEF TypeOK
<1>5. Control'
  BY <1>1 DEF Control
<1>6. LMID' = LMID /\ \A m : Failed(m)' <=> Failed(m)
  BY <1>1 DEF LMID, Failed
<1>7. Known'
  BY <1>1, <1>6 DEF MutationsInv, Known, Fits, IsPoke
<1>8. InOrder' /\ AcksSeen'
  BY <1>1 DEF MutationsInv, InOrder, AcksSeen, IsPoke
<1>9. SuccessApplied' /\ Truthful'
  BY <1>1, <1>3, UpwardsTruth
<1>10. AppliedOnceInOrder'
  BY <1>1 DEF MutationsInv, AppliedOnceInOrder
<1> QED
  BY <1>4, <1>5, <1>7, <1>8, <1>9, <1>10 DEF MutationsInv

LEMMA PushSafe ==
  ASSUME MutationsInv, Push
  PROVE  MutationsInv'
<1> DEFINE first == FirstToSend
           pushes == [i \in 1 .. made + 1 - first |-> [kind |-> "push", id |-> first + i - 1]]
<1>1. TypeOK /\ made \in Nat /\ cookie \in Nat /\ sent \in Nat /\ TrackerOK(tracker)
  BY DEF MutationsInv, TypeOK
<1>2. first \in Nat
  BY <1>1 DEF FirstToSend
<1>3. /\ link' = [link EXCEPT !.up = @ \o pushes]
      /\ sent' = IF first <= made THEN made ELSE sent
      /\ UNCHANGED <<made, cookie, status, received, buffer, tracker, applied, rows>>
  BY DEF Push
<1> HIDE DEF first
<1>4. pushes \in Seq(Upstream) /\ \A j \in 1 .. Len(pushes) : pushes[j].kind # "ack"
  <2>1. \A i \in 1 .. made + 1 - first : pushes[i] = [kind |-> "push", id |-> first + i - 1]
    OBVIOUS
  <2>2. \A i \in 1 .. made + 1 - first : pushes[i] \in Upstream /\ pushes[i].kind # "ack"
    BY <1>1, <1>2, <2>1 DEF Upstream
  <2>3. PICK k \in Nat : 1 .. made + 1 - first = 1 .. k
    <3>1. CASE made + 1 - first \in Nat
      BY <3>1
    <3>2. CASE made + 1 - first \notin Nat
      <4>1. 1 .. made + 1 - first = 1 .. 0
        BY <1>1, <1>2, <3>2
      <4> QED
        BY <4>1
    <3> QED
      BY <3>1, <3>2
  <2>4. pushes \in [1 .. k -> Upstream]
    BY <2>2, <2>3
  <2> HIDE DEF pushes
  <2>5. pushes \in Seq(Upstream)
    BY <2>4, SeqDef
  <2>6. Len(pushes) = k
    BY <2>4, <2>5, LenProperties
  <2> QED
    BY <2>2, <2>3, <2>5, <2>6
<1> HIDE DEF pushes
<1>5. sent' \in Nat /\ cookie <= cookie' /\ cookie' <= LMID /\ cookie' \in Nat
  BY <1>1, <1>3 DEF MutationsInv, Known
<1>6. TypeOK' /\ Control' /\ Known' /\ InOrder' /\ AcksSeen' /\ AppliedOnceInOrder'
  BY <1>1, <1>3, <1>4, <1>5, Upwards
<1>7. SuccessApplied' /\ Truthful'
  <2>1. link'.down = link.down /\ link'.base = link.base
    BY <1>1, <1>3, <1>4, SendingUp
  <2> QED
    BY <1>3, <2>1, UpwardsTruth
<1> QED
  BY <1>6, <1>7 DEF MutationsInv

LEMMA HandleMessageSafe ==
  ASSUME MutationsInv, HandleMessage
  PROVE  MutationsInv'
<1> DEFINE msg == Head(link.up)
           n == Len(link'.up)
<1>1. TypeOK /\ link.up \in Seq(Upstream) /\ link.up # <<>>
  BY DEF MutationsInv, TypeOK, HandleMessage
<1>2. UNCHANGED <<made, cookie, status, sent, received, buffer, tracker, applied>>
  BY DEF HandleMessage, clientVars
<1>3. rows' = IF msg.kind = "ack" THEN {m \in rows : m > msg.id} ELSE rows
  BY DEF HandleMessage
<1>4. /\ link' = [up |-> link'.up, down |-> link.down, base |-> link.base,
                  pusher |-> link.pusher]
      /\ link'.up = Tail(link.up) /\ link'.down = link.down /\ link'.base = link.base
      /\ link'.pusher = link.pusher
  BY <1>1 DEF HandleMessage, TypeOK
<1>5. /\ link'.up \in Seq(Upstream) /\ Len(link.up) \in Nat /\ Len(link.up) > 0
      /\ n = Len(link.up) - 1 /\ msg = link.up[1]
      /\ \A i \in 1 .. n : link'.up[i] = link.up[i + 1]
  BY <1>1, <1>4, HeadTailProperties, LenProperties, EmptySeq
<1>6. TypeOK'
  BY <1>1, <1>2, <1>3, <1>4, <1>5 DEF TypeOK
<1>7. Control'
  BY <1>2, <1>4 DEF MutationsInv, Control, Linked, IsPoke
<1>8. LMID' = LMID /\ \A m : Failed(m)' <=> Failed(m)
  BY <1>2 DEF LMID, Failed
<1>9. Known'
  BY <1>2, <1>3, <1>4, <1>8 DEF MutationsInv, Known, Fits, IsPoke
<1>10. InOrder'
  BY <1>2, <1>4 DEF MutationsInv, InOrder, IsPoke
<1>11. AcksSeen'
  <2>1. \A i \in 1 .. n : i + 1 \in 1 .. Len(link.up)
    BY <1>5
  <2> QED
    BY <1>2, <1>5, <2>1 DEF MutationsInv, AcksSeen
<1>12. SuccessApplied' /\ Truthful'
  <2>1. msg.kind = "ack" => msg.id <= cookie
    <3>1. 1 \in 1 .. Len(link.up)
      BY <1>5
    <3> QED
      BY <1>5, <3>1 DEF MutationsInv, AcksSeen
  <2>2. cookie \in Nat /\ rows \subseteq Nat /\ msg.id \in Int
    <3>1. 1 \in 1 .. Len(link.up)
      BY <1>5
    <3> QED
      BY <1>1, <1>5, <3>1, LinkElements DEF TypeOK
  <2> HIDE DEF msg
  <2>3. \A m \in rows : cookie < m => m \in rows'
    BY <1>3, <2>1, <2>2
  <2> QED
    BY <1>2, <1>4, <2>3, UpwardsTruth
<1>13. AppliedOnceInOrder'
  BY <1>2 DEF MutationsInv, AppliedOnceInOrder
<1> QED
  BY <1>6, <1>7, <1>9, <1>10, <1>11, <1>12, <1>13 DEF MutationsInv

\* The next mutation is applied upstream.
LEMMA ApplyMutationSafe ==
  ASSUME MutationsInv, NEW p, ApplyMutation(p)
  PROVE  MutationsInv'
<1> DEFINE m0 == pushers[p].batch[1][1]
<1>1. TypeOK /\ LMID \in Nat
  BY LMIDType DEF MutationsInv
<1>2. UNCHANGED <<made, cookie, status, sent, received, buffer, tracker, link>>
  BY DEF ApplyMutation, clientVars
<1>3. PICK o \in Outcome :
        /\ applied' = Append(applied, [id |-> m0, outcome |-> o])
        /\ rows' = IF o = "error" THEN rows \union {m0} ELSE rows
  BY DEF ApplyMutation
<1>4. m0 = LMID + 1
  BY DEF ApplyMutation, IsNext
<1> HIDE DEF m0
<1>5. /\ applied' \in Seq([id : Nat, outcome : Outcome])
      /\ LMID' = LMID + 1
      /\ \A i \in 1 .. LMID : applied'[i] = applied[i]
      /\ applied'[LMID + 1] = [id |-> m0, outcome |-> o]
  <2>1. [id |-> m0, outcome |-> o] \in [id : Nat, outcome : Outcome]
    BY <1>1, <1>4
  <2> QED
    BY <1>1, <1>3, <2>1, AppendProperties DEF TypeOK, LMID
<1>6. TypeOK'
  BY <1>1, <1>2, <1>3, <1>4, <1>5 DEF TypeOK
<1>7. Control'
  BY <1>2 DEF MutationsInv, Control, Linked, IsPoke
<1>8. \A m \in Nat : m >= 1 => (Failed(m)' <=> Failed(m) \/ (m = LMID + 1 /\ o = "error"))
  <2> SUFFICES ASSUME NEW m \in Nat, m >= 1
               PROVE  Failed(m)' <=> Failed(m) \/ (m = LMID + 1 /\ o = "error")
    OBVIOUS
  <2>1. CASE m <= LMID
    BY <1>1, <1>5, <2>1 DEF Failed
  <2>2. CASE m = LMID + 1
    BY <1>1, <1>5, <2>2 DEF Failed
  <2>3. CASE m > LMID + 1
    BY <1>1, <1>5, <2>3 DEF Failed
  <2> QED
    BY <1>1, <2>1, <2>2, <2>3
<1>9. ASSUME NEW q, q.base \in Nat, q.to \in Nat, q.results \subseteq Nat, Fits(q)
      PROVE  Fits(q)'
  <2>1. \A m \in q.results : m >= 1
    BY <1>9 DEF Fits
  <2> QED
    BY <1>1, <1>5, <1>8, <1>9, <2>1 DEF Fits
<1>10. Known'
  <2>1. cookie' <= LMID' /\ received' <= LMID' /\ link'.base <= LMID'
    BY <1>1, <1>2, <1>5 DEF MutationsInv, Known, TypeOK
  <2>2. \A m \in rows' : m >= 1 /\ Failed(m)'
    <3>1. \A m \in rows : m \in Nat /\ m >= 1 /\ Failed(m)
      BY <1>1 DEF MutationsInv, Known, TypeOK
    <3> QED
      BY <1>1, <1>3, <1>4, <1>8, <3>1
  <2>3. \A i \in 1 .. Len(buffer) : Fits(buffer[i])'
    <3> SUFFICES ASSUME NEW i \in 1 .. Len(buffer)
                 PROVE  Fits(buffer[i])'
      OBVIOUS
    <3>1. PICK q : q = buffer[i]
      OBVIOUS
    <3>2. q.base \in Nat /\ q.to \in Nat /\ q.results \subseteq Nat /\ Fits(q)
      BY <1>1, <3>1, BufferElements DEF MutationsInv, Known
    <3>3. Fits(q)'
      BY <1>9, <3>2
    <3> QED
      BY <1>2, <3>1, <3>3 DEF Fits
  <2>4. \A i \in 1 .. Len(link.down) : IsPoke(link.down[i]) => Fits(link.down[i])'
    <3> SUFFICES ASSUME NEW i \in 1 .. Len(link.down), IsPoke(link.down[i])
                 PROVE  Fits(link.down[i])'
      OBVIOUS
    <3>1. PICK q : q = link.down[i]
      OBVIOUS
    <3>2. q.base \in Nat /\ q.to \in Nat /\ q.results \subseteq Nat /\ Fits(q)
      BY <1>1, <3>1, LinkElements DEF MutationsInv, Known
    <3>3. Fits(q)'
      BY <1>9, <3>2
    <3> QED
      BY <1>2, <3>1, <3>3 DEF Fits
  <2> QED
    BY <1>2, <2>1, <2>2, <2>3, <2>4 DEF Known, IsPoke
<1>11. InOrder' /\ AcksSeen'
  BY <1>2 DEF MutationsInv, InOrder, AcksSeen, IsPoke
<1>12. SuccessApplied' /\ Truthful'
  <2>1. \A m \in IDs : m \in Nat /\ m >= 1
    BY IDsArePositive
  <2>2. SuccessApplied'
    BY <1>1, <1>2, <1>5, <2>1 DEF MutationsInv, SuccessApplied
  <2> SUFFICES ASSUME OutcomeTruthful'
               PROVE  SettledBySnapshot' /\ ErrorsSeen' /\ RowKept' /\ Carried'
    BY <2>2 DEF Truthful
  <2>3. OutcomeTruthful
    <3> SUFFICES ASSUME NEW m \in IDs, tracker.outcome[m] = "ok"
                 PROVE  m <= LMID /\ applied[m].outcome = "ok"
      BY DEF OutcomeTruthful
    <3>1. m \in 1 .. LMID
      BY <1>1, <2>1 DEF MutationsInv, SuccessApplied
    <3>2. applied'[m].outcome = "ok"
      BY <1>2 DEF OutcomeTruthful
    <3> QED
      BY <1>5, <3>1, <3>2
  <2>4. SettledBySnapshot /\ ErrorsSeen /\ RowKept /\ Carried
    BY <2>3 DEF MutationsInv, Truthful
  <2>5. SettledBySnapshot'
    <3>1. \A m \in IDs : m <= cookie => m # LMID + 1
      BY <1>1, <2>1 DEF MutationsInv, Known, TypeOK
    <3> QED
      BY <1>2, <1>8, <2>1, <2>4, <3>1 DEF SettledBySnapshot
  <2>6. ErrorsSeen'
    BY <1>2, <2>4 DEF ErrorsSeen
  <2>7. RowKept'
    BY <1>2, <1>3, <1>4, <1>8, <2>1, <2>4 DEF RowKept, Pending
  <2>8. Carried'
    <3> SUFFICES ASSUME NEW m \in IDs, Pending(m)'
                 PROVE  Carries(m)'
      BY DEF Carried
    <3>1. CASE Failed(m)
      <4>1. Pending(m)
        BY <1>2, <3>1 DEF Pending
      <4>2. Carries(m)
        BY <2>4, <4>1 DEF Carried
      <4> QED
        BY <1>2, <4>2 DEF Carries, InBuffer, OnWire, IsPoke
    <3>2. CASE m = LMID + 1
      <4>1. \A i \in 1 .. Len(buffer) : ~(m <= buffer[i].to)
        BY <1>1, <3>2, BufferElements DEF MutationsInv, Known, Fits
      <4>2. \A i \in 1 .. Len(link.down) : IsPoke(link.down[i]) => ~(m <= link.down[i].to)
        BY SMTT(60), <1>1, <3>2, LinkElements DEF MutationsInv, Known, Fits
      <4>3. ~(m <= link.base)
        BY <1>1, <3>2 DEF MutationsInv, Known, TypeOK
      <4> QED
        BY <1>2, <4>1, <4>2, <4>3 DEF Carries, IsPoke
    <3> QED
      BY <1>8, <2>1, <3>1, <3>2 DEF Pending
  <2> QED
    BY <2>5, <2>6, <2>7, <2>8
<1>13. AppliedOnceInOrder'
  <2>1. \A i \in DOMAIN applied' : i \in 1 .. LMID \/ i = LMID + 1
    BY <1>1, <1>5, LenProperties DEF LMID
  <2>2. \A i \in 1 .. LMID : applied[i].id = i
    BY <1>1, LenProperties DEF MutationsInv, AppliedOnceInOrder, TypeOK, LMID
  <2> QED
    BY <1>4, <1>5, <2>1, <2>2 DEF AppliedOnceInOrder
<1> QED
  BY <1>6, <1>7, <1>10, <1>11, <1>12, <1>13 DEF MutationsInv

-----------------------------------------------------------------------------
(* Steps that settle failed mutations *)

\* The snapshot moves to v and the tracker is given the results up to there.
LEMMA ResultsDelivered ==
  ASSUME MutationsInv, NEW v \in Nat, cookie' = v, cookie <= v, v <= LMID, NEW results,
         \A m \in results : m \in Nat /\ cookie < m /\ m <= v /\ Failed(m),
         OutcomeTruthful => \A m \in IDs : Pending(m) /\ m <= v => m \in results,
         \/ tracker' = TrackResults(tracker, results)
         \/ tracker' = LmidAdvanced(TrackResults(tracker, results), v),
         UNCHANGED <<applied, rows>>,
         \A m \in IDs : Carries(m) /\ m \notin results => Carries(m)'
  PROVE  /\ TrackerOK(tracker') /\ SuccessApplied' /\ Truthful'
         /\ OutcomeTruthful => OutcomeTruthful'
<1> DEFINE t == TrackResults(tracker, results)
<1>1. TypeOK /\ TrackerOK(tracker) /\ LMID \in Nat /\ cookie \in Nat
  BY LMIDType DEF MutationsInv, TypeOK
<1>2. /\ TrackerOK(t)
      /\ \A m \in IDs : t.outcome[m] =
           IF m \in results /\ \A b \in SettledTwice(tracker, results) : m < b
           THEN "error" ELSE tracker.outcome[m]
  BY <1>1, Tracked
<1> HIDE DEF t
<1>3. /\ TrackerOK(tracker')
      /\ \A m \in IDs : \/ tracker'.outcome[m] = t.outcome[m]
                        \/ t.outcome[m] = "none" /\ tracker'.outcome[m] = "ok" /\ m <= v
  <2>1. tracker' = t \/ tracker' = LmidAdvanced(t, v)
    BY DEF t
  <2>2. CASE tracker' = t
    BY <1>2, <2>2
  <2>3. CASE tracker' = LmidAdvanced(t, v)
    BY <1>2, <2>3, Advanced
  <2> QED
    BY <2>1, <2>2, <2>3
<1>4. LMID' = LMID /\ \A m : Failed(m)' <=> Failed(m)
  BY DEF LMID, Failed
<1>5. \A m \in IDs : m \in Nat /\ m >= 1
  BY IDsArePositive
<1>6. \A m \in IDs : tracker.outcome[m] # "none" => t.outcome[m] = tracker.outcome[m]
  <2> SUFFICES ASSUME NEW m \in IDs, tracker.outcome[m] # "none"
               PROVE  t.outcome[m] = tracker.outcome[m]
    OBVIOUS
  <2>1. m \in results => m \in SettledTwice(tracker, results)
    BY DEF SettledTwice
  <2>2. ~(m < m)
    BY <1>5
  <2> QED
    BY <1>2, <2>1, <2>2
<1>7. \A m \in IDs : t.outcome[m] = "none" => tracker.outcome[m] = "none"
  BY <1>6
<1>8. SuccessApplied'
  <2> SUFFICES ASSUME NEW m \in IDs, tracker'.outcome[m] = "ok"
               PROVE  m <= LMID
    BY <1>4 DEF SuccessApplied
  <2>1. CASE tracker'.outcome[m] = t.outcome[m]
    BY <1>2, <2>1 DEF MutationsInv, SuccessApplied
  <2>2. CASE m <= v
    BY <1>1, <1>5, <2>2
  <2> QED
    BY <1>3, <2>1, <2>2
<1>9. OutcomeTruthful' => OutcomeTruthful
  <2> SUFFICES ASSUME OutcomeTruthful', NEW m \in IDs, tracker.outcome[m] = "ok"
               PROVE  m <= LMID /\ applied[m].outcome = "ok"
    BY DEF OutcomeTruthful
  <2>1. tracker'.outcome[m] = "ok"
    BY <1>3, <1>6
  <2> QED
    BY <1>4, <2>1 DEF OutcomeTruthful
<1>10. ASSUME OutcomeTruthful
       PROVE  /\ OutcomeTruthful' /\ SettledBySnapshot' /\ ErrorsSeen'
              /\ RowKept' /\ Carried'
  <2>1. SettledBySnapshot /\ ErrorsSeen /\ RowKept /\ Carried
    BY <1>10 DEF MutationsInv, Truthful
  <2>2. \A m \in results : m \in IDs => t.outcome[m] = "error"
    <3> SUFFICES ASSUME NEW m \in results, m \in IDs, NEW b \in SettledTwice(tracker, results)
                 PROVE  m < b
      BY <1>2
    <3>1. b \notin IDs
      BY <1>1, <1>10, <2>1, NoneSettledTwice
    <3>2. b \in Nat /\ b >= 1 /\ cookie < b
      <4>1. b \in results
        BY DEF SettledTwice
      <4>2. b \in Nat /\ cookie < b
        BY <4>1
      <4> QED
        BY <1>1, <4>2
    <3> QED
      BY <3>1, <3>2, BoundsAssumption DEF IDs
  <2>3. \A m \in IDs : Pending(m) /\ m <= v => t.outcome[m] = "error"
    BY <1>10, <2>2
  <2>4. \A m \in IDs : Failed(m) /\ m <= v => t.outcome[m] # "none"
    BY <1>7, <2>3 DEF Pending
  <2>5. OutcomeTruthful'
    <3> SUFFICES ASSUME NEW m \in IDs, tracker'.outcome[m] = "ok"
                 PROVE  m <= LMID /\ applied[m].outcome = "ok"
      BY <1>4 DEF OutcomeTruthful
    <3>1. CASE tracker'.outcome[m] = t.outcome[m]
      BY <1>2, <1>10, <3>1 DEF OutcomeTruthful
    <3>2. CASE t.outcome[m] = "none" /\ m <= v
      <4>1. m <= LMID /\ ~Failed(m)
        BY <1>1, <1>5, <2>4, <3>2
      <4>2. applied[m].outcome \in Outcome
        BY <1>1, <1>5, <4>1, LMIDType
      <4> QED
        BY <4>1, <4>2 DEF Failed, Outcome
    <3> QED
      BY <1>3, <3>1, <3>2
  <2>6. SettledBySnapshot'
    BY <1>3, <1>4, <2>4 DEF SettledBySnapshot
  <2>7. ErrorsSeen'
    <3> SUFFICES ASSUME NEW m \in IDs, tracker'.outcome[m] = "error"
                 PROVE  m <= v
      BY DEF ErrorsSeen
    <3>1. t.outcome[m] = "error"
      BY <1>3
    <3>2. m \in results \/ tracker.outcome[m] = "error"
      BY <1>2, <3>1
    <3> QED
      BY <1>1, <1>5, <2>1, <3>2 DEF ErrorsSeen
  <2>8. ASSUME NEW m \in IDs, Pending(m)'
        PROVE  Pending(m) /\ m \notin results
    BY <1>3, <1>4, <1>7, <2>2, <2>8 DEF Pending
  <2>9. RowKept' /\ Carried'
    BY <2>1, <2>8 DEF RowKept, Carried
  <2> QED
    BY <2>5, <2>6, <2>7, <2>9
<1> QED
  BY <1>3, <1>8, <1>9, <1>10 DEF Truthful

\* A poke that fits the snapshot brings the results of everything up to its end.
LEMMA FrameRange ==
  ASSUME MutationsInv, buffer # <<>>, buffer[1].base = cookie
  PROVE  /\ Last(buffer).to \in Nat /\ cookie <= Last(buffer).to /\ Last(buffer).to <= LMID
         /\ \A m \in Results(buffer) :
              m \in Nat /\ cookie < m /\ m <= Last(buffer).to /\ Failed(m)
         /\ \A m \in IDs : Carries(m) /\ m <= Last(buffer).to => m \in Results(buffer)
         /\ \A m : InBuffer(m) <=> m \in Results(buffer)
<1>1. PICK n : n = Len(buffer)
  OBVIOUS
<1>2. /\ n \in Nat /\ n > 0 /\ DOMAIN buffer = 1 .. n /\ 1 \in 1 .. n /\ n \in 1 .. n
      /\ \A i \in 1 .. n : /\ buffer[i].base \in Nat /\ buffer[i].to \in Nat
                            /\ buffer[i].results \subseteq Nat
  BY <1>1, BufferElements DEF MutationsInv
<1>3. Last(buffer) = buffer[n]
  BY <1>1 DEF Last
<1>4. /\ \A i \in 1 .. n : Fits(buffer[i])
      /\ \A i, j \in 1 .. n : i < j => buffer[i].to <= buffer[j].base
  BY <1>1 DEF MutationsInv, Known, InOrder
<1>5. LMID \in Nat /\ cookie \in Nat
  BY LMIDType DEF MutationsInv, TypeOK
<1>6. \A i \in 1 .. n : cookie <= buffer[i].base /\ buffer[i].to <= buffer[n].to
  <2> TAKE i \in 1 .. n
  <2>1. cookie <= buffer[i].base
    <3>1. CASE i = 1
      BY <1>5, <3>1
    <3>2. CASE i # 1
      <4>1. buffer[1].to <= buffer[i].base /\ buffer[1].base <= buffer[1].to
        BY <1>2, <1>4, <3>2 DEF Fits
      <4> QED
        BY <1>2, <1>5, <4>1
    <3> QED
      BY <3>1, <3>2
  <2>2. buffer[i].to <= buffer[n].to
    <3>1. CASE i = n
      BY <1>2, <3>1
    <3>2. CASE i # n
      <4>1. buffer[i].to <= buffer[n].base /\ buffer[n].base <= buffer[n].to
        BY <1>2, <1>4, <3>2 DEF Fits
      <4> QED
        BY <1>2, <4>1
    <3> QED
      BY <3>1, <3>2
  <2> QED
    BY <2>1, <2>2
<1>7. \A m : m \in Results(buffer) <=> \E i \in 1 .. n : m \in buffer[i].results
  BY <1>2 DEF Results
<1>8. ASSUME NEW m \in Results(buffer)
      PROVE  m \in Nat /\ cookie < m /\ m <= buffer[n].to /\ Failed(m)
  <2>1. PICK i \in 1 .. n : m \in buffer[i].results
    BY <1>7
  <2>2. m \in Nat /\ buffer[i].base < m /\ m <= buffer[i].to /\ Failed(m)
    BY <1>2, <1>4, <2>1 DEF Fits
  <2> QED
    BY <1>2, <1>5, <1>6, <2>2
<1>9. cookie <= buffer[n].to /\ buffer[n].to <= LMID
  <2>1. Fits(buffer[n]) /\ cookie <= buffer[n].base
    BY <1>2, <1>4, <1>6
  <2> QED
    BY <1>2, <1>5, <2>1 DEF Fits
<1>10. \A m : InBuffer(m) <=> m \in Results(buffer)
  BY <1>1, <1>7 DEF InBuffer
<1>11. \A m \in IDs : Carries(m) /\ m <= buffer[n].to => m \in Results(buffer)
  BY <1>1, <1>2, <1>10 DEF Carries
<1> QED
  BY <1>2, <1>3, <1>8, <1>9, <1>10, <1>11

LEMMA AckIsSeen ==
  ASSUME NEW v \in Nat, NEW results \in SUBSET (0 .. v)
  PROVE  /\ Ack(tracker, results) \in Seq(Upstream)
         /\ \A j \in 1 .. Len(Ack(tracker, results)) :
              Ack(tracker, results)[j].kind = "ack" => Ack(tracker, results)[j].id <= v
<1> DEFINE ack == [kind |-> "ack", id |-> AckedUpTo(results)]
<1>1. CASE Ack(tracker, results) = <<>>
  BY <1>1, EmptySeq
<1>2. CASE results # {} /\ Ack(tracker, results) = <<ack>>
  <2>1. AckedUpTo(results) \in 0 .. v
    BY <1>2, MaxIsGreatest DEF AckedUpTo
  <2>2. ack \in Upstream /\ ack.id <= v
    BY <2>1 DEF Upstream
  <2> HIDE DEF ack
  <2>3. <<ack>> \in Seq(Upstream) /\ Len(<<ack>>) = 1 /\ <<ack>>[1] = ack
    BY <2>2
  <2> QED
    BY <1>2, <2>2, <2>3
<1> QED
  BY <1>1, <1>2 DEF Ack

LEMMA ApplyFrameSafe ==
  ASSUME MutationsInv, ApplyFrame
  PROVE  MutationsInv' /\ (OutcomeTruthful => OutcomeTruthful')
<1>1. PICK v : v = Last(buffer).to
  OBVIOUS
<1>2. PICK results : results = Results(buffer)
  OBVIOUS
<1>3. /\ buffer # <<>> /\ buffer[1].base = cookie /\ cookie' = v /\ buffer' = <<>>
      /\ tracker' = LmidAdvanced(TrackResults(tracker, results), v)
      /\ link' = [link EXCEPT !.up = @ \o Ack(tracker, results)]
      /\ UNCHANGED <<made, status, sent, received, applied, rows>>
  BY <1>1, <1>2 DEF ApplyFrame, ApplyToTracker
<1>4. /\ v \in Nat /\ cookie <= v /\ v <= LMID
      /\ \A m \in results : m \in Nat /\ cookie < m /\ m <= v /\ Failed(m)
      /\ \A m \in IDs : Carries(m) /\ m <= v => m \in results
      /\ \A m : InBuffer(m) <=> m \in results
  BY <1>1, <1>2, <1>3, FrameRange
<1>5. results \in SUBSET (0 .. v)
  BY <1>4
<1>6. /\ Ack(tracker, results) \in Seq(Upstream)
      /\ \A j \in 1 .. Len(Ack(tracker, results)) :
           Ack(tracker, results)[j].kind = "ack" => Ack(tracker, results)[j].id <= v
  BY <1>4, <1>5, AckIsSeen
<1>7. link'.down = link.down /\ link'.base = link.base
  BY <1>3, <1>6, SendingUp DEF MutationsInv
<1>8. ASSUME NEW m \in IDs, Carries(m), m \notin results
      PROVE  Carries(m)'
  <2>1. ~InBuffer(m) /\ Len(buffer') = 0
    BY <1>3, <1>4, <1>8, EmptySeq
  <2>2. /\ \A i \in 1 .. Len(link.down) :
             IsPoke(link.down[i]) /\ m <= link.down[i].to => OnWire(m, i)
        /\ m <= link.base => OnWire(m, Len(link.down))
    BY <1>8, <2>1 DEF Carries
  <2> QED
    BY <1>7, <2>1, <2>2 DEF Carries, OnWire, IsPoke
<1>9. OutcomeTruthful => \A m \in IDs : Pending(m) /\ m <= v => m \in results
  BY <1>4 DEF MutationsInv, Truthful, Carried
<1>10. /\ TrackerOK(tracker') /\ SuccessApplied' /\ Truthful'
       /\ OutcomeTruthful => OutcomeTruthful'
  BY <1>3, <1>4, <1>8, <1>9, ResultsDelivered
<1>11. sent' \in Nat
  BY <1>3 DEF MutationsInv, TypeOK
<1>12. TypeOK' /\ Control' /\ Known' /\ InOrder' /\ AcksSeen' /\ AppliedOnceInOrder'
  BY <1>3, <1>4, <1>6, <1>10, <1>11, Upwards
<1> QED
  BY <1>10, <1>12 DEF MutationsInv

LEMMA FailFrameSafe ==
  ASSUME MutationsInv, FailFrame
  PROVE  MutationsInv' /\ (OutcomeTruthful => OutcomeTruthful')
<1>1. PICK v : v = Last(buffer).to
  OBVIOUS
<1>2. PICK results : results = Results(buffer)
  OBVIOUS
<1>3. /\ buffer # <<>> /\ buffer[1].base = cookie /\ cookie' = v /\ buffer' = <<>>
      /\ tracker' = TrackResults(tracker, results)
      /\ link' = NoLink /\ sent' = 0
      /\ UNCHANGED <<made, received, applied, rows>>
  BY <1>1, <1>2 DEF FailFrame, EndConnection, LinkAfterEnd, SentBefore
<1>4. /\ v \in Nat /\ cookie <= v /\ v <= LMID
      /\ \A m \in results : m \in Nat /\ cookie < m /\ m <= v /\ Failed(m)
      /\ \A m \in IDs : Carries(m) /\ m <= v => m \in results
  BY <1>1, <1>2, <1>3, FrameRange
<1>5. TrackerOK(tracker')
  BY <1>3, Tracked DEF MutationsInv, TypeOK
<1>6. /\ TypeOK' /\ Control' /\ Known' /\ InOrder' /\ AcksSeen' /\ AppliedOnceInOrder'
      /\ \A m \in IDs : Carries(m)'
  BY <1>3, <1>4, <1>5, Ended
<1>7. OutcomeTruthful => \A m \in IDs : Pending(m) /\ m <= v => m \in results
  BY <1>4 DEF MutationsInv, Truthful, Carried
<1>8. /\ SuccessApplied' /\ Truthful'
      /\ OutcomeTruthful => OutcomeTruthful'
  BY <1>3, <1>4, <1>6, <1>7, ResultsDelivered
<1> QED
  BY <1>6, <1>8 DEF MutationsInv

LEMMA PeerRefreshSafe ==
  ASSUME MutationsInv, PeerRefresh
  PROVE  MutationsInv' /\ (OutcomeTruthful => OutcomeTruthful')
<1>1. PICK v \in cookie + 1 .. LMID :
        /\ cookie' = v
        /\ tracker' = TrackResults(tracker, rows \intersect (cookie + 1 .. v))
        /\ link' = [link EXCEPT !.up = @ \o Ack(tracker, rows \intersect (cookie + 1 .. v))]
  BY DEF PeerRefresh
<1>2. PICK results : results = rows \intersect (cookie + 1 .. v)
  OBVIOUS
<1>3. UNCHANGED <<made, status, sent, received, buffer, applied, rows>>
  BY DEF PeerRefresh
<1>4. /\ TypeOK /\ cookie \in Nat /\ LMID \in Nat /\ rows \subseteq Nat
  BY LMIDType DEF MutationsInv, TypeOK
<1>5. /\ v \in Nat /\ cookie <= v /\ v <= LMID
      /\ \A m \in results : m \in Nat /\ cookie < m /\ m <= v /\ Failed(m)
  BY <1>2, <1>4 DEF MutationsInv, Known
<1>6. results \in SUBSET (0 .. v)
  BY <1>5
<1>7. /\ Ack(tracker, results) \in Seq(Upstream)
      /\ \A j \in 1 .. Len(Ack(tracker, results)) :
           Ack(tracker, results)[j].kind = "ack" => Ack(tracker, results)[j].id <= v
  BY <1>5, <1>6, AckIsSeen
<1>8. link' = [link EXCEPT !.up = @ \o Ack(tracker, results)]
  BY <1>1, <1>2
<1>9. link'.down = link.down /\ link'.base = link.base
  BY <1>4, <1>7, <1>8, SendingUp
<1>10. \A m \in IDs : Carries(m) /\ m \notin results => Carries(m)'
  BY <1>3, <1>9 DEF Carries, InBuffer, OnWire, IsPoke
<1>11. OutcomeTruthful => \A m \in IDs : Pending(m) /\ m <= v => m \in results
  <2> SUFFICES ASSUME OutcomeTruthful, NEW m \in IDs, Pending(m), m <= v
               PROVE  m \in results
    OBVIOUS
  <2>1. m \in rows /\ ~(m <= cookie)
    BY DEF MutationsInv, Truthful, RowKept, SettledBySnapshot, Pending
  <2> QED
    BY <1>2, <1>4, <1>5, <2>1
<1>12. tracker' = TrackResults(tracker, results)
  BY <1>1, <1>2
<1>13. /\ TrackerOK(tracker') /\ SuccessApplied' /\ Truthful'
       /\ OutcomeTruthful => OutcomeTruthful'
  BY <1>1, <1>3, <1>5, <1>10, <1>11, <1>12, ResultsDelivered
<1>14. sent' \in Nat
  BY <1>3, <1>4 DEF TypeOK
<1>15. TypeOK' /\ Control' /\ Known' /\ InOrder' /\ AcksSeen' /\ AppliedOnceInOrder'
  BY <1>1, <1>3, <1>5, <1>7, <1>8, <1>13, <1>14, Upwards
<1> QED
  BY <1>13, <1>15 DEF MutationsInv

-----------------------------------------------------------------------------
(* The theorems *)

LEMMA InvInit ==
  ASSUME Init
  PROVE  MutationsInv
<1>1. /\ buffer = <<>> /\ applied = <<>> /\ rows = {} /\ link = NoLink
      /\ Len(buffer) = 0 /\ Len(applied) = 0 /\ Len(link.down) = 0 /\ Len(link.up) = 0
      /\ link.base = 0 /\ link.pusher = 0 /\ link.up = <<>> /\ link.down = <<>>
  BY EmptySeq DEF Init, NoLink
<1>2. LMID = 0 /\ cookie = 0 /\ received = 0 /\ sent = 0 /\ made = 0
  BY <1>1 DEF Init, LMID
<1>3. TrackerOK(tracker) /\ \A m \in IDs : tracker.outcome[m] = "none"
  BY DEF Init, TrackerOK
<1>4. link = [up |-> link.up, down |-> link.down, base |-> link.base, pusher |-> link.pusher]
  BY <1>1 DEF NoLink
<1>5. TypeOK
  BY <1>1, <1>2, <1>3, <1>4, EmptySeq DEF TypeOK
<1>6. Control
  BY <1>1 DEF Control, Linked
<1>7. Known /\ InOrder /\ AcksSeen
  BY <1>1, <1>2 DEF Known, InOrder, AcksSeen
<1>8. \A m \in IDs : ~Failed(m)
  BY <1>2, IDsArePositive DEF Failed
<1>9. SuccessApplied /\ Truthful
  BY <1>3, <1>8
    DEF SuccessApplied, Truthful, SettledBySnapshot, ErrorsSeen, RowKept, Carried, Pending
<1>10. AppliedOnceInOrder
  BY <1>1, EmptySeq DEF AppliedOnceInOrder
<1> QED
  BY <1>5, <1>6, <1>7, <1>9, <1>10 DEF MutationsInv

\* Every step keeps the invariant, and only FinishConnect makes a failed mutation look
\* like a success.
LEMMA InvNext ==
  ASSUME MutationsInv, [Next]_vars
  PROVE  MutationsInv' /\ (OutcomeTruthful => OutcomeTruthful' \/ FinishConnect)
<1>1. /\ TypeOK /\ made \in Nat /\ sent \in Nat /\ TrackerOK(tracker)
  BY DEF MutationsInv, TypeOK
<1>2. ASSUME UNCHANGED <<applied, tracker>>
      PROVE  OutcomeTruthful => OutcomeTruthful'
  BY <1>2 DEF OutcomeTruthful, LMID
<1>3. ASSUME UNCHANGED applied, tracker'.outcome = tracker.outcome
      PROVE  OutcomeTruthful => OutcomeTruthful'
  BY <1>3 DEF OutcomeTruthful, LMID
<1>4. CASE Mutate \/ MutateRejected \/ RemoveQuery
  <2>1. /\ UNCHANGED <<cookie, status, sent, received, buffer, link, applied, rows>>
        /\ made' \in Nat
    BY <1>1, <1>4 DEF Mutate, MutateRejected, RemoveQuery
  <2>2. TrackerOK(tracker') /\ tracker'.outcome = tracker.outcome
    BY <1>1, <1>4 DEF Mutate, MutateRejected, RemoveQuery, TrackerOK
  <2>3. sent' \in Nat
    BY <1>1, <2>1
  <2> QED
    BY <1>3, <2>1, <2>2, <2>3, Unrelated
<1>5. CASE \/ AppReconnect \/ PeerPush \/ UNCHANGED vars
           \/ \E p \in DOMAIN pushers : TakePushes(p) \/ SkipMutation(p) \/ FinishPush(p)
  <2>1. /\ UNCHANGED <<made, cookie, sent, received, buffer, tracker, link, applied, rows>>
        /\ status' = status \/ (status = "error" /\ status' = "offline")
    BY <1>5 DEF AppReconnect, PeerPush, vars, TakePushes, SkipMutation, FinishPush, clientVars
  <2>2. made' \in Nat /\ sent' \in Nat /\ TrackerOK(tracker')
    BY <1>1, <2>1
  <2> QED
    BY <1>2, <2>1, <2>2, Unrelated
<1>6. CASE DropConnection \/ HandleError \/ RejectFrame
  <2>1. /\ link' = NoLink /\ buffer' = <<>> /\ sent' = 0
        /\ UNCHANGED <<made, cookie, received, tracker, applied, rows>>
    BY <1>6 DEF DropConnection, HandleError, RejectFrame, EndConnection, LinkAfterEnd, SentBefore
  <2>2. sent' \in Nat
    BY <2>1
  <2> QED
    BY <1>2, <2>1, <2>2, EndedQuietly
<1>7. CASE Connect
  BY <1>2, <1>7, ConnectSafe DEF Connect
<1>8. CASE HandleConnected
  BY <1>2, <1>8, HandleConnectedSafe DEF HandleConnected
<1>9. CASE FinishConnect
  BY <1>9, FinishConnectSafe
<1>10. CASE Push
  BY <1>2, <1>10, PushSafe DEF Push
<1>11. CASE HandleMessage
  BY <1>2, <1>11, HandleMessageSafe DEF HandleMessage, clientVars
<1>12. ASSUME NEW p \in DOMAIN pushers, ApplyMutation(p)
       PROVE  MutationsInv' /\ (OutcomeTruthful => OutcomeTruthful')
  <2>1. MutationsInv'
    BY <1>12, ApplyMutationSafe
  <2>2. OutcomeTruthful => OutcomeTruthful'
    <3> SUFFICES ASSUME OutcomeTruthful, NEW m \in IDs, tracker'.outcome[m] = "ok"
                 PROVE  m <= LMID' /\ applied'[m].outcome = "ok"
      BY DEF OutcomeTruthful
    <3>1. tracker' = tracker
      BY <1>12 DEF ApplyMutation, clientVars
    <3>2. m \in Nat /\ m >= 1 /\ m <= LMID /\ applied[m].outcome = "ok"
      BY <3>1, IDsArePositive DEF OutcomeTruthful
    <3>3. PICK e : applied' = Append(applied, e)
      BY <1>12 DEF ApplyMutation
    <3>4. applied \in Seq([id : Nat, outcome : Outcome])
      BY <1>1 DEF TypeOK
    <3>5. LMID \in Nat /\ Len(applied') = LMID + 1 /\ \A i \in 1 .. LMID : applied'[i] = applied[i]
      <4>1. LMID \in Nat
        BY <1>1, LMIDType
      <4> QED
        BY <3>3, <3>4, <4>1 DEF LMID
    <3> QED
      BY <3>2, <3>5 DEF LMID
  <2> QED
    BY <2>1, <2>2
<1>13. ASSUME NEW p \in DOMAIN pushers, RefuseMutation(p) \/ FailPush(p)
       PROVE  MutationsInv' /\ (OutcomeTruthful => OutcomeTruthful')
  <2>1. /\ UNCHANGED <<clientVars, applied, rows>>
        /\ \E kind \in {"pushError", "invalidPush"} : link' = Answer(p, kind)
    BY <1>13 DEF RefuseMutation, FailPush
  <2>2. UNCHANGED <<applied, tracker>>
    BY <2>1 DEF clientVars
  <2> QED
    BY <1>2, <2>1, <2>2, AnswerSafe
<1>14. CASE Poke
  BY <1>2, <1>14, PokeSafe DEF Poke, clientVars
<1>15. CASE HandlePoke
  BY <1>2, <1>15, HandlePokeSafe DEF HandlePoke
<1>16. CASE ApplyFrame
  BY <1>16, ApplyFrameSafe
<1>17. CASE FailFrame
  BY <1>17, FailFrameSafe
<1>18. CASE PeerRefresh
  BY <1>18, PeerRefreshSafe
<1> QED
  BY <1>4, <1>5, <1>6, <1>7, <1>8, <1>9, <1>10, <1>11, <1>12, <1>13, <1>14, <1>15, <1>16,
     <1>17, <1>18 DEF Next

LEMMA InvAlways == Spec => []MutationsInv
<1>1. MutationsInv /\ [Next]_vars => MutationsInv'
  BY InvNext
<1> QED
  BY <1>1, InvInit, PTL DEF Spec

\* However often and by whomever a mutation is sent, upstream applies 1, 2, ... once each.
THEOREM MutationsApplyOnce == Spec => []AppliedOnceInOrder
<1>1. MutationsInv => AppliedOnceInOrder
  BY DEF MutationsInv
<1> QED
  BY <1>1, InvAlways, PTL

\* The result of a failed mutation is not deleted before the tab has seen it.
THEOREM ResultsAreKept == Spec => []ResultsKept
<1>1. MutationsInv => ResultsKept
  BY DEF MutationsInv, Truthful, RowKept, Pending, ResultsKept
<1> QED
  BY <1>1, InvAlways, PTL

\* Only the completion of a connection resolves the promise of a failed mutation with
\* success.
THEOREM SuccessIsTrueButOnConnect == Spec => FalseSuccessOnlyOnConnect
<1>1. MutationsInv /\ [Next]_vars =>
        [OutcomeTruthful /\ ~OutcomeTruthful'
           => status = "greeted" /\ status' = "connected"]_vars
  <2> SUFFICES ASSUME MutationsInv, [Next]_vars, OutcomeTruthful, ~OutcomeTruthful'
               PROVE  status = "greeted" /\ status' = "connected"
    OBVIOUS
  <2>1. FinishConnect
    BY InvNext
  <2> QED
    BY <2>1 DEF FinishConnect
<1> QED
  BY <1>1, InvAlways, PTL DEF Spec, FalseSuccessOnlyOnConnect
-----------------------------------------------------------------------------
(* What is on its way *)

Entry == [from : {"tab", "peer"}, id : Int]
Pusher == [queue : Seq(Entry), batch : Seq(Seq(Int)), stopped : BOOLEAN]

PushersOK == pushers \in Seq(Pusher) /\ Len(pushers) > 0

\* A connection has a pusher.
LinkOK ==
  /\ link.pusher \in 0 .. Len(pushers)
  /\ status \in {"greeted", "connected"} => Linked
  /\ link.down # <<>> => Linked

\* Where mutation m, or news that it got lost, may be.
InUp(m) == \E i \in 1 .. Len(link.up) : link.up[i].kind = "push" /\ link.up[i].id = m
InQueue(p, m) == \E i \in 1 .. Len(p.queue) : p.queue[i].id = m
InBatch(p, m) == \E i \in 1 .. Len(p.batch) : \E j \in 1 .. Len(p.batch[i]) : p.batch[i][j] = m
Complained ==
  \E i \in 1 .. Len(link.down) : link.down[i].kind \in {"pushError", "invalidPush"}

OnWay(m) ==
  \/ InUp(m) \/ Complained
  \/ InQueue(pushers[link.pusher], m) \/ InBatch(pushers[link.pusher], m)

\* What was sent on this connection is on its way, and without a push to come all was.
AllSent ==
  /\ status = "greeted" => sent = 0
  /\ status = "connected" =>
       /\ \A m \in LMID + 1 .. sent : OnWay(m)
       /\ ~due => \A m \in LMID + 1 .. made : m <= sent

WayInv == PushersOK /\ LinkOK /\ AllSent

LEMMA Concatenated ==
  ASSUME NEW T, NEW s \in Seq(T), NEW t \in Seq(T)
  PROVE  /\ s \o t \in Seq(T)
         /\ Len(s) \in Nat /\ Len(t) \in Nat
         /\ \A i \in 1 .. Len(s) : i \in 1 .. Len(s \o t) /\ (s \o t)[i] = s[i]
         /\ \A i \in 1 .. Len(t) :
              Len(s) + i \in 1 .. Len(s \o t) /\ (s \o t)[Len(s) + i] = t[i]
<1>1. Len(s) \in Nat /\ Len(t) \in Nat
  BY LenProperties
<1>2. /\ s \o t \in Seq(T)
      /\ Len(s \o t) = Len(s) + Len(t)
      /\ \A i \in 1 .. Len(s) + Len(t) :
           (s \o t)[i] = IF i <= Len(s) THEN s[i] ELSE t[i - Len(s)]
  BY ConcatProperties
<1>3. \A i \in 1 .. Len(s) : i \in 1 .. Len(s) + Len(t) /\ i <= Len(s)
  BY <1>1
<1>4. \A i \in 1 .. Len(t) :
        /\ Len(s) + i \in 1 .. Len(s) + Len(t) /\ ~(Len(s) + i <= Len(s))
        /\ (Len(s) + i) - Len(s) = i
  BY <1>1
<1> QED
  BY <1>1, <1>2, <1>3, <1>4

LEMMA PusherFields ==
  ASSUME NEW q \in Pusher
  PROVE  /\ q.queue \in Seq(Entry) /\ q.batch \in Seq(Seq(Int)) /\ q.stopped \in BOOLEAN
         /\ q = [queue |-> q.queue, batch |-> q.batch, stopped |-> q.stopped]
         /\ Len(q.queue) \in Nat /\ Len(q.batch) \in Nat
         /\ \A i \in 1 .. Len(q.batch) : q.batch[i] \in Seq(Int) /\ Len(q.batch[i]) \in Nat
<1>1. /\ q.queue \in Seq(Entry) /\ q.batch \in Seq(Seq(Int)) /\ q.stopped \in BOOLEAN
      /\ q = [queue |-> q.queue, batch |-> q.batch, stopped |-> q.stopped]
  BY DEF Pusher
<1>2. Len(q.queue) \in Nat /\ Len(q.batch) \in Nat
  BY <1>1, LenProperties
<1>3. \A i \in 1 .. Len(q.batch) : q.batch[i] \in Seq(Int)
  BY <1>1, <1>2, ElementOfSeq
<1>4. \A s \in Seq(Int) : Len(s) \in Nat
  BY LenProperties
<1> QED
  BY <1>1, <1>2, <1>3, <1>4

LEMMA PusherAt ==
  ASSUME PushersOK, NEW p \in DOMAIN pushers
  PROVE  p \in 1 .. Len(pushers) /\ pushers[p] \in Pusher
<1>1. pushers \in Seq(Pusher) /\ DOMAIN pushers = 1 .. Len(pushers)
  BY LenProperties DEF PushersOK
<1> QED
  BY <1>1, ElementOfSeq

LEMMA WithQueue ==
  ASSUME NEW q \in Pusher, NEW queue, NEW batch
  PROVE  /\ [q EXCEPT !.queue = queue] = [queue |-> queue, batch |-> q.batch, stopped |-> q.stopped]
         /\ [q EXCEPT !.batch = batch] = [queue |-> q.queue, batch |-> batch, stopped |-> q.stopped]
<1>1. q = [queue |-> q.queue, batch |-> q.batch, stopped |-> q.stopped]
  BY PusherFields
<1> QED
  BY <1>1

\* One pusher is replaced.
LEMMA PusherReplaced ==
  ASSUME PushersOK, NEW p \in DOMAIN pushers, NEW q \in Pusher
  PROVE  /\ [pushers EXCEPT ![p] = q] \in Seq(Pusher)
         /\ Len([pushers EXCEPT ![p] = q]) = Len(pushers)
         /\ p \in 1 .. Len(pushers) /\ pushers[p] \in Pusher
         /\ \A i \in 1 .. Len(pushers) :
              [pushers EXCEPT ![p] = q][i] = IF i = p THEN q ELSE pushers[i]
<1>1. pushers \in Seq(Pusher) /\ DOMAIN pushers = 1 .. Len(pushers)
  BY LenProperties DEF PushersOK
<1>2. pushers[p] \in Pusher
  BY <1>1, ElementOfSeq
<1> QED
  BY <1>1, <1>2, ExceptSeq

\* A push for each client, with what it sent.
LEMMA PushesCombined ==
  ASSUME NEW entries \in Seq(Entry), entries # <<>>
  PROVE  /\ CombinePushes(entries) \in Seq(Seq(Int))
         /\ \A i \in 1 .. Len(entries) :
              \E b \in 1 .. Len(CombinePushes(entries)) :
                \E j \in 1 .. Len(CombinePushes(entries)[b]) :
                  CombinePushes(entries)[b][j] = entries[i].id
<1> DEFINE clients == {entries[i].from : i \in DOMAIN entries}
           own(c) == Picked(entries, {e \in Range(entries) : e.from = c})
           pushOf(c) == [i \in DOMAIN own(c) |-> own(c)[i].id]
           first == entries[1].from
           others == {pushOf(c) : c \in clients \ {first}}
           all == CombinePushes(entries)
<1>1. /\ Len(entries) \in Nat /\ DOMAIN entries = 1 .. Len(entries) /\ Len(entries) > 0
      /\ \A i \in 1 .. Len(entries) : entries[i] \in Entry
  BY LenProperties, EmptySeq, ElementOfSeq
<1>2. all = <<pushOf(first)>> \o SetToSeq(others)
  BY DEF CombinePushes
<1>3. ASSUME NEW c
      PROVE  /\ pushOf(c) \in Seq(Int)
             /\ \A i \in 1 .. Len(entries) : entries[i].from = c =>
                  \E j \in 1 .. Len(pushOf(c)) : pushOf(c)[j] = entries[i].id
  <2> DEFINE wanted == {e \in Range(entries) : e.from = c}
             mine == Picked(entries, wanted)
  <2>1. \A i \in 1 .. Len(entries) : entries[i].from = c => entries[i] \in wanted
    BY <1>1 DEF Range
  <2> HIDE DEF wanted
  <2>2. /\ mine \in Seq(Entry)
        /\ \A i \in 1 .. Len(entries) : entries[i] \in wanted =>
             \E j \in 1 .. Len(mine) : mine[j] = entries[i]
    BY PickedHas
  <2>3. pushOf(c) = [i \in DOMAIN mine |-> mine[i].id]
    BY DEF wanted
  <2> HIDE DEF pushOf, mine
  <2>4. Len(mine) \in Nat /\ DOMAIN mine = 1 .. Len(mine)
    BY <2>2, LenProperties
  <2>6. \A i \in 1 .. Len(mine) : mine[i].id \in Int
    <3>1. \A i \in 1 .. Len(mine) : mine[i] \in Entry
      BY <2>2, <2>4, ElementOfSeq
    <3> QED
      BY <3>1 DEF Entry
  <2>5. pushOf(c) \in Seq(Int) /\ Len(pushOf(c)) = Len(mine)
    <3>1. pushOf(c) \in [1 .. Len(mine) -> Int]
      BY <2>3, <2>4, <2>6
    <3> QED
      BY <2>4, <3>1
  <2>7. \A j \in 1 .. Len(mine) : pushOf(c)[j] = mine[j].id
    BY <2>3, <2>4
  <2> QED
    BY <2>1, <2>2, <2>5, <2>7
<1>4. first \in {"tab", "peer"} /\ first \in clients /\ clients \subseteq {"tab", "peer"}
  BY <1>1 DEF Entry
<1>5. PICK other : {"tab", "peer"} \ {first} = {other}
  <2>1. first = "tab" => {"tab", "peer"} \ {first} = {"peer"}
    OBVIOUS
  <2>2. first = "peer" => {"tab", "peer"} \ {first} = {"tab"}
    OBVIOUS
  <2> HIDE DEF first
  <2> QED
    BY <1>4, <2>1, <2>2
<1>6. clients \ {first} = {} \/ clients \ {first} = {other}
  BY <1>4, <1>5
<1>7. ASSUME NEW x
      PROVE  SetToSeq({x}) = <<x>>
  <2>1. Cardinality({x}) = 1
    BY FS_Singleton
  <2> DEFINE f == [i \in 1 .. 1 |-> x]
  <2>2. f \in [1 .. 1 -> {x}] /\ IsInjective(f)
    BY DEF IsInjective
  <2>3. SetToSeq({x}) \in [1 .. 1 -> {x}]
    BY <2>1, <2>2 DEF SetToSeq
  <2> QED
    BY <2>3
<1>8. SetToSeq({}) = <<>>
  <2>1. Cardinality({}) = 0
    BY FS_EmptySet
  <2> DEFINE f == [i \in 1 .. 0 |-> 0]
  <2>2. f \in [1 .. 0 -> {}] /\ IsInjective(f)
    BY DEF IsInjective
  <2>3. SetToSeq({}) \in [1 .. 0 -> {}]
    BY <2>1, <2>2 DEF SetToSeq
  <2> QED
    BY <2>3
<1> HIDE DEF pushOf, first, clients, all
<1>9. CASE clients \ {first} = {}
  <2>1. others = {}
    BY <1>9
  <2> HIDE DEF others
  <2>2. all = <<pushOf(first)>>
    <3>1. \A s \in Seq(Int) : <<s>> \o <<>> = <<s>>
      OBVIOUS
    <3> QED
      BY <1>2, <1>3, <1>8, <2>1, <3>1
  <2>3. all \in Seq(Seq(Int)) /\ Len(all) = 1 /\ all[1] = pushOf(first)
    BY <1>3, <2>2
  <2>4. \A i \in 1 .. Len(entries) : entries[i].from = first
    BY <1>1, <1>9 DEF clients
  <2>5. 1 \in 1 .. Len(all)
    BY <2>3
  <2> QED
    BY <1>3, <2>3, <2>4, <2>5 DEF all
<1>10. CASE clients \ {first} = {other}
  <2>1. others = {pushOf(other)}
    BY <1>10
  <2> HIDE DEF others
  <2>2. SetToSeq(others) = <<pushOf(other)>>
    BY <1>7, <2>1
  <2>3. all \in Seq(Seq(Int)) /\ Len(all) = 2 /\ all[1] = pushOf(first) /\ all[2] = pushOf(other)
    BY <1>2, <1>3, <2>2
  <2>4. \A i \in 1 .. Len(entries) : entries[i].from = first \/ entries[i].from = other
    BY <1>1, <1>10 DEF clients
  <2>5. 1 \in 1 .. Len(all) /\ 2 \in 1 .. Len(all)
    BY <2>3
  <2>6. ASSUME NEW i \in 1 .. Len(entries)
        PROVE  \E b \in 1 .. Len(all) : \E j \in 1 .. Len(all[b]) : all[b][j] = entries[i].id
    <3>1. CASE entries[i].from = first
      BY <1>3, <2>3, <2>5, <3>1
    <3>2. CASE entries[i].from = other
      BY <1>3, <2>3, <2>5, <3>2
    <3> QED
      BY <2>4, <3>1, <3>2
  <2> QED
    BY <2>3, <2>6 DEF all
<1> QED
  BY <1>6, <1>9, <1>10

\* What the server side of the connection is handed of the first k messages.
LEMMA PushesDelivered ==
  ASSUME TypeOK, PushersOK, NEW k \in 0 .. Len(link.up)
  PROVE  \E entries \in Seq(Entry) :
           /\ Deliver(pushers, k) = [pushers EXCEPT ![link.pusher].queue = @ \o entries]
           /\ \A i \in 1 .. k : link.up[i].kind = "push" =>
                \E j \in 1 .. Len(entries) : entries[j].id = link.up[i].id
<1> DEFINE carried == SubSeq(link.up, 1, k)
           wanted == {msg \in Range(link.up) : msg.kind = "push"}
           pushed == Picked(carried, wanted)
           entries == [i \in DOMAIN pushed |-> [from |-> "tab", id |-> pushed[i].id]]
<1>1. /\ link.up \in Seq(Upstream) /\ Len(link.up) \in Nat
      /\ DOMAIN link.up = 1 .. Len(link.up)
  BY LenProperties DEF TypeOK
<1>2. /\ carried \in Seq(Upstream) /\ Len(carried) = k
      /\ \A i \in 1 .. k : carried[i] = link.up[i]
  <2>1. \A i \in 1 .. k : link.up[i] \in Upstream
    BY <1>1, ElementOfSeq
  <2>2. k \in Nat
    BY <1>1
  <2>3. carried = [i \in 1 .. k |-> link.up[i]]
    BY <1>1, <2>2
  <2> QED
    BY <2>1, <2>2, <2>3
<1>3. \A i \in 1 .. k : link.up[i].kind = "push" => link.up[i] \in wanted
  BY <1>1 DEF Range
<1>4. Deliver(pushers, k) = [pushers EXCEPT ![link.pusher].queue = @ \o entries]
  BY DEF Deliver
<1> HIDE DEF carried, wanted
<1>5. /\ pushed \in Seq(Upstream)
      /\ \A i \in 1 .. Len(carried) : carried[i] \in wanted =>
           \E j \in 1 .. Len(pushed) : pushed[j] = carried[i]
  BY <1>2, PickedHas
<1> HIDE DEF pushed
<1>6. Len(pushed) \in Nat /\ DOMAIN pushed = 1 .. Len(pushed)
  BY <1>5, LenProperties
<1>7. \A i \in 1 .. Len(pushed) : pushed[i].id \in Int
  <2>1. \A i \in 1 .. Len(pushed) : pushed[i] \in Upstream
    BY <1>5, <1>6, ElementOfSeq
  <2> QED
    BY <2>1 DEF Upstream
<1>8. \A i \in 1 .. Len(pushed) : entries[i] \in Entry /\ entries[i].id = pushed[i].id
  BY <1>6, <1>7 DEF Entry
<1>9. entries \in Seq(Entry) /\ Len(entries) = Len(pushed)
  <2>1. entries \in [1 .. Len(pushed) -> Entry]
    BY <1>6, <1>8
  <2> QED
    BY <1>6, <2>1
<1> HIDE DEF entries
<1>10. \A i \in 1 .. k : link.up[i].kind = "push" =>
         \E j \in 1 .. Len(entries) : entries[j].id = link.up[i].id
  BY <1>2, <1>3, <1>5, <1>8, <1>9
<1> QED
  BY <1>4, <1>9, <1>10

\* A queue is extended, or the queue of no pusher.
LEMMA QueueExtended ==
  ASSUME PushersOK, NEW p \in Nat, NEW entries \in Seq(Entry),
         NEW ps, ps = [pushers EXCEPT ![p].queue = @ \o entries]
  PROVE  /\ ps \in Seq(Pusher) /\ Len(ps) = Len(pushers)
         /\ \A i \in 1 .. Len(pushers) : i # p => ps[i] = pushers[i]
         /\ p \in 1 .. Len(pushers) =>
              /\ ps[p].queue = pushers[p].queue \o entries
              /\ ps[p].batch = pushers[p].batch
<1>1. pushers \in Seq(Pusher) /\ DOMAIN pushers = 1 .. Len(pushers)
  BY LenProperties DEF PushersOK
<1>2. CASE p \in 1 .. Len(pushers)
  <2>1. p \in DOMAIN pushers /\ pushers[p] \in Pusher
    BY <1>1, <1>2, ElementOfSeq
  <2> DEFINE q == [queue |-> pushers[p].queue \o entries, batch |-> pushers[p].batch,
                   stopped |-> pushers[p].stopped]
  <2>2. /\ pushers[p].queue \in Seq(Entry) /\ pushers[p].batch \in Seq(Seq(Int))
        /\ pushers[p].stopped \in BOOLEAN
        /\ pushers[p] = [queue |-> pushers[p].queue, batch |-> pushers[p].batch,
                         stopped |-> pushers[p].stopped]
    BY <2>1, PusherFields
  <2>3. pushers[p].queue \o entries \in Seq(Entry)
    BY <2>2, Concatenated
  <2>4. [pushers[p] EXCEPT !.queue = pushers[p].queue \o entries] = q
    BY <2>1, WithQueue
  <2>5. q \in Pusher /\ q.queue = pushers[p].queue \o entries /\ q.batch = pushers[p].batch
    BY <2>2, <2>3 DEF Pusher
  <2>6. ps = [pushers EXCEPT ![p] = q]
    BY <2>4
  <2> HIDE DEF q
  <2>7. /\ ps \in Seq(Pusher) /\ Len(ps) = Len(pushers)
        /\ \A i \in 1 .. Len(pushers) : ps[i] = IF i = p THEN q ELSE pushers[i]
    <3>1. PushersOK /\ q \in Pusher /\ p \in DOMAIN pushers
      BY <2>1, <2>5
    <3>2. /\ [pushers EXCEPT ![p] = q] \in Seq(Pusher)
          /\ Len([pushers EXCEPT ![p] = q]) = Len(pushers)
          /\ \A i \in 1 .. Len(pushers) :
               [pushers EXCEPT ![p] = q][i] = IF i = p THEN q ELSE pushers[i]
      BY <3>1, PusherReplaced
    <3> QED
      BY <2>6, <3>2
  <2>8. ps[p] = q
    BY <1>2, <2>7
  <2> QED
    BY <1>2, <2>5, <2>7, <2>8
<1>3. CASE p \notin 1 .. Len(pushers)
  <2>1. ps = pushers
    BY <1>1, <1>3
  <2> QED
    BY <1>1, <1>3, <2>1
<1> QED
  BY <1>2, <1>3

\* The connection carries what it carried, and maybe more.
LinkStays ==
  /\ link'.up = link.up /\ link'.pusher = link.pusher
  /\ link'.down # <<>> => link.down # <<>> \/ Linked
  /\ Complained => Complained'

LEMMA SameLinkStays ==
  ASSUME UNCHANGED link
  PROVE  LinkStays
  BY DEF LinkStays, Complained

\* A pusher makes progress or is replaced, and the tab has not moved.
LEMMA WayThroughPusher ==
  ASSUME MutationsInv, MutationsInv', WayInv, NEW p \in DOMAIN pushers, NEW q \in Pusher,
         pushers' = [pushers EXCEPT ![p] = q],
         UNCHANGED <<made, status, sent, due>>,
         LinkStays,
         LMID <= LMID',
         \A m \in Int : m > LMID' /\ p = link.pusher =>
           /\ InQueue(pushers[p], m) => InQueue(q, m) \/ InBatch(q, m) \/ Complained'
           /\ InBatch(pushers[p], m) => InBatch(q, m) \/ Complained'
  PROVE  WayInv'
<1>0. PushersOK /\ LinkOK /\ AllSent
  BY DEF WayInv
<1>1. /\ PushersOK /\ LinkOK /\ AllSent
      /\ link'.up = link.up /\ link'.pusher = link.pusher
      /\ link'.down # <<>> => link.down # <<>> \/ Linked
      /\ Complained => Complained'
  BY <1>0 DEF LinkStays
<1>2. /\ pushers' \in Seq(Pusher) /\ Len(pushers') = Len(pushers) /\ p \in 1 .. Len(pushers)
      /\ \A i \in 1 .. Len(pushers) : pushers'[i] = IF i = p THEN q ELSE pushers[i]
  BY <1>1, PusherReplaced
<1>3. PushersOK'
  BY <1>1, <1>2 DEF PushersOK
<1>4. Linked' <=> Linked
  BY <1>1 DEF Linked
<1>5. LinkOK'
  BY <1>1, <1>2, <1>4 DEF LinkOK
<1>6. /\ made \in Nat /\ sent \in Nat /\ LMID \in Nat /\ LMID' \in Nat
  <2>1. TypeOK /\ TypeOK'
    BY DEF MutationsInv
  <2>2. LMID \in Nat
    BY <2>1, LMIDType
  <2>3. LMID' \in Nat
    BY <2>1 DEF TypeOK, LMID
  <2> QED
    BY <2>1, <2>2, <2>3 DEF TypeOK
<1>7. ASSUME NEW m \in Int, m > LMID', OnWay(m), Linked
      PROVE  OnWay(m)'
  <2>1. link.pusher \in 1 .. Len(pushers)
    BY <1>1, <1>7 DEF LinkOK, Linked
  <2>2. CASE InUp(m) \/ Complained
    <3>1. InUp(m) => InUp(m)'
      BY <1>1 DEF InUp
    <3> QED
      BY <1>1, <2>2, <3>1 DEF OnWay
  <2>3. CASE InQueue(pushers[link.pusher], m) \/ InBatch(pushers[link.pusher], m)
    <3>1. CASE link.pusher = p
      <4>1. pushers'[link'.pusher] = q
        BY <1>1, <1>2, <2>1, <3>1
      <4>2. InQueue(q, m) \/ InBatch(q, m) \/ Complained'
        BY <1>7, <2>3, <3>1
      <4>3. InQueue(pushers'[link'.pusher], m) \/ InBatch(pushers'[link'.pusher], m) \/ Complained'
        BY <4>1, <4>2
      <4> QED
        BY <4>3 DEF OnWay, InQueue, InBatch
    <3>2. CASE link.pusher # p
      <4>1. pushers'[link'.pusher] = pushers[link.pusher]
        BY <1>1, <1>2, <2>1, <3>2
      <4> QED
        BY SMTT(60), <2>3, <4>1 DEF OnWay, InQueue, InBatch
    <3> QED
      BY <3>1, <3>2
  <2> QED
    BY <1>7, <2>2, <2>3 DEF OnWay
<1>8. AllSent'
  <2>1. status = "connected" => Linked
    BY <1>1 DEF LinkOK
  <2>2. status = "connected" => \A m \in LMID' + 1 .. sent : OnWay(m)'
    <3> SUFFICES ASSUME status = "connected", NEW m \in LMID' + 1 .. sent
                 PROVE  OnWay(m)'
      OBVIOUS
    <3>1. m \in Int /\ m > LMID' /\ m \in LMID + 1 .. sent
      BY <1>6
    <3>2. OnWay(m)
      BY <1>1, <3>1 DEF AllSent
    <3> QED
      BY <1>7, <2>1, <3>1, <3>2
  <2>3. status = "connected" /\ ~due => \A m \in LMID' + 1 .. made : m <= sent
    <3>1. \A m \in LMID' + 1 .. made : m \in LMID + 1 .. made
      BY <1>6
    <3> QED
      BY <1>1, <3>1 DEF AllSent
  <2> QED
    BY <1>1, <2>2, <2>3 DEF AllSent
<1> QED
  BY <1>3, <1>5, <1>8 DEF WayInv

\* The pushers stand still, and what is on its way up or down stays there.
LEMMA WayKept ==
  ASSUME WayInv, UNCHANGED pushers, link'.pusher = link.pusher,
         link'.down # <<>> => link.down # <<>> \/ Linked,
         status' \in {"greeted", "connected"} => Linked,
         Complained => Complained',
         \A m \in Int : InUp(m) => InUp(m)'
  PROVE  /\ PushersOK' /\ LinkOK'
         /\ \A m \in Int : OnWay(m) => OnWay(m)'
<1>1. PushersOK' /\ LinkOK'
  BY DEF WayInv, PushersOK, LinkOK, Linked
<1>2. ASSUME NEW m \in Int, OnWay(m)
      PROVE  OnWay(m)'
  <2>1. InQueue(pushers[link.pusher], m) => InQueue(pushers[link.pusher], m)'
    BY DEF InQueue
  <2>2. InBatch(pushers[link.pusher], m) => InBatch(pushers[link.pusher], m)'
    BY DEF InBatch
  <2> QED
    BY <1>2, <2>1, <2>2 DEF OnWay
<1> QED
  BY <1>1, <1>2

LEMMA NewBatch ==
  ASSUME PushersOK, NEW p \in DOMAIN pushers, NEW batch \in Seq(Seq(Int))
  PROVE  LET q == [queue |-> pushers[p].queue, batch |-> batch, stopped |-> pushers[p].stopped]
         IN  q \in Pusher /\ [pushers EXCEPT ![p].batch = batch] = [pushers EXCEPT ![p] = q]
<1>1. pushers[p] \in Pusher
  BY ElementOfSeq, LenProperties DEF PushersOK
<1>2. pushers[p].queue \in Seq(Entry) /\ pushers[p].stopped \in BOOLEAN
  BY <1>1, PusherFields
<1>3. [queue |-> pushers[p].queue, batch |-> batch, stopped |-> pushers[p].stopped] \in Pusher
  BY <1>2 DEF Pusher
<1>4. [pushers[p] EXCEPT !.batch = batch]
        = [queue |-> pushers[p].queue, batch |-> batch, stopped |-> pushers[p].stopped]
  BY <1>1, WithQueue
<1> QED
  BY <1>3, <1>4

LEMMA TakePushesWay ==
  ASSUME MutationsInv, MutationsInv', WayInv, NEW p \in DOMAIN pushers, TakePushes(p)
  PROVE  WayInv'
<1> DEFINE combined == CombinePushes(pushers[p].queue)
           q == [queue |-> <<>>, batch |-> combined, stopped |-> pushers[p].stopped]
<1>1. /\ pushers[p].batch = <<>> /\ pushers[p].queue # <<>>
      /\ pushers' = [pushers EXCEPT ![p].queue = <<>>, ![p].batch = combined]
      /\ UNCHANGED <<clientVars, link, applied, rows, faults>>
  BY DEF TakePushes
<1>2. PushersOK /\ pushers[p] \in Pusher
  BY PusherAt DEF WayInv
<1>3. /\ pushers[p].queue \in Seq(Entry) /\ pushers[p].stopped \in BOOLEAN
      /\ pushers[p] = [queue |-> pushers[p].queue, batch |-> pushers[p].batch,
                       stopped |-> pushers[p].stopped]
  BY <1>2, PusherFields
<1>4. /\ combined \in Seq(Seq(Int))
      /\ \A i \in 1 .. Len(pushers[p].queue) :
           \E b \in 1 .. Len(combined) : \E j \in 1 .. Len(combined[b]) :
             combined[b][j] = pushers[p].queue[i].id
  BY <1>1, <1>3, PushesCombined
<1> HIDE DEF combined
<1>5. q \in Pusher
  BY <1>3, <1>4, EmptySeq DEF Pusher
<1>6. [[pushers[p] EXCEPT !.queue = <<>>] EXCEPT !.batch = combined] = q
  <2>1. [pushers[p] EXCEPT !.queue = <<>>]
          = [queue |-> <<>>, batch |-> pushers[p].batch, stopped |-> pushers[p].stopped]
    BY <1>2, WithQueue
  <2>2. PICK r : r = [pushers[p] EXCEPT !.queue = <<>>]
    OBVIOUS
  <2>4. r = [queue |-> <<>>, batch |-> pushers[p].batch, stopped |-> pushers[p].stopped]
    BY <2>1, <2>2
  <2>5. r \in Pusher
    BY <1>2, <2>4, EmptySeq, PusherFields DEF Pusher
  <2>6. r.queue = <<>> /\ r.stopped = pushers[p].stopped
    BY <2>4
  <2>7. [r EXCEPT !.batch = combined] = [queue |-> r.queue, batch |-> combined, stopped |-> r.stopped]
    BY <2>5, WithQueue
  <2>3. [r EXCEPT !.batch = combined] = q
    BY <2>6, <2>7
  <2> QED
    BY <2>2, <2>3, Zenon
<1>7. pushers' = [pushers EXCEPT ![p] = q]
  <2>1. pushers' = [[pushers EXCEPT ![p].queue = <<>>] EXCEPT ![p].batch = combined]
    BY <1>1
  <2>2. [pushers EXCEPT ![p].queue = <<>>][p] = [pushers[p] EXCEPT !.queue = <<>>]
    OBVIOUS
  <2>3. pushers' = [[pushers EXCEPT ![p].queue = <<>>]
                     EXCEPT ![p] = [[pushers[p] EXCEPT !.queue = <<>>] EXCEPT !.batch = combined]]
    BY <2>1, <2>2
  <2>4. pushers' = [[pushers EXCEPT ![p].queue = <<>>] EXCEPT ![p] = q]
    BY <1>6, <2>3
  <2> HIDE DEF q
  <2> QED
    BY <2>4
<1>8. q.batch = combined
  OBVIOUS
<1> HIDE DEF q
<1>9. \A m \in Int : InQueue(pushers[p], m) => InBatch(q, m)
  BY <1>4, <1>8 DEF InQueue, InBatch
<1>10. \A m \in Int : ~InBatch(pushers[p], m)
  BY <1>1, EmptySeq DEF InBatch
<1>11. UNCHANGED <<made, status, sent, due, link, applied>>
  BY <1>1 DEF clientVars
<1>12. LMID <= LMID'
  <2>1. LMID \in Nat /\ LMID' = LMID
    BY <1>11, LMIDType DEF MutationsInv, LMID
  <2> QED
    BY <2>1
<1>13. LinkStays
  BY <1>11, SameLinkStays
<1>14. UNCHANGED <<made, status, sent, due>>
  BY <1>11
<1>15. \A m \in Int : m > LMID' /\ p = link.pusher =>
         /\ InQueue(pushers[p], m) => InQueue(q, m) \/ InBatch(q, m) \/ Complained'
         /\ InBatch(pushers[p], m) => InBatch(q, m) \/ Complained'
  BY <1>9, <1>10
<1> QED
  BY <1>5, <1>7, <1>12, <1>13, <1>14, <1>15, WayThroughPusher

\* The batch of a pusher moves on.
LEMMA BatchWay ==
  ASSUME MutationsInv, MutationsInv', WayInv, NEW p \in DOMAIN pushers,
         NEW batch \in Seq(Seq(Int)), pushers' = [pushers EXCEPT ![p].batch = batch],
         UNCHANGED clientVars, LinkStays,
         LMID <= LMID',
         \A m \in Int : m > LMID' /\ p = link.pusher /\ InBatch(pushers[p], m) =>
           \/ Complained'
           \/ \E i \in 1 .. Len(batch) : \E j \in 1 .. Len(batch[i]) : batch[i][j] = m
  PROVE  WayInv'
<1> DEFINE q == [queue |-> pushers[p].queue, batch |-> batch, stopped |-> pushers[p].stopped]
<1>1. q \in Pusher /\ pushers' = [pushers EXCEPT ![p] = q]
  BY NewBatch DEF WayInv
<1>2. q.queue = pushers[p].queue /\ q.batch = batch
  OBVIOUS
<1> HIDE DEF q
<1>3. \A m \in Int : InQueue(pushers[p], m) => InQueue(q, m)
  BY <1>2 DEF InQueue
<1>4. \A m \in Int : m > LMID' /\ p = link.pusher /\ InBatch(pushers[p], m)
                     => InBatch(q, m) \/ Complained'
  BY ZenonT(60), <1>2 DEF InBatch
<1>5. UNCHANGED <<made, status, sent, due>>
  BY DEF clientVars
<1> QED
  BY <1>1, <1>3, <1>4, <1>5, WayThroughPusher

\* The first mutation of the batch has been dealt with: it is no later than the last one
\* applied.
LEMMA BatchAdvances ==
  ASSUME MutationsInv, MutationsInv', WayInv, NEW p \in DOMAIN pushers,
         ApplyMutation(p) \/ SkipMutation(p)
  PROVE  WayInv'
<1> DEFINE old == pushers[p].batch
           batch == [old EXCEPT ![1] = Tail(old[1])]
<1>1. /\ old # <<>> /\ old[1] # <<>>
      /\ pushers' = [pushers EXCEPT ![p].batch = batch]
      /\ UNCHANGED <<clientVars, link>>
  BY DEF ApplyMutation, SkipMutation
<1>2. PushersOK /\ pushers[p] \in Pusher
  BY PusherAt DEF WayInv
<1>3. /\ old \in Seq(Seq(Int)) /\ Len(old) \in Nat /\ Len(old) > 0
      /\ \A i \in 1 .. Len(old) : old[i] \in Seq(Int)
  <2>1. /\ old \in Seq(Seq(Int)) /\ Len(old) \in Nat
        /\ \A i \in 1 .. Len(old) : old[i] \in Seq(Int)
    BY <1>2, PusherFields
  <2> HIDE DEF old
  <2> QED
    BY <1>1, <2>1, EmptySeq
<1>4. /\ LMID \in Nat /\ LMID' \in Nat /\ LMID <= LMID' /\ old[1][1] <= LMID'
  <2>1. /\ TypeOK /\ TypeOK' /\ LMID \in Nat
        /\ applied \in Seq([id : Nat, outcome : Outcome])
        /\ applied' \in Seq([id : Nat, outcome : Outcome])
    BY LMIDType DEF MutationsInv, TypeOK
  <2>2. CASE ApplyMutation(p)
    <3>1. PICK e : applied' = Append(applied, e)
      BY <2>2 DEF ApplyMutation
    <3>2. LMID' = LMID + 1
      BY <2>1, <3>1 DEF LMID
    <3>3. old[1][1] = LMID + 1
      BY <2>2 DEF ApplyMutation, IsNext
    <3> QED
      BY <2>1, <3>2, <3>3
  <2>3. CASE SkipMutation(p)
    <3>1. LMID' = LMID /\ old[1][1] <= LMID
      BY <2>3 DEF SkipMutation, LMID
    <3> QED
      BY <2>1, <3>1
  <2> QED
    BY <2>2, <2>3
<1> HIDE DEF old
<1>5. /\ Tail(old[1]) \in Seq(Int) /\ Len(old[1]) \in Nat /\ Len(old[1]) > 0
      /\ Len(Tail(old[1])) = Len(old[1]) - 1
      /\ \A j \in 1 .. Len(old[1]) - 1 : Tail(old[1])[j] = old[1][j + 1]
  <2>1. old[1] \in Seq(Int)
    BY <1>3
  <2> QED
    BY <1>1, <2>1, HeadTailProperties, LenProperties, EmptySeq
<1>6. /\ batch \in Seq(Seq(Int)) /\ Len(batch) = Len(old)
      /\ batch[1] = Tail(old[1])
      /\ \A i \in 1 .. Len(old) : i # 1 => batch[i] = old[i]
  BY <1>3, <1>5, ExceptSeq
<1> HIDE DEF batch
<1>7. ASSUME NEW m \in Int, m > LMID', InBatch(pushers[p], m)
      PROVE  \E i \in 1 .. Len(batch) : \E j \in 1 .. Len(batch[i]) : batch[i][j] = m
  <2>1. PICK i \in 1 .. Len(old) : \E j \in 1 .. Len(old[i]) : old[i][j] = m
    BY <1>7 DEF InBatch, old
  <2>2. PICK j \in 1 .. Len(old[i]) : old[i][j] = m
    BY <2>1
  <2>3. CASE i # 1
    BY <1>6, <2>2, <2>3
  <2>4. CASE i = 1
    <3>1. j # 1
      BY <1>4, <1>7, <2>2, <2>4
    <3>2. j - 1 \in 1 .. Len(old[1]) - 1 /\ (j - 1) + 1 = j
      BY <1>5, <2>4, <3>1
    <3>3. batch[1][j - 1] = m /\ j - 1 \in 1 .. Len(batch[1])
      BY <1>5, <1>6, <2>2, <2>4, <3>2
    <3>4. 1 \in 1 .. Len(batch)
      BY <1>3, <1>6
    <3> QED
      BY <3>3, <3>4
  <2> QED
    BY <2>3, <2>4
<1>8. LinkStays /\ UNCHANGED clientVars
  BY <1>1, SameLinkStays
<1>9. batch \in Seq(Seq(Int)) /\ pushers' = [pushers EXCEPT ![p].batch = batch] /\ LMID <= LMID'
  BY <1>1, <1>4, <1>6
<1> QED
  BY ZenonT(60), <1>7, <1>8, <1>9, BatchWay

LEMMA Tailed ==
  ASSUME NEW p \in Pusher, p.batch # <<>>
  PROVE  /\ Tail(p.batch) \in Seq(Seq(Int))
         /\ \A m \in Int : InBatch(p, m) /\ (\A j \in 1 .. Len(p.batch[1]) : p.batch[1][j] # m) =>
              \E i \in 1 .. Len(Tail(p.batch)) :
                \E j \in 1 .. Len(Tail(p.batch)[i]) : Tail(p.batch)[i][j] = m
<1> DEFINE old == p.batch
           batch == Tail(old)
<1>1. old \in Seq(Seq(Int)) /\ Len(old) \in Nat
  BY PusherFields
<1> HIDE DEF old
<1>2. /\ batch \in Seq(Seq(Int)) /\ Len(batch) = Len(old) - 1
      /\ \A i \in 1 .. Len(batch) : batch[i] = old[i + 1]
  BY <1>1, HeadTailProperties DEF old
<1> HIDE DEF batch
<1>3. ASSUME NEW m \in Int, NEW i \in 1 .. Len(old), NEW j \in 1 .. Len(old[i]), old[i][j] = m,
             \A k \in 1 .. Len(old[1]) : old[1][k] # m
      PROVE  \E b \in 1 .. Len(batch) : \E k \in 1 .. Len(batch[b]) : batch[b][k] = m
  <2>1. i # 1
    BY <1>3
  <2>2. i - 1 \in 1 .. Len(batch) /\ (i - 1) + 1 = i
    BY <1>1, <1>2, <2>1
  <2>3. batch[i - 1] = old[i]
    BY <1>2, <2>2
  <2> QED
    BY <1>3, <2>2, <2>3
<1> QED
  BY <1>2, <1>3 DEF InBatch, old, batch

\* A push of the batch has been answered, or refused, or it failed.
LEMMA BatchEnds ==
  ASSUME MutationsInv, MutationsInv', WayInv, NEW p \in DOMAIN pushers,
         RefuseMutation(p) \/ FailPush(p) \/ FinishPush(p)
  PROVE  WayInv'
<1>1. /\ pushers[p].batch # <<>>
      /\ pushers' = [pushers EXCEPT ![p].batch = Tail(pushers[p].batch)]
      /\ UNCHANGED <<clientVars, applied>>
  BY DEF RefuseMutation, FailPush, FinishPush
<1>2. PushersOK /\ pushers[p] \in Pusher
  BY PusherAt DEF WayInv
<1>3. p \in 1 .. Len(pushers)
  BY <1>2, PusherAt
<1>4. /\ Tail(pushers[p].batch) \in Seq(Seq(Int))
      /\ \A m \in Int :
           InBatch(pushers[p], m) /\ (\A j \in 1 .. Len(pushers[p].batch[1]) : pushers[p].batch[1][j] # m)
           => \E i \in 1 .. Len(Tail(pushers[p].batch)) :
                \E j \in 1 .. Len(Tail(pushers[p].batch)[i]) : Tail(pushers[p].batch)[i][j] = m
  BY <1>1, <1>2, Tailed
<1>5. LMID <= LMID'
  <2>1. LMID \in Nat /\ LMID' = LMID
    BY <1>1, LMIDType DEF MutationsInv, LMID
  <2> QED
    BY <2>1
<1> DEFINE batch == Tail(pushers[p].batch)
           InNew(m) == \E i \in 1 .. Len(batch) : \E j \in 1 .. Len(batch[i]) : batch[i][j] = m
<1>8. ASSUME LinkStays,
             \A m \in Int : p = link.pusher /\ InBatch(pushers[p], m) => Complained' \/ InNew(m)
      PROVE  WayInv'
  <2>1. /\ batch \in Seq(Seq(Int)) /\ pushers' = [pushers EXCEPT ![p].batch = batch]
        /\ UNCHANGED clientVars
    BY <1>1, <1>4
  <2>2. \A m \in Int : m > LMID' /\ p = link.pusher /\ InBatch(pushers[p], m)
                         => Complained' \/ InNew(m)
    BY <1>8
  <2> HIDE DEF batch
  <2> QED
    BY <1>5, <1>8, <2>1, <2>2, BatchWay
<1>9. \A m \in Int : InBatch(pushers[p], m)
        /\ (\A j \in 1 .. Len(pushers[p].batch[1]) : pushers[p].batch[1][j] # m) => InNew(m)
  BY <1>4
<1> HIDE DEF InNew
<1>6. CASE FinishPush(p)
  <2>1. link' = link /\ pushers[p].batch[1] = <<>>
    BY <1>6 DEF FinishPush
  <2>2. \A m : \A j \in 1 .. Len(pushers[p].batch[1]) : pushers[p].batch[1][j] # m
    BY <2>1, EmptySeq
  <2>3. LinkStays
    BY <2>1, SameLinkStays
  <2> QED
    BY <1>8, <1>9, <2>2, <2>3
<1>7. CASE RefuseMutation(p) \/ FailPush(p)
  <2>1. PICK kind \in {"pushError", "invalidPush"} : link' = Answer(p, kind)
    BY <1>7 DEF RefuseMutation, FailPush
  <2>2. CASE link.pusher = p /\ ~ServerClosed
    <3> DEFINE msg == [kind |-> kind]
    <3>1. link' = [link EXCEPT !.down = Append(@, msg)]
      BY <2>1, <2>2 DEF Answer
    <3>2. msg \in Downstream /\ msg.kind = kind
      BY DEF Downstream
    <3> HIDE DEF msg
    <3>3. /\ link = [up |-> link.up, down |-> link.down, base |-> link.base, pusher |-> link.pusher]
          /\ link.down \in Seq(Downstream)
      BY DEF MutationsInv, TypeOK
    <3>4. /\ link'.up = link.up /\ link'.pusher = link.pusher
          /\ link'.down = Append(link.down, msg)
      BY <3>1, <3>3
    <3>5. /\ Len(link.down) \in Nat /\ Len(link'.down) = Len(link.down) + 1
          /\ link'.down[Len(link.down) + 1] = msg
      BY <3>2, <3>3, <3>4, AppendProperties, LenProperties
    <3>6. Complained'
      BY <3>2, <3>5 DEF Complained
    <3>7. Linked
      BY <1>3, <2>2 DEF Linked
    <3>8. LinkStays
      BY <3>4, <3>6, <3>7 DEF LinkStays
    <3> QED
      BY <1>8, <3>6, <3>8
  <2>3. CASE link.pusher # p
    <3>1. link' = link
      BY <2>1, <2>3 DEF Answer
    <3>2. LinkStays
      BY <3>1, SameLinkStays
    <3> QED
      BY <1>8, <2>3, <3>2
  <2>4. CASE ServerClosed
    <3>1. link' = link
      BY <2>1, <2>4 DEF Answer
    <3>2. link.down \in Seq(Downstream)
      BY DEF MutationsInv, TypeOK
    <3>3. DOMAIN link.down = 1 .. Len(link.down)
      BY <3>2, LenProperties
    <3>4. Complained /\ Complained'
      BY <2>4, <3>1, <3>3 DEF Complained, ServerClosed
    <3>5. LinkStays
      BY <3>1, SameLinkStays
    <3> QED
      BY <1>8, <3>4, <3>5
  <2> QED
    BY <2>2, <2>3, <2>4
<1> QED
  BY <1>6, <1>7

-----------------------------------------------------------------------------
(* What is on its way stays there *)

\* A queue only grows.
LEMMA QueueGrows ==
  ASSUME PushersOK, NEW p \in Nat, NEW entries \in Seq(Entry),
         pushers' = [pushers EXCEPT ![p].queue = @ \o entries]
  PROVE  /\ PushersOK' /\ Len(pushers') = Len(pushers)
         /\ \A i \in 1 .. Len(pushers) : \A m \in Int :
              /\ InQueue(pushers[i], m) => InQueue(pushers'[i], m)
              /\ InBatch(pushers[i], m) => InBatch(pushers'[i], m)
         /\ p \in 1 .. Len(pushers) =>
              \A j \in 1 .. Len(entries) : InQueue(pushers'[p], entries[j].id)
<1>1. /\ pushers' \in Seq(Pusher) /\ Len(pushers') = Len(pushers)
      /\ \A i \in 1 .. Len(pushers) : i # p => pushers'[i] = pushers[i]
      /\ p \in 1 .. Len(pushers) =>
           /\ pushers'[p].queue = pushers[p].queue \o entries
           /\ pushers'[p].batch = pushers[p].batch
  BY ZenonT(60), QueueExtended
<1>2. PushersOK'
  BY <1>1 DEF PushersOK
<1>3. ASSUME p \in 1 .. Len(pushers)
      PROVE  /\ \A m \in Int : /\ InQueue(pushers[p], m) => InQueue(pushers'[p], m)
                               /\ InBatch(pushers[p], m) => InBatch(pushers'[p], m)
             /\ \A j \in 1 .. Len(entries) : InQueue(pushers'[p], entries[j].id)
  <2>1. pushers[p] \in Pusher
    BY <1>3, ElementOfSeq DEF PushersOK
  <2>2. pushers[p].queue \in Seq(Entry)
    BY <2>1, PusherFields
  <2> DEFINE old == pushers[p].queue
             new == pushers'[p].queue
  <2>3. new = old \o entries
    BY <1>1, <1>3
  <2>4. /\ Len(old) \in Nat
        /\ \A i \in 1 .. Len(old) : i \in 1 .. Len(new) /\ new[i] = old[i]
        /\ \A i \in 1 .. Len(entries) : Len(old) + i \in 1 .. Len(new) /\ new[Len(old) + i] = entries[i]
    BY SMTT(60), <2>2, <2>3, Concatenated
  <2> HIDE DEF old, new
  <2>5. \A m \in Int : InQueue(pushers[p], m) => InQueue(pushers'[p], m)
    BY <2>4 DEF InQueue, old, new
  <2>6. \A m \in Int : InBatch(pushers[p], m) => InBatch(pushers'[p], m)
    BY <1>1, <1>3 DEF InBatch
  <2>7. \A j \in 1 .. Len(entries) : InQueue(pushers'[p], entries[j].id)
    BY <2>4 DEF InQueue, old, new
  <2> QED
    BY <2>5, <2>6, <2>7
<1>4. \A i \in 1 .. Len(pushers) : i # p =>
        \A m \in Int : /\ InQueue(pushers[i], m) => InQueue(pushers'[i], m)
                       /\ InBatch(pushers[i], m) => InBatch(pushers'[i], m)
  BY <1>1
<1> QED
  BY <1>1, <1>2, <1>3, <1>4

\* More is sent up.
LEMMA UpGrows ==
  ASSUME TypeOK, NEW T, Upstream \subseteq T, NEW msgs \in Seq(T),
         link' = [link EXCEPT !.up = @ \o msgs]
  PROVE  /\ link'.down = link.down /\ link'.pusher = link.pusher
         /\ \A m \in Int : InUp(m) => InUp(m)'
         /\ \A j \in 1 .. Len(msgs) : msgs[j].kind = "push" => InUp(msgs[j].id)'
<1>1. link = [up |-> link.up, down |-> link.down, base |-> link.base, pusher |-> link.pusher]
  BY DEF TypeOK
<1>2. link.up \in Seq(T)
  <2>1. link.up \in Seq(Upstream)
    BY DEF TypeOK
  <2>2. Len(link.up) \in Nat /\ \A i \in 1 .. Len(link.up) : link.up[i] \in Upstream
    BY <2>1, LenProperties, ElementOfSeq
  <2> QED
    BY <2>1, <2>2
<1>3. /\ link'.up = link.up \o msgs /\ link'.down = link.down /\ link'.pusher = link.pusher
  BY <1>1
<1>4. /\ Len(link.up) \in Nat
      /\ \A i \in 1 .. Len(link.up) : i \in 1 .. Len(link'.up) /\ link'.up[i] = link.up[i]
      /\ \A i \in 1 .. Len(msgs) :
           Len(link.up) + i \in 1 .. Len(link'.up) /\ link'.up[Len(link.up) + i] = msgs[i]
  BY <1>2, <1>3, Concatenated
<1> QED
  BY <1>3, <1>4 DEF InUp

\* The tab's connection goes on, and a push to come is still to come.
LEMMA AllSentKept ==
  ASSUME MutationsInv, WayInv, UNCHANGED <<status, sent, applied>>,
         (made' = made /\ due' = due) \/ due',
         \A m \in Int : status = "connected" /\ OnWay(m) => OnWay(m)'
  PROVE  AllSent'
<1>1. LMID' = LMID /\ LMID \in Nat /\ sent \in Nat
  BY LMIDType DEF MutationsInv, TypeOK, LMID
<1>2. AllSent
  BY DEF WayInv
<1>3. \A m \in LMID + 1 .. sent : m \in Int
  OBVIOUS
<1>4. status = "connected" => \A m \in LMID' + 1 .. sent' : OnWay(m)'
  BY <1>1, <1>2, <1>3 DEF AllSent
<1>5. status = "connected" /\ ~due' => \A m \in LMID' + 1 .. made' : m <= sent'
  BY <1>1, <1>2 DEF AllSent
<1> QED
  BY <1>2, <1>4, <1>5 DEF AllSent

\* The steps of the tab that only say something more.
LEMMA TabWay ==
  ASSUME MutationsInv, WayInv,
         UNCHANGED <<status, sent, applied, pushers>>,
         (made' = made /\ due' = due) \/ due',
         link'.pusher = link.pusher,
         link'.down # <<>> => link.down # <<>> \/ Linked,
         Complained => Complained',
         \A m \in Int : InUp(m) => InUp(m)'
  PROVE  WayInv'
<1>1. status' \in {"greeted", "connected"} => Linked
  BY DEF WayInv, LinkOK
<1>2. /\ PushersOK' /\ LinkOK'
      /\ \A m \in Int : OnWay(m) => OnWay(m)'
  BY <1>1, WayKept
<1>3. AllSent'
  BY <1>2, AllSentKept
<1> QED
  BY <1>2, <1>3 DEF WayInv

LEMMA SaidMore ==
  ASSUME MutationsInv, WayInv, ApplyFrame \/ PeerRefresh
  PROVE  WayInv'
<1>1. PICK results : link' = [link EXCEPT !.up = @ \o Ack(tracker, results)]
  BY DEF ApplyFrame, PeerRefresh
<1> DEFINE ack == [kind |-> "ack", id |-> AckedUpTo(results)]
           T == Upstream \cup {ack}
<1>2. Ack(tracker, results) = <<>> \/ Ack(tracker, results) = <<ack>>
  BY DEF Ack
<1> HIDE DEF ack
<1>3. Ack(tracker, results) \in Seq(T)
  <2>1. ack \in T
    OBVIOUS
  <2> HIDE DEF T
  <2>2. <<>> \in Seq(T) /\ <<ack>> \in Seq(T)
    BY <2>1
  <2> QED
    BY <1>2, <2>2
<1>4. TypeOK /\ Upstream \subseteq T
  BY DEF MutationsInv
<1> HIDE DEF T
<1>5. /\ link'.down = link.down /\ link'.pusher = link.pusher
      /\ \A m \in Int : InUp(m) => InUp(m)'
  BY <1>1, <1>3, <1>4, UpGrows
<1>6. Complained => Complained'
  BY <1>5 DEF Complained
<1>7. UNCHANGED <<made, due, status, sent, applied, pushers>>
  BY DEF ApplyFrame, PeerRefresh
<1> QED
  BY <1>5, <1>6, <1>7, TabWay

LEMMA PokeWay ==
  ASSUME MutationsInv, WayInv, Poke
  PROVE  WayInv'
<1>1. PICK to \in link.base + 1 .. LMID :
        link' = [link EXCEPT !.base = to,
                  !.down = Append(@, [kind |-> "poke", base |-> link.base, to |-> to,
                                      results |-> rows \intersect (link.base + 1 .. to)])]
  BY DEF Poke
<1>2. TypeOK /\ link.base \in Nat /\ LMID \in Nat /\ rows \subseteq Nat
  BY LMIDType DEF MutationsInv, TypeOK
<1> DEFINE msg == [kind |-> "poke", base |-> link.base, to |-> to,
                   results |-> rows \intersect (link.base + 1 .. to)]
<1>3. to \in Nat /\ msg \in Downstream
  BY <1>2 DEF Downstream, PokeMsg
<1> HIDE DEF msg
<1>4. /\ link' = [up |-> link.up, down |-> link'.down, base |-> to, pusher |-> link.pusher]
      /\ link'.up = link.up
      /\ Len(link.down) \in Nat
      /\ Len(link'.down) = Len(link.down) + 1
      /\ \A i \in 1 .. Len(link.down) : link'.down[i] = link.down[i]
  BY <1>1, <1>2, <1>3, Sending DEF msg
<1>5. link'.pusher = link.pusher
  BY <1>4
<1>6. Complained => Complained'
  BY <1>4 DEF Complained
<1>7. Linked /\ UNCHANGED <<made, due, status, sent, applied, pushers>>
  BY DEF Poke, clientVars
<1>8. \A m \in Int : InUp(m) => InUp(m)'
  BY <1>4 DEF InUp
<1> QED
  BY <1>5, <1>6, <1>7, <1>8, TabWay

\* A message that is no complaint is read.
LEMMA ReadWay ==
  ASSUME MutationsInv, WayInv, Consume, Received("poke") \/ Received("connected")
  PROVE  /\ link.down # <<>> /\ Linked /\ link'.pusher = link.pusher
         /\ Complained => Complained'
         /\ \A m \in Int : InUp(m) => InUp(m)'
<1>1. link.down # <<>> /\ Head(link.down).kind \notin {"pushError", "invalidPush"}
  BY DEF Received
<1>2. /\ link' = [up |-> link.up, down |-> link'.down, base |-> link.base, pusher |-> link.pusher]
      /\ link'.up = link.up
      /\ Head(link.down) = link.down[1]
      /\ Len(link.down) \in Nat /\ Len(link.down) > 0
      /\ Len(link'.down) = Len(link.down) - 1
      /\ \A i \in 1 .. Len(link'.down) : link'.down[i] = link.down[i + 1]
  BY <1>1, Consuming DEF MutationsInv
<1>3. Complained => Complained'
  <2> SUFFICES ASSUME NEW i \in 1 .. Len(link.down), link.down[i].kind \in {"pushError", "invalidPush"}
               PROVE  Complained'
    BY DEF Complained
  <2>1. i # 1
    BY <1>1, <1>2
  <2>2. i - 1 \in 1 .. Len(link'.down) /\ (i - 1) + 1 = i
    BY <1>2, <2>1
  <2>3. link'.down[i - 1] = link.down[i]
    BY <1>2, <2>2
  <2> QED
    BY <2>2, <2>3 DEF Complained
<1>4. \A m \in Int : InUp(m) => InUp(m)'
  BY <1>2 DEF InUp
<1>5. Linked
  BY <1>1 DEF WayInv, LinkOK
<1>6. link'.pusher = link.pusher
  BY <1>2
<1> QED
  BY <1>1, <1>3, <1>4, <1>5, <1>6

LEMMA HandlePokeWay ==
  ASSUME MutationsInv, WayInv, HandlePoke
  PROVE  WayInv'
<1>1. Consume /\ (Received("poke") \/ Received("connected"))
  BY DEF HandlePoke
<1>2. /\ Linked /\ link'.pusher = link.pusher
      /\ Complained => Complained'
      /\ \A m \in Int : InUp(m) => InUp(m)'
  BY <1>1, ReadWay
<1>3. UNCHANGED <<made, due, status, sent, applied, pushers>>
  BY DEF HandlePoke
<1> QED
  BY <1>2, <1>3, TabWay

LEMMA HandleConnectedWay ==
  ASSUME MutationsInv, WayInv, HandleConnected
  PROVE  WayInv'
<1>1. Consume /\ (Received("poke") \/ Received("connected"))
  BY DEF HandleConnected
<1>2. /\ Linked /\ link'.pusher = link.pusher
      /\ Complained => Complained'
      /\ \A m \in Int : InUp(m) => InUp(m)'
  BY <1>1, ReadWay
<1>3. status' = "greeted" /\ sent' = 0 /\ pushers' = pushers
  BY DEF HandleConnected, SentBefore
<1>4. PushersOK' /\ LinkOK'
  BY <1>2, <1>3, WayKept
<1>5. AllSent'
  BY <1>3 DEF AllSent
<1> QED
  BY <1>4, <1>5 DEF WayInv

LEMMA FinishConnectWay ==
  ASSUME MutationsInv, WayInv, FinishConnect
  PROVE  WayInv'
<1>1. /\ status = "greeted" /\ status' = "connected" /\ due' = TRUE
      /\ UNCHANGED <<sent, link, applied, pushers>>
  BY DEF FinishConnect
<1>2. sent = 0 /\ Linked
  BY <1>1 DEF WayInv, AllSent, LinkOK
<1>3. PushersOK' /\ LinkOK'
  BY <1>1, <1>2 DEF WayInv, PushersOK, LinkOK, Linked
<1>4. LMID' = LMID /\ LMID \in Nat
  BY <1>1, LMIDType DEF MutationsInv, LMID
<1>5. AllSent'
  BY <1>1, <1>2, <1>4 DEF AllSent
<1> QED
  BY <1>3, <1>5 DEF WayInv

LEMMA PushWay ==
  ASSUME MutationsInv, WayInv, Push
  PROVE  WayInv'
<1>1. /\ status = "connected" /\ due' = FALSE
      /\ sent' = IF FirstToSend <= made THEN made ELSE sent
      /\ UNCHANGED <<made, cookie, status, pushers, applied>>
  BY DEF Push
<1>2. /\ TypeOK /\ made \in Nat /\ sent \in Nat /\ cookie \in Nat /\ LMID \in Nat
      /\ cookie <= LMID /\ LMID' = LMID
  BY <1>1, LMIDType DEF MutationsInv, TypeOK, Known, LMID
<1>3. FirstToSend \in Nat
  BY <1>2 DEF FirstToSend
<1> DEFINE n == made + 1 - FirstToSend
<1>5. PICK pushes : pushes = [i \in 1 .. n |-> [kind |-> "push", id |-> FirstToSend + i - 1]]
  OBVIOUS
<1>4. link' = [link EXCEPT !.up = @ \o pushes]
  BY <1>5 DEF Push
<1>6. pushes \in Seq(Upstream) /\ \A i \in 1 .. n : i \in 1 .. Len(pushes)
  <2>1. \A i \in 1 .. n : [kind |-> "push", id |-> FirstToSend + i - 1] \in Upstream
    BY <1>3 DEF Upstream
  <2>2. CASE n \in Nat
    <3>1. pushes \in [1 .. n -> Upstream]
      BY <1>5, <2>1
    <3> HIDE DEF n
    <3> QED
      BY <2>2, <3>1
  <2>3. CASE n \notin Nat
    <3>1. n \in Int /\ n < 0
      BY <1>2, <1>3, <2>3
    <3>2. 1 .. n = {}
      BY <3>1
    <3> HIDE DEF n
    <3>3. pushes = <<>>
      BY <1>5, <3>2
    <3>4. <<>> \in Seq(Upstream)
      OBVIOUS
    <3> QED
      BY <3>2, <3>3, <3>4
  <2> QED
    BY <2>2, <2>3
<1>7. \A m \in FirstToSend .. made : m - FirstToSend + 1 \in 1 .. n /\ pushes[m - FirstToSend + 1].id = m
                                     /\ pushes[m - FirstToSend + 1].kind = "push"
  BY <1>2, <1>3, <1>5
<1> HIDE DEF n
<1>8. /\ link'.down = link.down /\ link'.pusher = link.pusher
      /\ \A m \in Int : InUp(m) => InUp(m)'
      /\ \A j \in 1 .. Len(pushes) : pushes[j].kind = "push" => InUp(pushes[j].id)'
  <2>1. Upstream \subseteq Upstream
    OBVIOUS
  <2> QED
    BY <1>2, <1>4, <1>6, <2>1, UpGrows
<1>9. \A m \in FirstToSend .. made : OnWay(m)'
  <2>1. ASSUME NEW m \in FirstToSend .. made
        PROVE  InUp(m)'
    <3>1. PICK j \in 1 .. Len(pushes) : pushes[j].id = m /\ pushes[j].kind = "push"
      BY <1>6, <1>7
    <3> QED
      BY <1>8, <3>1
  <2> QED
    BY <2>1 DEF OnWay
<1>10. Complained => Complained'
  BY <1>8 DEF Complained
<1>11. Linked
  BY <1>1 DEF WayInv, LinkOK
<1>12. /\ PushersOK' /\ LinkOK'
       /\ \A m \in Int : OnWay(m) => OnWay(m)'
  BY <1>1, <1>8, <1>10, <1>11, WayKept
<1>13. \A m \in LMID + 1 .. sent : OnWay(m)'
  <2>1. \A m \in LMID + 1 .. sent : m \in Int /\ OnWay(m)
    BY <1>1, <1>2 DEF WayInv, AllSent
  <2> QED
    BY <1>12, <2>1
<1>14. \A m \in LMID + 1 .. made : m \in FirstToSend .. made \/ m \in LMID + 1 .. sent
  BY <1>2 DEF FirstToSend
<1>15. \A m \in LMID + 1 .. made : OnWay(m)'
  BY <1>9, <1>13, <1>14
<1>16. \A m \in LMID' + 1 .. sent' : OnWay(m)'
  BY <1>1, <1>2, <1>13, <1>15
<1>17. \A m \in LMID' + 1 .. made' : m <= sent'
  <2>1. CASE FirstToSend <= made
    BY <1>1, <1>2, <2>1
  <2>2. CASE ~(FirstToSend <= made)
    <3>1. sent' = sent /\ made' = made
      BY <1>1, <2>2
    <3> QED
      BY <1>2, <1>14, <2>2, <3>1, <1>3
  <2> QED
    BY <2>1, <2>2
<1>18. AllSent'
  BY <1>1, <1>16, <1>17 DEF AllSent
<1> QED
  BY <1>12, <1>18 DEF WayInv

LEMMA PeerPushWay ==
  ASSUME MutationsInv, WayInv, PeerPush
  PROVE  WayInv'
<1>1. PICK m0 \in 1 .. LMID + 1 :
        /\ m0 <= made
        /\ pushers' = [pushers EXCEPT ![Len(pushers)].queue =
             @ \o [i \in 1 .. made - m0 + 1 |-> [from |-> "peer", id |-> m0 + i - 1]]]
  BY DEF PeerPush
<1>2. PICK entries : entries = [i \in 1 .. made - m0 + 1 |-> [from |-> "peer", id |-> m0 + i - 1]]
  OBVIOUS
<1>3. PICK p : p = Len(pushers)
  OBVIOUS
<1>4. PushersOK /\ LinkOK /\ p \in Nat
  BY <1>3, LenProperties DEF WayInv, PushersOK
<1>5. m0 \in Nat /\ made \in Nat
  <2>1. LMID \in Nat /\ made \in Nat
    BY LMIDType DEF MutationsInv, TypeOK
  <2> QED
    BY <2>1
<1>6. entries \in Seq(Entry)
  <2> DEFINE n == made - m0 + 1
  <2>1. n \in Nat
    BY <1>1, <1>5
  <2>2. \A i \in 1 .. n : [from |-> "peer", id |-> m0 + i - 1] \in Entry
    BY <1>5 DEF Entry
  <2>3. entries \in [1 .. n -> Entry]
    BY <1>2, <2>2
  <2> HIDE DEF n
  <2> QED
    BY <2>1, <2>3
<1>7. pushers' = [pushers EXCEPT ![p].queue = @ \o entries]
  BY <1>1, <1>2, <1>3
<1>8. /\ PushersOK' /\ Len(pushers') = Len(pushers)
      /\ \A i \in 1 .. Len(pushers) : \A m \in Int :
           /\ InQueue(pushers[i], m) => InQueue(pushers'[i], m)
           /\ InBatch(pushers[i], m) => InBatch(pushers'[i], m)
  BY <1>4, <1>6, <1>7, QueueGrows
<1>9. UNCHANGED <<made, due, status, sent, link, applied>>
  BY DEF PeerPush, clientVars
<1>10. LinkOK'
  BY <1>4, <1>8, <1>9 DEF LinkOK, Linked
<1>11. ASSUME NEW m \in Int, status = "connected", OnWay(m)
       PROVE  OnWay(m)'
  <2>1. link.pusher \in 1 .. Len(pushers)
    BY <1>4, <1>11 DEF LinkOK, Linked
  <2>2. /\ InQueue(pushers[link.pusher], m) => InQueue(pushers'[link.pusher], m)
        /\ InBatch(pushers[link.pusher], m) => InBatch(pushers'[link.pusher], m)
    BY <1>8, <2>1
  <2>3. /\ InQueue(pushers'[link.pusher], m) => InQueue(pushers[link.pusher], m)'
        /\ InBatch(pushers'[link.pusher], m) => InBatch(pushers[link.pusher], m)'
    BY <1>9 DEF InQueue, InBatch
  <2>4. (InUp(m) => InUp(m)') /\ (Complained => Complained')
    BY <1>9 DEF InUp, Complained
  <2> QED
    BY <1>11, <2>2, <2>3, <2>4 DEF OnWay
<1>12. AllSent'
  BY <1>9, <1>11, AllSentKept
<1> QED
  BY <1>8, <1>10, <1>12 DEF WayInv

LEMMA HandleMessageWay ==
  ASSUME MutationsInv, WayInv, HandleMessage
  PROVE  WayInv'
<1>1. /\ link.up # <<>>
      /\ pushers' = IF Head(link.up).kind = "push" THEN Deliver(pushers, 1) ELSE pushers
      /\ link' = [link EXCEPT !.up = Tail(@)]
      /\ UNCHANGED <<made, due, status, sent, applied>>
  BY DEF HandleMessage, clientVars
<1>2. TypeOK /\ PushersOK /\ LinkOK /\ link.pusher \in Nat
  BY LenProperties DEF MutationsInv, WayInv, LinkOK, PushersOK
<1>3. /\ link.up \in Seq(Upstream)
      /\ link = [up |-> link.up, down |-> link.down, base |-> link.base, pusher |-> link.pusher]
  BY <1>2 DEF TypeOK
<1>4. /\ link'.up = Tail(link.up) /\ link'.down = link.down /\ link'.pusher = link.pusher
  BY <1>1, <1>3
<1>5. /\ Len(link.up) \in Nat /\ Len(link.up) > 0 /\ Head(link.up) = link.up[1]
      /\ Len(link'.up) = Len(link.up) - 1
      /\ \A i \in 1 .. Len(link'.up) : link'.up[i] = link.up[i + 1]
  BY <1>1, <1>3, <1>4, HeadTailProperties, LenProperties, EmptySeq
<1>6. /\ PushersOK' /\ Len(pushers') = Len(pushers)
      /\ \A i \in 1 .. Len(pushers) : \A m \in Int :
           /\ InQueue(pushers[i], m) => InQueue(pushers'[i], m)
           /\ InBatch(pushers[i], m) => InBatch(pushers'[i], m)
      /\ link.pusher \in 1 .. Len(pushers) /\ link.up[1].kind = "push"
           => InQueue(pushers'[link.pusher], link.up[1].id)
  <2>1. CASE Head(link.up).kind = "push"
    <3>1. 1 \in 0 .. Len(link.up)
      BY <1>5
    <3>2. PICK entries \in Seq(Entry) :
            /\ Deliver(pushers, 1) = [pushers EXCEPT ![link.pusher].queue = @ \o entries]
            /\ \A i \in 1 .. 1 : link.up[i].kind = "push" =>
                 \E j \in 1 .. Len(entries) : entries[j].id = link.up[i].id
      BY <1>2, <3>1, PushesDelivered
    <3>3. PICK p : p = link.pusher
      OBVIOUS
    <3>4. pushers' = [pushers EXCEPT ![p].queue = @ \o entries] /\ p \in Nat
      BY <1>1, <1>2, <2>1, <3>2, <3>3
    <3>5. /\ PushersOK' /\ Len(pushers') = Len(pushers)
          /\ \A i \in 1 .. Len(pushers) : \A m \in Int :
               /\ InQueue(pushers[i], m) => InQueue(pushers'[i], m)
               /\ InBatch(pushers[i], m) => InBatch(pushers'[i], m)
          /\ p \in 1 .. Len(pushers) =>
               \A j \in 1 .. Len(entries) : InQueue(pushers'[p], entries[j].id)
      BY <1>2, <3>4, QueueGrows
    <3>6. PICK j \in 1 .. Len(entries) : entries[j].id = link.up[1].id
      BY <1>5, <2>1, <3>2
    <3>7. link.pusher \in 1 .. Len(pushers) => InQueue(pushers'[link.pusher], link.up[1].id)
      BY <3>3, <3>5, <3>6
    <3> QED
      BY <3>5, <3>7
  <2>2. CASE Head(link.up).kind # "push"
    <3>1. pushers' = pushers /\ ~(link.up[1].kind = "push")
      BY <1>1, <1>5, <2>2
    <3>2. PushersOK'
      BY <1>2, <3>1 DEF PushersOK
    <3> QED
      BY <3>1, <3>2
  <2> QED
    BY <2>1, <2>2
<1>7. LinkOK'
  BY <1>1, <1>2, <1>4, <1>6 DEF LinkOK, Linked
<1>8. ASSUME NEW m \in Int, status = "connected", OnWay(m)
      PROVE  OnWay(m)'
  <2>1. link.pusher \in 1 .. Len(pushers)
    BY <1>2, <1>8 DEF LinkOK, Linked
  <2>2. /\ InQueue(pushers'[link.pusher], m) => InQueue(pushers[link.pusher], m)'
        /\ InBatch(pushers'[link.pusher], m) => InBatch(pushers[link.pusher], m)'
    BY <1>4 DEF InQueue, InBatch
  <2>3. Complained => Complained'
    BY <1>4 DEF Complained
  <2>4. CASE InUp(m)
    <3>1. PICK i \in 1 .. Len(link.up) : link.up[i].kind = "push" /\ link.up[i].id = m
      BY <2>4 DEF InUp
    <3>2. CASE i = 1
      <4>1. InQueue(pushers'[link.pusher], m)
        BY <1>6, <2>1, <3>1, <3>2
      <4> QED
        BY <2>2, <4>1 DEF OnWay
    <3>3. CASE i # 1
      <4>1. i - 1 \in 1 .. Len(link'.up) /\ (i - 1) + 1 = i
        BY <1>5, <3>3
      <4>2. link'.up[i - 1] = link.up[i]
        BY <1>5, <4>1
      <4>3. InUp(m)'
        BY <3>1, <4>1, <4>2 DEF InUp
      <4> QED
        BY <4>3 DEF OnWay
    <3> QED
      BY <3>2, <3>3
  <2>5. CASE InQueue(pushers[link.pusher], m) \/ InBatch(pushers[link.pusher], m)
    <3>1. InQueue(pushers'[link.pusher], m) \/ InBatch(pushers'[link.pusher], m)
      BY <1>6, <2>1, <2>5
    <3> QED
      BY <2>2, <3>1 DEF OnWay
  <2> QED
    BY <1>8, <2>3, <2>4, <2>5 DEF OnWay
<1>9. AllSent'
  BY <1>1, <1>8, AllSentKept
<1> QED
  BY <1>6, <1>7, <1>9 DEF WayInv

\* Nothing is owed to a connection that has ended.
LEMMA EndedWay ==
  ASSUME MutationsInv, WayInv, NEW next \in {"offline", "error"}, EndConnection(next)
  PROVE  WayInv'
<1>1. PICK k \in 0 .. (IF ServerClosed THEN 0 ELSE Len(link.up)), stop \in BOOLEAN :
        pushers' = [Deliver(pushers, k) EXCEPT ![link.pusher].stopped = @ \/ stop]
  BY DEF EndConnection
<1>2. status' = next /\ link' = NoLink
  BY DEF EndConnection, LinkAfterEnd
<1>3. TypeOK /\ PushersOK /\ LinkOK /\ link.pusher \in Nat /\ Len(link.up) \in Nat
  BY LenProperties, LinkElements DEF MutationsInv, WayInv, LinkOK, PushersOK
<1>4. k \in 0 .. Len(link.up)
  BY <1>1, <1>3
<1>5. PICK ps : ps = Deliver(pushers, k)
  OBVIOUS
<1>6. PICK entries \in Seq(Entry) : ps = [pushers EXCEPT ![link.pusher].queue = @ \o entries]
  BY <1>3, <1>4, <1>5, PushesDelivered
<1>7. ps \in Seq(Pusher) /\ Len(ps) = Len(pushers)
  <2>1. PICK p \in Nat : p = link.pusher
    BY <1>3
  <2>2. ps = [pushers EXCEPT ![p].queue = @ \o entries]
    BY <1>6, <2>1
  <2> QED
    BY <1>3, <2>2, QueueExtended
<1>8. pushers' = [ps EXCEPT ![link.pusher].stopped = @ \/ stop]
  BY <1>1, <1>5
<1>9. PushersOK'
  <2>1. DOMAIN ps = 1 .. Len(ps) /\ Len(ps) > 0
    BY <1>3, <1>7, LenProperties DEF PushersOK
  <2>2. CASE link.pusher \in 1 .. Len(ps)
    <3> DEFINE q == ps[link.pusher]
               r == [q EXCEPT !.stopped = q.stopped \/ stop]
    <3>1. q \in Pusher
      BY <1>7, <2>2, ElementOfSeq
    <3> HIDE DEF q
    <3>2. /\ q.queue \in Seq(Entry) /\ q.batch \in Seq(Seq(Int)) /\ q.stopped \in BOOLEAN
          /\ q = [queue |-> q.queue, batch |-> q.batch, stopped |-> q.stopped]
      BY <3>1, PusherFields
    <3>3. r = [queue |-> q.queue, batch |-> q.batch, stopped |-> q.stopped \/ stop]
      BY <3>2
    <3>4. r \in Pusher
      <4>1. (q.stopped \/ stop) \in BOOLEAN
        OBVIOUS
      <4> QED
        BY <3>2, <3>3, <4>1 DEF Pusher
    <3>5. pushers' = [ps EXCEPT ![link.pusher] = r]
      BY <1>8 DEF q
    <3> HIDE DEF r
    <3>6. pushers' \in Seq(Pusher) /\ Len(pushers') = Len(ps)
      BY <1>7, <2>2, <3>4, <3>5, ExceptSeq
    <3> QED
      BY <2>1, <3>6 DEF PushersOK
  <2>3. CASE link.pusher \notin 1 .. Len(ps)
    <3>1. pushers' = ps
      BY <1>7, <1>8, <2>1, <2>3
    <3> QED
      BY <1>7, <2>1, <3>1 DEF PushersOK
  <2> QED
    BY <2>2, <2>3
<1>10. LinkOK'
  <2>1. link'.pusher = 0 /\ link'.down = <<>>
    BY <1>2 DEF NoLink
  <2>2. Len(pushers') \in Nat
    BY <1>9, LenProperties DEF PushersOK
  <2> QED
    BY <1>2, <2>1, <2>2 DEF LinkOK
<1>11. AllSent'
  BY <1>2 DEF AllSent
<1> QED
  BY <1>9, <1>10, <1>11 DEF WayInv

LEMMA ConnectWay ==
  ASSUME MutationsInv, WayInv, Connect
  PROVE  WayInv'
<1>1. /\ status' = "opening"
      /\ pushers' = pushers \/ pushers' = Append(pushers, NewPusher)
      /\ link' = [up |-> <<>>, down |-> <<[kind |-> "connected"]>>,
                  base |-> cookie, pusher |-> Len(pushers')]
  BY DEF Connect
<1>2. NewPusher \in Pusher
  BY EmptySeq DEF NewPusher, Pusher
<1>3. PushersOK /\ Len(pushers) \in Nat
  BY LenProperties DEF WayInv, PushersOK
<1>4. pushers' \in Seq(Pusher) /\ Len(pushers') > 0 /\ Len(pushers') \in Nat
  <2>1. CASE pushers' = pushers
    BY <1>3, <2>1 DEF PushersOK
  <2>2. CASE pushers' = Append(pushers, NewPusher)
    BY <1>2, <1>3, <2>2, AppendProperties DEF PushersOK
  <2> QED
    BY <1>1, <2>1, <2>2
<1>5. PushersOK'
  BY <1>4 DEF PushersOK
<1>6. link'.pusher = Len(pushers')
  BY <1>1
<1>7. LinkOK' /\ AllSent'
  BY <1>1, <1>4, <1>6 DEF LinkOK, Linked, AllSent
<1> QED
  BY <1>5, <1>7 DEF WayInv

LEMMA WayInit ==
  ASSUME Init
  PROVE  WayInv
<1>1. NewPusher \in Pusher
  BY EmptySeq DEF NewPusher, Pusher
<1>2. PushersOK
  BY <1>1 DEF Init, PushersOK
<1>3. link.pusher = 0 /\ link.down = <<>> /\ status = "offline" /\ Len(pushers) = 1
  BY DEF Init, NoLink
<1>4. LinkOK /\ AllSent
  BY <1>3 DEF LinkOK, AllSent
<1> QED
  BY <1>2, <1>4 DEF WayInv

LEMMA WayNext ==
  ASSUME MutationsInv, MutationsInv', WayInv, [Next]_vars
  PROVE  WayInv'
<1>1. CASE Mutate \/ MutateRejected \/ RemoveQuery \/ UNCHANGED vars
  <2>1. /\ UNCHANGED <<status, sent, applied, pushers, link>>
        /\ (made' = made /\ due' = due) \/ due'
    BY <1>1 DEF Mutate, MutateRejected, RemoveQuery, vars
  <2>2. LinkStays
    BY <2>1, SameLinkStays
  <2>3. \A m \in Int : InUp(m) => InUp(m)'
    BY <2>1 DEF InUp
  <2> QED
    BY <2>1, <2>2, <2>3, TabWay DEF LinkStays
<1>2. CASE AppReconnect
  <2>1. status' = "offline" /\ UNCHANGED <<link, pushers>>
    BY <1>2 DEF AppReconnect
  <2> QED
    BY <2>1 DEF WayInv, PushersOK, LinkOK, AllSent, Linked
<1>3. CASE DropConnection \/ HandleError \/ RejectFrame \/ FailFrame
  <2>1. \E next \in {"offline", "error"} : EndConnection(next)
    BY <1>3 DEF DropConnection, HandleError, RejectFrame, FailFrame
  <2> QED
    BY <2>1, EndedWay
<1>4. CASE Connect
  BY <1>4, ConnectWay
<1>5. CASE HandleConnected \/ FinishConnect
  BY <1>5, HandleConnectedWay, FinishConnectWay
<1>6. CASE Push \/ HandleMessage \/ PeerPush
  BY <1>6, PushWay, HandleMessageWay, PeerPushWay
<1>7. CASE \E p \in DOMAIN pushers :
             \/ TakePushes(p) \/ ApplyMutation(p) \/ SkipMutation(p) \/ RefuseMutation(p)
             \/ FinishPush(p) \/ FailPush(p)
  BY <1>7, TakePushesWay, BatchAdvances, BatchEnds
<1>8. CASE Poke \/ HandlePoke
  BY <1>8, PokeWay, HandlePokeWay
<1>9. CASE ApplyFrame \/ PeerRefresh
  BY <1>9, SaidMore
<1> QED
  BY <1>1, <1>2, <1>3, <1>4, <1>5, <1>6, <1>7, <1>8, <1>9 DEF Next

LEMMA WayIsKnown ==
  ASSUME MutationsInv, WayInv
  PROVE  NoneForgotten
<1> SUFFICES ASSUME status = "connected", ~due, NEW m \in LMID + 1 .. made
             PROVE  \/ \E i \in DOMAIN link.up : link.up[i].kind = "push" /\ link.up[i].id = m
                    \/ \E p \in DOMAIN pushers :
                         \/ \E i \in DOMAIN pushers[p].queue : pushers[p].queue[i].id = m
                         \/ \E i \in DOMAIN pushers[p].batch : m \in Range(pushers[p].batch[i])
                    \/ \E i \in DOMAIN link.down : link.down[i].kind \in {"pushError", "invalidPush"}
  BY DEF NoneForgotten
<1>1. PushersOK /\ LinkOK /\ AllSent /\ TypeOK
  BY DEF MutationsInv, WayInv
<1>2. link.up \in Seq(Upstream) /\ link.down \in Seq(Downstream) /\ pushers \in Seq(Pusher)
  BY <1>1 DEF TypeOK, PushersOK
<1>3. /\ DOMAIN link.up = 1 .. Len(link.up) /\ DOMAIN link.down = 1 .. Len(link.down)
      /\ DOMAIN pushers = 1 .. Len(pushers)
  BY <1>2, LenProperties
<1>4. link.pusher \in DOMAIN pushers
  BY <1>1, <1>3 DEF LinkOK, Linked
<1> DEFINE q == pushers[link.pusher]
<1>5. q \in Pusher
  BY <1>1, <1>4, PusherAt
<1> HIDE DEF q
<1>6. /\ q.queue \in Seq(Entry) /\ q.batch \in Seq(Seq(Int))
      /\ \A i \in 1 .. Len(q.batch) : q.batch[i] \in Seq(Int)
  BY <1>5, PusherFields
<1>7. /\ DOMAIN q.queue = 1 .. Len(q.queue) /\ DOMAIN q.batch = 1 .. Len(q.batch)
      /\ \A i \in 1 .. Len(q.batch) : DOMAIN q.batch[i] = 1 .. Len(q.batch[i])
  BY <1>6, LenProperties
<1>8. OnWay(m)
  <2>1. made \in Nat /\ sent \in Nat /\ LMID \in Nat
    BY <1>1, LMIDType DEF TypeOK
  <2>2. m <= sent
    BY <1>1 DEF AllSent
  <2>3. m \in LMID + 1 .. sent
    BY <2>1, <2>2
  <2> QED
    BY <1>1, <2>3 DEF AllSent
<1>9. InUp(m) \/ Complained \/ InQueue(q, m) \/ InBatch(q, m)
  BY <1>8 DEF OnWay, q
<1>10. CASE InUp(m) \/ Complained
  BY <1>3, <1>10 DEF InUp, Complained
<1>11. CASE InQueue(q, m)
  <2>1. \E i \in DOMAIN q.queue : q.queue[i].id = m
    BY <1>7, <1>11 DEF InQueue
  <2> QED
    BY <1>4, <2>1 DEF q
<1>12. CASE InBatch(q, m)
  <2>1. \E i \in DOMAIN q.batch : m \in Range(q.batch[i])
    BY <1>7, <1>12 DEF InBatch, Range
  <2> QED
    BY <1>4, <2>1 DEF q
<1> QED
  BY <1>9, <1>10, <1>11, <1>12

\* A connected tab that believes it has pushed everything is right: what upstream has not
\* applied is on the socket or with the connection's pusher, or an error is coming back.
THEOREM NothingIsForgotten == Spec => []NoneForgotten
<1>1. MutationsInv /\ MutationsInv' /\ WayInv /\ [Next]_vars => WayInv'
  BY WayNext
<1>2. Spec => []WayInv
  BY <1>1, WayInit, InvAlways, PTL DEF Spec
<1>3. MutationsInv /\ WayInv => NoneForgotten
  BY WayIsKnown
<1> QED
  BY <1>2, <1>3, InvAlways, PTL
===============================================================================
