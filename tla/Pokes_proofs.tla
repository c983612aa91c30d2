---------------------------- MODULE Pokes_proofs ----------------------------
(***************************************************************************)
(* What the tab shows at a cookie is what the server had at that version,  *)
(* and no poke is lost on a connection that stays up, unless by an error   *)
(* in the disconnected state: for every number of versions, faults and     *)
(* waiting frames and every environment.                                   *)
(***************************************************************************)
EXTENDS Pokes, TLAPS, WellFoundedInduction, SequenceTheorems

-----------------------------------------------------------------------------
(* The invariant *)

IsStart(m) == m.kind = "pokeStart"

TypeOK ==
  /\ version \in Nat
  /\ buffer \in Seq(Poke) /\ receiving \in Poke \cup {None}
  /\ wire \in Link \cup {None}

\* A socket is opened only when there is none.
Control ==
  /\ loop \in {"cookie", "socket", "sleep"} => wire = None
  /\ loop = "look" /\ status \in {"connecting", "disconnected"} => wire = None

\* Pokes come in order, although some are canceled or cleared away: neither their bases
\* nor their ends go back.
FitsIn(p, v, b) == p.base <= p.to /\ p.to <= v /\ p.base <= b
Fits(p) == FitsIn(p, version, wire.base)
Precedes(p, q) == p.base <= q.base /\ p.to <= q.to

ServerInOrder ==
  wire # None =>
    /\ wire.base <= version
    /\ wire.poke # None => wire.base <= wire.poke /\ wire.poke <= version

BufferInOrder ==
  /\ buffer # <<>> => wire # None
  /\ \A i \in 1 .. Len(buffer) : Fits(buffer[i])
  /\ \A i, j \in 1 .. Len(buffer) : i < j => Precedes(buffer[i], buffer[j])

HandInOrder ==
  receiving # None =>
    /\ wire # None /\ Fits(receiving)
    /\ \A i \in 1 .. Len(buffer) : Precedes(buffer[i], receiving)

WireInOrder ==
  wire # None => \A i \in 1 .. Len(wire.down) : IsStart(wire.down[i]) =>
    /\ Fits(wire.down[i])
    /\ \A j \in 1 .. Len(buffer) : Precedes(buffer[j], wire.down[i])
    /\ receiving # None => Precedes(receiving, wire.down[i])
    /\ \A j \in 1 .. Len(wire.down) :
         IsStart(wire.down[j]) /\ i < j => Precedes(wire.down[i], wire.down[j])

InOrder == TypeOK /\ ServerInOrder /\ BufferInOrder /\ HandInOrder /\ WireInOrder

\* What is being applied are the patches after its base.
Merged ==
  applying # None =>
    /\ applying \in MergedPoke
    /\ applying.base \in Nat /\ applying.to \in Nat
    /\ applying.base <= applying.to /\ applying.to <= version
    /\ applying.patches = applying.base + 1 .. applying.to

Cookies ==
  /\ cookie \in Nat /\ cookie <= version
  /\ asked \in Nat /\ asked <= version

PokeInv == InOrder /\ Control /\ Merged /\ Cookies /\ ViewMatchesCookie

-----------------------------------------------------------------------------
(* Merging *)

LEMMA BufferElements ==
  ASSUME TypeOK
  PROVE  /\ Len(buffer) \in Nat /\ DOMAIN buffer = 1 .. Len(buffer)
         /\ \A i \in 1 .. Len(buffer) :
              buffer[i] \in Poke /\ buffer[i].base \in Nat /\ buffer[i].to \in Nat
<1>1. buffer \in Seq(Poke)
  BY DEF TypeOK
<1>2. Len(buffer) \in Nat /\ DOMAIN buffer = 1 .. Len(buffer)
  BY <1>1, LenProperties
<1>3. \A i \in 1 .. Len(buffer) : buffer[i] \in Poke
  BY <1>1, <1>2, ElementOfSeq
<1> QED
  BY <1>2, <1>3 DEF Poke

LEMMA WireElements ==
  ASSUME TypeOK, wire # None
  PROVE  /\ Len(wire.down) \in Nat
         /\ \A i \in 1 .. Len(wire.down) :
              /\ wire.down[i] \in Message
              /\ IsStart(wire.down[i]) => wire.down[i].base \in Nat /\ wire.down[i].to \in Nat
<1>1. wire.down \in Seq(Message)
  BY DEF TypeOK, Link
<1>2. Len(wire.down) \in Nat
  BY <1>1, LenProperties
<1>3. \A i \in 1 .. Len(wire.down) : wire.down[i] \in Message
  BY <1>1, <1>2, ElementOfSeq
<1> QED
  BY <1>2, <1>3 DEF Message, IsStart

\* A nonempty set of naturals has a least element.
LEMMA LeastOf ==
  ASSUME NEW S \in SUBSET Nat, S # {}
  PROVE  \E x \in S : \A y \in S : x <= y
<1>1. PICK x \in S : \A y \in S : <<y, x>> \notin OpToRel(<, Nat)
  BY WFMin, NatLessThanWellFounded, Zenon
<1>2. \A y \in S : ~(y < x)
  BY <1>1, Zenon DEF OpToRel
<1> QED
  BY <1>2

\* Pokes in order without a gap cover what is between the first base and the last end.
LEMMA MergedPatches ==
  ASSUME TypeOK, BufferInOrder, buffer # <<>>, ~HasGap
  PROVE  UNION {buffer[i].base + 1 .. buffer[i].to : i \in DOMAIN buffer}
           = buffer[1].base + 1 .. buffer[Len(buffer)].to
<1> DEFINE n == Len(buffer)
<1>1. /\ n \in Nat /\ n > 0 /\ DOMAIN buffer = 1 .. n
      /\ \A i \in 1 .. n : buffer[i].base \in Nat /\ buffer[i].to \in Nat
  <2>1. buffer \in Seq(Poke)
    BY DEF TypeOK
  <2> QED
    BY <2>1, BufferElements, EmptySeq
<1>2. \A i, j \in 1 .. n : i < j => buffer[i].base <= buffer[j].base /\ buffer[i].to <= buffer[j].to
  BY DEF BufferInOrder, Precedes
<1>3. \A i \in 1 .. n : buffer[1].base <= buffer[i].base /\ buffer[i].to <= buffer[n].to
  BY <1>1, <1>2
<1>4. ASSUME NEW x \in buffer[1].base + 1 .. buffer[n].to
      PROVE  \E i \in 1 .. n : x \in buffer[i].base + 1 .. buffer[i].to
  <2> DEFINE Ends == {i \in 1 .. n : x <= buffer[i].to}
  <2>1. n \in Ends
    BY <1>1
  <2>2. Ends \in SUBSET Nat /\ Ends # {}
    BY <2>1
  <2> HIDE DEF Ends
  <2>3. PICK i \in Ends : \A y \in Ends : i <= y
    BY <2>2, LeastOf
  <2>4. i \in 1 .. n /\ x <= buffer[i].to
    BY <2>3 DEF Ends
  <2>5. buffer[i].base < x
    <3>1. CASE i = 1
      BY <1>1, <3>1
    <3>2. CASE i # 1
      <4>1. i - 1 \in 1 .. n /\ i - 1 \in 1 .. n - 1
        BY <1>1, <2>4, <3>2
      <4>2. ~(x <= buffer[i - 1].to)
        BY <2>3, <2>4, <4>1 DEF Ends
      <4>3. ~(buffer[(i - 1) + 1].base > buffer[i - 1].to)
        BY <4>1 DEF HasGap
      <4>4. (i - 1) + 1 = i
        BY <2>4
      <4> QED
        BY <1>1, <2>4, <4>1, <4>2, <4>3, <4>4
    <3> QED
      BY <3>1, <3>2
  <2> QED
    BY <1>1, <2>4, <2>5
<1>5. ASSUME NEW i \in 1 .. n, NEW x \in buffer[i].base + 1 .. buffer[i].to
      PROVE  x \in buffer[1].base + 1 .. buffer[n].to
  BY <1>1, <1>3
<1> QED
  BY <1>1, <1>4, <1>5

LEMMA MergedType ==
  ASSUME TypeOK, buffer # <<>>
  PROVE  MergePokes \in MergedPoke
<1>1. /\ DOMAIN buffer = 1 .. Len(buffer) /\ 1 \in 1 .. Len(buffer) /\ Len(buffer) \in 1 .. Len(buffer)
      /\ \A i \in 1 .. Len(buffer) : buffer[i].base \in Nat /\ buffer[i].to \in Nat
  <2>1. buffer \in Seq(Poke)
    BY DEF TypeOK
  <2> QED
    BY <2>1, BufferElements, LenProperties, EmptySeq
<1>2. UNION {buffer[i].base + 1 .. buffer[i].to : i \in DOMAIN buffer} \in SUBSET Nat
  BY <1>1
<1> QED
  BY <1>1, <1>2 DEF MergePokes, MergedPoke, Last

-----------------------------------------------------------------------------
(* The order of the pokes *)

\* The tail of what is on the wire.
LEMMA Consuming ==
  ASSUME TypeOK, wire # None, wire.down # <<>>, wire' = Consumed
  PROVE  /\ wire' \in Link
         /\ wire'.base = wire.base /\ wire'.poke = wire.poke
         /\ Head(wire.down) = wire.down[1] /\ wire.down[1] \in Message
         /\ Len(wire.down) \in Nat /\ Len(wire.down) > 0
         /\ Len(wire'.down) = Len(wire.down) - 1
         /\ \A i \in 1 .. Len(wire'.down) : wire'.down[i] = wire.down[i + 1]
<1>1. wire.down \in Seq(Message)
  BY DEF TypeOK, Link
<1>2. wire'.down = Tail(wire.down) /\ wire'.base = wire.base /\ wire'.poke = wire.poke
  BY DEF TypeOK, Link, Consumed
<1>3. wire' \in Link
  BY <1>1, HeadTailProperties DEF TypeOK, Link, Consumed
<1> QED
  BY <1>1, <1>2, <1>3, HeadTailProperties, LenProperties, EmptySeq

\* A message that is put on the wire.
LEMMA Sending ==
  ASSUME TypeOK, wire # None, NEW msg \in Message, NEW base \in Nat, NEW poke \in Nat \cup {None},
         wire' = [down |-> Append(wire.down, msg), base |-> base, poke |-> poke]
  PROVE  /\ wire' \in Link
         /\ wire'.base = base /\ wire'.poke = poke
         /\ Len(wire.down) \in Nat
         /\ Len(wire'.down) = Len(wire.down) + 1
         /\ \A i \in 1 .. Len(wire.down) : wire'.down[i] = wire.down[i]
         /\ wire'.down[Len(wire.down) + 1] = msg
<1>1. wire.down \in Seq(Message)
  BY DEF TypeOK, Link
<1>2. wire'.down = Append(wire.down, msg) /\ wire'.base = base /\ wire'.poke = poke
  BY DEF TypeOK, Link
<1>3. wire' \in Link
  BY <1>1, AppendProperties DEF TypeOK, Link
<1> QED
  BY <1>1, <1>2, <1>3, AppendProperties, LenProperties

\* The server moves on, or nothing happens.
LEMMA OrderStays ==
  ASSUME InOrder, version' \in Nat, version <= version', UNCHANGED <<wire, buffer, receiving>>
  PROVE  InOrder'
<1>1. TypeOK'
  BY DEF InOrder, TypeOK
<1>2. wire # None => wire.base \in Nat /\ (wire.poke # None => wire.poke \in Nat)
  BY DEF InOrder, TypeOK, Link
<1>3. ServerInOrder'
  BY <1>2 DEF InOrder, TypeOK, ServerInOrder
<1>4. \A i \in 1 .. Len(buffer) : buffer[i].to \in Nat
  BY BufferElements DEF InOrder
<1>5. receiving # None => receiving.to \in Nat
  BY DEF InOrder, TypeOK, Poke
<1>6. wire # None => \A i \in 1 .. Len(wire.down) : IsStart(wire.down[i]) => wire.down[i].to \in Nat
  BY WireElements DEF InOrder
<1>7. BufferInOrder'
  BY <1>4 DEF InOrder, TypeOK, BufferInOrder, Fits, FitsIn, Precedes
<1>8. HandInOrder'
  BY <1>5 DEF InOrder, TypeOK, HandInOrder, Fits, FitsIn, Precedes
<1>9. WireInOrder'
  BY SMTT(60), <1>6 DEF InOrder, TypeOK, WireInOrder, Fits, FitsIn, Precedes, IsStart
<1> QED
  BY <1>1, <1>3, <1>7, <1>8, <1>9 DEF InOrder

\* The socket is dropped.
LEMMA Dropped ==
  ASSUME InOrder, wire' = None, buffer' = <<>>, receiving' = None, UNCHANGED version
  PROVE  InOrder'
<1>1. buffer' \in Seq(Poke) /\ Len(buffer') = 0
  BY EmptySeq
<1> QED
  BY <1>1 DEF InOrder, TypeOK, ServerInOrder, BufferInOrder, HandInOrder, WireInOrder

\* The pokes that are collected are taken, or cleared away.
LEMMA Cleared ==
  ASSUME InOrder, buffer' = <<>>, receiving' = receiving \/ receiving' = None,
         UNCHANGED <<version, wire>>
  PROVE  InOrder'
<1>1. buffer' \in Seq(Poke) /\ Len(buffer') = 0
  BY EmptySeq
<1>2. TypeOK'
  BY <1>1 DEF InOrder, TypeOK
<1>3. ServerInOrder' /\ BufferInOrder'
  BY <1>1 DEF InOrder, ServerInOrder, BufferInOrder
<1>4. HandInOrder'
  BY <1>1 DEF InOrder, HandInOrder, Fits, FitsIn
<1>5. WireInOrder'
  BY <1>1 DEF InOrder, WireInOrder, Fits, FitsIn, Precedes, IsStart
<1> QED
  BY <1>2, <1>3, <1>4, <1>5 DEF InOrder

\* The server sends a message; a poke starts where the last one ended.
LEMMA MessageSent ==
  ASSUME InOrder, wire # None, NEW msg \in Message, NEW base \in Nat, NEW poke \in Nat \cup {None},
         wire' = [down |-> Append(wire.down, msg), base |-> base, poke |-> poke],
         wire.base <= base, base <= version,
         poke # None => base <= poke /\ poke <= version,
         IsStart(msg) => msg.base = wire.base /\ msg.to = version /\ wire.base <= version,
         UNCHANGED <<version, buffer, receiving>>
  PROVE  InOrder'
<1> DEFINE n == Len(wire.down)
<1>1. TypeOK
  BY DEF InOrder
<1>2. /\ wire' \in Link
      /\ wire'.base = base /\ wire'.poke = poke
      /\ n \in Nat /\ Len(wire'.down) = n + 1
      /\ \A i \in 1 .. n : wire'.down[i] = wire.down[i]
      /\ wire'.down[n + 1] = msg
  BY <1>1, Sending
<1>3. wire' # None
  BY <1>2, NoneAssumption
<1>4. TypeOK'
  BY <1>1, <1>2 DEF TypeOK
<1>5. ServerInOrder'
  BY <1>2 DEF InOrder, ServerInOrder
<1>6. /\ wire.base \in Nat /\ version \in Nat
      /\ \A i \in 1 .. Len(buffer) : buffer[i].base \in Nat /\ buffer[i].to \in Nat
      /\ receiving # None => receiving.base \in Nat /\ receiving.to \in Nat
      /\ \A i \in 1 .. n : IsStart(wire.down[i]) => wire.down[i].base \in Nat /\ wire.down[i].to \in Nat
  BY <1>1, BufferElements, WireElements DEF TypeOK, Link, Poke
<1>7. wire.base <= version
  BY DEF InOrder, ServerInOrder
<1>8. BufferInOrder'
  <2>1. \A i \in 1 .. Len(buffer) : buffer[i].base <= base
    BY <1>6 DEF InOrder, BufferInOrder, Fits, FitsIn
  <2> QED
    BY <1>2, <1>3, <2>1 DEF InOrder, BufferInOrder, Fits, FitsIn, Precedes
<1>9. HandInOrder'
  BY <1>2, <1>3, <1>6 DEF InOrder, HandInOrder, Fits, FitsIn, Precedes
<1>10. WireInOrder'
  <2> SUFFICES ASSUME NEW i \in 1 .. n + 1, IsStart(wire'.down[i])
               PROVE  /\ FitsIn(wire'.down[i], version, base)
                      /\ \A j \in 1 .. Len(buffer) : Precedes(buffer[j], wire'.down[i])
                      /\ receiving # None => Precedes(receiving, wire'.down[i])
                      /\ \A j \in 1 .. n + 1 :
                           IsStart(wire'.down[j]) /\ i < j => Precedes(wire'.down[i], wire'.down[j])
    BY <1>2, <1>3 DEF WireInOrder, IsStart, Fits, FitsIn, Precedes
  <2>1. CASE i \in 1 .. n
    <3>1. wire'.down[i] = wire.down[i] /\ IsStart(wire.down[i])
      BY <1>2, <2>1
    <3>2. /\ Fits(wire.down[i])
          /\ \A j \in 1 .. Len(buffer) : Precedes(buffer[j], wire.down[i])
          /\ receiving # None => Precedes(receiving, wire.down[i])
          /\ \A j \in 1 .. n :
               IsStart(wire.down[j]) /\ i < j => Precedes(wire.down[i], wire.down[j])
      BY <2>1, <3>1 DEF InOrder, WireInOrder
    <3>3. FitsIn(wire'.down[i], version, base)
      BY <1>2, <1>6, <2>1, <3>1, <3>2 DEF Fits, FitsIn
    <3>4. IsStart(msg) => Precedes(wire.down[i], msg)
      BY <1>6, <2>1, <3>1, <3>2 DEF Fits, FitsIn, Precedes
    <3> QED
      BY <1>2, <3>1, <3>2, <3>3, <3>4
  <2>2. CASE i = n + 1
    <3>1. wire'.down[i] = msg /\ msg.base = wire.base /\ msg.to = version
      BY <1>2, <2>2
    <3>2. FitsIn(wire'.down[i], version, base)
      BY <1>2, <1>6, <1>7, <3>1 DEF Fits, FitsIn
    <3>3. \A j \in 1 .. Len(buffer) : Precedes(buffer[j], msg)
      BY <1>6, <3>1 DEF InOrder, BufferInOrder, Fits, FitsIn, Precedes
    <3>4. receiving # None => Precedes(receiving, msg)
      BY <1>6, <3>1 DEF InOrder, HandInOrder, Fits, FitsIn, Precedes
    <3>5. ~\E j \in 1 .. n + 1 : i < j
      BY <1>2, <2>2
    <3> QED
      BY <3>1, <3>2, <3>3, <3>4, <3>5
  <2>3. i \in 1 .. n \/ i = n + 1
    BY <1>2
  <2> QED
    BY <2>1, <2>2, <2>3
<1> QED
  BY <1>4, <1>5, <1>8, <1>9, <1>10 DEF InOrder

\* What is left on the wire is in order, and follows what was at its head.
LEMMA RestInOrder ==
  ASSUME InOrder, wire # None, wire.down # <<>>, wire' = Consumed, UNCHANGED version
  PROVE  /\ wire' # None /\ ServerInOrder' /\ wire'.base = wire.base
         /\ wire' \in Link /\ Len(wire'.down) \in Nat
         /\ Head(wire.down) \in Message
         /\ IsStart(Head(wire.down)) =>
              /\ Fits(Head(wire.down))
              /\ \A i \in 1 .. Len(buffer) : Precedes(buffer[i], Head(wire.down))
         /\ \A i \in 1 .. Len(wire'.down) : IsStart(wire'.down[i]) =>
              /\ Fits(wire'.down[i])
              /\ \A j \in 1 .. Len(buffer) : Precedes(buffer[j], wire'.down[i])
              /\ receiving # None => Precedes(receiving, wire'.down[i])
              /\ IsStart(Head(wire.down)) => Precedes(Head(wire.down), wire'.down[i])
              /\ \A j \in 1 .. Len(wire'.down) :
                   IsStart(wire'.down[j]) /\ i < j => Precedes(wire'.down[i], wire'.down[j])
<1>1. TypeOK
  BY DEF InOrder
<1>2. /\ wire' \in Link
      /\ wire'.base = wire.base /\ wire'.poke = wire.poke
      /\ Head(wire.down) = wire.down[1] /\ wire.down[1] \in Message
      /\ Len(wire.down) \in Nat /\ Len(wire.down) > 0
      /\ Len(wire'.down) = Len(wire.down) - 1
      /\ \A i \in 1 .. Len(wire'.down) : wire'.down[i] = wire.down[i + 1]
  BY <1>1, Consuming
<1>3. wire' # None /\ ServerInOrder'
  BY <1>2, NoneAssumption DEF InOrder, ServerInOrder
<1>4. IsStart(Head(wire.down)) =>
        /\ Fits(Head(wire.down))
        /\ \A i \in 1 .. Len(buffer) : Precedes(buffer[i], Head(wire.down))
  BY <1>2 DEF InOrder, WireInOrder
<1>5. ASSUME NEW i \in 1 .. Len(wire'.down), IsStart(wire'.down[i])
      PROVE  /\ Fits(wire'.down[i])
             /\ \A j \in 1 .. Len(buffer) : Precedes(buffer[j], wire'.down[i])
             /\ receiving # None => Precedes(receiving, wire'.down[i])
             /\ IsStart(Head(wire.down)) => Precedes(Head(wire.down), wire'.down[i])
             /\ \A j \in 1 .. Len(wire'.down) :
                  IsStart(wire'.down[j]) /\ i < j => Precedes(wire'.down[i], wire'.down[j])
  <2>1. i + 1 \in 1 .. Len(wire.down) /\ wire'.down[i] = wire.down[i + 1] /\ 1 < i + 1
    BY <1>2
  <2>2. /\ Fits(wire.down[i + 1])
        /\ \A j \in 1 .. Len(buffer) : Precedes(buffer[j], wire.down[i + 1])
        /\ receiving # None => Precedes(receiving, wire.down[i + 1])
        /\ \A j \in 1 .. Len(wire.down) :
             IsStart(wire.down[j]) /\ i + 1 < j => Precedes(wire.down[i + 1], wire.down[j])
    BY <1>5, <2>1 DEF InOrder, WireInOrder
  <2>3. IsStart(wire.down[1]) => Precedes(wire.down[1], wire.down[i + 1])
    BY <1>2, <1>5, <2>1 DEF InOrder, WireInOrder
  <2>4. ASSUME NEW j \in 1 .. Len(wire'.down), IsStart(wire'.down[j]), i < j
        PROVE  Precedes(wire'.down[i], wire'.down[j])
    <3>1. j + 1 \in 1 .. Len(wire.down) /\ wire'.down[j] = wire.down[j + 1] /\ i + 1 < j + 1
      BY <1>2, <2>4
    <3> QED
      BY <2>1, <2>2, <2>4, <3>1
  <2> QED
    BY <1>2, <2>1, <2>2, <2>3, <2>4
<1> QED
  BY <1>2, <1>3, <1>4, <1>5

\* A message is taken off the wire, and the pokes at hand are as before or dropped.
LEMMA MessageTaken ==
  ASSUME InOrder, wire # None, wire.down # <<>>, wire' = Consumed,
         receiving' = receiving \/ receiving' = None,
         buffer' = buffer \/ buffer' = <<>>,
         UNCHANGED version
  PROVE  InOrder'
<1>1. buffer' \in Seq(Poke) /\ (buffer' = <<>> => Len(buffer') = 0)
  BY EmptySeq DEF InOrder, TypeOK
<1>2. TypeOK'
  BY <1>1, RestInOrder DEF InOrder, TypeOK
<1>3. wire' # None /\ ServerInOrder' /\ wire'.base = wire.base
  BY RestInOrder
<1>4. BufferInOrder'
  BY <1>1, <1>3 DEF InOrder, BufferInOrder, Fits, FitsIn, Precedes
<1>5. HandInOrder'
  BY <1>1, <1>3 DEF InOrder, HandInOrder, Fits, FitsIn, Precedes
<1>6. WireInOrder'
  BY <1>1, <1>3, RestInOrder DEF WireInOrder, Fits, FitsIn, IsStart, Precedes
<1> QED
  BY <1>2, <1>3, <1>4, <1>5, <1>6 DEF InOrder

\* A poke starts to be received.
LEMMA PokeStarted ==
  ASSUME InOrder, wire # None, wire.down # <<>>, wire' = Consumed,
         IsStart(Head(wire.down)), receiving = None,
         receiving' = [base |-> Head(wire.down).base, to |-> Head(wire.down).to],
         UNCHANGED <<version, buffer>>
  PROVE  InOrder'
<1> DEFINE head == Head(wire.down)
<1>1. receiving' \in Poke /\ receiving'.base = head.base /\ receiving'.to = head.to
  <2>1. head \in Message
    BY RestInOrder
  <2> QED
    BY <2>1 DEF Message, IsStart, Poke
<1>2. TypeOK'
  BY <1>1, RestInOrder DEF InOrder, TypeOK
<1>3. wire' # None /\ ServerInOrder' /\ wire'.base = wire.base
  BY RestInOrder
<1>4. BufferInOrder'
  BY <1>3 DEF InOrder, BufferInOrder, Fits, FitsIn, Precedes
<1>5. HandInOrder'
  BY <1>1, <1>3, RestInOrder DEF HandInOrder, Fits, FitsIn, Precedes
<1>6. WireInOrder'
  BY <1>1, <1>3, RestInOrder DEF WireInOrder, Fits, FitsIn, IsStart, Precedes
<1> QED
  BY <1>2, <1>3, <1>4, <1>5, <1>6 DEF InOrder

\* A poke is received as a whole.
LEMMA PokeReceived ==
  ASSUME InOrder, wire # None, wire.down # <<>>, wire' = Consumed,
         receiving # None, receiving' = None, buffer' = Append(buffer, receiving),
         UNCHANGED version
  PROVE  InOrder'
<1> DEFINE n == Len(buffer)
<1>1. /\ buffer' \in Seq(Poke) /\ n \in Nat /\ Len(buffer') = n + 1
      /\ \A i \in 1 .. n : buffer'[i] = buffer[i]
      /\ buffer'[n + 1] = receiving
  <2>1. buffer \in Seq(Poke) /\ receiving \in Poke
    BY DEF InOrder, TypeOK
  <2> QED
    BY <2>1, AppendProperties, LenProperties
<1>2. TypeOK'
  BY <1>1, RestInOrder DEF InOrder, TypeOK
<1>3. wire' # None /\ ServerInOrder' /\ wire'.base = wire.base
  BY RestInOrder
<1>4. Fits(receiving) /\ \A i \in 1 .. n : Precedes(buffer[i], receiving)
  BY DEF InOrder, HandInOrder
<1>5. BufferInOrder'
  <2>1. \A i \in 1 .. n : Fits(buffer[i])
    BY DEF InOrder, BufferInOrder
  <2>2. \A i, j \in 1 .. n : i < j => Precedes(buffer[i], buffer[j])
    BY DEF InOrder, BufferInOrder
  <2>3. \A i \in 1 .. n + 1 : FitsIn(buffer'[i], version, wire.base)
    BY <1>1, <1>3, <1>4, <2>1 DEF Fits, FitsIn
  <2>4. \A i, j \in 1 .. n + 1 : i < j => Precedes(buffer'[i], buffer'[j])
    BY <1>1, <1>4, <2>2
  <2> QED
    BY <1>1, <1>3, <2>3, <2>4 DEF BufferInOrder, Fits, FitsIn, Precedes
<1>6. HandInOrder'
  BY DEF HandInOrder
<1>7. WireInOrder'
  BY <1>1, <1>3, RestInOrder DEF WireInOrder, Fits, FitsIn, IsStart, Precedes
<1> QED
  BY <1>2, <1>3, <1>5, <1>6, <1>7 DEF InOrder

-----------------------------------------------------------------------------
(* The steps *)

\* A poke error drops the socket, or leaves it and clears the pokes.
LEMMA PokeErrorDrops ==
  ASSUME NEW link, PokeError(link)
  PROVE  /\ receiving' = None /\ buffer' = <<>>
         /\ wire' = None \/ (wire' = link /\ UNCHANGED <<status, loop>>)
<1>1. CASE status = "disconnected"
  BY <1>1 DEF PokeError
<1>2. CASE status # "disconnected"
  BY <1>2 DEF PokeError, DisconnectOnly, DropSocket, BufferAfterDisconnect
<1> QED
  BY <1>1, <1>2

LEMMA OrderKept ==
  ASSUME PokeInv, Next
  PROVE  InOrder'
<1>0. InOrder /\ TypeOK /\ version \in Nat
  BY DEF PokeInv, InOrder, TypeOK
<1>1. CASE StartConnect \/ ReadCookie \/ WakeUp \/ PingWithoutSocket \/ AppConnect
             \/ GiveUpConnecting \/ FinishGreeting
  <2>1. UNCHANGED <<version, wire, buffer, receiving>>
    BY <1>1 DEF StartConnect, ReadCookie, WakeUp, PingWithoutSocket, AppConnect,
                GiveUpConnecting, FinishGreeting, viewVars, pokeVars
  <2> QED
    BY <1>0, <2>1, OrderStays
<1>2. CASE Frame \/ CheckPoke \/ FinishPoke \/ Refresh
  <2>1. UNCHANGED <<version, wire, buffer, receiving>>
    BY <1>2 DEF Frame, CheckPoke, FinishPoke, Refresh, viewVars, pokeVars
  <2> QED
    BY <1>0, <2>1, OrderStays
<1>3. CASE ServerAdvances
  BY <1>0, <1>3, OrderStays DEF ServerAdvances, pokeVars
<1>4. CASE OpenSocket
  <2>1. wire = None /\ asked \in Nat /\ asked <= version
    BY <1>4 DEF PokeInv, Control, Cookies, OpenSocket
  <2>2. buffer = <<>> /\ receiving = None
    BY <1>0, <2>1 DEF InOrder, BufferInOrder, HandInOrder
  <2> DEFINE hello == <<[kind |-> "connected"]>>
  <2>3. wire' = [down |-> hello, base |-> asked, poke |-> None]
    BY <1>4 DEF OpenSocket
  <2>4. hello \in Seq(Message) /\ Len(hello) = 1 /\ ~IsStart(hello[1])
    BY DEF Message, IsStart
  <2> HIDE DEF hello
  <2>5. wire' \in Link /\ wire'.down = hello /\ wire'.base = asked /\ wire'.poke = None
    BY <2>1, <2>3, <2>4 DEF Link
  <2>6. UNCHANGED <<version, buffer, receiving>>
    BY <1>4 DEF OpenSocket, viewVars, pokeVars
  <2>7. Len(buffer') = 0
    BY <2>2, <2>6, EmptySeq
  <2>8. TypeOK'
    BY <1>0, <2>5, <2>6 DEF TypeOK
  <2>9. ServerInOrder'
    BY <2>1, <2>5, <2>6 DEF ServerInOrder
  <2>10. BufferInOrder'
    BY <2>2, <2>6, <2>7 DEF BufferInOrder
  <2>11. HandInOrder'
    BY <2>2, <2>6 DEF HandInOrder
  <2>12. ASSUME NEW i \in 1 .. Len(wire'.down)
         PROVE  ~IsStart(wire'.down[i])
    <3>1. Len(wire'.down) = 1
      BY <2>4, <2>5
    <3>2. i = 1
      BY <3>1
    <3> QED
      BY <2>4, <2>5, <3>2
  <2>13. WireInOrder'
    BY <2>12 DEF WireInOrder, IsStart
  <2> QED
    BY <2>8, <2>9, <2>10, <2>11, <2>13 DEF InOrder
<1>5. CASE ConnectTimeout \/ SocketCloses \/ HandleRehome \/ HandlePushError
  <2>1. wire' = None /\ buffer' = <<>> /\ receiving' = None /\ UNCHANGED version
    BY <1>5 DEF ConnectTimeout, SocketCloses, HandleRehome, HandlePushError, viewVars,
                RejectAndDisconnect, DisconnectOnly, DropSocket, BufferAfterDisconnect
  <2> QED
    BY <1>0, <2>1, Dropped
<1>6. CASE ServerRehomes \/ PushFails
  <2>1. wire # None /\ UNCHANGED <<version, buffer, receiving>>
    BY <1>6 DEF ServerRehomes, PushFails, viewVars, pokeVars
  <2>2. wire \in Link /\ wire.base \in Nat /\ wire.poke \in Nat \cup {None}
    BY <1>0, <2>1 DEF TypeOK, Link
  <2>3. PICK kind \in {"rehome", "pushError"} : Send([kind |-> kind])
    BY <1>6 DEF ServerRehomes, PushFails
  <2> DEFINE msg == [kind |-> kind]
  <2>4. msg \in Message /\ ~IsStart(msg)
    BY <2>3 DEF Message, IsStart
  <2>5. wire' = [down |-> Append(wire.down, msg), base |-> wire.base, poke |-> wire.poke]
    BY <2>2, <2>3 DEF Send, Link
  <2> HIDE DEF msg
  <2>6. wire.base <= wire.base /\ wire.base <= version
    BY <1>0, <2>1, <2>2 DEF InOrder, ServerInOrder
  <2>7. wire.poke # None => wire.base <= wire.poke /\ wire.poke <= version
    BY <1>0, <2>1 DEF InOrder, ServerInOrder
  <2> QED
    BY <1>0, <2>1, <2>2, <2>4, <2>5, <2>6, <2>7, MessageSent
<1>7. CASE StartPoke
  <2>1. wire # None /\ UNCHANGED <<version, buffer, receiving>>
    BY <1>7 DEF StartPoke, viewVars, pokeVars
  <2>2. wire \in Link /\ wire.base \in Nat
    BY <1>0, <2>1 DEF TypeOK, Link
  <2> DEFINE msg == [kind |-> "pokeStart", base |-> wire.base, to |-> version]
  <2>3. msg \in Message /\ msg.base = wire.base /\ msg.to = version
    BY <1>0, <2>2 DEF Message
  <2>4. wire' = [down |-> Append(wire.down, msg), base |-> wire.base, poke |-> version]
    BY <1>7, <2>2 DEF StartPoke, Link
  <2> HIDE DEF msg
  <2>5. wire.base <= wire.base /\ wire.base <= version /\ version <= version
    BY <1>0, <2>1, <2>2 DEF InOrder, ServerInOrder
  <2> QED
    BY <1>0, <2>1, <2>2, <2>3, <2>4, <2>5, MessageSent
<1>8. CASE EndPoke \/ CancelPoke
  <2>1. wire # None /\ wire.poke # None /\ UNCHANGED <<version, buffer, receiving>>
    BY <1>8 DEF EndPoke, CancelPoke, viewVars, pokeVars
  <2>2. wire \in Link /\ wire.base \in Nat /\ wire.poke \in Nat
    BY <1>0, <2>1 DEF TypeOK, Link
  <2>3. PICK base \in {wire.base, wire.poke}, cancel \in BOOLEAN :
          wire' = [wire EXCEPT !.base = base, !.poke = None,
                     !.down = Append(@, [kind |-> "pokeEnd", cancel |-> cancel])]
    BY <1>8 DEF EndPoke, CancelPoke, BaseAfterCancel
  <2> DEFINE msg == [kind |-> "pokeEnd", cancel |-> cancel]
  <2>4. msg \in Message /\ ~IsStart(msg)
    BY DEF Message, IsStart
  <2>5. wire' = [down |-> Append(wire.down, msg), base |-> base, poke |-> None]
    BY <2>2, <2>3 DEF Link
  <2> HIDE DEF msg
  <2>6. base \in Nat /\ wire.base <= base /\ base <= version
    BY <1>0, <2>1, <2>2, <2>3 DEF InOrder, ServerInOrder
  <2> QED
    BY <1>0, <2>1, <2>4, <2>5, <2>6, MessageSent
<1>9. CASE HandleConnected
  <2>1. /\ wire # None /\ wire.down # <<>> /\ wire' = Consumed
        /\ UNCHANGED <<version, buffer, receiving>>
    BY <1>9 DEF HandleConnected, Received, Consume, viewVars, pokeVars
  <2> QED
    BY <1>0, <2>1, MessageTaken
<1>10. CASE HandlePokeStart
  <2>1. wire # None /\ wire.down # <<>> /\ IsStart(Head(wire.down)) /\ UNCHANGED version
    BY <1>10 DEF HandlePokeStart, Received, IsStart, viewVars
  <2>2. CASE receiving # None
    <3>1. PokeError(Consumed)
      BY <1>10, <2>2 DEF HandlePokeStart
    <3> QED
      BY <1>0, <2>1, <3>1, PokeErrorDrops, MessageTaken, Dropped
  <2>3. CASE receiving = None
    <3>1. /\ wire' = Consumed /\ UNCHANGED buffer
          /\ receiving' = [base |-> Head(wire.down).base, to |-> Head(wire.down).to]
      BY <1>10, <2>3 DEF HandlePokeStart, Consume
    <3> QED
      BY <1>0, <2>1, <2>3, <3>1, PokeStarted
  <2> QED
    BY <2>2, <2>3
<1>11. CASE HandlePokeEnd
  <2>1. wire # None /\ wire.down # <<>> /\ UNCHANGED version
    BY <1>11 DEF HandlePokeEnd, Received, viewVars
  <2>2. CASE receiving = None
    <3>1. PokeError(Consumed)
      BY <1>11, <2>2 DEF HandlePokeEnd
    <3> QED
      BY <1>0, <2>1, <3>1, PokeErrorDrops, MessageTaken, Dropped
  <2>3. CASE receiving # None
    <3>1. /\ wire' = Consumed /\ receiving' = None
          /\ buffer' = buffer \/ buffer' = Append(buffer, receiving)
      BY <1>11, <2>3 DEF HandlePokeEnd, Consume
    <3>2. CASE buffer' = buffer
      BY <1>0, <2>1, <3>1, <3>2, MessageTaken
    <3>3. CASE buffer' = Append(buffer, receiving)
      BY <1>0, <2>1, <2>3, <3>1, <3>3, PokeReceived
    <3> QED
      BY <3>1, <3>2, <3>3
  <2> QED
    BY <2>2, <2>3
<1>12. CASE TakeBuffer
  <2>1. UNCHANGED version
    BY <1>12 DEF TakeBuffer, viewVars
  <2>2. CASE buffer = <<>>
    <3>1. UNCHANGED <<buffer, receiving, wire>>
      BY <1>12, <2>2 DEF TakeBuffer
    <3> QED
      BY <1>0, <2>1, <3>1, OrderStays
  <2>3. CASE buffer # <<>> /\ HasGap
    <3>1. PokeError(wire)
      BY <1>12, <2>3 DEF TakeBuffer
    <3> QED
      BY <1>0, <2>1, <3>1, PokeErrorDrops, Cleared, Dropped
  <2>4. CASE buffer # <<>> /\ ~HasGap
    <3>1. buffer' = <<>> /\ UNCHANGED <<receiving, wire>>
      BY <1>12, <2>4 DEF TakeBuffer
    <3> QED
      BY <1>0, <2>1, <3>1, Cleared
  <2> QED
    BY <2>2, <2>3, <2>4
<1>13. CASE RejectPoke
  <2>1. PokeError(wire) /\ UNCHANGED version
    BY <1>13 DEF RejectPoke, viewVars
  <2> QED
    BY <1>0, <2>1, PokeErrorDrops, Cleared, Dropped
<1> QED
  BY <1>1, <1>2, <1>3, <1>4, <1>5, <1>6, <1>7, <1>8, <1>9, <1>10, <1>11, <1>12, <1>13 DEF Next

LEMMA ControlKept ==
  ASSUME PokeInv, Next
  PROVE  Control'
<1>0. Control
  BY DEF PokeInv
<1>1. CASE StartConnect
  BY <1>0, <1>1 DEF StartConnect, Control
<1>2. CASE ReadCookie
  BY <1>0, <1>2 DEF ReadCookie, Control
<1>3. CASE OpenSocket
  BY <1>3 DEF OpenSocket, Control
<1>4. CASE WakeUp
  BY <1>0, <1>4 DEF WakeUp, Control
<1>5. CASE PingWithoutSocket \/ AppConnect
  BY <1>0, <1>5 DEF PingWithoutSocket, AppConnect, Control
<1>6. CASE GiveUpConnecting
  BY <1>0, <1>6 DEF GiveUpConnecting, Control
<1>7. CASE FinishGreeting
  BY <1>0, <1>7 DEF FinishGreeting, Control
<1>8. CASE ConnectTimeout \/ SocketCloses \/ HandleRehome \/ HandlePushError
  <2>1. wire' = None
    BY <1>8 DEF ConnectTimeout, SocketCloses, HandleRehome, HandlePushError,
                RejectAndDisconnect, DisconnectOnly, DropSocket
  <2> QED
    BY <2>1 DEF Control
<1>9. CASE ServerRehomes \/ PushFails \/ StartPoke \/ EndPoke \/ CancelPoke \/ HandleConnected
  <2>1. wire # None /\ UNCHANGED <<status, loop>>
    BY <1>9 DEF ServerRehomes, PushFails, StartPoke, EndPoke, CancelPoke, HandleConnected,
                Received, loopVars
  <2> QED
    BY <1>0, <2>1 DEF Control
<1>10. CASE HandlePokeStart
  <2>1. wire # None
    BY <1>10 DEF HandlePokeStart, Received
  <2>2. PokeError(Consumed) \/ UNCHANGED <<status, loop>>
    BY <1>10 DEF HandlePokeStart
  <2> QED
    BY <1>0, <2>1, <2>2, PokeErrorDrops DEF Control
<1>11. CASE HandlePokeEnd
  <2>1. wire # None
    BY <1>11 DEF HandlePokeEnd, Received
  <2>2. PokeError(Consumed) \/ UNCHANGED <<status, loop>>
    BY <1>11 DEF HandlePokeEnd
  <2> QED
    BY <1>0, <2>1, <2>2, PokeErrorDrops DEF Control
<1>12. CASE TakeBuffer \/ RejectPoke
  <2>1. PokeError(wire) \/ UNCHANGED <<status, loop, wire>>
    BY <1>12 DEF TakeBuffer, RejectPoke
  <2> QED
    BY <1>0, <2>1, PokeErrorDrops DEF Control
<1>13. CASE ServerAdvances \/ Frame \/ CheckPoke \/ FinishPoke \/ Refresh
  <2>1. UNCHANGED <<status, loop, wire>>
    BY <1>13 DEF ServerAdvances, Frame, CheckPoke, FinishPoke, Refresh, loopVars
  <2> QED
    BY <1>0, <2>1 DEF Control
<1> QED
  BY <1>1, <1>2, <1>3, <1>4, <1>5, <1>6, <1>7, <1>8, <1>9, <1>10, <1>11, <1>12, <1>13 DEF Next

\* Only TakeBuffer, CheckPoke and the end of a poke touch what is being applied, and the
\* version never goes back.
LEMMA MergedKept ==
  ASSUME PokeInv, Next
  PROVE  Merged' /\ version' \in Nat /\ version <= version'
<1>0. InOrder /\ TypeOK /\ Merged /\ version \in Nat
  BY DEF PokeInv, InOrder, TypeOK
<1>1. CASE StartConnect \/ ReadCookie \/ OpenSocket \/ WakeUp \/ PingWithoutSocket \/ AppConnect
             \/ GiveUpConnecting \/ FinishGreeting
  <2>1. UNCHANGED <<version, applying>>
    BY <1>1 DEF StartConnect, ReadCookie, OpenSocket, WakeUp, PingWithoutSocket, AppConnect,
                GiveUpConnecting, FinishGreeting, viewVars, pokeVars
  <2> QED
    BY <1>0, <2>1 DEF Merged
<1>2. CASE ConnectTimeout \/ SocketCloses \/ HandleRehome \/ HandlePushError \/ HandleConnected
             \/ ServerRehomes \/ PushFails \/ StartPoke \/ EndPoke \/ CancelPoke
  <2>1. UNCHANGED <<version, applying>>
    BY <1>2 DEF ConnectTimeout, SocketCloses, HandleRehome, HandlePushError, HandleConnected,
                ServerRehomes, PushFails, StartPoke, EndPoke, CancelPoke, viewVars, pokeVars
  <2> QED
    BY <1>0, <2>1 DEF Merged
<1>3. CASE HandlePokeStart \/ HandlePokeEnd \/ Frame \/ Refresh
  <2>1. UNCHANGED <<version, applying>>
    BY <1>3 DEF HandlePokeStart, HandlePokeEnd, Frame, Refresh, viewVars, pokeVars
  <2> QED
    BY <1>0, <2>1 DEF Merged
<1>4. CASE ServerAdvances
  <2>1. version' = version + 1 /\ UNCHANGED applying
    BY <1>4 DEF ServerAdvances, pokeVars
  <2> QED
    BY <1>0, <2>1 DEF Merged
<1>5. CASE TakeBuffer
  <2>1. UNCHANGED version
    BY <1>5 DEF TakeBuffer, viewVars
  <2>2. CASE buffer # <<>> /\ ~HasGap
    <3>1. applying' = MergePokes
      BY <1>5, <2>2 DEF TakeBuffer
    <3> DEFINE n == Len(buffer)
    <3>2. /\ n \in Nat /\ n > 0
          /\ \A i \in 1 .. n : buffer[i].base \in Nat /\ buffer[i].to \in Nat
      <4>1. buffer \in Seq(Poke)
        BY <1>0 DEF TypeOK
      <4> QED
        BY <1>0, <2>2, <4>1, BufferElements, EmptySeq
    <3>3. applying'.base = buffer[1].base /\ applying'.to = buffer[n].to
      BY <3>1 DEF MergePokes, Last
    <3>4. applying'.patches = buffer[1].base + 1 .. buffer[n].to
      BY <1>0, <2>2, <3>1, MergedPatches DEF MergePokes, InOrder
    <3>5. buffer[1].base <= buffer[1].to /\ buffer[1].to <= buffer[n].to /\ buffer[n].to <= version
      <4>1. Fits(buffer[1]) /\ Fits(buffer[n])
        BY <1>0, <3>2 DEF InOrder, BufferInOrder
      <4>2. 1 < n => Precedes(buffer[1], buffer[n])
        BY <1>0, <3>2 DEF InOrder, BufferInOrder
      <4> QED
        BY <3>2, <4>1, <4>2 DEF Fits, FitsIn, Precedes
    <3> QED
      BY <1>0, <2>1, <2>2, <3>1, <3>2, <3>3, <3>4, <3>5, MergedType DEF Merged
  <2>3. CASE ~(buffer # <<>> /\ ~HasGap)
    <3>1. UNCHANGED applying
      BY <1>5, <2>3 DEF TakeBuffer
    <3> QED
      BY <1>0, <2>1, <3>1 DEF Merged
  <2> QED
    BY <2>2, <2>3
<1>6. CASE CheckPoke
  <2>1. UNCHANGED version /\ applying' = [applying EXCEPT !.checked = TRUE] /\ applying # None
    BY <1>6 DEF CheckPoke, viewVars
  <2>2. /\ applying' \in MergedPoke
        /\ applying'.base = applying.base /\ applying'.to = applying.to
        /\ applying'.patches = applying.patches
    BY <1>0, <2>1 DEF Merged, MergedPoke
  <2> QED
    BY <1>0, <2>1, <2>2 DEF Merged
<1>7. CASE FinishPoke \/ RejectPoke
  <2>1. UNCHANGED version /\ applying' = None
    BY <1>7 DEF FinishPoke, RejectPoke, viewVars
  <2> QED
    BY <1>0, <2>1 DEF Merged
<1> QED
  BY <1>1, <1>2, <1>3, <1>4, <1>5, <1>6, <1>7 DEF Next

\* The tab's cookie moves to the end of a merged poke that starts at it, or by a refresh.
LEMMA ViewKept ==
  ASSUME PokeInv, Next
  PROVE  Cookies' /\ ViewMatchesCookie'
<1>0. Cookies /\ ViewMatchesCookie /\ Merged
  BY DEF PokeInv
<1>1. version \in Nat /\ version' \in Nat /\ version <= version'
  BY MergedKept DEF PokeInv, InOrder, TypeOK
<1>2. CASE UNCHANGED <<cookie, view, asked>>
  BY <1>0, <1>1, <1>2 DEF Cookies, ViewMatchesCookie
<1>3. CASE ReadCookie
  <2>1. asked' = cookie /\ UNCHANGED <<cookie, view>>
    BY <1>3 DEF ReadCookie, viewVars
  <2> QED
    BY <1>0, <1>1, <2>1 DEF Cookies, ViewMatchesCookie
<1>4. CASE FinishPoke
  <2>1. /\ cookie' = applying.to /\ view' = view \cup applying.patches
        /\ applying # None /\ applying.base = cookie /\ UNCHANGED asked
    BY <1>4 DEF FinishPoke, BaseMatches, loopVars
  <2>2. /\ applying.to \in Nat /\ cookie <= applying.to /\ applying.to <= version
        /\ applying.patches = cookie + 1 .. applying.to
    BY <1>0, <2>1 DEF Merged
  <2>3. cookie \in Nat /\ view = 1 .. cookie
    BY <1>0 DEF Cookies, ViewMatchesCookie
  <2>4. view' = 1 .. cookie'
    BY <2>1, <2>2, <2>3
  <2> QED
    BY <1>0, <1>1, <2>1, <2>2, <2>4 DEF Cookies, ViewMatchesCookie
<1>5. CASE Refresh
  <2>1. PICK v \in cookie + 1 .. version : cookie' = v /\ view' = 1 .. v
    BY <1>5 DEF Refresh
  <2>2. UNCHANGED asked
    BY <1>5 DEF Refresh, loopVars
  <2> QED
    BY <1>0, <1>1, <2>1, <2>2 DEF Cookies, ViewMatchesCookie
<1>6. StartConnect \/ OpenSocket \/ WakeUp \/ PingWithoutSocket \/ AppConnect
        \/ GiveUpConnecting \/ FinishGreeting
        => UNCHANGED <<cookie, view, asked>>
  BY DEF StartConnect, OpenSocket, WakeUp, PingWithoutSocket, AppConnect,
         GiveUpConnecting, FinishGreeting, viewVars
<1>7. ConnectTimeout \/ SocketCloses \/ HandleRehome \/ HandlePushError \/ HandleConnected
        \/ ServerRehomes \/ PushFails
        => UNCHANGED <<cookie, view, asked>>
  BY DEF ConnectTimeout, SocketCloses, HandleRehome, HandlePushError, HandleConnected,
         ServerRehomes, PushFails, viewVars, loopVars
<1>8. StartPoke \/ EndPoke \/ CancelPoke \/ ServerAdvances \/ HandlePokeStart \/ HandlePokeEnd
        \/ Frame \/ TakeBuffer \/ CheckPoke \/ RejectPoke
        => UNCHANGED <<cookie, view, asked>>
  BY DEF StartPoke, EndPoke, CancelPoke, ServerAdvances, HandlePokeStart, HandlePokeEnd,
         Frame, TakeBuffer, CheckPoke, RejectPoke, viewVars, loopVars
<1> QED
  BY <1>2, <1>3, <1>4, <1>5, <1>6, <1>7, <1>8 DEF Next

-----------------------------------------------------------------------------
(* The theorem *)

LEMMA PokeInvariant == Spec => []PokeInv
<1>1. Init => PokeInv
  <2> SUFFICES ASSUME Init PROVE PokeInv
    OBVIOUS
  <2>1. /\ version = 0 /\ cookie = 0 /\ view = {} /\ asked = 0 /\ loop = "look"
        /\ wire = None /\ receiving = None /\ buffer = <<>> /\ applying = None
    BY DEF Init
  <2>2. buffer \in Seq(Poke) /\ Len(buffer) = 0
    BY <2>1, EmptySeq
  <2>3. InOrder
    BY <2>1, <2>2 DEF InOrder, TypeOK, ServerInOrder, BufferInOrder, HandInOrder, WireInOrder
  <2>4. Control /\ Merged /\ Cookies
    BY <2>1 DEF Control, Merged, Cookies
  <2>5. ViewMatchesCookie
    BY <2>1 DEF ViewMatchesCookie
  <2> QED
    BY <2>3, <2>4, <2>5 DEF PokeInv
<1>2. PokeInv /\ [Next]_vars => PokeInv'
  <2> SUFFICES ASSUME PokeInv, [Next]_vars PROVE PokeInv'
    OBVIOUS
  <2>1. CASE Next
    BY <2>1, OrderKept, ControlKept, MergedKept, ViewKept DEF PokeInv
  <2>2. CASE UNCHANGED vars
    <3>1. UNCHANGED <<version, wire, buffer, receiving, applying, cookie, view, asked, status, loop>>
      BY <2>2 DEF vars
    <3>2. InOrder'
      BY <3>1, OrderStays DEF PokeInv, InOrder, TypeOK
    <3> QED
      BY <3>1, <3>2 DEF PokeInv, Control, Merged, Cookies, ViewMatchesCookie
  <2> QED
    BY <2>1, <2>2
<1> QED
  BY <1>1, <1>2, PTL DEF Spec

\* Whatever is lost, merged, canceled or overtaken by a refresh, the tab's snapshot at a
\* cookie holds exactly the patches up to that cookie (ClientHandler.startPoke, mergePokes,
\* handlePullResponseV1, maybeEndPull).
THEOREM TabShowsCookie == Spec => []ViewMatchesCookie
<1>1. PokeInv => ViewMatchesCookie
  BY DEF PokeInv
<1> QED
  BY <1>1, PokeInvariant, PTL

-----------------------------------------------------------------------------
(* Nothing is missed *)

StartAt(L, i) == i \in 1 .. Len(L.down) /\ L.down[i].kind = "pokeStart"
EndAt(L, i) == i \in 1 .. Len(L.down) /\ L.down[i].kind = "pokeEnd"

\* Where the server's next poke starts, or, while it is sending one, the one after that.
Upcoming(L) == IF L.poke # None THEN L.poke ELSE L.base

\* The first start at the message k of the link or behind it.
FirstFrom(L, k, j) ==
  j >= k /\ StartAt(L, j) /\ \A l \in Nat : k <= l /\ l < j => ~StartAt(L, l)

\* The first poke that starts at the message k of the link, or behind it, or that is still
\* to be started if there is none, starts no later than b.
NoLater(L, k, b) ==
  /\ \A j \in Nat : FirstFrom(L, k, j) => L.down[j].base <= b
  /\ (\A j \in Nat : j >= k => ~StartAt(L, j)) => Upcoming(L) <= b

\* The poke that ends at k or behind is canceled.
Canceled(L, k) ==
  \E e \in Nat : /\ e >= k /\ EndAt(L, e) /\ L.down[e].cancel
                 /\ \A f \in Nat : k <= f /\ f < e => ~EndAt(L, f)

\* What follows the message k - 1 of the link if p is under way there: the end of p, if it has
\* been sent, before another start, and then pokes that go on from p, or from where p starts
\* if it is canceled.
Continues(L, k, p) ==
  /\ NoLater(L, k, p.to)
  /\ Canceled(L, k) => NoLater(L, k, p.base)
  /\ (\A e \in Nat : e >= k => ~EndAt(L, e)) => L.poke # None /\ L.base = p.base
  /\ \A j \in Nat : j >= k /\ StartAt(L, j) => \E e \in Nat : k <= e /\ e < j /\ EndAt(L, e)

\* What follows the message k - 1 if no poke is under way there.
Whole(L, k) ==
  /\ \A e \in Nat : e >= k /\ EndAt(L, e) => \E j \in Nat : k <= j /\ j < e /\ StartAt(L, j)
  /\ L.poke # None => \E j \in Nat : j >= k /\ StartAt(L, j)

Chained(L) ==
  /\ \A i \in Nat : StartAt(L, i) => Continues(L, i + 1, L.down[i])
  /\ \A e \in Nat : EndAt(L, e) => Whole(L, e + 1)

HandChained == receiving # None => Continues(wire, 1, receiving)

\* After a poke error that leaves the link as it is, a poke may be under way that is not received:
\* nothing is buffered then.
BufferChained ==
  buffer # <<>> =>
    IF receiving # None THEN receiving.base <= buffer[Len(buffer)].to
    ELSE NoLater(wire, 1, buffer[Len(buffer)].to) /\ Whole(wire, 1)

\* What is applied is followed by what is at hand, or it will not be applied.
ApplyingChained ==
  wire # None /\ applying # None /\ cookie <= applying.base => NextBase <= applying.to

ChainInv ==
  /\ wire # None => Chained(wire)
  /\ HandChained /\ BufferChained /\ ApplyingChained
  /\ asked <= cookie

-----------------------------------------------------------------------------
(* Links that change *)

\* M is the link L with one more message at its end.
Longer(L, M) ==
  /\ Len(L.down) \in Nat /\ Len(M.down) = Len(L.down) + 1
  /\ \A i \in 1 .. Len(L.down) : M.down[i] = L.down[i]
New(M) == M.down[Len(M.down)]

\* What the server may do to a link: say something else, start a poke, end or cancel one.
Says(L, M) ==
  M.base = L.base /\ M.poke = L.poke /\ New(M).kind \notin {"pokeStart", "pokeEnd"}
Starts(L, M) ==
  /\ L.poke = None /\ M.base = L.base /\ M.poke # None /\ M.poke \in Nat
  /\ New(M).kind = "pokeStart" /\ New(M).base = L.base /\ New(M).to = M.poke
Ends(L, M) ==
  /\ L.poke # None /\ M.poke = None /\ M.base = L.poke
  /\ New(M).kind = "pokeEnd" /\ New(M).cancel = FALSE
Cancels(L, M) ==
  /\ L.poke # None /\ L.base <= L.poke /\ M.poke = None /\ M.base = L.base
  /\ New(M).kind = "pokeEnd"
Sends(L, M) ==
  /\ Longer(L, M) /\ L.base \in Nat /\ L.poke \in Nat \cup {None}
  /\ Says(L, M) \/ Starts(L, M) \/ Ends(L, M) \/ Cancels(L, M)

LEMMA LongerMarks ==
  ASSUME NEW L, NEW M, Longer(L, M), NEW i \in Nat
  PROVE  /\ i # Len(L.down) + 1 => /\ StartAt(M, i) = StartAt(L, i)
                                   /\ EndAt(M, i) = EndAt(L, i)
         /\ StartAt(L, i) \/ EndAt(L, i) => i <= Len(L.down) /\ M.down[i] = L.down[i]
         /\ i > Len(M.down) => ~StartAt(M, i) /\ ~EndAt(M, i)
         /\ i = Len(L.down) + 1 => /\ M.down[i] = New(M)
                                   /\ StartAt(M, i) = (New(M).kind = "pokeStart")
                                   /\ EndAt(M, i) = (New(M).kind = "pokeEnd")
                                   /\ ~StartAt(L, i) /\ ~EndAt(L, i)
  BY DEF Longer, StartAt, EndAt, New

LEMMA NoLaterGrows ==
  ASSUME NEW L, NEW M, Sends(L, M), NEW k \in Nat, k <= Len(L.down) + 1, NEW b \in Nat,
         NoLater(L, k, b)
  PROVE  NoLater(M, k, b)
<1> DEFINE n == Len(L.down)
<1>0. n \in Nat /\ Longer(L, M)
  BY DEF Sends, Longer
<1> HIDE DEF n
<1>1. ASSUME NEW j \in Nat, FirstFrom(M, k, j)
      PROVE  M.down[j].base <= b
  <2>1. CASE j = n + 1
    <3>1. \A l \in Nat : l >= k => ~StartAt(L, l)
      BY <1>0, <1>1, <2>1, LongerMarks DEF FirstFrom, n
    <3>2. Upcoming(L) <= b
      BY <3>1 DEF NoLater
    <3>3. M.down[j] = New(M) /\ New(M).kind = "pokeStart"
      BY <1>0, <1>1, <2>1, LongerMarks DEF FirstFrom, n
    <3>4. Starts(L, M)
      BY <3>3 DEF Sends, Says, Ends, Cancels
    <3> QED
      BY <3>2, <3>3, <3>4 DEF Starts, Upcoming
  <2>2. CASE j # n + 1
    <3>1. StartAt(L, j) /\ M.down[j] = L.down[j] /\ j <= n
      BY <1>0, <1>1, <2>2, LongerMarks DEF FirstFrom, n
    <3>2. \A l \in Nat : k <= l /\ l < j => ~StartAt(L, l)
      BY <1>0, <1>1, <3>1, LongerMarks DEF FirstFrom, n
    <3> QED
      BY <1>1, <3>1, <3>2 DEF FirstFrom, NoLater
  <2> QED
    BY <2>1, <2>2
<1>2. ASSUME \A j \in Nat : j >= k => ~StartAt(M, j)
      PROVE  Upcoming(M) <= b
  <2>1. \A j \in Nat : j >= k => ~StartAt(L, j)
    BY <1>0, <1>2, LongerMarks DEF n
  <2>2. Upcoming(L) <= b
    BY <2>1 DEF NoLater
  <2>3. ~Starts(L, M)
    <3>1. ~StartAt(M, n + 1) /\ n + 1 \in Nat
      BY <1>0, <1>2 DEF n
    <3> QED
      BY <1>0, <3>1, LongerMarks DEF Starts, n
  <2>4. Upcoming(L) \in Nat /\ (L.poke # None => L.poke \in Nat)
    BY DEF Sends, Upcoming
  <2> QED
    BY <2>2, <2>3, <2>4 DEF Sends, Says, Ends, Cancels, Upcoming
<1> QED
  BY <1>1, <1>2 DEF NoLater

LEMMA ContinuesGrows ==
  ASSUME NEW L, NEW M, Sends(L, M), NEW k \in Nat, k <= Len(L.down) + 1,
         NEW p, p.base \in Nat, p.to \in Nat, Continues(L, k, p)
  PROVE  Continues(M, k, p)
<1> DEFINE n == Len(L.down)
<1>0. n \in Nat /\ Longer(L, M)
  BY DEF Sends, Longer
<1> HIDE DEF n
<1>1. NoLater(M, k, p.to)
  BY NoLaterGrows DEF Continues
<1>2. ASSUME Canceled(M, k)
      PROVE  NoLater(M, k, p.base)
  <2>1. PICK e \in Nat : /\ e >= k /\ EndAt(M, e) /\ M.down[e].cancel
                         /\ \A f \in Nat : k <= f /\ f < e => ~EndAt(M, f)
    BY <1>2 DEF Canceled
  <2>2. CASE e # n + 1
    <3>1. EndAt(L, e) /\ L.down[e].cancel /\ e <= n
      BY <1>0, <2>1, <2>2, LongerMarks DEF n
    <3>2. \A f \in Nat : k <= f /\ f < e => ~EndAt(L, f)
      BY <1>0, <2>1, <3>1, LongerMarks DEF n
    <3>3. Canceled(L, k)
      BY <2>1, <3>1, <3>2 DEF Canceled
    <3> QED
      BY <3>3, NoLaterGrows DEF Continues
  <2>3. CASE e = n + 1
    <3>1. \A f \in Nat : f >= k => ~EndAt(L, f)
      BY <1>0, <2>1, <2>3, LongerMarks DEF n
    <3>2. L.poke # None /\ L.base = p.base
      BY <3>1 DEF Continues
    <3>3. \A j \in Nat : j >= k => ~StartAt(L, j)
      BY <3>1 DEF Continues
    <3>4. New(M).kind = "pokeEnd" /\ New(M).cancel
      BY <1>0, <2>1, <2>3, LongerMarks DEF n
    <3>5. Cancels(L, M)
      BY <3>4 DEF Sends, Says, Starts, Ends
    <3>6. \A j \in Nat : j >= k => ~StartAt(M, j)
      BY <1>0, <3>3, <3>4, LongerMarks DEF n
    <3>7. Upcoming(M) = p.base
      BY <3>2, <3>5 DEF Cancels, Upcoming
    <3> QED
      BY <3>6, <3>7 DEF NoLater, FirstFrom
  <2> QED
    BY <2>2, <2>3
<1>3. ASSUME \A e \in Nat : e >= k => ~EndAt(M, e)
      PROVE  M.poke # None /\ M.base = p.base
  <2>1. \A e \in Nat : e >= k => ~EndAt(L, e)
    BY <1>0, <1>3, LongerMarks DEF n
  <2>2. ~EndAt(M, n + 1) /\ n + 1 \in Nat
    BY <1>0, <1>3 DEF n
  <2>3. New(M).kind # "pokeEnd"
    BY <1>0, <2>2, LongerMarks DEF n
  <2> QED
    BY <2>1, <2>3 DEF Continues, Sends, Says, Starts, Ends, Cancels
<1>4. ASSUME NEW j \in Nat, j >= k, StartAt(M, j)
      PROVE  \E e \in Nat : k <= e /\ e < j /\ EndAt(M, e)
  <2>1. CASE j # n + 1
    <3>1. StartAt(L, j) /\ j <= n
      BY <1>0, <1>4, <2>1, LongerMarks DEF n
    <3>2. PICK e \in Nat : k <= e /\ e < j /\ EndAt(L, e)
      BY <1>4, <3>1 DEF Continues
    <3> QED
      BY <1>0, <3>1, <3>2, LongerMarks DEF n
  <2>2. CASE j = n + 1
    <3>1. New(M).kind = "pokeStart"
      BY <1>0, <1>4, <2>2, LongerMarks DEF n
    <3>2. L.poke = None
      BY <3>1 DEF Sends, Says, Starts, Ends, Cancels
    <3>3. PICK e \in Nat : e >= k /\ EndAt(L, e)
      BY <3>2 DEF Continues
    <3>4. e <= n /\ EndAt(M, e)
      BY <1>0, <3>3, LongerMarks DEF n
    <3> QED
      BY <1>0, <2>2, <3>3, <3>4
  <2> QED
    BY <2>1, <2>2
<1> QED
  BY <1>1, <1>2, <1>3, <1>4 DEF Continues

LEMMA WholeGrows ==
  ASSUME NEW L, NEW M, Sends(L, M), NEW k \in Nat, k <= Len(L.down) + 1, Whole(L, k)
  PROVE  Whole(M, k)
<1> DEFINE n == Len(L.down)
<1>0. n \in Nat /\ Longer(L, M)
  BY DEF Sends, Longer
<1> HIDE DEF n
<1>1. ASSUME NEW e \in Nat, e >= k, EndAt(M, e)
      PROVE  \E j \in Nat : k <= j /\ j < e /\ StartAt(M, j)
  <2>1. CASE e # n + 1
    <3>1. EndAt(L, e) /\ e <= n
      BY <1>0, <1>1, <2>1, LongerMarks DEF n
    <3>2. PICK j \in Nat : k <= j /\ j < e /\ StartAt(L, j)
      BY <1>1, <3>1 DEF Whole
    <3> QED
      BY <1>0, <3>1, <3>2, LongerMarks DEF n
  <2>2. CASE e = n + 1
    <3>1. New(M).kind = "pokeEnd"
      BY <1>0, <1>1, <2>2, LongerMarks DEF n
    <3>2. L.poke # None
      BY <3>1 DEF Sends, Says, Starts, Ends, Cancels
    <3>3. PICK j \in Nat : j >= k /\ StartAt(L, j)
      BY <3>2 DEF Whole
    <3>4. j <= n /\ StartAt(M, j)
      BY <1>0, <3>3, LongerMarks DEF n
    <3> QED
      BY <1>0, <2>2, <3>3, <3>4
  <2> QED
    BY <2>1, <2>2
<1>2. ASSUME M.poke # None
      PROVE  \E j \in Nat : j >= k /\ StartAt(M, j)
  <2>1. CASE L.poke # None
    <3>1. PICK j \in Nat : j >= k /\ StartAt(L, j)
      BY <2>1 DEF Whole
    <3>2. StartAt(M, j)
      BY <1>0, <3>1, LongerMarks DEF n
    <3> QED
      BY <3>1, <3>2
  <2>2. CASE L.poke = None
    <3>1. New(M).kind = "pokeStart"
      BY <1>2, <2>2 DEF Sends, Says, Starts, Ends, Cancels
    <3>2. n + 1 \in Nat /\ n + 1 >= k /\ StartAt(M, n + 1)
      <4>1. n + 1 \in Nat /\ n + 1 >= k
        BY <1>0 DEF n
      <4> QED
        BY <1>0, <3>1, <4>1, LongerMarks DEF n
    <3> QED
      BY <3>2
  <2> QED
    BY <2>1, <2>2
<1> QED
  BY <1>1, <1>2 DEF Whole

LEMMA ChainGrows ==
  ASSUME NEW L, NEW M, Sends(L, M), Chained(L),
         \A i \in Nat : StartAt(L, i) => L.down[i].base \in Nat /\ L.down[i].to \in Nat
  PROVE  Chained(M)
<1> DEFINE n == Len(L.down)
<1>0. n \in Nat /\ Longer(L, M)
  BY DEF Sends, Longer
<1> HIDE DEF n
<1>1. ASSUME NEW i \in Nat, StartAt(M, i)
      PROVE  Continues(M, i + 1, M.down[i])
  <2>1. CASE i # n + 1
    <3>1. StartAt(L, i) /\ M.down[i] = L.down[i] /\ i <= n
      BY <1>0, <1>1, <2>1, LongerMarks DEF n
    <3>2. Continues(L, i + 1, L.down[i]) /\ i + 1 \in Nat /\ i + 1 <= n + 1
      BY <1>0, <3>1 DEF Chained
    <3> QED
      BY <3>1, <3>2, ContinuesGrows DEF n
  <2>2. CASE i = n + 1
    <3>1. M.down[i] = New(M) /\ New(M).kind = "pokeStart"
      BY <1>0, <1>1, <2>2, LongerMarks DEF n
    <3>2. Starts(L, M)
      BY <3>1 DEF Sends, Says, Ends, Cancels
    <3>3. \A j \in Nat : j >= i + 1 => ~StartAt(M, j) /\ ~EndAt(M, j)
      <4>1. Len(M.down) = n + 1
        BY <1>0 DEF n, Longer
      <4> QED
        BY <1>0, <2>2, <4>1, LongerMarks
    <3>4. Upcoming(M) <= New(M).to
      BY <3>2 DEF Starts, Upcoming
    <3>5. NoLater(M, i + 1, New(M).to)
      BY <3>3, <3>4 DEF NoLater, FirstFrom
    <3> QED
      BY <3>1, <3>2, <3>3, <3>5 DEF Continues, Canceled, Starts
  <2> QED
    BY <2>1, <2>2
<1>2. ASSUME NEW e \in Nat, EndAt(M, e)
      PROVE  Whole(M, e + 1)
  <2>1. CASE e # n + 1
    <3>1. EndAt(L, e) /\ e <= n
      BY <1>0, <1>2, <2>1, LongerMarks DEF n
    <3>2. Whole(L, e + 1) /\ e + 1 \in Nat /\ e + 1 <= n + 1
      BY <1>0, <3>1 DEF Chained
    <3> QED
      BY <3>1, <3>2, WholeGrows DEF n
  <2>2. CASE e = n + 1
    <3>1. New(M).kind = "pokeEnd"
      BY <1>0, <1>2, <2>2, LongerMarks DEF n
    <3>2. M.poke = None
      BY <3>1 DEF Sends, Says, Starts, Ends, Cancels
    <3>3. \A j \in Nat : j >= e + 1 => ~EndAt(M, j)
      <4>1. Len(M.down) = n + 1
        BY <1>0 DEF n, Longer
      <4> QED
        BY <1>0, <2>2, <4>1, LongerMarks
    <3> QED
      BY <3>2, <3>3 DEF Whole
  <2> QED
    BY <2>1, <2>2
<1> QED
  BY <1>1, <1>2 DEF Chained

\* M is the link L without its first message.
Shorter(L, M) ==
  /\ Len(L.down) \in Nat /\ Len(L.down) > 0 /\ Len(M.down) = Len(L.down) - 1
  /\ \A i \in 1 .. Len(M.down) : M.down[i] = L.down[i + 1]
  /\ M.base = L.base /\ M.poke = L.poke

LEMMA ShorterMarks ==
  ASSUME NEW L, NEW M, Shorter(L, M), NEW i \in Nat, i > 0
  PROVE  /\ StartAt(M, i) = StartAt(L, i + 1) /\ EndAt(M, i) = EndAt(L, i + 1)
         /\ StartAt(M, i) \/ EndAt(M, i) => M.down[i] = L.down[i + 1]
<1>1. (i \in 1 .. Len(M.down)) = (i + 1 \in 1 .. Len(L.down))
  BY DEF Shorter
<1> QED
  BY <1>1 DEF Shorter, StartAt, EndAt

\* A position from k + 1 on in L is one from k on in M.
LEMMA Shifted ==
  ASSUME NEW k \in Nat, k > 0, NEW j \in Nat, j >= k + 1
  PROVE  j - 1 \in Nat /\ j - 1 > 0 /\ j - 1 >= k /\ (j - 1) + 1 = j
  OBVIOUS

LEMMA NoLaterShifts ==
  ASSUME NEW L, NEW M, Shorter(L, M), NEW k \in Nat, k > 0, NEW b, NoLater(L, k + 1, b)
  PROVE  NoLater(M, k, b)
<1>1. ASSUME NEW j \in Nat, FirstFrom(M, k, j)
      PROVE  M.down[j].base <= b
  <2>1. j >= k /\ j > 0 /\ j + 1 \in Nat /\ j + 1 >= k + 1
    BY <1>1 DEF FirstFrom
  <2>2. StartAt(L, j + 1) /\ M.down[j] = L.down[j + 1]
    BY <1>1, <2>1, ShorterMarks DEF FirstFrom
  <2>3. ASSUME NEW l \in Nat, k + 1 <= l, l < j + 1
        PROVE  ~StartAt(L, l)
    <3>1. l - 1 \in Nat /\ l - 1 > 0 /\ k <= l - 1 /\ l - 1 < j /\ (l - 1) + 1 = l
      BY <2>3
    <3>2. ~StartAt(M, l - 1)
      BY <1>1, <3>1 DEF FirstFrom
    <3> QED
      BY <3>1, <3>2, ShorterMarks
  <2> QED
    BY <2>1, <2>2, <2>3 DEF FirstFrom, NoLater
<1>2. ASSUME \A j \in Nat : j >= k => ~StartAt(M, j)
      PROVE  Upcoming(M) <= b
  <2>1. ASSUME NEW j \in Nat, j >= k + 1
        PROVE  ~StartAt(L, j)
    <3>1. j - 1 \in Nat /\ j - 1 > 0 /\ j - 1 >= k /\ (j - 1) + 1 = j
      BY <2>1, Shifted
    <3> QED
      BY <1>2, <3>1, ShorterMarks
  <2> QED
    BY <2>1 DEF NoLater, Shorter, Upcoming
<1> QED
  BY <1>1, <1>2 DEF NoLater

LEMMA CanceledShifts ==
  ASSUME NEW L, NEW M, Shorter(L, M), NEW k \in Nat, k > 0, Canceled(M, k)
  PROVE  Canceled(L, k + 1)
<1>1. PICK e \in Nat : /\ e >= k /\ EndAt(M, e) /\ M.down[e].cancel
                       /\ \A f \in Nat : k <= f /\ f < e => ~EndAt(M, f)
  BY DEF Canceled
<1>2. e > 0 /\ e + 1 \in Nat /\ e + 1 >= k + 1
  BY <1>1
<1>3. EndAt(L, e + 1) /\ L.down[e + 1].cancel
  BY <1>1, <1>2, ShorterMarks
<1>4. ASSUME NEW f \in Nat, k + 1 <= f, f < e + 1
      PROVE  ~EndAt(L, f)
  <2>1. f - 1 \in Nat /\ f - 1 > 0 /\ k <= f - 1 /\ f - 1 < e /\ (f - 1) + 1 = f
    BY <1>4
  <2>2. ~EndAt(M, f - 1)
    BY <1>1, <2>1
  <2> QED
    BY <2>1, <2>2, ShorterMarks
<1> QED
  BY <1>2, <1>3, <1>4 DEF Canceled

LEMMA ContinuesShifts ==
  ASSUME NEW L, NEW M, Shorter(L, M), NEW k \in Nat, k > 0, NEW p, Continues(L, k + 1, p)
  PROVE  Continues(M, k, p)
<1>1. NoLater(M, k, p.to)
  BY NoLaterShifts DEF Continues
<1>2. Canceled(M, k) => NoLater(M, k, p.base)
  BY CanceledShifts, NoLaterShifts DEF Continues
<1>3. ASSUME \A e \in Nat : e >= k => ~EndAt(M, e)
      PROVE  M.poke # None /\ M.base = p.base
  <2>1. ASSUME NEW e \in Nat, e >= k + 1
        PROVE  ~EndAt(L, e)
    <3>1. e - 1 \in Nat /\ e - 1 > 0 /\ e - 1 >= k /\ (e - 1) + 1 = e
      BY <2>1, Shifted
    <3> QED
      BY <1>3, <3>1, ShorterMarks
  <2> QED
    BY <2>1 DEF Continues, Shorter
<1>4. ASSUME NEW j \in Nat, j >= k, StartAt(M, j)
      PROVE  \E e \in Nat : k <= e /\ e < j /\ EndAt(M, e)
  <2>1. j > 0 /\ j + 1 \in Nat /\ j + 1 >= k + 1
    BY <1>4
  <2>2. StartAt(L, j + 1)
    BY <1>4, <2>1, ShorterMarks
  <2>3. PICK e \in Nat : k + 1 <= e /\ e < j + 1 /\ EndAt(L, e)
    BY <2>1, <2>2 DEF Continues
  <2>4. e - 1 \in Nat /\ e - 1 > 0 /\ k <= e - 1 /\ e - 1 < j /\ (e - 1) + 1 = e
    BY <2>3
  <2>5. EndAt(M, e - 1)
    BY <2>3, <2>4, ShorterMarks
  <2> QED
    BY <2>4, <2>5
<1> QED
  BY <1>1, <1>2, <1>3, <1>4 DEF Continues

LEMMA WholeShifts ==
  ASSUME NEW L, NEW M, Shorter(L, M), NEW k \in Nat, k > 0, Whole(L, k + 1)
  PROVE  Whole(M, k)
<1>1. ASSUME NEW e \in Nat, e >= k, EndAt(M, e)
      PROVE  \E j \in Nat : k <= j /\ j < e /\ StartAt(M, j)
  <2>1. e > 0 /\ e + 1 \in Nat /\ e + 1 >= k + 1
    BY <1>1
  <2>2. EndAt(L, e + 1)
    BY <1>1, <2>1, ShorterMarks
  <2>3. PICK j \in Nat : k + 1 <= j /\ j < e + 1 /\ StartAt(L, j)
    BY <2>1, <2>2 DEF Whole
  <2>4. j - 1 \in Nat /\ j - 1 > 0 /\ k <= j - 1 /\ j - 1 < e /\ (j - 1) + 1 = j
    BY <2>3
  <2>5. StartAt(M, j - 1)
    BY <2>3, <2>4, ShorterMarks
  <2> QED
    BY <2>4, <2>5
<1>2. ASSUME M.poke # None
      PROVE  \E j \in Nat : j >= k /\ StartAt(M, j)
  <2>1. PICK j \in Nat : j >= k + 1 /\ StartAt(L, j)
    BY <1>2 DEF Whole, Shorter
  <2>2. j - 1 \in Nat /\ j - 1 > 0 /\ j - 1 >= k /\ (j - 1) + 1 = j
    BY <2>1, Shifted
  <2>3. StartAt(M, j - 1)
    BY <2>1, <2>2, ShorterMarks
  <2> QED
    BY <2>2, <2>3
<1> QED
  BY <1>1, <1>2 DEF Whole

LEMMA ChainShifts ==
  ASSUME NEW L, NEW M, Shorter(L, M), Chained(L)
  PROVE  Chained(M)
<1>0. \A i \in Nat : StartAt(M, i) \/ EndAt(M, i) => i > 0
  BY DEF StartAt, EndAt
<1>1. ASSUME NEW i \in Nat, StartAt(M, i)
      PROVE  Continues(M, i + 1, M.down[i])
  <2>1. i > 0 /\ i + 1 \in Nat /\ i + 1 > 0
    BY <1>0, <1>1
  <2>2. StartAt(L, i + 1) /\ M.down[i] = L.down[i + 1]
    BY <1>1, <2>1, ShorterMarks
  <2>3. Continues(L, (i + 1) + 1, L.down[i + 1])
    BY <2>1, <2>2 DEF Chained
  <2> QED
    BY <2>1, <2>2, <2>3, ContinuesShifts
<1>2. ASSUME NEW e \in Nat, EndAt(M, e)
      PROVE  Whole(M, e + 1)
  <2>1. e > 0 /\ e + 1 \in Nat /\ e + 1 > 0
    BY <1>0, <1>2
  <2>2. EndAt(L, e + 1)
    BY <1>2, <2>1, ShorterMarks
  <2>3. Whole(L, (e + 1) + 1)
    BY <2>1, <2>2 DEF Chained
  <2> QED
    BY <2>1, <2>3, WholeShifts
<1> QED
  BY <1>1, <1>2 DEF Chained

\* Passing a message that is neither the start nor the end of a poke; or an end, for the order of
\* starts only.
LEMMA Skips ==
  ASSUME NEW L, ~StartAt(L, 1), NEW b, NoLater(L, 1, b)
  PROVE  NoLater(L, 2, b)
<1>1. ASSUME NEW j \in Nat, FirstFrom(L, 2, j)
      PROVE  FirstFrom(L, 1, j)
  <2>1. \A l \in Nat : 1 <= l /\ l < j => l = 1 \/ (2 <= l /\ l < j)
    OBVIOUS
  <2> QED
    BY <1>1, <2>1 DEF FirstFrom
<1>2. \A j \in Nat : j >= 1 => j = 1 \/ j >= 2
  OBVIOUS
<1> QED
  BY <1>1, <1>2 DEF NoLater

LEMMA ContinuesSkips ==
  ASSUME NEW L, ~StartAt(L, 1), ~EndAt(L, 1), NEW p, Continues(L, 1, p)
  PROVE  Continues(L, 2, p)
<1>0. \A j \in Nat : j >= 1 => j = 1 \/ j >= 2
  OBVIOUS
<1>1. NoLater(L, 2, p.to)
  BY Skips DEF Continues
<1>2. Canceled(L, 2) => Canceled(L, 1)
  BY <1>0 DEF Canceled
<1>3. Canceled(L, 2) => NoLater(L, 2, p.base)
  BY <1>2, Skips DEF Continues
<1> QED
  BY <1>0, <1>1, <1>3 DEF Continues

LEMMA WholeSkips ==
  ASSUME NEW L, ~StartAt(L, 1), Whole(L, 1)
  PROVE  Whole(L, 2)
<1>0. \A j \in Nat : j >= 1 => j = 1 \/ j >= 2
  OBVIOUS
<1> QED
  BY <1>0 DEF Whole

-----------------------------------------------------------------------------
(* What the tab is to apply next *)

\* NextBase, of a link, a buffer and a poke that is being received.
FirstBase(L, buf, hand) ==
  LET starts == {i \in 1 .. Len(L.down) : L.down[i].kind = "pokeStart"}
  IN  IF buf # <<>> THEN buf[1].base
      ELSE IF hand # None THEN hand.base
      ELSE IF starts # {} THEN L.down[Min(starts)].base
      ELSE IF L.poke # None THEN L.poke
      ELSE L.base

StartsBy(L, buf, hand, b) ==
  IF buf # <<>> THEN buf[1].base <= b
  ELSE IF hand # None THEN hand.base <= b
  ELSE NoLater(L, 1, b)

LEMMA LinkElements ==
  ASSUME NEW L \in Link
  PROVE  /\ L.base \in Nat /\ L.poke \in Nat \cup {None} /\ Len(L.down) \in Nat
         /\ L.down \in Seq(Message)
         /\ \A i \in 1 .. Len(L.down) : L.down[i] \in Message
         /\ \A i \in Nat : StartAt(L, i) => L.down[i].base \in Nat /\ L.down[i].to \in Nat
<1>1. L.base \in Nat /\ L.poke \in Nat \cup {None} /\ L.down \in Seq(Message)
  BY DEF Link
<1>2. Len(L.down) \in Nat
  BY <1>1, LenProperties
<1>3. \A i \in 1 .. Len(L.down) : L.down[i] \in Message
  BY <1>1, <1>2, ElementOfSeq
<1> QED
  BY <1>1, <1>2, <1>3 DEF StartAt, Message

LEMMA FirstBaseBound ==
  ASSUME NEW L \in Link, NEW buf \in Seq(Poke), NEW hand \in Poke \cup {None}
  PROVE  /\ FirstBase(L, buf, hand) \in Nat
         /\ \A b \in Nat : StartsBy(L, buf, hand, b) <=> FirstBase(L, buf, hand) <= b
<1> DEFINE S == {i \in 1 .. Len(L.down) : L.down[i].kind = "pokeStart"}
<1>1. CASE buf # <<>>
  <2>1. buf[1] \in Poke
    BY <1>1, EmptySeq, LenProperties, ElementOfSeq
  <2> QED
    BY <1>1, <2>1 DEF FirstBase, StartsBy, Poke
<1>2. CASE buf = <<>> /\ hand # None
  BY <1>2 DEF FirstBase, StartsBy, Poke
<1>3. CASE buf = <<>> /\ hand = None /\ S = {}
  <2>1. \A j \in Nat : ~StartAt(L, j)
    BY <1>3 DEF StartAt
  <2>2. FirstBase(L, buf, hand) = Upcoming(L)
    BY <1>3 DEF FirstBase, Upcoming
  <2>3. Upcoming(L) \in Nat
    BY LinkElements DEF Upcoming
  <2> QED
    BY <1>3, <2>1, <2>2, <2>3 DEF StartsBy, NoLater, FirstFrom
<1>4. CASE buf = <<>> /\ hand = None /\ S # {}
  <2>1. S \in SUBSET Nat
    BY LinkElements
  <2>2. \E x \in S : \A y \in S : x <= y
    BY <1>4, <2>1, LeastOf
  <2> DEFINE m == Min(S)
  <2>3. m \in S /\ \A y \in S : m <= y
    BY <2>2 DEF Min
  <2>4. FirstBase(L, buf, hand) = L.down[m].base
    BY <1>4 DEF FirstBase
  <2> HIDE DEF m
  <2>5. \A j \in Nat : j \in S <=> StartAt(L, j)
    BY DEF StartAt
  <2> HIDE DEF S
  <2>6. m \in Nat /\ StartAt(L, m)
    BY <2>1, <2>3, <2>5
  <2>7. m >= 1 /\ L.down[m].base \in Nat
    BY <2>6, LinkElements DEF StartAt
  <2>8. FirstFrom(L, 1, m)
    BY <2>3, <2>5, <2>6, <2>7 DEF FirstFrom
  <2>9. \A j \in Nat : FirstFrom(L, 1, j) => j = m
    BY <2>3, <2>5, <2>6, <2>7 DEF FirstFrom
  <2> QED
    BY <1>4, <2>4, <2>6, <2>7, <2>8, <2>9 DEF StartsBy, NoLater
<1> QED
  BY <1>1, <1>2, <1>3, <1>4

LEMMA NoLaterWeakens ==
  ASSUME NEW L \in Link, NEW k \in Nat, NEW b \in Nat, NEW c \in Nat, b <= c, NoLater(L, k, b)
  PROVE  NoLater(L, k, c)
<1>1. Upcoming(L) \in Nat
  BY LinkElements DEF Upcoming
<1> QED
  BY <1>1, LinkElements DEF NoLater, FirstFrom

\* If whatever bounds where the old one starts bounds where the new one does, it starts no later.
LEMMA NextBaseSinks ==
  ASSUME TypeOK, TypeOK', wire # None, wire' # None,
         \A b \in Nat : StartsBy(wire, buffer, receiving, b)
                          => StartsBy(wire', buffer', receiving', b)
  PROVE  NextBase \in Nat /\ NextBase' \in Nat /\ NextBase' <= NextBase
<1>1. /\ wire \in Link /\ buffer \in Seq(Poke) /\ receiving \in Poke \cup {None}
      /\ wire' \in Link /\ buffer' \in Seq(Poke) /\ receiving' \in Poke \cup {None}
  BY DEF TypeOK
<1>2. NextBase = FirstBase(wire, buffer, receiving)
  BY DEF NextBase, FirstBase
<1>3. NextBase' = FirstBase(wire', buffer', receiving')
  BY DEF NextBase, FirstBase
<1>4. NextBase \in Nat /\ StartsBy(wire, buffer, receiving, NextBase)
  BY <1>1, <1>2, FirstBaseBound
<1>5. NextBase' \in Nat /\ \A b \in Nat : StartsBy(wire', buffer', receiving', b) => NextBase' <= b
  BY <1>1, <1>3, FirstBaseBound
<1> QED
  BY <1>4, <1>5

\* What is applied, and whether anything is missed, if what comes next starts no later.
Sinks == wire' # None => wire # None /\ NextBase' <= NextBase
Kept == ApplyingChained' /\ (NothingMissed => NothingMissed')

LEMMA SinksKeeps ==
  ASSUME ApplyingChained, Sinks, wire' # None => NextBase \in Nat /\ NextBase' \in Nat,
         cookie \in Nat, cookie' \in Nat, cookie <= cookie',
         applying' = None <=> applying = None,
         applying # None => /\ applying.base \in Nat /\ applying.to \in Nat
                            /\ applying'.base = applying.base /\ applying'.to = applying.to
  PROVE  Kept
<1>1. ApplyingChained'
  <2> SUFFICES ASSUME wire' # None, applying' # None, cookie' <= applying'.base
               PROVE  NextBase' <= applying'.to
    BY DEF ApplyingChained
  <2>1. applying # None /\ cookie <= applying.base
    OBVIOUS
  <2>2. NextBase <= applying.to
    BY <2>1 DEF ApplyingChained, Sinks
  <2>3. NextBase' <= NextBase
    BY DEF Sinks
  <2> QED
    BY <2>1, <2>2, <2>3
<1>2. NothingMissed => NothingMissed'
  <2> SUFFICES ASSUME NothingMissed, wire' # None, applying' = None
               PROVE  NextBase' <= cookie'
    BY DEF NothingMissed
  <2>1. NextBase <= cookie
    BY DEF NothingMissed, Sinks
  <2>2. NextBase' <= NextBase
    BY DEF Sinks
  <2> QED
    BY <2>1, <2>2
<1> QED
  BY <1>1, <1>2 DEF Kept

-----------------------------------------------------------------------------
(* The steps, and what comes next *)

Follows ==
  /\ wire # None => Chained(wire)
  /\ HandChained /\ BufferChained
Stays == NothingMissed => NothingMissed' \/ status = "disconnected"

LEMMA DropKeeps ==
  ASSUME wire' = None, buffer' = <<>>, receiving' = None
  PROVE  Follows' /\ ApplyingChained' /\ Stays
  BY DEF Follows, HandChained, BufferChained, ApplyingChained, Stays, NothingMissed

\* Of what is applied, only the cookies matter here.
SameApplying ==
  /\ applying' = None <=> applying = None
  /\ applying # None => applying'.base = applying.base /\ applying'.to = applying.to

\* If whatever bounds where the old one starts bounds where the new one does, nothing is lost.
LEMMA BoundsKeep ==
  ASSUME PokeInv, ChainInv, TypeOK', cookie' \in Nat, cookie <= cookie', SameApplying,
         wire' # None =>
           /\ wire # None
           /\ \A b \in Nat : StartsBy(wire, buffer, receiving, b)
                               => StartsBy(wire', buffer', receiving', b)
  PROVE  ApplyingChained' /\ Stays
<1>1. /\ TypeOK /\ cookie \in Nat /\ ApplyingChained
      /\ applying # None => applying.base \in Nat /\ applying.to \in Nat
  BY DEF PokeInv, InOrder, Cookies, Merged, ChainInv
<1>2. wire' # None => wire # None /\ NextBase \in Nat /\ NextBase' \in Nat /\ NextBase' <= NextBase
  BY <1>1, NextBaseSinks
<1>3. Kept
  BY <1>1, <1>2, SinksKeeps DEF Sinks, SameApplying
<1> QED
  BY <1>3 DEF Kept, Stays

LEMMA RestKeeps ==
  ASSUME PokeInv, ChainInv, TypeOK', cookie' \in Nat, cookie <= cookie', SameApplying,
         UNCHANGED <<wire, buffer, receiving>>
  PROVE  Follows' /\ ApplyingChained' /\ Stays
<1>1. Follows'
  BY DEF ChainInv, Follows, HandChained, BufferChained
<1>2. \A b \in Nat : StartsBy(wire, buffer, receiving, b) = StartsBy(wire', buffer', receiving', b)
  OBVIOUS
<1> QED
  BY <1>1, <1>2, BoundsKeep

\* The server says something else, starts a poke, ends or cancels one.
LEMMA SendKeeps ==
  ASSUME PokeInv, ChainInv, TypeOK', cookie' \in Nat, cookie <= cookie', SameApplying,
         wire # None, wire' # None, Sends(wire, wire'), UNCHANGED <<buffer, receiving>>
  PROVE  Follows' /\ ApplyingChained' /\ Stays
<1>0. /\ TypeOK /\ wire \in Link /\ buffer \in Seq(Poke) /\ Chained(wire)
      /\ HandChained /\ BufferChained
  BY DEF PokeInv, InOrder, TypeOK, ChainInv
<1>1. receiving # None => receiving.base \in Nat /\ receiving.to \in Nat
  BY <1>0 DEF TypeOK, Poke
<1>2. Len(wire.down) \in Nat /\ 1 <= Len(wire.down) + 1
  BY <1>0, LinkElements
<1>3. Chained(wire')
  BY <1>0, LinkElements, ChainGrows
<1>4. HandChained'
  BY <1>0, <1>1, <1>2, ContinuesGrows DEF HandChained
<1>5. BufferChained'
  <2> SUFFICES ASSUME buffer # <<>>, receiving = None
               PROVE  NoLater(wire', 1, buffer[Len(buffer)].to) /\ Whole(wire', 1)
    BY <1>0 DEF BufferChained
  <2>1. buffer[Len(buffer)].to \in Nat
    BY <1>0, BufferElements, EmptySeq
  <2>2. NoLater(wire, 1, buffer[Len(buffer)].to) /\ Whole(wire, 1)
    BY <1>0 DEF BufferChained
  <2> QED
    BY <1>2, <2>1, <2>2, NoLaterGrows, WholeGrows
<1>6. \A b \in Nat : StartsBy(wire, buffer, receiving, b) => StartsBy(wire', buffer', receiving', b)
  BY <1>2, NoLaterGrows DEF StartsBy
<1> QED
  BY <1>3, <1>4, <1>5, <1>6, BoundsKeep DEF Follows

\* The link without its first message.
LEMMA Taken ==
  ASSUME TypeOK, wire # None, wire.down # <<>>, wire' = Consumed
  PROVE  /\ Shorter(wire, wire') /\ wire' # None /\ wire' \in Link
         /\ Head(wire.down) = wire.down[1] /\ wire.down[1] \in Message
         /\ StartAt(wire, 1) = (wire.down[1].kind = "pokeStart")
         /\ EndAt(wire, 1) = (wire.down[1].kind = "pokeEnd")
<1>1. /\ wire' \in Link
      /\ wire'.base = wire.base /\ wire'.poke = wire.poke
      /\ Head(wire.down) = wire.down[1] /\ wire.down[1] \in Message
      /\ Len(wire.down) \in Nat /\ Len(wire.down) > 0
      /\ Len(wire'.down) = Len(wire.down) - 1
      /\ \A i \in 1 .. Len(wire'.down) : wire'.down[i] = wire.down[i + 1]
  BY Consuming
<1>2. 1 \in 1 .. Len(wire.down)
  BY <1>1
<1> QED
  BY <1>1, <1>2, NoneAssumption DEF Shorter, StartAt, EndAt

\* What is left of the link is chained, and what came behind its first message comes first.
LEMMA TakenChained ==
  ASSUME Shorter(wire, wire'), Chained(wire)
  PROVE  /\ Chained(wire')
         /\ \A b : NoLater(wire, 2, b) => NoLater(wire', 1, b)
         /\ \A p : Continues(wire, 2, p) => Continues(wire', 1, p)
         /\ Whole(wire, 2) => Whole(wire', 1)
<1>0. 1 \in Nat /\ 1 > 0 /\ 1 + 1 = 2
  OBVIOUS
<1>1. Chained(wire')
  BY ChainShifts
<1>2. \A b : NoLater(wire, 2, b) => NoLater(wire', 1, b)
  BY <1>0, NoLaterShifts
<1>3. \A p : Continues(wire, 2, p) => Continues(wire', 1, p)
  BY <1>0, ContinuesShifts
<1>4. Whole(wire, 2) => Whole(wire', 1)
  BY <1>0, WholeShifts
<1> QED
  BY <1>1, <1>2, <1>3, <1>4

LEMMA HandleConnectedKeeps ==
  ASSUME PokeInv, ChainInv, TypeOK', cookie' \in Nat, cookie <= cookie', HandleConnected
  PROVE  Follows' /\ ApplyingChained' /\ Stays
<1>0. TypeOK /\ HandChained /\ BufferChained
  BY DEF PokeInv, InOrder, ChainInv
<1>1. /\ wire # None /\ wire.down # <<>> /\ Head(wire.down).kind = "connected"
      /\ wire' = Consumed /\ UNCHANGED <<buffer, receiving, applying>>
  BY DEF HandleConnected, Received, Consume, pokeVars
<1>2. Shorter(wire, wire') /\ wire' # None /\ ~StartAt(wire, 1) /\ ~EndAt(wire, 1)
  BY <1>0, <1>1, Taken
<1>3. Chained(wire)
  BY <1>1 DEF ChainInv
<1>4. HandChained'
  BY <1>0, <1>1, <1>2, <1>3, ContinuesSkips, TakenChained DEF HandChained
<1>5. BufferChained'
  BY <1>0, <1>1, <1>2, <1>3, Skips, WholeSkips, TakenChained DEF BufferChained
<1>6. \A b \in Nat : StartsBy(wire, buffer, receiving, b) => StartsBy(wire', buffer', receiving', b)
  BY <1>1, <1>2, <1>3, Skips, TakenChained DEF StartsBy
<1>7. Chained(wire')
  BY <1>2, <1>3, TakenChained
<1> QED
  BY <1>1, <1>4, <1>5, <1>6, <1>7, BoundsKeep DEF Follows, SameApplying

\* A poke starts that is the first on the link.
LEMMA HandlePokeStartKeeps ==
  ASSUME PokeInv, ChainInv, TypeOK', cookie' \in Nat, cookie <= cookie', HandlePokeStart
  PROVE  Follows' /\ ApplyingChained' /\ Stays
<1>0. TypeOK /\ HandChained /\ BufferChained
  BY DEF PokeInv, InOrder, ChainInv
<1>1. /\ wire # None /\ wire.down # <<>> /\ Head(wire.down).kind = "pokeStart"
      /\ UNCHANGED applying
  BY DEF HandlePokeStart, Received
<1>2. Chained(wire)
  BY <1>1 DEF ChainInv
<1>3. Head(wire.down) = wire.down[1] /\ StartAt(wire, 1)
  <2>1. wire.down \in Seq(Message)
    BY <1>0, <1>1 DEF TypeOK, Link
  <2>2. Head(wire.down) = wire.down[1] /\ 1 \in 1 .. Len(wire.down)
    BY <1>1, <2>1, HeadTailProperties, LenProperties, EmptySeq
  <2> QED
    BY <1>1, <2>2 DEF StartAt
<1>4. receiving = None
  <2> SUFFICES ASSUME receiving # None PROVE FALSE
    OBVIOUS
  <2>1. Continues(wire, 1, receiving)
    BY <1>0 DEF HandChained
  <2>2. \E e \in Nat : 1 <= e /\ e < 1 /\ EndAt(wire, e)
    BY <1>3, <2>1 DEF Continues
  <2> QED
    BY <2>2
<1>5. /\ wire' = Consumed /\ UNCHANGED buffer
      /\ receiving' = [base |-> Head(wire.down).base, to |-> Head(wire.down).to]
  BY <1>4 DEF HandlePokeStart, Consume
<1>6. Shorter(wire, wire') /\ wire' # None
  BY <1>0, <1>1, <1>5, Taken
<1>7. receiving' # None /\ receiving'.base = wire.down[1].base /\ receiving'.to = wire.down[1].to
  <2>1. wire.down[1].base \in Nat /\ wire.down[1].to \in Nat
    BY <1>0, <1>1, <1>3, LinkElements DEF TypeOK
  <2>2. receiving' \in Poke
    BY <1>3, <1>5, <2>1 DEF Poke
  <2> QED
    BY <1>3, <1>5, <2>2, NoneAssumption
<1>8. Chained(wire')
  BY <1>2, <1>6, TakenChained
<1>9. HandChained'
  <2>1. Continues(wire, 2, wire.down[1])
    <3>1. Continues(wire, 1 + 1, wire.down[1]) /\ 1 + 1 = 2
      BY <1>2, <1>3 DEF Chained
    <3> QED
      BY <3>1
  <2>2. Continues(wire', 1, wire.down[1])
    BY <1>2, <1>6, <2>1, TakenChained
  <2>3. Continues(wire', 1, receiving')
    BY <1>7, <2>2 DEF Continues
  <2> QED
    BY <2>3 DEF HandChained
<1>10. FirstFrom(wire, 1, 1)
  BY <1>3 DEF FirstFrom
<1>11. BufferChained'
  <2> SUFFICES ASSUME buffer # <<>>
               PROVE  receiving'.base <= buffer[Len(buffer)].to
    BY <1>5, <1>7 DEF BufferChained
  <2>1. NoLater(wire, 1, buffer[Len(buffer)].to)
    BY <1>0, <1>4 DEF BufferChained
  <2> QED
    BY <1>7, <1>10, <2>1 DEF NoLater
<1>12. \A b \in Nat : StartsBy(wire, buffer, receiving, b) => StartsBy(wire', buffer', receiving', b)
  BY <1>4, <1>5, <1>7, <1>10 DEF StartsBy, NoLater
<1> QED
  BY <1>1, <1>6, <1>8, <1>9, <1>11, <1>12, BoundsKeep DEF Follows, SameApplying

\* A poke error drops the socket; while the status is disconnected it leaves it, and nothing is
\* said of what comes next.
LEMMA PokeErrorKeeps ==
  ASSUME NEW link, PokeError(link), link # None => Chained(link),
         applying' = None \/ (wire' # None => NextBase' <= applying'.to)
  PROVE  Follows' /\ ApplyingChained' /\ Stays
<1>1. CASE status = "disconnected"
  <2>1. receiving' = None /\ buffer' = <<>> /\ wire' = link
    BY <1>1 DEF PokeError
  <2> QED
    BY <1>1, <2>1 DEF Follows, HandChained, BufferChained, ApplyingChained, Stays
<1>2. CASE status # "disconnected"
  <2>1. wire' = None /\ receiving' = None /\ buffer' = <<>>
    BY <1>2 DEF PokeError, DisconnectOnly, DropSocket, BufferAfterDisconnect
  <2> QED
    BY <2>1, DropKeeps
<1> QED
  BY <1>1, <1>2

\* An end of a poke that was not received: nothing is buffered, and the link goes on.
LEMMA TornPokeKeeps ==
  ASSUME PokeInv, ChainInv, TypeOK', cookie' \in Nat, cookie <= cookie', HandlePokeEnd,
         receiving = None
  PROVE  Follows' /\ ApplyingChained' /\ Stays
<1>0. TypeOK /\ BufferChained
  BY DEF PokeInv, InOrder, ChainInv
<1>1. /\ wire # None /\ wire.down # <<>> /\ Head(wire.down).kind = "pokeEnd"
      /\ PokeError(Consumed) /\ UNCHANGED applying
  BY DEF HandlePokeEnd, Received
<1>2. CASE status # "disconnected"
  <2>1. wire' = None /\ receiving' = None /\ buffer' = <<>>
    BY <1>1, <1>2 DEF PokeError, DisconnectOnly, DropSocket, BufferAfterDisconnect
  <2> QED
    BY <2>1, DropKeeps
<1>3. CASE status = "disconnected"
  <2>1. receiving' = None /\ buffer' = <<>> /\ wire' = Consumed
    BY <1>1, <1>3 DEF PokeError
  <2>2. Shorter(wire, wire') /\ wire' # None /\ ~StartAt(wire, 1) /\ EndAt(wire, 1)
    BY <1>0, <1>1, <2>1, Taken
  <2>3. buffer = <<>>
    <3> SUFFICES ASSUME buffer # <<>> PROVE FALSE
      OBVIOUS
    <3>1. Whole(wire, 1)
      BY <1>0 DEF BufferChained
    <3>2. \E j \in Nat : 1 <= j /\ j < 1 /\ StartAt(wire, j)
      BY <2>2, <3>1 DEF Whole
    <3> QED
      BY <3>2
  <2>4. Chained(wire) /\ Chained(wire')
    BY <1>1, <2>2, TakenChained DEF ChainInv
  <2>5. \A b \in Nat : StartsBy(wire, buffer, receiving, b)
                         => StartsBy(wire', buffer', receiving', b)
    BY <2>1, <2>2, <2>3, <2>4, Skips, TakenChained DEF StartsBy
  <2>6. Follows'
    BY <2>1, <2>4 DEF Follows, HandChained, BufferChained
  <2> QED
    BY <1>1, <2>2, <2>5, <2>6, BoundsKeep DEF SameApplying
<1> QED
  BY <1>2, <1>3

\* The poke in hand is complete, or canceled: then the next one starts where it does.
LEMMA PokeEndKeeps ==
  ASSUME PokeInv, ChainInv, TypeOK', cookie' \in Nat, cookie <= cookie', HandlePokeEnd,
         receiving # None
  PROVE  Follows' /\ ApplyingChained' /\ Stays
<1>0. /\ TypeOK /\ HandChained /\ BufferChained
      /\ buffer \in Seq(Poke) /\ receiving \in Poke
  BY DEF PokeInv, InOrder, ChainInv, TypeOK
<1>1. /\ wire # None /\ wire.down # <<>> /\ Head(wire.down).kind = "pokeEnd"
      /\ wire' = Consumed /\ receiving' = None /\ UNCHANGED applying
      /\ IF Head(wire.down).cancel THEN buffer' = buffer ELSE buffer' = Append(buffer, receiving)
  BY DEF HandlePokeEnd, Received, Consume
<1>2. /\ Shorter(wire, wire') /\ wire' # None /\ wire' \in Link /\ ~StartAt(wire, 1)
      /\ EndAt(wire, 1) /\ Head(wire.down) = wire.down[1]
  BY <1>0, <1>1, Taken
<1>3. Chained(wire) /\ Chained(wire')
  BY <1>1, <1>2, TakenChained DEF ChainInv
<1>4. Continues(wire, 1, receiving) /\ receiving.base \in Nat /\ receiving.to \in Nat
  BY <1>0 DEF HandChained, Poke
<1>5. Whole(wire', 1)
  <2>1. Whole(wire, 1 + 1) /\ 1 + 1 = 2
    BY <1>2, <1>3 DEF Chained
  <2> QED
    BY <1>2, <1>3, <2>1, TakenChained
<1>6. \A b : NoLater(wire, 1, b) => NoLater(wire', 1, b)
  BY <1>2, <1>3, Skips, TakenChained
<1>7. CASE Head(wire.down).cancel
  <2>1. Canceled(wire, 1)
    BY <1>2, <1>7 DEF Canceled
  <2>2. NoLater(wire', 1, receiving.base)
    BY <1>4, <1>6, <2>1 DEF Continues
  <2>3. ASSUME NEW b \in Nat, receiving.base <= b
        PROVE  NoLater(wire', 1, b)
    BY <1>2, <1>4, <2>2, <2>3, NoLaterWeakens
  <2>4. buffer # <<>> => NoLater(wire', 1, buffer[Len(buffer)].to)
    <3>1. buffer # <<>> => buffer[Len(buffer)].to \in Nat
      BY <1>0, BufferElements, EmptySeq
    <3> QED
      BY <1>0, <2>3, <3>1 DEF BufferChained
  <2>5. Follows'
    BY <1>1, <1>3, <1>5, <1>7, <2>4 DEF Follows, HandChained, BufferChained
  <2>6. \A b \in Nat : StartsBy(wire, buffer, receiving, b)
                         => StartsBy(wire', buffer', receiving', b)
    BY <1>1, <1>7, <2>3 DEF StartsBy
  <2> QED
    BY <1>1, <1>2, <2>5, <2>6, BoundsKeep DEF SameApplying
<1>8. CASE ~Head(wire.down).cancel
  <2>1. buffer' = Append(buffer, receiving)
    BY <1>1, <1>8
  <2>2. /\ Len(buffer) \in Nat /\ Len(buffer') = Len(buffer) + 1
        /\ buffer' # <<>> /\ buffer'[Len(buffer')] = receiving
        /\ \A i \in 1 .. Len(buffer) : buffer'[i] = buffer[i]
    BY <1>0, <2>1, AppendProperties, LenProperties
  <2>3. buffer # <<>> => buffer'[1] = buffer[1]
    BY <1>0, <2>2, EmptySeq
  <2>4. buffer = <<>> => buffer'[1] = receiving
    BY <2>2, EmptySeq
  <2>5. Follows'
    BY <1>1, <1>3, <1>4, <1>5, <1>6, <2>2 DEF Follows, HandChained, BufferChained, Continues
  <2>6. \A b \in Nat : StartsBy(wire, buffer, receiving, b)
                         => StartsBy(wire', buffer', receiving', b)
    BY <2>2, <2>3, <2>4 DEF StartsBy
  <2> QED
    BY <1>1, <1>2, <2>5, <2>6, BoundsKeep DEF SameApplying
<1> QED
  BY <1>7, <1>8

\* Taking the buffer: what is merged ends where the buffer does.
LEMMA TakeBufferKeeps ==
  ASSUME PokeInv, ChainInv, TypeOK', cookie' \in Nat, cookie <= cookie', TakeBuffer
  PROVE  Follows' /\ ApplyingChained' /\ Stays
<1>0. /\ TypeOK /\ HandChained /\ BufferChained /\ cookie \in Nat
      /\ buffer \in Seq(Poke) /\ (buffer # <<>> => wire # None) /\ (wire # None => Chained(wire))
  BY DEF PokeInv, InOrder, ChainInv, TypeOK, BufferInOrder, Cookies
<1>1. CASE buffer = <<>>
  <2>1. UNCHANGED <<wire, buffer, receiving, applying>>
    BY <1>1 DEF TakeBuffer
  <2> QED
    BY <2>1, RestKeeps DEF SameApplying
<1>2. CASE buffer # <<>> /\ HasGap
  <2>1. PokeError(wire) /\ applying' = None
    BY <1>2 DEF TakeBuffer
  <2> QED
    BY <1>0, <2>1, PokeErrorKeeps
<1>3. CASE buffer # <<>> /\ ~HasGap
  <2>1. applying' = MergePokes /\ buffer' = <<>> /\ UNCHANGED <<receiving, wire>>
    BY <1>3 DEF TakeBuffer
  <2> DEFINE end == buffer[Len(buffer)].to
  <2>2. applying'.to = end /\ applying'.base = buffer[1].base
    BY <2>1 DEF MergePokes, Last
  <2>3. end \in Nat /\ wire # None /\ wire \in Link
    <3>1. Len(buffer) \in Nat /\ Len(buffer) \in 1 .. Len(buffer)
      BY <1>0, <1>3, LenProperties, EmptySeq
    <3> QED
      BY <1>0, <1>3, <3>1, BufferElements DEF TypeOK
  <2>4. IF receiving # None THEN receiving.base <= end ELSE NoLater(wire, 1, end)
    BY <1>0, <1>3 DEF BufferChained
  <2> HIDE DEF end
  <2>5. StartsBy(wire', buffer', receiving', end)
    BY <2>1, <2>4 DEF StartsBy
  <2>6. NextBase' <= end
    <3>1. /\ wire' \in Link /\ buffer' \in Seq(Poke) /\ receiving' \in Poke \cup {None}
      BY <2>1, <2>3 DEF TypeOK
    <3>2. NextBase' = FirstBase(wire', buffer', receiving')
      BY DEF NextBase, FirstBase
    <3> QED
      BY <2>3, <2>5, <3>1, <3>2, FirstBaseBound
  <2>7. ApplyingChained'
    BY <2>2, <2>6 DEF ApplyingChained
  <2>8. Follows'
    BY <1>0, <2>1 DEF Follows, HandChained, BufferChained
  <2>9. applying' # None
    BY <1>0, <1>3, <2>1, MergedType, NoneAssumption
  <2>10. Stays
    BY <2>9 DEF Stays, NothingMissed
  <2> QED
    BY <2>7, <2>8, <2>10
<1> QED
  BY <1>1, <1>2, <1>3

LEMMA RejectPokeKeeps ==
  ASSUME PokeInv, ChainInv, RejectPoke
  PROVE  Follows' /\ ApplyingChained' /\ Stays
<1>1. PokeError(wire) /\ applying' = None
  BY DEF RejectPoke
<1> QED
  BY <1>1, PokeErrorKeeps DEF ChainInv

\* The poke that is applied moves the cookie to where the next one starts, or beyond.
LEMMA FinishPokeKeeps ==
  ASSUME PokeInv, ChainInv, FinishPoke
  PROVE  Follows' /\ ApplyingChained' /\ Stays
<1>1. /\ applying # None /\ applying.base = cookie /\ cookie' = applying.to /\ applying' = None
      /\ UNCHANGED <<wire, receiving, buffer>>
  BY DEF FinishPoke, BaseMatches
<1>2. Follows' /\ ApplyingChained'
  BY <1>1 DEF ChainInv, Follows, HandChained, BufferChained, ApplyingChained
<1>3. wire # None => NextBase <= cookie'
  BY <1>1 DEF ChainInv, ApplyingChained, PokeInv, Cookies
<1>4. NextBase' = NextBase
  BY <1>1 DEF NextBase
<1> QED
  BY <1>1, <1>2, <1>3, <1>4 DEF Stays, NothingMissed

\* A new connection asks for what comes after the cookie the tab had when it was started.
LEMMA OpenSocketKeeps ==
  ASSUME PokeInv, ChainInv, TypeOK', OpenSocket
  PROVE  Follows' /\ ApplyingChained' /\ Stays
<1>1. /\ wire = None /\ asked \in Nat /\ cookie \in Nat /\ asked <= cookie
      /\ applying # None => applying.base \in Nat /\ applying.to \in Nat
                            /\ applying.base <= applying.to
  BY DEF PokeInv, ChainInv, Control, Cookies, Merged, OpenSocket
<1>2. buffer = <<>> /\ receiving = None
  BY <1>1 DEF PokeInv, InOrder, BufferInOrder, HandInOrder
<1> DEFINE hello == <<[kind |-> "connected"]>>
<1>3. /\ wire' = [down |-> hello, base |-> asked, poke |-> None]
      /\ UNCHANGED <<cookie, buffer, receiving, applying>>
  BY DEF OpenSocket, viewVars, pokeVars
<1>4. Len(hello) = 1 /\ hello[1].kind = "connected"
  OBVIOUS
<1> HIDE DEF hello
<1>5. wire'.down = hello /\ wire'.base = asked /\ wire'.poke = None
  BY <1>3
<1>6. \A i \in Nat : ~StartAt(wire', i) /\ ~EndAt(wire', i)
  <2> SUFFICES ASSUME NEW i \in 1 .. Len(wire'.down)
               PROVE  wire'.down[i].kind = "connected"
    BY DEF StartAt, EndAt
  <2>1. Len(wire'.down) = 1
    BY <1>4, <1>5
  <2>2. i = 1
    BY <2>1
  <2> QED
    BY <1>4, <1>5, <2>2
<1>7. Follows'
  BY <1>2, <1>3, <1>6 DEF Follows, Chained, HandChained, BufferChained
<1>8. wire' \in Link /\ wire' # None
  <2>1. hello \in Seq(Message)
    BY DEF hello, Message
  <2>2. wire' \in Link
    BY <1>1, <1>3, <2>1 DEF Link
  <2> QED
    BY <2>2, NoneAssumption
<1>9. NextBase' \in Nat /\ NextBase' <= asked
  <2>1. NextBase' = FirstBase(wire', buffer', receiving')
    BY DEF NextBase, FirstBase
  <2>2. StartsBy(wire', buffer', receiving', asked)
    BY <1>1, <1>2, <1>3, <1>5, <1>6 DEF StartsBy, NoLater, FirstFrom, Upcoming
  <2>3. wire' \in Link /\ buffer' \in Seq(Poke) /\ receiving' \in Poke \cup {None}
    BY <1>8 DEF TypeOK
  <2> QED
    BY <1>1, <2>1, <2>2, <2>3, FirstBaseBound
<1>10. ApplyingChained'
  BY <1>1, <1>3, <1>9 DEF ApplyingChained
<1>11. Stays
  BY <1>1, <1>3, <1>9 DEF Stays, NothingMissed
<1> QED
  BY <1>7, <1>10, <1>11

\* What the server sends.
LEMMA SentLink ==
  ASSUME TypeOK, wire # None, NEW msg \in Message, NEW base \in Nat, NEW poke \in Nat \cup {None},
         wire' = [down |-> Append(wire.down, msg), base |-> base, poke |-> poke]
  PROVE  /\ Longer(wire, wire') /\ New(wire') = msg /\ wire' # None
         /\ wire'.base = base /\ wire'.poke = poke
<1>1. /\ wire' \in Link
      /\ wire'.base = base /\ wire'.poke = poke
      /\ Len(wire.down) \in Nat
      /\ Len(wire'.down) = Len(wire.down) + 1
      /\ \A i \in 1 .. Len(wire.down) : wire'.down[i] = wire.down[i]
      /\ wire'.down[Len(wire.down) + 1] = msg
  BY Sending
<1> QED
  BY <1>1, NoneAssumption DEF Longer, New

LEMMA ServerSends ==
  ASSUME PokeInv, ServerRehomes \/ PushFails \/ StartPoke \/ EndPoke \/ CancelPoke
  PROVE  wire # None /\ wire' # None /\ Sends(wire, wire')
<1>0. /\ TypeOK /\ version \in Nat /\ wire # None
      /\ wire \in Link /\ wire.base \in Nat /\ wire.poke \in Nat \cup {None}
  BY DEF PokeInv, InOrder, TypeOK, Link, ServerRehomes, PushFails, StartPoke, EndPoke, CancelPoke
<1>1. CASE ServerRehomes \/ PushFails
  <2>1. PICK kind \in {"rehome", "pushError"} : Send([kind |-> kind])
    BY <1>1 DEF ServerRehomes, PushFails
  <2> DEFINE msg == [kind |-> kind]
  <2>2. msg \in Message /\ msg.kind \notin {"pokeStart", "pokeEnd"}
    BY DEF Message
  <2>3. wire' = [down |-> Append(wire.down, msg), base |-> wire.base, poke |-> wire.poke]
    BY <1>0, <2>1 DEF Send, Link
  <2> HIDE DEF msg
  <2>4. /\ Longer(wire, wire') /\ New(wire') = msg /\ wire' # None
        /\ wire'.base = wire.base /\ wire'.poke = wire.poke
    BY <1>0, <2>2, <2>3, SentLink
  <2> QED
    BY <1>0, <2>2, <2>4 DEF Sends, Says
<1>2. CASE StartPoke
  <2> DEFINE msg == [kind |-> "pokeStart", base |-> wire.base, to |-> version]
  <2>1. /\ msg \in Message /\ msg.kind = "pokeStart" /\ msg.base = wire.base
        /\ msg.to = version
    BY <1>0 DEF Message
  <2>2. wire.poke = None /\ wire' = [down |-> Append(wire.down, msg), base |-> wire.base, poke |-> version]
    BY <1>0, <1>2 DEF StartPoke, Link
  <2> HIDE DEF msg
  <2>3. /\ Longer(wire, wire') /\ New(wire') = msg /\ wire' # None
        /\ wire'.base = wire.base /\ wire'.poke = version
    BY <1>0, <2>1, <2>2, SentLink
  <2> QED
    BY <1>0, <2>1, <2>2, <2>3, NoneAssumption DEF Sends, Starts
<1>3. CASE EndPoke \/ CancelPoke
  <2>0. wire.poke # None /\ wire.poke \in Nat /\ wire.base <= wire.poke
    BY <1>0, <1>3 DEF EndPoke, CancelPoke, PokeInv, InOrder, ServerInOrder
  <2>1. PICK base \in {wire.base, wire.poke}, cancel \in BOOLEAN :
          /\ wire' = [wire EXCEPT !.base = base, !.poke = None,
                     !.down = Append(@, [kind |-> "pokeEnd", cancel |-> cancel])]
          /\ base = IF cancel THEN wire.base ELSE wire.poke
    BY <1>3 DEF EndPoke, CancelPoke, BaseAfterCancel
  <2> DEFINE msg == [kind |-> "pokeEnd", cancel |-> cancel]
  <2>2. msg \in Message /\ msg.kind = "pokeEnd" /\ msg.cancel = cancel
    BY DEF Message
  <2>3. wire' = [down |-> Append(wire.down, msg), base |-> base, poke |-> None]
    BY <1>0, <2>1 DEF Link
  <2> HIDE DEF msg
  <2>4. /\ Longer(wire, wire') /\ New(wire') = msg /\ wire' # None
        /\ wire'.base = base /\ wire'.poke = None
    BY <1>0, <2>0, <2>1, <2>2, <2>3, SentLink
  <2>5. Ends(wire, wire') \/ Cancels(wire, wire')
    BY <2>0, <2>1, <2>2, <2>4 DEF Ends, Cancels
  <2> QED
    BY <1>0, <2>4, <2>5 DEF Sends
<1> QED
  BY <1>0, <1>1, <1>2, <1>3

-----------------------------------------------------------------------------
(* Nothing is missed silently *)

\* The tab's cookie never goes back, and what a connection asks for is no later.
LEMMA AskedKept ==
  ASSUME PokeInv, asked <= cookie, Next
  PROVE  cookie' \in Nat /\ cookie <= cookie' /\ asked' <= cookie'
<1>0. cookie \in Nat /\ asked \in Nat /\ Merged
  BY DEF PokeInv, Cookies
<1>1. CASE UNCHANGED <<cookie, asked>>
  BY <1>0, <1>1
<1>2. CASE ReadCookie
  <2>1. asked' = cookie /\ UNCHANGED cookie
    BY <1>2 DEF ReadCookie, viewVars
  <2> QED
    BY <1>0, <2>1
<1>3. CASE FinishPoke
  <2>1. /\ cookie' = applying.to /\ applying # None /\ applying.base = cookie /\ UNCHANGED asked
    BY <1>3 DEF FinishPoke, BaseMatches, loopVars
  <2>2. applying.to \in Nat /\ cookie <= applying.to
    BY <1>0, <2>1 DEF Merged
  <2> QED
    BY <1>0, <2>1, <2>2
<1>4. CASE Refresh
  <2>1. PICK v \in cookie + 1 .. version : cookie' = v
    BY <1>4 DEF Refresh
  <2>2. UNCHANGED asked
    BY <1>4 DEF Refresh, loopVars
  <2>3. v \in Nat /\ cookie <= v
    BY <1>0, <2>1
  <2> QED
    BY <1>0, <2>1, <2>2, <2>3
<1>5. StartConnect \/ OpenSocket \/ WakeUp \/ PingWithoutSocket \/ AppConnect
        \/ GiveUpConnecting \/ FinishGreeting
        => UNCHANGED <<cookie, asked>>
  BY DEF StartConnect, OpenSocket, WakeUp, PingWithoutSocket, AppConnect,
         GiveUpConnecting, FinishGreeting, viewVars
<1>6. ConnectTimeout \/ SocketCloses \/ HandleRehome \/ HandlePushError \/ HandleConnected
        \/ ServerRehomes \/ PushFails
        => UNCHANGED <<cookie, asked>>
  BY DEF ConnectTimeout, SocketCloses, HandleRehome, HandlePushError, HandleConnected,
         ServerRehomes, PushFails, viewVars, loopVars
<1>7. StartPoke \/ EndPoke \/ CancelPoke \/ ServerAdvances \/ HandlePokeStart \/ HandlePokeEnd
        \/ Frame \/ TakeBuffer \/ CheckPoke \/ RejectPoke
        => UNCHANGED <<cookie, asked>>
  BY DEF StartPoke, EndPoke, CancelPoke, ServerAdvances, HandlePokeStart, HandlePokeEnd,
         Frame, TakeBuffer, CheckPoke, RejectPoke, viewVars, loopVars
<1> QED
  BY <1>1, <1>2, <1>3, <1>4, <1>5, <1>6, <1>7 DEF Next

LEMMA ChainKept ==
  ASSUME PokeInv, ChainInv, Next
  PROVE  ChainInv' /\ Stays
<1>1. cookie' \in Nat /\ cookie <= cookie' /\ asked' <= cookie'
  BY AskedKept DEF ChainInv
<1>2. TypeOK'
  BY OrderKept DEF InOrder
<1>3. CASE StartConnect \/ ReadCookie \/ WakeUp \/ PingWithoutSocket \/ AppConnect
             \/ GiveUpConnecting \/ FinishGreeting
  <2>1. UNCHANGED <<wire, buffer, receiving, applying>>
    BY <1>3 DEF StartConnect, ReadCookie, WakeUp, PingWithoutSocket, AppConnect,
                GiveUpConnecting, FinishGreeting, pokeVars
  <2>2. SameApplying
    BY <2>1 DEF SameApplying
  <2> QED
    BY <1>1, <1>2, <2>1, <2>2, RestKeeps DEF Follows, ChainInv
<1>4. CASE ServerAdvances \/ Frame \/ Refresh
  <2>1. UNCHANGED <<wire, buffer, receiving, applying>>
    BY <1>4 DEF ServerAdvances, Frame, Refresh, pokeVars
  <2>2. SameApplying
    BY <2>1 DEF SameApplying
  <2> QED
    BY <1>1, <1>2, <2>1, <2>2, RestKeeps DEF Follows, ChainInv
<1>5. CASE CheckPoke
  <2>1. /\ UNCHANGED <<wire, buffer, receiving>>
        /\ applying # None /\ applying' = [applying EXCEPT !.checked = TRUE]
    BY <1>5 DEF CheckPoke
  <2>2. applying \in MergedPoke
    BY <2>1 DEF PokeInv, Merged
  <2>3. SameApplying
    BY <2>1, <2>2, NoneAssumption DEF SameApplying, MergedPoke
  <2> QED
    BY <1>1, <1>2, <2>1, <2>3, RestKeeps DEF Follows, ChainInv
<1>6. CASE ConnectTimeout \/ SocketCloses \/ HandleRehome \/ HandlePushError
  <2>1. wire' = None /\ buffer' = <<>> /\ receiving' = None
    BY <1>6 DEF ConnectTimeout, SocketCloses, HandleRehome, HandlePushError,
                RejectAndDisconnect, DisconnectOnly, DropSocket, BufferAfterDisconnect
  <2> QED
    BY <1>1, <2>1, DropKeeps DEF Follows, ChainInv
<1>7. CASE ServerRehomes \/ PushFails \/ StartPoke \/ EndPoke \/ CancelPoke
  <2>1. UNCHANGED <<buffer, receiving, applying>>
    BY <1>7 DEF ServerRehomes, PushFails, StartPoke, EndPoke, CancelPoke, pokeVars
  <2>2. wire # None /\ wire' # None /\ Sends(wire, wire')
    BY <1>7, ServerSends
  <2>3. SameApplying
    BY <2>1 DEF SameApplying
  <2> QED
    BY <1>1, <1>2, <2>1, <2>2, <2>3, SendKeeps DEF Follows, ChainInv
<1>8. CASE HandleConnected
  BY <1>1, <1>2, <1>8, HandleConnectedKeeps DEF Follows, ChainInv
<1>9. CASE HandlePokeStart
  BY <1>1, <1>2, <1>9, HandlePokeStartKeeps DEF Follows, ChainInv
<1>10. CASE HandlePokeEnd
  BY <1>1, <1>2, <1>10, TornPokeKeeps, PokeEndKeeps DEF Follows, ChainInv
<1>11. CASE TakeBuffer
  BY <1>1, <1>2, <1>11, TakeBufferKeeps DEF Follows, ChainInv
<1>12. CASE RejectPoke
  BY <1>1, <1>12, RejectPokeKeeps DEF Follows, ChainInv
<1>13. CASE FinishPoke
  BY <1>1, <1>13, FinishPokeKeeps DEF Follows, ChainInv
<1>14. CASE OpenSocket
  BY <1>1, <1>2, <1>14, OpenSocketKeeps DEF Follows, ChainInv
<1> QED
  BY <1>3, <1>4, <1>5, <1>6, <1>7, <1>8, <1>9, <1>10, <1>11, <1>12, <1>13, <1>14 DEF Next

LEMMA ChainInvariant == Spec => []ChainInv
<1>1. Init => ChainInv
  BY DEF Init, ChainInv, HandChained, BufferChained, ApplyingChained
<1>2. PokeInv /\ ChainInv /\ [Next]_vars => ChainInv'
  <2> SUFFICES ASSUME PokeInv, ChainInv, [Next]_vars PROVE ChainInv'
    OBVIOUS
  <2>1. CASE Next
    BY <2>1, ChainKept
  <2>2. CASE UNCHANGED vars
    <3>1. UNCHANGED <<wire, buffer, receiving, applying, cookie, asked>>
      BY <2>2 DEF vars
    <3> QED
      BY <3>1 DEF ChainInv, HandChained, BufferChained, ApplyingChained, NextBase
  <2> QED
    BY <2>1, <2>2
<1> QED
  BY <1>1, <1>2, PokeInvariant, PTL DEF Spec

\* A connection on which the next poke starts no later than the tab's cookie never comes to
\* miss one, unless a poke error clears the handler while the status is disconnected:
\* whatever else loses a poke drops the connection (PokeHandler.handlePokeEnd and
\* #processPokesForFrame, #onPokeError, ClientHandler.startPoke with its cancel).
THEOREM NothingMissedSilently == Spec => MissedOnlyWhenDisconnected
<1>1. PokeInv /\ ChainInv /\ [Next]_vars
        => [NothingMissed /\ ~NothingMissed' => status = "disconnected"]_vars
  <2> SUFFICES ASSUME PokeInv, ChainInv, Next
               PROVE  NothingMissed /\ ~NothingMissed' => status = "disconnected"
    OBVIOUS
  <2> QED
    BY ChainKept DEF Stays
<1> QED
  BY <1>1, PokeInvariant, ChainInvariant, PTL DEF Spec, MissedOnlyWhenDisconnected
===============================================================================
