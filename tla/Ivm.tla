-------------------------------- MODULE Ivm --------------------------------
(***************************************************************************)
(* Incremental view maintenance in ZQL: a pipeline of the operators that   *)
(* carry state, over one in-memory source that feeds it twice (a self      *)
(* join), so that a change reaches the pipeline in two parts:              *)
(*                                                                         *)
(*   connection 1 (a filter) ---------- Join - Exists - Take - consumer    *)
(*   connection 2 - Take (partitioned) --/                                 *)
(*                                                                         *)
(* The query is the builder's for                                          *)
(*   table.where(kept).whereExists(r.a = child.b).limit(n).                *)
(* A push runs to its end for each connection in turn, and is written to   *)
(* the source after the last.  The state of the operators is the record w  *)
(* that the operators below pass on as the calls of the code do.           *)
(***************************************************************************)
EXTENDS Naturals, Sequences, FiniteSets, SequencesExt

CONSTANTS
  Ids, Keys,     \* primary keys, values of the join columns
  Queries,       \* see QueryType
  ExistsLimit,   \* EXISTS_LIMIT
  Environment,   \* which changes are pushed, a subset of Behaviours
  None

\* What may happen when the query has an exists and a limit, or an exists and a view:
\* "shared"    rows that the filter keeps have the same join key
\* "reorders"  they are edited in place
Behaviours == {"shared", "reorders"}

Row == [id : Ids, a : Keys, b : Keys, rank : Nat]

\* A query has a limit or None, an exists or None, a view (of a client) or a streamer (of
\* the view syncer) that consumes it and, as a bound of the model, rows that there may be.
QueryType ==
  [limit : (Nat \ {0}) \cup {None}, exists : {"exists", "not exists", None},
   consumer : {"view", "streamer"}, rows : SUBSET Row]

ASSUME IvmAssumption ==
  /\ Ids \subseteq Nat /\ Queries \subseteq QueryType
  /\ ExistsLimit \in Nat \ {0}
  /\ Environment \subseteq Behaviours

VARIABLES
  rows,   \* of the source's indexes
  query,
  todo,   \* the changes that are being pushed, the first through connection `turn`
  turn,
  live,   \* the query is hydrated
  w       \* the state of its operators, see Start

vars == <<rows, query, todo, turn, live, w>>

Less(r, s) == r.rank < s.rank \/ (r.rank = s.rank /\ r.id < s.id)
Same(r, s) == ~Less(r, s) /\ ~Less(s, r)
Sorted(S) == SetToSortSeq(S, Less)

\* The filter of connection 1.
Kept(r) == r.rank > 0

\* What the operators keep: the Take states (the partitions of the children by key, and
\* that of the query), the rows they hide, the Join's keys and what is in progress, the
\* sizes Exists has stored, what the consumer has, and the nodes it is yet to stream.
Start ==
  [takes |-> [k \in Keys \cup {None} |-> None], hidden |-> [k \in Keys \cup {None} |-> None],
   keys |-> {}, progress |-> None, sizes |-> [k \in Keys \X Ids |-> None],
   view |-> {}, unread |-> <<>>, ok |-> TRUE, peak |-> 0]

Fail(x) == [x EXCEPT !.ok = FALSE]

------------------------------------------------------------------------------
(* MemorySource: fetching *)

\* The overlay: a connection sees the change that is being pushed once its own turn has
\* come.
\* Mutant: the change that is being pushed is not shown before it is written.
Visible_Never(conn) == FALSE
Visible(conn) == conn <= turn

Added(c) == IF c.type = "remove" THEN {} ELSE {c.row}
Removed(c) == CASE c.type = "add" -> {} [] c.type = "remove" -> {c.row} [] c.type = "edit" -> {c.old}
After(S, c) == (S \ Removed(c)) \cup Added(c)

Fetched(conn) == IF todo # <<>> /\ Visible(conn) THEN After(rows, Head(todo)) ELSE rows

\* In the connection's order, from a row on or after it, or backwards.
From(S, start, basis, reverse) ==
  LET Beyond(r) == IF reverse THEN Less(r, start) ELSE Less(start, r)
      part == {r \in S : Beyond(r) \/ (basis = "at" /\ Same(r, start))}
  IN  IF reverse THEN Reverse(Sorted(part)) ELSE Sorted(part)

Parents == {r \in Fetched(1) : Kept(r)}
Children(k) == {r \in Fetched(2) : r.b = k}
FirstOf(seq, n) == SubSeq(seq, 1, IF Len(seq) < n THEN Len(seq) ELSE n)

------------------------------------------------------------------------------
(* Take: the state of the query's own, k = None, and of the children with key k *)

SetTake(x, k, size, bound) == [x EXCEPT !.takes[k] = [size |-> size, bound |-> bound]]

\* #initialFetch, when `got` is what the input gives up to the limit.
\* Mutant: the row that ends the loop is not counted.
Hydrated_Uncounted(x, k, got) ==
  SetTake(x, k, IF got = <<>> THEN 0 ELSE Len(got) - 1, IF got = <<>> THEN None ELSE Last(got))
Hydrated(x, k, got) == SetTake(x, k, Len(got), IF got = <<>> THEN None ELSE Last(got))

\* fetch() and cleanup() of one partition of the children.
FetchKids(x, k) ==
  LET first == FirstOf(Sorted(Children(k)), ExistsLimit)
      t == x.takes[k]
  IN  IF t = None THEN [w |-> Hydrated(x, k, first), rows |-> ToSet(first)]
      ELSE [w |-> x, rows |-> IF t.bound = None THEN {}
                              ELSE {r \in Children(k) : ~Less(t.bound, r) /\ r # x.hidden[k]}]
CleanKids(x, k) ==
  [w |-> [x EXCEPT !.takes[k] = None], rows |-> ToSet(FirstOf(Sorted(Children(k)), ExistsLimit))]

------------------------------------------------------------------------------
(* Join *)

\* A child change that is in progress has not been pushed yet for the parents after the
\* one it is at: their children are as before.
Undone(S, c) ==
  CASE c.type = "add" -> S \ {c.row}
    [] c.type = "remove" -> S \cup {c.row}
    [] c.type = "edit" -> (S \ {c.row}) \cup {c.old}
Pending(x, p) ==
  IF x.progress = None THEN FALSE
  ELSE x.progress.change.row.b = p.a /\ Less(x.progress.position, p)

\* The Join's keys tell whether another parent has the same key.
\* Mutant: every parent that goes has its children cleaned up.
LastWith_Always(x, k) == TRUE
LastWith(x, k) == ~\E i \in Ids : <<k, i>> \in x.keys

\* generateWithOverlay over the children that were got for p.
Overlaid(p, got) ==
  LET change == got.w.progress.change
  IN  IF ~Pending(got.w, p) THEN got
      ELSE [w |-> IF change.type = "remove" \/ change.row \in got.rows THEN got.w ELSE Fail(got.w),
            rows |-> Undone(got.rows, change)]

\* The children of a node, which are cleaned up when the last parent goes.
ChildStream(x, p, rel) ==
  LET key == <<p.a, p.id>>
      kept == [x EXCEPT !.keys = IF rel = "cleanup" THEN @ \ {key} ELSE @ \cup {key}]
  IN  Overlaid(p, IF rel = "cleanup" /\ LastWith(kept, p.a) THEN CleanKids(kept, p.a) ELSE FetchKids(kept, p.a))

------------------------------------------------------------------------------
(* Exists: the sizes *)

SizeOf(x, p) == x.sizes[<<p.a, p.id>>]
SetSize(x, p, n) == [x EXCEPT !.sizes[<<p.a, p.id>>] = n]
Passes(n) == IF query.exists = "exists" THEN n > 0 ELSE n = 0

\* #fetchSize: outside a push, that of another parent with the same key will do.
Sized(x, p, n) == [w |-> SetSize(x, p, n), size |-> n]
Counted(p, got) == Sized(got.w, p, Cardinality(got.rows))
FetchSize(x, p, pushing) ==
  LET same == {i \in Ids : x.sizes[<<p.a, i>>] # None}
      first == CHOOSE i \in same : \A j \in same : i <= j
  IN  IF ~pushing /\ same # {} THEN Sized(x, p, x.sizes[<<p.a, first>>])
      ELSE Counted(p, ChildStream(x, p, "fetch"))
GetOrFetchSize(x, p, pushing) ==
  IF SizeOf(x, p) = None THEN FetchSize(x, p, pushing) ELSE [w |-> x, size |-> SizeOf(x, p)]

\* FilterStart.fetch, as far as it is read: up to n rows that pass, or, if n is 0, up
\* to the first one after `start`.
Passed(found, p, got) == [w |-> got.w, rows |-> IF Passes(got.size) THEN Append(found, p) ELSE found]
Enough(found, n, start) == IF n = 0 THEN found # <<>> /\ Less(start, Last(found)) ELSE Len(found) = n
Passing(x, seq, counted, n, start, pushing) ==
  FoldLeft(LAMBDA acc, p :
             CASE Enough(acc.rows, n, start) -> acc
               [] ~Enough(acc.rows, n, start) /\ counted ->
                    Passed(acc.rows, p, GetOrFetchSize(acc.w, p, pushing))
               [] ~Enough(acc.rows, n, start) /\ ~counted -> [acc EXCEPT !.rows = Append(@, p)],
           [w |-> x, rows |-> <<>>], seq)

------------------------------------------------------------------------------
(* Take: push() *)

\* fetch() of the input: up to n rows from `start` on, or backwards.
Scan(x, k, basis, reverse, n, start) ==
  Passing(x, From(IF k = None THEN Parents ELSE Children(k), start, basis, reverse),
          k = None /\ query.exists # None, n, start, TRUE)

\* What push() does: it fetches, which leaves `w`, and then takes some steps, each of which
\* sets the state, hides a row from fetch() and pushes to the output.
Steps(x, steps) == [w |-> x, steps |-> steps]
Step(size, bound, hide, out) == [size |-> size, bound |-> bound, hide |-> hide, out |-> out]
Gone(r, rel) == [type |-> "remove", row |-> r, rel |-> rel]
New(r) == [type |-> "add", row |-> r, rel |-> "fetch"]

\* An added row takes the place of the one at the bound when the limit is reached.
Displace(x, size, c, got) ==
  LET bound == IF Len(got.rows) < 2 \/ Less(got.rows[2], c.row) THEN c.row ELSE got.rows[2]
  IN  IF got.rows = <<>> THEN Steps(Fail(x), <<>>)
      ELSE Steps(got.w, <<Step(size, bound, c.row, Gone(got.rows[1], "fetch")), Step(size, bound, None, c)>>)
TakeAdd(x, k, c, limit) ==
  LET t == x.takes[k]
      bound == IF t.bound = None THEN c.row ELSE IF Less(t.bound, c.row) THEN c.row ELSE t.bound
  IN  CASE t.size < limit -> Steps(x, <<Step(t.size + 1, bound, None, c)>>)
        [] t.size >= limit /\ ~Less(c.row, t.bound) -> Steps(x, <<>>)
        [] t.size >= limit /\ Less(c.row, t.bound) ->
             Displace(x, t.size, c, Scan(x, k, "at", limit # 1, IF limit = 1 THEN 1 ELSE 2, t.bound))

\* The next row after the bound takes the place of a removed one.
Refill(t, c, before, ahead) ==
  LET found == IF ahead.rows # <<>> THEN Last(ahead.rows) ELSE IF before # <<>> THEN before[1] ELSE None
  IN  IF ahead.rows # <<>> /\ Less(t.bound, Last(ahead.rows))
      THEN Steps(ahead.w, <<Step(t.size, t.bound, None, c), Step(t.size, found, None, New(found))>>)
      ELSE Steps(ahead.w, <<Step(t.size - 1, found, None, c)>>)
LookAhead(k, t, c, before) == Refill(t, c, before.rows, Scan(before.w, k, "at", FALSE, 0, t.bound))
TakeRemove(x, k, c) ==
  LET t == x.takes[k]
  IN  IF t.bound = None \/ Less(t.bound, c.row) THEN Steps(x, <<>>)
      ELSE LookAhead(k, t, c, Scan(x, k, "after", TRUE, 1, t.bound))

\* An edited row may move in, out or within the limit: it passes, or two rows are swapped.
Pass(x, t, c, bound) == Steps(x, <<Step(t.size, bound, None, c)>>)
Swap(x, t, bound, hide, out, in) ==
  Steps(x, <<Step(t.size, bound, hide, out), Step(t.size, in.bound, None, New(in.row))>>)
Bound(bound, row) == [bound |-> bound, row |-> row]
Move(x, t, c, got) ==
  LET first == got.rows[1]
      out == Gone(c.old, "cleanup")
  IN  CASE Len(got.rows) < (IF Less(t.bound, c.old) THEN 2 ELSE 1) -> Steps(Fail(x), <<>>)
        [] Same(c.old, t.bound) /\ Less(c.row, t.bound) /\ got.rows # <<>> -> Pass(got.w, t, c, first)
        [] Less(t.bound, c.old) /\ Len(got.rows) = 2 ->
             Swap(got.w, t, got.rows[2], c.row, Gone(first, "fetch"), Bound(got.rows[2], c.row))
        [] ~Less(t.bound, c.old) /\ Less(t.bound, c.row) /\ got.rows # <<>> ->
             CASE Same(first, c.row) -> Pass(got.w, t, c, c.row)
               [] ~Same(first, c.row) /\ Same(c.old, t.bound) -> Swap(got.w, t, first, first, out, Bound(first, first))
               [] ~Same(first, c.row) /\ Less(c.old, t.bound) -> Swap(got.w, t, t.bound, None, out, Bound(first, first))
TakeEdit(x, k, c, limit) ==
  LET t == x.takes[k]
      wasBound == Same(c.old, t.bound)
      isBound == Same(c.row, t.bound)
      isIn == Less(c.row, t.bound)
      wasIn == Less(c.old, t.bound)
      wasOut == Less(t.bound, c.old)
      moves == \/ wasBound /\ ~isBound /\ ~(isIn /\ limit = 1)
               \/ ~wasBound /\ ~isBound /\ wasIn # isIn
  IN  CASE wasBound /\ ~moves -> Pass(x, t, c, IF isBound THEN t.bound ELSE c.row)
        [] ~wasBound /\ isBound -> Steps(Fail(x), <<>>)
        [] wasOut /\ ~isBound /\ ~moves -> Steps(x, <<>>)
        [] wasIn /\ ~isBound /\ ~moves -> Pass(x, t, c, t.bound)
        [] moves -> Move(x, t, c, Scan(x, k, IF wasIn \/ (wasBound /\ isIn) THEN "after" ELSE "at",
                                       isIn, IF wasOut THEN 2 ELSE 1, t.bound))

\* A partition that was never fetched is not followed.
TakePush(x, k, c, limit) ==
  LET t == x.takes[k]
  IN  CASE t = None -> Steps(x, <<>>)
        [] t # None /\ c.type = "add" -> TakeAdd(x, k, c, limit)
        [] t # None /\ c.type = "remove" -> TakeRemove(x, k, c)
        [] t # None /\ c.type = "edit" -> TakeEdit(x, k, c, limit)
        [] t # None /\ c.type = "child" ->
             Steps(x, IF t.bound = None THEN <<>>
                      ELSE IF Less(t.bound, c.row) THEN <<>> ELSE <<Step(t.size, t.bound, None, c)>>)

SetBy(x, k, s) == [SetTake(x, k, s.size, s.bound) EXCEPT !.hidden[k] = s.hide]

------------------------------------------------------------------------------
(* The consumer *)

\* A node's children are read when it is to be removed; a streamer reads them for every
\* node, when the push through the connection is done.
Drain(x, n) == IF n.rel = "none" \/ query.exists = None THEN x ELSE ChildStream(x, n.row, n.rel).w

\* applyChange, and pushing to the streamer.
Consume(x, c) ==
  LET legal == CASE c.type = "add" -> c.row \notin x.view
                 [] c.type \in {"remove", "child"} -> c.row \in x.view
                 [] c.type = "edit" -> c.old \in x.view /\ c.row \notin x.view
      view == IF c.type = "child" THEN x.view ELSE After(x.view, c)
      shown == [x EXCEPT !.view = view, !.ok = @ /\ legal,
                         !.peak = IF Cardinality(view) > @ THEN Cardinality(view) ELSE @]
  IN  CASE c.type \in {"child", "edit"} -> shown
        [] query.consumer = "streamer" /\ c.type \in {"add", "remove"} -> [shown EXCEPT !.unread = Append(@, c)]
        [] query.consumer = "view" /\ c.type = "remove" -> Drain(shown, c)
        [] query.consumer = "view" /\ c.type = "add" -> shown
Stream(x) == [FoldLeft(Drain, x, x.unread) EXCEPT !.unread = <<>>]

------------------------------------------------------------------------------
(* The pipeline: each operator pushes to the next one *)

Send(did) == FoldLeft(LAMBDA y, s : Consume(SetBy(y, None, s), s.out), did.w, did.steps)
ToTake(x, c) == IF query.limit = None THEN Consume(x, c) ELSE Send(TakePush(x, None, c, query.limit))

\* The size of the node of a change, before it is passed on.
Counts(c) == c.type = "child" /\ c.child # "edit"
SizeWith(x, c) ==
  LET n == SizeOf(x, c.row)
  IN  CASE c.type = "remove" -> [w |-> x, size |-> n]
        [] c.type # "remove" /\ ~(Counts(c) /\ n # None) -> GetOrFetchSize(x, c.row, TRUE)
        [] Counts(c) /\ n # None ->
             CASE c.child = "add" -> Sized(x, c.row, n + 1)
               [] c.child = "remove" /\ n > 0 -> Sized(x, c.row, n - 1)
               [] c.child = "remove" /\ n = 0 -> [w |-> Fail(x), size |-> n]

\* What a change becomes when the node has n children now.
ExistsOut(c, n) ==
  LET turns == Counts(c) /\ n = IF c.child = "add" THEN 1 ELSE 0
  IN  CASE n = None -> <<>>
        [] n # None /\ turns -> <<IF (c.child = "add") = (query.exists = "exists") THEN New(c.row) ELSE Gone(c.row, "none")>>
        [] n # None /\ ~turns -> IF Passes(n) THEN <<c>> ELSE <<>>

\* push() of Exists, which forgets the size of a removed node.
Forget(x, c) == IF c.type = "remove" THEN SetSize(x, c.row, None) ELSE x
ExistsPush(c, got) == Forget(FoldLeft(ToTake, got.w, ExistsOut(c, got.size)), c)
ToExists(x, c) == IF query.exists = None THEN ToTake(x, c) ELSE ExistsPush(c, SizeWith(x, c))

\* Join.#pushParent, behind the filter, which may split an edit.
Filtered(c) ==
  IF c.type = "edit" /\ Kept(c.old) /\ Kept(c.row) THEN <<c>>
  ELSE SetToSeq({Gone(r, "cleanup") : r \in {s \in Removed(c) : Kept(s)}})
         \o SetToSeq({New(r) : r \in {s \in Added(c) : Kept(s)}})
PushParent(x, c) == FoldLeft(ToExists, x, Filtered(c))

\* Join.#pushChild: to each parent in turn.
PushChild(x, c) ==
  LET parents == Sorted({p \in Parents : p.a = c.row.b})
      To(y, p) == ToExists([y EXCEPT !.progress = [change |-> c, position |-> p]],
                           [type |-> "child", row |-> p, child |-> c.type, rel |-> "fetch"])
  IN  [FoldLeft(To, x, parents) EXCEPT !.progress = None]
SendKids(k, did) ==
  FoldLeft(LAMBDA y, s : [PushChild(SetBy(y, k, s), s.out) EXCEPT !.hidden[k] = None], did.w, did.steps)
PushKids(x, c) == SendKids(c.row.b, TakePush(x, c.row.b, c, ExistsLimit))

------------------------------------------------------------------------------
Tables(I) == {{f[i] : i \in I} : f \in {g \in [I -> query.rows] : \A i \in I : g[i].id = i}}
Partial == query.exists # None /\ (query.limit # None \/ query.consumer = "view")
Apart(S) == \A p, q \in {r \in S : Kept(r)} : p.a = q.a => p = q
Allowed(S) == Partial /\ "shared" \notin Environment => Apart(S)

Init ==
  /\ query \in Queries
  /\ rows \in {S \in UNION {Tables(I) : I \in SUBSET Ids} : Allowed(S)}
  /\ todo = <<>> /\ turn = 1 /\ live = FALSE /\ w = Start

\* The view is made: its hydration fetches the whole pipeline.
Hydrate ==
  /\ ~live /\ live' = TRUE
  /\ LET all == Sorted(Parents)
         n == IF query.limit = None THEN Cardinality(rows) ELSE query.limit
         got == Passing(w, all, query.exists # None, n, None, FALSE)
         took == IF query.limit = None THEN got.w ELSE Hydrated(got.w, None, got.rows)
     IN  w' = Stream(FoldLeft(LAMBDA x, r : Consume(x, [type |-> "add", row |-> r, rel |-> "fetch"]),
                              took, got.rows))
  /\ UNCHANGED <<rows, query, todo, turn>>

\* An edit that changes a column the joins are over becomes a remove and an add.
Split(c) ==
  IF c.type = "edit" /\ query.exists # None /\ (c.row.a # c.old.a \/ c.row.b # c.old.b)
  THEN <<[type |-> "remove", row |-> c.old], [type |-> "add", row |-> c.row]>>
  ELSE <<c>>

Reorders(c) == Len(Split(c)) = 1 /\ Kept(c.old) /\ Kept(c.row)
Changes ==
  LET new == {r \in query.rows : \A s \in rows : s.id # r.id}
      edited == {[type |-> "edit", row |-> r, old |-> s] : r \in query.rows, s \in rows}
  IN  {[type |-> "add", row |-> r] : r \in new} \cup {[type |-> "remove", row |-> r] : r \in rows}
        \cup {c \in edited : /\ c.row.id = c.old.id /\ c.row # c.old
                             /\ Partial /\ "reorders" \notin Environment => ~Reorders(c)}

Push ==
  /\ live /\ todo = <<>>
  /\ \E c \in Changes : Allowed(After(rows, c)) /\ todo' = Split(c)
  /\ turn' = 1
  /\ UNCHANGED <<rows, query, live, w>>

\* genPush: the change goes through the next connection.
Deliver ==
  /\ todo # <<>> /\ turn <= IF query.exists = None THEN 1 ELSE 2
  /\ w' = Stream(IF turn = 1 THEN PushParent(w, Head(todo)) ELSE PushKids(w, Head(todo)))
  /\ turn' = turn + 1
  /\ UNCHANGED <<rows, query, todo, live>>

\* #writeChange.
Write ==
  /\ todo # <<>> /\ turn > IF query.exists = None THEN 1 ELSE 2
  /\ rows' = After(rows, Head(todo)) /\ todo' = Tail(todo) /\ turn' = 1
  /\ UNCHANGED <<query, live, w>>

Next == Hydrate \/ Push \/ Deliver \/ Write
Spec == Init /\ [][Next]_vars

------------------------------------------------------------------------------
(* Properties *)

\* What the query means.
Answer ==
  LET found(r) == \E c \in rows : c.b = r.a
      all == {r \in rows : Kept(r) /\ (query.exists # None => found(r) = (query.exists = "exists"))}
  IN  IF query.limit = None THEN all ELSE ToSet(FirstOf(Sorted(all), query.limit))

\* Whatever has been pushed, the result that was kept up to date incrementally is what the
\* query would give now: no bound of a Take, cached size, key of a Join or change that is
\* shown to one connection and not yet to another makes it drift.
ViewIsAnswer == live /\ todo = <<>> => w.view = Answer

\* An operator pushes what its output can take: it adds rows that are not there, removes and
\* edits rows that are; and what must() and the assertions of the operators expect is so
\* (the bound of a full Take is found, no size becomes negative, the child that changed is
\* among the children).
ChangesValid == w.ok

\* The output of a limited query never exceeds its limit, not even in the middle of a push.
WithinLimit == query.limit # None => w.peak <= query.limit
=============================================================================
