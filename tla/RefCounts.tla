----------------------------- MODULE RefCounts -----------------------------
(***************************************************************************)
(* Reference counts of chunks, and RefCountUpdatesComputer: what a change  *)
(* of heads makes of them.  The chunks are a finite graph without cycles.  *)
(*                                                                         *)
(* RefCountUpdates says what the counts come to.  Steps is how compute()   *)
(* gets there: calls of #changeRefCount for the refs of a chunk run side   *)
(* by side, and wait for a count or for the refs of a chunk to be loaded.  *)
(***************************************************************************)
EXTENDS Integers, FiniteSets

CONSTANTS
  Chunks,  \* all hashes
  Refs     \* the chunks that a chunk refers to

\* The chunks that refer to it.
Above[h \in Chunks] == {p \in Chunks : h \in Refs[p]}

Below[h \in Chunks] == {h} \cup UNION {Below[ref] : ref \in Refs[h]}
Reach(hashes) == UNION {Below[h] : h \in hashes}

\* What the refs of the sources and the heads come to.
CountsOf(sources, heads) ==
  [h \in Chunks |-> Cardinality(sources \cap Above[h]) + IF h \in heads THEN 1 ELSE 0]

------------------------------------------------------------------------------
(* The result.  n are the counts, readable the chunks whose refs are known. *)

\* The chunks whose refs get counted: those that a walk down from the added heads finds at
\* zero, and those of the uncounted ones, which the write has put, that are referred to.
Counting(n, added, uncounted, readable) ==
  LET counting[h \in Chunks] ==
        /\ h \in readable
        /\ n[h] = 0 \/ h \in uncounted
        /\ n[h] # 0 \/ h \in added \/ \E p \in Above[h] : counting[p]
  IN  {h \in Chunks : counting[h]}

\* The chunks whose refs are no longer counted: a walk down from the removed heads brings
\* them to zero.
Freed(n, removed, readable) ==
  LET freed[h \in Chunks] ==
        /\ h \in readable /\ n[h] > 0
        /\ n[h] = Cardinality({p \in Above[h] : freed[p]})
                  + IF h \in removed THEN 1 ELSE 0
  IN  {h \in Chunks : freed[h]}

\* First the new heads and what the write has put, then the old heads.
RefCountUpdates(n, newHeads, oldHeads, puts, before, readable) ==
  LET counted == CountsOf(Counting(n, newHeads \ oldHeads, puts \ before, readable),
                          newHeads \ oldHeads)
      all == [h \in Chunks |-> n[h] + counted[h]]
      uncounted == CountsOf(Freed(all, oldHeads \ newHeads, readable), oldHeads \ newHeads)
  IN  [h \in Chunks |-> all[h] - uncounted[h]]

------------------------------------------------------------------------------
(* The walk.  Of the job, n are the counts, and before the chunks whose refs are in      *)
(* them.  A chunk that is one head after and another before goes up and down again, from *)
(* a count above zero: it is left as it is.  Of the walk, n is #refCountUpdates, calls   *)
(* counts the calls of #changeRefCount that wait for a count, turned has the chunks      *)
(* whose refs are being loaded, counted is #refsCounted, and heads are those to come.    *)

Begun(job) ==
  [doing |-> "add", heads |-> job.new \ job.old, n |-> job.n,
   calls |-> [h \in Chunks |-> 0], turned |-> {}, counted |-> {}]

\* All calls have returned.
Idle(walk) == walk.turned = {} /\ \A h \in Chunks : walk.calls[h] = 0

\* A call goes on when its count is loaded; the refs' turn comes if it leaves or reaches zero.
Changed(walk, h) ==
  [walk EXCEPT
     !.calls[h] = @ - 1,
     !.n[h] = IF walk.doing = "remove" THEN @ - 1 ELSE @ + 1,
     !.turned = IF walk.n[h] = (IF walk.doing = "remove" THEN 1 ELSE 0) THEN @ \cup {h} ELSE @]

\* The refs of a chunk are loaded, if it is in memory or put.
RefsLoaded(job, walk, h) ==
  IF h \in job.readable
  THEN [walk EXCEPT !.turned = @ \ {h}, !.counted = @ \cup {h},
                    !.calls = [k \in Chunks |-> @[k] + IF k \in Refs[h] THEN 1 ELSE 0]]
  ELSE [walk EXCEPT !.turned = @ \ {h}]

NextHead(walk, h) == [walk EXCEPT !.heads = @ \ {h}, !.calls[h] = @ + 1]

\* The chunks that have been put, are referred to, and have not been counted.
Uncounted(job, walk) == {h \in job.puts \ (job.before \cup walk.counted) : walk.n[h] # 0}

CountPut(walk, h) == [walk EXCEPT !.turned = {h}]

Steps(job, walk) ==
  {Changed(walk, h) : h \in {k \in Chunks : walk.calls[k] > 0}}
  \cup {RefsLoaded(job, walk, h) : h \in walk.turned}
  \cup IF ~Idle(walk) THEN {}
       ELSE IF walk.heads # {} THEN {NextHead(walk, h) : h \in walk.heads}
       ELSE IF walk.doing = "add" THEN {[walk EXCEPT !.doing = "put"]}
       ELSE IF walk.doing = "remove" THEN {}
       ELSE IF Uncounted(job, walk) # {} THEN {CountPut(walk, h) : h \in Uncounted(job, walk)}
       ELSE {[walk EXCEPT !.doing = "remove", !.heads = job.old \ job.new]}

\* compute() returns #refCountUpdates.
Done(walk) == walk.doing = "remove" /\ walk.heads = {} /\ Idle(walk)
=============================================================================
