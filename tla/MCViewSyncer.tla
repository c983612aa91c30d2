------------------------------ MODULE MCViewSyncer ------------------------------
EXTENDS ViewSyncer, TLC

CONSTANTS c1, c2, q1, q2, r1, r2

\* A row is added to one query, then changed while it joins the other, then leaves the first;
\* a second row comes with it and is deleted.
MCReplica ==
  << (r1 :> [version |-> 1, in |-> {q1}] @@ r2 :> [version |-> 0, in |-> {}]),
     (r1 :> [version |-> 2, in |-> {q1, q2}] @@ r2 :> [version |-> 2, in |-> {q2}]),
     (r1 :> [version |-> 2, in |-> {q2}] @@ r2 :> [version |-> 0, in |-> {}]) >>
MCWants == c1 :> {q1, q2} @@ c2 :> {}

\* One client, with one query and row, or more.
OneReplica == << (r1 :> [version |-> 1, in |-> {q1}]) >>
OneWant == c1 :> {q1}
BothWanted == c1 :> {q1, q2}
=============================================================================
