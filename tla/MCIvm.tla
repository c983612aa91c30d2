-------------------------------- MODULE MCIvm --------------------------------
EXTENDS Ivm, TLC

Rows(ranks) == [id : Ids, a : Keys, b : Keys, rank : ranks]
Query(limit, exists, consumer, table) ==
  [limit |-> limit, exists |-> exists, consumer |-> consumer, rows |-> table]

\* Without an exists the join keys do not matter.
MCQueries ==
  {Query(limit, None, "view", {r \in Rows({0, 1, 2}) : r.a = r.b}) : limit \in {None, 1, 2}}
  \cup {Query(None, "exists", "streamer", Rows({0, 1})), Query(1, "exists", "streamer", Rows({0, 1})),
        Query(2, "exists", "view", Rows({0, 1})), Query(1, "not exists", "streamer", Rows({0, 1}))}

\* The smallest one that goes wrong when join keys are shared.
ClientQueries == {Query(None, "exists", "view", Rows({1}))}

Symmetry == Permutations(Keys)
=============================================================================
